SPECIFICATION Spec
CONSTANTS
  None = None
  Dir <- Dirs
  Parent <- ParentOf
  Link <- LinkTo
  Written <- WrittenBy
  Params <- ParamsSome
  Markdown <- MarkdownSome
  MaxNesting = 1
CHECK_DEADLOCK FALSE
INVARIANTS Meet KeepsText FenceGone
