SPECIFICATION Spec
CONSTANTS
  None = None
  Uri = {u1, u2}
  Position = {p1, p2}
  Line <- TwoLines
  SinkCapacity = 1
  SnoopCapacity = 1
  Triggers = {"hover"}
  MaxClient = 5
  MaxLean = 4
  ClientSays = {"didOpen", "hover"}
  LeanSays = {"diagnostics", "progress", "request"}
  LeanRanges <- RangesAround
  LeanReplies = {"initialize"}
  LeanAnswers = {"text", "empty"}
CHECK_DEADLOCK FALSE
SYMMETRY Documents
INVARIANTS TypeOK DiagnosticsAgree StaleMarked
PROPERTIES ToLeanIsAPipe ToHelixIsAPipe OnlyLatestRenders WithholdsExactlyAnswers
