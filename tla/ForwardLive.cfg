SPECIFICATION PipeSpec
CONSTANTS
  None = None
  Uri = {u1}
  Position = {p1, p2}
  Line <- OneLine
  SinkCapacity = 2
  SnoopCapacity = 1
  Triggers = {"hover"}
  MaxClient = 5
  MaxLean = 4
  ClientSays = {"didOpen", "hover"}
  LeanSays = {"diagnostics"}
  LeanRanges = {}
  LeanReplies = {"initialize"}
  LeanAnswers = {"text"}
CHECK_DEADLOCK FALSE
PROPERTIES HelixReachesLean LeanReachesHelix CursorShown RootSignalled
