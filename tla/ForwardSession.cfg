SPECIFICATION Spec
CONSTANTS
  None = None
  Uri = {u1, u2}
  Position = {p1, p2}
  Line <- OneLine
  SinkCapacity = 2
  SnoopCapacity = 2
  Triggers = {"hover"}
  MaxClient = 6
  MaxLean = 0
  ClientSays = {"didOpen", "didClose", "didChange", "hover"}
  LeanSays = {}
  LeanRanges = {}
  LeanReplies = {"initialize"}
  LeanAnswers = {"text"}
CHECK_DEADLOCK FALSE
SYMMETRY Symmetry
INVARIANTS RegistryExact SettledCoherent QueryAfterCause LastCursorAsked SnoopTracksEditor
