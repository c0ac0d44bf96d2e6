SPECIFICATION TaskSpec
CONSTANTS
  SinkCapacity = 2
  SnoopCapacity = 1
  PipeCapacity = 1
  MaxClient = 2
  MaxLean = 2
CHECK_DEADLOCK FALSE
INVARIANTS TypeOK EndIsComplete NothingOfLeanLost StartupFailureDiagnosed
PROPERTIES Exits LeanSeesTheEnd
