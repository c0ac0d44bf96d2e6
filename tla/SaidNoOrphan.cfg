SPECIFICATION TaskSpec
CONSTANTS
  SinkCapacity = 1
  SnoopCapacity = 1
  PipeCapacity = 1
  MaxClient = 4
  MaxLean = 1
CHECK_DEADLOCK FALSE
PROPERTIES HelixGoneEnds
