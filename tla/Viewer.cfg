SPECIFICATION Spec
CONSTANTS
  None = None
  MaxSessions = 2
  MaxSeq = 2
  MaxEvents = 2
  MaxScroll = 1
  WireCapacity = 1
  Events <- EventsSome
PROPERTIES ScreenNeverBack QuitLeaves ScreenCatchesUp
