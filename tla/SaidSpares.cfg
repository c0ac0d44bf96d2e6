SPECIFICATION Spec
CONSTANTS
  Proxy = {p1, p2}
  Leftover = Leftover
  None = None
PROPERTIES CleanupSparesOthers
