SPECIFICATION Spec
CONSTANTS
  Proxy = {p1, p2, p3}
  Leftover = Leftover
  None = None
INVARIANTS NewestServes LeavesNoFile StartsLeaveAServer
PROPERTIES FindsTheProxy
