SPECIFICATION Spec
CONSTANTS
  Admin = {a, b}
  Timer = timer
  D = 2
  MaxOpens = 2
  Mixed = Mixed
  None = None
INVARIANT ClosedUnlessLive
