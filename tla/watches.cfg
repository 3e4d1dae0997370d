SPECIFICATION FairSpec
CONSTANTS
  None = None
  Members <- TheMembers
  Pools = {"gpu"}
  Selects <- Selected
  Policies <- WatchedPolicies
  Pods = {"a"}
  Request <- Requests
  Admits <- Admitted
  Capacity <- Sizes
  ReadySettle = 0
  Lagging = {}
  EnvMoves = {"exempt", "policy", "callFails", "restart"}
  MaxMoves = 1
  MaxTime = 0
INVARIANTS IdleAttended PendingAttended
PROPERTIES PendingPodRuns
CHECK_DEADLOCK FALSE
