SPECIFICATION Spec
CONSTANTS
  None = None
  Members <- TheMembers
  Pools = {"gpu"}
  Selects <- Selected
  Policies <- UpPolicies
  Pods = {"a"}
  Request <- Requests
  Admits <- Admitted
  Capacity <- Sizes
  ReadySettle = 1
  Lagging = {"machines"}
  EnvMoves = {"loss", "return", "powerOnFails"}
  MaxMoves = 2
  MaxTime = 1
INVARIANTS CapHeld OneWakePerPod
CHECK_DEADLOCK FALSE
