SPECIFICATION Spec
CONSTANTS
  None = None
  Members <- TheMembers
  Pools = {"gpu"}
  Selects <- Selected
  Policies <- DownPolicies
  Pods = {}
  Request <- NoRequests
  Admits <- NoAdmits
  Capacity <- Sizes
  ReadySettle = 1
  Lagging = {"machines", "pools"}
  EnvMoves = {}
  MaxMoves = 0
  MaxTime = 1
INVARIANTS TypeOK PacedDrains
PROPERTIES FloorHeld DrainsSpaced
CHECK_DEADLOCK FALSE
