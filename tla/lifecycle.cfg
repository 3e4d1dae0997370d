SPECIFICATION Spec
CONSTANTS
  None = None
  BootTimeout = 2
  ShutdownTimeout = 1
  NodeLossGrace = 1
  BootPoll = 1
  DefaultDrainTimeout = 2
  MatchingPools <- ShortPool
  Pods = {}
  PodKind <- NoPodKinds
  Lagging = {"node"}
  SchedulerLag = 0
  Blips = TRUE
  OperatorMoves = {"wake", "drain", "reset", "deleteNode", "duplicate", "power", "cordon",
                   "uncordon"}
  MaxOps = 3
  MaxTime = 2
  CanPowerOn = TRUE
  TemplateResults = {"applied", "invalid", "error"}
  UsesAgent = TRUE
  BootTimeReadable = TRUE
  Faults = TRUE
INVARIANTS TypeOK
PROPERTIES FollowsLifecycle OnePowerOffPerEpisode OperatorCordonKept
CHECK_DEADLOCK FALSE
