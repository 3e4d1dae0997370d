SPECIFICATION QueueFairSpec
CONSTANTS
  None = None
  BootTimeout = 2
  ShutdownTimeout = 1
  NodeLossGrace = 1
  BootPoll = 1
  DefaultDrainTimeout = 2
  MatchingPools <- ShortPool
  Pods = {}
  PodKind <- NoPodKinds
  Lagging = {}
  SchedulerLag = 0
  Blips = FALSE
  OperatorMoves = {"wake"}
  MaxOps = 1
  MaxTime = 3
  CanPowerOn = TRUE
  TemplateResults = {"applied"}
  UsesAgent = TRUE
  BootTimeReadable = TRUE
  ShutdownPoll = 1
  DrainPoll = 1
  DuplicateRecheck = 1
  DeadlineRaces = FALSE
  Faults = TRUE
PROPERTIES FailedBootSpendsWake
CHECK_DEADLOCK FALSE
