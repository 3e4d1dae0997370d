SPECIFICATION QueueSpec
CONSTANTS
  None = None
  BootTimeout = 2
  ShutdownTimeout = 1
  NodeLossGrace = 1
  BootPoll = 1
  DefaultDrainTimeout = 9
  MatchingPools <- ShortPool
  Pods = {}
  PodKind <- NoPodKinds
  Lagging = {}
  SchedulerLag = 0
  Blips = FALSE
  OperatorMoves = {"wake"}
  MaxOps = 2
  MaxTime = 3
  CanPowerOn = TRUE
  TemplateResults = {"applied"}
  UsesAgent = TRUE
  BootTimeReadable = TRUE
  Faults = TRUE
  ShutdownPoll = 1
  DrainPoll = 1
  DuplicateRecheck = 1
  DeadlineRaces = TRUE
INVARIANTS KeepsPolling
CHECK_DEADLOCK FALSE
