SPECIFICATION QueueSpec
CONSTANTS
  None = None
  BootTimeout = 2
  ShutdownTimeout = 1
  NodeLossGrace = 1
  BootPoll = 1
  DefaultDrainTimeout = 2
  MatchingPools <- ShortPool
  Pods = {"web"}
  PodKind <- OnePlain
  Lagging = {}
  SchedulerLag = 1
  Blips = FALSE
  OperatorMoves = {"drain"}
  MaxOps = 1
  MaxTime = 3
  CanPowerOn = TRUE
  TemplateResults = {"applied"}
  UsesAgent = TRUE
  BootTimeReadable = TRUE
  ShutdownPoll = 1
  DrainPoll = 1
  DuplicateRecheck = 1
  DeadlineRaces = FALSE
  Faults = FALSE
PROPERTIES NoWorkloadAtPowerOff
CHECK_DEADLOCK FALSE
