SPECIFICATION Spec
CONSTANTS
  None = None
  BootTimeout = 2
  ShutdownTimeout = 1
  NodeLossGrace = 1
  BootPoll = 1
  DefaultDrainTimeout = 2
  MatchingPools <- ShortPool
  Pods = {}
  PodKind <- NoPodKinds
  Lagging = {"machine", "node"}
  SchedulerLag = 0
  Blips = FALSE
  OperatorMoves = {"wake", "drain"}
  MaxOps = 2
  MaxTime = 3
  CanPowerOn = TRUE
  TemplateResults = {"applied"}
  UsesAgent = TRUE
  BootTimeReadable = TRUE
  Faults = FALSE
PROPERTIES FailedIsTerminal
CHECK_DEADLOCK FALSE
