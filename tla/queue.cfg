SPECIFICATION QueueFairSpec
CONSTANTS
  None = None
  BootTimeout = 2
  ShutdownTimeout = 1
  NodeLossGrace = 1
  BootPoll = 1
  DefaultDrainTimeout = 9
  MatchingPools <- Overlap
  Pods = {"db"}
  PodKind <- OneProtected
  Lagging = {"machine", "node", "agent"}
  SchedulerLag = 0
  Blips = FALSE
  OperatorMoves = {"wake", "scaleDown", "reset"}
  MaxOps = 2
  MaxTime = 2
  CanPowerOn = TRUE
  TemplateResults = {"applied"}
  UsesAgent = TRUE
  BootTimeReadable = TRUE
  Faults = TRUE
  ShutdownPoll = 1
  DrainPoll = 1
  DuplicateRecheck = 1
  DeadlineRaces = FALSE
INVARIANTS KeepsPolling AnchoredStates
PROPERTIES BootEnds DrainEnds ShutdownEnds WakeReachesBoard
           FollowsLifecycle OffMeansDown
CHECK_DEADLOCK FALSE
