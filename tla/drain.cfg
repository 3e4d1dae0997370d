SPECIFICATION Spec
CONSTANTS
  None = None
  BootTimeout = 2
  ShutdownTimeout = 1
  NodeLossGrace = 1
  BootPoll = 1
  DefaultDrainTimeout = 2
  MatchingPools <- ShortPool
  Pods = {"web"}
  PodKind <- OnePlain
  Lagging = {"pods", "agent"}
  SchedulerLag = 0
  Blips = FALSE
  OperatorMoves = {"wake", "drain", "label"}
  MaxOps = 3
  MaxTime = 4
  CanPowerOn = TRUE
  TemplateResults = {"applied"}
  UsesAgent = TRUE
  BootTimeReadable = TRUE
  Faults = TRUE
INVARIANTS CordonHeld ReadyIsSchedulable
PROPERTIES NoWorkloadAtPowerOff
CHECK_DEADLOCK FALSE
