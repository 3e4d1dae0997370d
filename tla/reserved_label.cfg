SPECIFICATION Spec
CONSTANTS
  Unset = Unset
  Empty = ""
  LabelKeys <- Keys
  ReservedLabels = {"always-on"}
  Resources = {"cpu", "gpu"}
  Extended = {"gpu"}
  PoolTemplates <- Templates
  MachineSpecs <- Machines
  PodSpecs <- UnstampedPods
  Hosts <- HostRooms
  OldLabels <- Leftovers
  OldTaints <- LeftoverTaints
  OperatorTaint <- Maintenance
  StaleCache = FALSE
  MaxEdits = 0
INVARIANTS PredictionKept
CHECK_DEADLOCK FALSE
