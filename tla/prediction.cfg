SPECIFICATION Spec
CONSTANTS
  Unset = Unset
  Empty = ""
  LabelKeys <- Keys
  ReservedLabels = {"always-on"}
  Resources = {"cpu", "gpu"}
  Extended = {"gpu"}
  PoolTemplates <- Templates
  MachineSpecs <- Machines
  PodSpecs <- PodsInPlay
  Hosts <- HostRooms
  OldLabels <- Leftovers
  OldTaints <- LeftoverTaints
  OperatorTaint <- Maintenance
  StaleCache = TRUE
  MaxEdits = 2
INVARIANTS PredictionKept TaintsUnique
PROPERTIES TemplateOnlyAdds ReservedLabelsKept
CHECK_DEADLOCK FALSE
