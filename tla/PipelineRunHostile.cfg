SPECIFICATION Spec
CONSTANTS
  NStages = 4
  MaxTasks = 2
  NTasks <- FourTasks
  Order <- FourOrder
  Mode <- FourModes
  OnError <- FourPolicies
  InCluster = FALSE
  RestartOrders = {1}
  PatchStatuses = {"Running", "Cancelled"}
  Faults = TRUE
INVARIANTS
  Inv
  BatchOrder
  TaskOrder
  StageFailure
PROPERTY
  ImplementsLifecycle
CHECK_DEADLOCK FALSE
