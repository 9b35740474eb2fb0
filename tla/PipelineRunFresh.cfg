SPECIFICATION FairSpec
CONSTANTS
  NStages = 4
  MaxTasks = 2
  NTasks <- FourTasks
  Order <- FourOrder
  Mode <- FourModes
  OnError <- FourPolicies
  InCluster = FALSE
  RestartOrders = {}
  PatchStatuses = {}
  Faults = FALSE
INVARIANTS
  VerdictFromTasks
  QuietWhenFinished
PROPERTIES
  RowsSettle
  Termination
CHECK_DEADLOCK FALSE
