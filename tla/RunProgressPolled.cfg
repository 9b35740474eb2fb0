SPECIFICATION ProgressSpec
CONSTANTS
  NStages = 3
  MaxTasks = 2
  NTasks <- PolledTasks
  Order <- PolledOrder
  Mode <- PolledModes
  OnError <- PolledPolicies
  CodeLength <- PolledCode
  InCluster = FALSE
  RestartOrders = {}
  PatchStatuses = {}
  Faults = TRUE
INVARIANTS
  ProgressTypeOK
  HundredMeansFinal
PROPERTY
  NeverBack
CHECK_DEADLOCK FALSE
