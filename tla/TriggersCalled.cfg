SPECIFICATION Spec
CONSTANTS
  MaxRequests = 3
  Names = {n}
  Values = {v}
  Null = Null
  Given = {"stage_run", "product"}
  SeededTasks = 1
  OnError = "fail"
  InCluster = FALSE
INVARIANTS
  ResolvedNearby
  StartsTold
CHECK_DEADLOCK FALSE
