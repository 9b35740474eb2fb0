SPECIFICATION FairSpec
CONSTANTS
  NGroups = 1
  MaxPipelines = 2
  NPipelines <- TwoSize
  GroupMode <- ParallelMode
  Doubtful = {}
  Stageless = {}
  Verdicts = {"Succeeded", "Warning"}
  PatchStatuses = {}
  ReleasePatches = {}
  Faults = FALSE
PROPERTY
  WarningEndsWait
CHECK_DEADLOCK FALSE
