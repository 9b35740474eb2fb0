SPECIFICATION FairSpec
CONSTANTS
  NGroups = 3
  MaxPipelines = 2
  NPipelines <- EndingSizes
  GroupMode <- EndingModes
  Doubtful = {}
  Stageless <- EndingStageless
  Verdicts = {"Succeeded", "Failed"}
  PatchStatuses = {}
  ReleasePatches = {"Cancelled"}
  Faults = FALSE
PROPERTY
  ReleaseEnds
CHECK_DEADLOCK FALSE
