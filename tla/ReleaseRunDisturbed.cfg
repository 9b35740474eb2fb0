SPECIFICATION Spec
CONSTANTS
  NGroups = 4
  MaxPipelines = 2
  NPipelines <- MixedSizes
  GroupMode <- MixedModes
  Doubtful <- MixedDoubtful
  Stageless = {}
  Verdicts = {"Succeeded", "Warning", "Failed"}
  PatchStatuses = {"Cancelled"}
  ReleasePatches = {"Running", "Cancelled"}
  Faults = TRUE
INVARIANTS
  Inv
  GroupOrder
  ReleaseCovers
CHECK_DEADLOCK FALSE
