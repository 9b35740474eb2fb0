SPECIFICATION Spec
CONSTANTS
  Unset = Unset
  ci = ci
  cd = cd
  probe = probe
  gate = gate
  deploy = deploy
  own = own
  x = x
  y = y
  Pipelines = {ci, cd}
  Applications = {x, y}
  TaskIds = {probe, gate, deploy}
  Users = {u}
  Roles = {r}
  Environments = {e, f, g}
  StartEnvironments <- SomeEnvironments
  e = e
  f = f
  EditedKinds = {"ci", "cd"}
  Looks <- SomeLooks
  Start <- SomePipelines
  Ran = ci
  ControlIds <- SomeControls
  MaxEdits = 2
INVARIANTS
  AssessmentTypeOK
  ReportsSound
PROPERTIES
  HardeningHelps
  EvidenceHelps
  PassStays
CHECK_DEADLOCK FALSE
