SPECIFICATION Spec
CONSTANTS
  Unset = Unset
  Null = Null
  Blank = Blank
  build = build
  padded = padded
  lint = lint
  Pipelines = {p, c}
  Edited = {p}
  Names = {build, padded, Blank}
  TaskNames = {lint, Blank}
  Stripped <- MCStripped
  Languages = {"bash", "python"}
  Documents <- SomeDocuments
  MaxRequests = 3
  MaxStages = 2
  MaxTasks = 1
  MaxCommits = 2
  Syncs = {s}
INVARIANTS
  TypeOK
  RoundTrip
PROPERTIES
  RunsKeepStages
  PullReplaces
CHECK_DEADLOCK FALSE
