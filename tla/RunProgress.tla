----------------------------- MODULE RunProgress -----------------------------
(***************************************************************************)
(* The completion percentage of a pipeline run, as a client polls it while *)
(* the run executes (PipelineRun.completion_percentage and to_dict in      *)
(* app/models/run.py).  Each relationship is loaded by a query of its own, *)
(* so one answer mixes rows of different moments.                          *)
(***************************************************************************)
EXTENDS PipelineRun, Functions

CONSTANT
  CodeLength     \* CodeLength[t]: number of characters of Task.run_code

ASSUME CodeAssumption == CodeLength \in [Task -> Nat]

VARIABLES
  reader,        \* where the request is
  sawStatus,     \* run.status, loaded with the row
  sawStages,     \* the statuses of the stage runs, loaded together
  atStage,       \* the stage whose task runs are loaded next
  half,          \* weighted_done so far, in halves of a unit of weight
  shown          \* the percentage of the last answer

request == <<reader, sawStatus, sawStages, atStage, half, shown>>

-----------------------------------------------------------------------------
Weight(t) == IF CodeLength[t] = 0 THEN 1 ELSE CodeLength[t]

\* (Mutant of Halves: a failed task counts as one that never ran.)
HalvesForgetFailed(st) ==
  CASE st \in {"Succeeded", "Warning"} -> 2
    [] st = "Running"                  -> 1
    [] OTHER                           -> 0

\* How much of its weight a row of status st counts for, in halves.
Halves(st) ==
  CASE st \in {"Succeeded", "Warning"} -> 2
    [] st \in {"Running", "Failed"}    -> 1
    [] OTHER                           -> 0

\* A stage without tasks has weight 1 and counts by its own status.
WeightOf(s) == IF TasksOf(s) = {} THEN 1 ELSE SumFunction([t \in TasksOf(s) |-> Weight(t)])

HalvesOf(s, status) ==
  IF TasksOf(s) = {} THEN Halves(status)
  ELSE SumFunction([t \in TasksOf(s) |-> Weight(t) * Halves(task[t])])

TotalWeight == SumFunction([s \in Stage |-> WeightOf(s)])

\* n / d rounded to the nearest integer, ties to the even one.  The code
\* computes n / d in floating point, where a tie may be missed either way.
Rounded(n, d) ==
  LET q == n \div d
      r == 2 * (n - d * q)
  IN  IF r > d \/ (r = d /\ q % 2 = 1) THEN q + 1 ELSE q

\* (Mutant of Percentage: a run in progress is not capped.)
PercentageUncapped(st, halves) == Rounded(100 * halves, 2 * TotalWeight)

Percentage(st, halves) ==
  LET pct == Rounded(100 * halves, 2 * TotalWeight)
  IN  IF st = "Running" /\ pct > 99 THEN 99 ELSE pct

-----------------------------------------------------------------------------
ProgressTypeOK ==
  /\ reader \in {"idle", "stages", "tasks"}
  /\ sawStatus \in Status \cup {Absent}
  /\ sawStages \in [Stage -> Status \cup {Absent}]
  /\ atStage \in 1..(NStages + 1)
  /\ half \in 0..(2 * TotalWeight)
  /\ shown \in 0..100

ProgressInit ==
  /\ Init
  /\ reader = "idle"
  /\ sawStatus = Absent
  /\ sawStages = [s \in Stage |-> Absent]
  /\ atStage = 1 /\ half = 0 /\ shown = 0

\* The request loads the run; a run that ended well needs nothing else.
LoadRun ==
  /\ reader = "idle" /\ run.status # Absent
  /\ sawStatus' = run.status
  /\ IF run.status \in {"Succeeded", "Warning"}
     THEN shown' = 100 /\ UNCHANGED reader
     ELSE reader' = "stages" /\ UNCHANGED shown
  /\ UNCHANGED <<sawStages, atStage, half>>

\* (Mutant of LoadStages: the sum of the last request is not reset.)
LoadStagesKeepsSum ==
  /\ reader = "stages"
  /\ sawStages' = stage
  /\ atStage' = 1
  /\ IF NStages = 0
     THEN reader' = "idle" /\ shown' = 0
     ELSE reader' = "tasks" /\ UNCHANGED shown
  /\ UNCHANGED <<sawStatus, half>>

LoadStages ==
  /\ reader = "stages"
  /\ sawStages' = stage
  /\ atStage' = 1 /\ half' = 0
  /\ IF NStages = 0
     THEN reader' = "idle" /\ shown' = 0
     ELSE reader' = "tasks" /\ UNCHANGED shown
  /\ UNCHANGED sawStatus

LoadTasks ==
  /\ reader = "tasks" /\ atStage <= NStages
  /\ half' = half + HalvesOf(atStage, sawStages[atStage])
  /\ atStage' = atStage + 1
  /\ UNCHANGED <<reader, sawStatus, sawStages, shown>>

Answer ==
  /\ reader = "tasks" /\ atStage > NStages
  /\ shown' = Percentage(sawStatus, half)
  /\ reader' = "idle"
  /\ UNCHANGED <<sawStatus, sawStages, atStage, half>>

Request == LoadRun \/ LoadStages \/ LoadTasks \/ Answer

ProgressNext ==
  \/ Next /\ UNCHANGED request
  \/ Request /\ UNCHANGED vars

ProgressSpec == ProgressInit /\ [][ProgressNext]_<<vars, request>>

-----------------------------------------------------------------------------
\* A stage whose call raised in its thread stays Running, and is cancelled with
\* the work it has done when a later batch fails (run_service.py:335 says "Cancel
\* all remaining stage-runs not yet started").
CancelledAfterRaise == \E s \in Stage : worker[s] = "raised" /\ stage[s] = "Cancelled"

\* One answer after the other, the percentage that a client is shown goes back
\* in that case only, although every answer mixes rows of different moments.
NeverBack == [][shown' >= shown \/ CancelledAfterRaise]_shown

\* A client that sees 100 sees a finished run: the cap of 99 holds until the
\* executor has written its verdict.
HundredMeansFinal == shown = 100 => run.status \in Final

=============================================================================
