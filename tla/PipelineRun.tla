----------------------------- MODULE PipelineRun -----------------------------
(***************************************************************************)
(* One pipeline run: the request that creates it, the executor thread that *)
(* walks its stages in batches, the stage threads of a parallel batch, and *)
(* the requests that rewrite the run's status while all that is going on   *)
(* (app/services/run_service.py, app/routes/runs.py).                      *)
(*                                                                         *)
(* run, stage and task are database rows: every assignment to them here is *)
(* one commit of the code.  The other variables are the memory of the      *)
(* threads, which a crash of the process loses.                            *)
(***************************************************************************)
EXTENDS ScriptExecution, RunRow

CONSTANTS
  NStages,         \* number of stages of the pipeline
  MaxTasks,        \* the most tasks a stage has
  NTasks,          \* NTasks[s]: number of tasks of stage s
  Order,           \* Order[s]: the column Stage.order; stages are numbered in that order
  Mode,            \* Mode[s]: the column Stage.execution_mode
  OnError,         \* OnError[t]: the column Task.on_error
  InCluster,       \* TRUE when scripts run as Kubernetes Jobs
  RestartOrders,   \* orders a restart may be asked to begin at; {} for none
  PatchStatuses,   \* statuses a client may PATCH into the run; {} for none
  Faults           \* TRUE when threads may raise and the process may die

Stage == 1..NStages
Task  == {t \in Stage \X (1..MaxTasks) : t[2] <= NTasks[t[1]]}
TasksOf(s) == {t \in Task : t[1] = s}

\* Nothing of the run's status is loaded in the executor's session.
NotLoaded == "not loaded"

ASSUME ShapeAssumption ==
  /\ NStages \in Nat /\ MaxTasks \in Nat
  /\ NTasks \in [Stage -> 0..MaxTasks]
  /\ Order \in [Stage -> Nat]
  /\ \A i, j \in Stage : i < j => Order[i] <= Order[j]
  /\ Mode \in [Stage -> {"sequential", "parallel"}]
  /\ OnError \in [Task -> ErrorPolicy]

ASSUME ScenarioAssumption ==
  /\ InCluster \in BOOLEAN /\ Faults \in BOOLEAN
  /\ RestartOrders \subseteq Nat
  /\ PatchStatuses \subseteq RunStatus

VARIABLES
  run,       \* the pipeline_runs row: status, and whether finished_at is set
  stage,     \* stage[s]: status of the stage_runs row of s
  task,      \* task[t]: status of the task_runs row of t
  skipped,   \* the stages restart_from_stage seeded as already Succeeded
  pc,        \* where the executor thread is
  cur,       \* first stage of the batch the executor is at
  worker,    \* worker[s]: where the call _execute_stage(s) is
  nxt,       \* nxt[s]: the task that call is at
  failed,    \* failed[s]: its local stage_failed, then its result
  warned,    \* warned[s]: its local stage_warning, then its result
  warning,   \* the executor's local pipeline_warning
  seen,      \* run.status as the executor's session last loaded it
  event      \* status carried by pipeline_run_finished, if published

rows    == <<run, stage, task, skipped>>
threads == <<pc, cur, worker, nxt, failed, warned, warning, seen>>
vars    == <<rows, threads, event>>

-----------------------------------------------------------------------------
(* Batches: consecutive parallel stages run together, others alone.        *)

SameBatch(i, j) ==
  \/ i = j
  \/ \A k \in Stage : (i <= k /\ k <= j) \/ (j <= k /\ k <= i) => Mode[k] = "parallel"

Batch(first) == {s \in Stage : first <= s /\ SameBatch(first, s)}

\* n is the stage after the batch that begins at first.
EndsBefore(first, n) == Batch(first) = first..(n - 1)

-----------------------------------------------------------------------------
TypeOK ==
  /\ run \in Row
  /\ stage \in [Stage -> Status \cup {Absent}]
  /\ task \in [Task -> Status \cup {Absent}]
  /\ skipped \subseteq Stage
  /\ pc \in {"idle", "batch", "join", "fail", "announce", "done", "dead"}
  /\ cur \in 1..(NStages + 1)
  /\ worker \in [Stage -> {"idle", "ready", "script", "halt", "closed", "returned", "raised", "dead"}]
  /\ nxt \in [Stage -> 1..(MaxTasks + 1)]
  /\ failed \in [Stage -> BOOLEAN]
  /\ warned \in [Stage -> BOOLEAN]
  /\ warning \in BOOLEAN
  /\ seen \in Status \cup {NotLoaded}
  /\ event \in Status \cup {Absent}

Init ==
  /\ run = NoRow
  /\ stage = [s \in Stage |-> Absent]
  /\ task = [t \in Task |-> Absent]
  /\ skipped = {}
  /\ pc = "idle" /\ cur = 1
  /\ worker = [s \in Stage |-> "idle"]
  /\ nxt = [s \in Stage |-> 1]
  /\ failed = [s \in Stage |-> FALSE]
  /\ warned = [s \in Stage |-> FALSE]
  /\ warning = FALSE /\ seen = NotLoaded
  /\ event = Absent

-----------------------------------------------------------------------------
(* Requests.                                                               *)

\* (Mutant of Spawn: the caller did not hand the application over.)
SpawnNothing == pc' = "idle"

\* The executor thread is started only for a pipeline that has stages.
Spawn == pc' = IF NStages > 0 THEN "batch" ELSE "idle"

StartPipelineRun ==
  /\ run.status = Absent
  /\ run' = NewRow(NStages > 0)
  /\ stage' = [s \in Stage |-> "Pending"]
  /\ task' = [t \in Task |-> "Pending"]
  /\ Spawn
  /\ UNCHANGED <<skipped, cur, worker, nxt, failed, warned, warning, seen, event>>

\* The run a restart creates: the stages before the restart point are seeded
\* as finished, and the run is Running whether or not there are stages.  The
\* order comes from a stage run that need not belong to this pipeline.
RestartFromStage(order) ==
  LET before == {s \in Stage : Order[s] < order}
      seed(s) == IF s \in before THEN "Succeeded" ELSE "Pending"
  IN  /\ run.status = Absent
      /\ run' = [status |-> "Running", finished |-> FALSE]
      /\ stage' = [s \in Stage |-> seed(s)]
      /\ task' = [t \in Task |-> seed(t[1])]
      /\ skipped' = before
      /\ Spawn
      /\ UNCHANGED <<cur, worker, nxt, failed, warned, warning, seen, event>>

UpdateRunStatus(new) ==
  /\ run.status # Absent
  /\ run' = Rewritten(run, new)
  /\ UNCHANGED <<stage, task, skipped, threads, event>>

-----------------------------------------------------------------------------
(* The executor thread, _execute_pipeline_async.                           *)

\* Mark the batch Running and call, or fan out to, _execute_stage.  Only the
\* inline call reads run.id, which loads the run's row into the session.
StartBatch ==
  /\ pc = "batch" /\ cur <= NStages
  /\ stage' = [s \in Stage |-> IF s \in Batch(cur) THEN "Running" ELSE stage[s]]
  /\ worker' = [s \in Stage |-> IF s \in Batch(cur) THEN "ready" ELSE worker[s]]
  /\ seen' = IF Batch(cur) = {cur} THEN run.status ELSE NotLoaded
  /\ pc' = "join"
  /\ UNCHANGED <<run, task, skipped, cur, nxt, failed, warned, warning, event>>

\* (Mutant of Results: all instead of any.)
AllResults(results) == \A s \in Batch(cur) : worker[s] = "returned" => results[s]

\* Results collected from the batch: a thread that raised left none.
Results(results) == \E s \in Batch(cur) : worker[s] = "returned" /\ results[s]

\* (Mutant of Joined: the executor goes on when the first thread ends.)
JoinedOne == pc = "join" /\ \E s \in Batch(cur) : worker[s] \in {"returned", "raised"}

Joined == pc = "join" /\ \A s \in Batch(cur) : worker[s] \in {"returned", "raised"}

\* (Mutant of JoinPassed: the last batch decides whether there is a warning.)
JoinPassedLastWarning ==
  /\ Joined /\ ~Results(failed)
  /\ \E n \in (cur + 1)..(NStages + 1) : EndsBefore(cur, n) /\ cur' = n
  /\ warning' = Results(warned)
  /\ pc' = "batch"
  /\ UNCHANGED <<rows, worker, nxt, failed, warned, seen, event>>

JoinPassed ==
  /\ Joined /\ ~Results(failed)
  /\ \E n \in (cur + 1)..(NStages + 1) : EndsBefore(cur, n) /\ cur' = n
  /\ warning' = (warning \/ Results(warned))
  /\ pc' = "batch"
  /\ UNCHANGED <<rows, worker, nxt, failed, warned, seen, event>>

\* (Mutant of CancelRemaining: the task rows are forgotten.)
CancelStagesOnly ==
  LET rest == {s \in Stage \ Batch(cur) : stage[s] \notin Final}
  IN  /\ Joined /\ Results(failed)
      /\ stage' = [s \in Stage |-> IF s \in rest THEN "Cancelled" ELSE stage[s]]
      /\ pc' = "fail"
      /\ seen' = NotLoaded
      /\ UNCHANGED <<run, task, skipped, cur, worker, nxt, failed, warned, warning, event>>

\* (Mutant of CancelRemaining: finished stages are not left out.)
CancelAllOthers ==
  LET rest == Stage \ Batch(cur)
  IN  /\ Joined /\ Results(failed)
      /\ stage' = [s \in Stage |-> IF s \in rest THEN "Cancelled" ELSE stage[s]]
      /\ task' = [t \in Task |-> IF t[1] \in rest THEN "Cancelled" ELSE task[t]]
      /\ pc' = "fail"
      /\ seen' = NotLoaded
      /\ UNCHANGED <<run, skipped, cur, worker, nxt, failed, warned, warning, event>>

\* A stage of the batch failed: cancel every stage run outside the batch
\* that is not finished, with all its task runs whatever their status.
CancelRemaining ==
  LET rest == {s \in Stage \ Batch(cur) : stage[s] \notin Final}
  IN  /\ Joined /\ Results(failed)
      /\ stage' = [s \in Stage |-> IF s \in rest THEN "Cancelled" ELSE stage[s]]
      /\ task' = [t \in Task |-> IF t[1] \in rest THEN "Cancelled" ELSE task[t]]
      /\ pc' = "fail"
      /\ seen' = NotLoaded
      /\ UNCHANGED <<run, skipped, cur, worker, nxt, failed, warned, warning, event>>

\* (Mutant of Conclude: the status alone is written.)
ConcludeUnfinished(st) ==
  /\ run' = [run EXCEPT !.status = IF seen = st THEN @ ELSE st]
  /\ pc' = "announce"
  /\ UNCHANGED <<stage, task, skipped, cur, worker, nxt, failed, warned, warning, seen, event>>

\* The assignment run.status = st reaches the row only if it differs from
\* the value the session holds; finished_at always does.
Conclude(st) ==
  /\ run' = [status |-> IF seen = st THEN run.status ELSE st, finished |-> TRUE]
  /\ pc' = "announce"
  /\ UNCHANGED <<stage, task, skipped, cur, worker, nxt, failed, warned, warning, seen, event>>

ConcludeFailed == pc = "fail" /\ Conclude("Failed")

ConcludePassed ==
  /\ pc = "batch" /\ cur > NStages
  /\ Conclude(IF warning THEN "Warning" ELSE "Succeeded")

\* pipeline_run_finished reads the row again, after the commit.
Announce ==
  /\ pc = "announce"
  /\ event' = run.status
  /\ pc' = "done"
  /\ UNCHANGED <<rows, cur, worker, nxt, failed, warned, warning, seen>>

-----------------------------------------------------------------------------
(* One call of _execute_stage.                                             *)

StartTask(s) ==
  /\ worker[s] = "ready" /\ nxt[s] <= NTasks[s]
  /\ task' = [task EXCEPT ![<<s, nxt[s]>>] = "Running"]
  /\ worker' = [worker EXCEPT ![s] = "script"]
  /\ UNCHANGED <<run, stage, skipped, pc, cur, nxt, failed, warned, warning, seen, event>>

\* (Mutant of FinishTask: no break out of the loop after a failure.)
FinishTaskGoOn(s, st) ==
  LET t == <<s, nxt[s]>>
  IN  /\ worker[s] = "script"
      /\ task' = [task EXCEPT ![t] = st]
      /\ worker' = [worker EXCEPT ![s] = "ready"]
      /\ nxt' = [nxt EXCEPT ![s] = @ + 1]
      /\ failed' = [failed EXCEPT ![s] = @ \/ (st = "Failed" /\ OnError[t] = "fail")]
      /\ warned' = [warned EXCEPT ![s] = @ \/ st = "Warning"]
      /\ UNCHANGED <<run, stage, skipped, pc, cur, warning, seen, event>>

\* The script of the current task ends with status st, which is committed.
FinishTask(s, st) ==
  LET t == <<s, nxt[s]>>
      fails == st = "Failed" /\ OnError[t] = "fail"
  IN  /\ worker[s] = "script"
      /\ task' = [task EXCEPT ![t] = st]
      /\ worker' = [worker EXCEPT ![s] = IF fails THEN "halt" ELSE "ready"]
      /\ nxt' = [nxt EXCEPT ![s] = @ + 1]
      /\ failed' = [failed EXCEPT ![s] = fails]
      /\ warned' = [warned EXCEPT ![s] = @ \/ st = "Warning"]
      /\ UNCHANGED <<run, stage, skipped, pc, cur, warning, seen, event>>

ScriptEnds(s) ==
  \E x \in Exit :
    FinishTask(s, StatusFromCode(ReturnCode(InCluster, x), OnError[<<s, nxt[s]>>]))

\* (Mutant of CancelRestOfStage: the slice begins one task too late.)
CancelBeyondNext(s) ==
  /\ worker[s] = "halt"
  /\ task' = [t \in Task |-> IF t[1] = s /\ t[2] > nxt[s] THEN "Cancelled" ELSE task[t]]
  /\ nxt' = [nxt EXCEPT ![s] = NTasks[s] + 1]
  /\ worker' = [worker EXCEPT ![s] = "ready"]
  /\ UNCHANGED <<run, stage, skipped, pc, cur, failed, warned, warning, seen, event>>

\* After a failure that stops the stage, a second commit cancels the tasks
\* that have not been reached; the loop is then left.
CancelRestOfStage(s) ==
  /\ worker[s] = "halt"
  /\ task' = [t \in Task |-> IF t[1] = s /\ t[2] >= nxt[s] THEN "Cancelled" ELSE task[t]]
  /\ nxt' = [nxt EXCEPT ![s] = NTasks[s] + 1]
  /\ worker' = [worker EXCEPT ![s] = "ready"]
  /\ UNCHANGED <<run, stage, skipped, pc, cur, failed, warned, warning, seen, event>>

StageVerdict(s) ==
  IF failed[s] THEN "Failed" ELSE IF warned[s] THEN "Warning" ELSE "Succeeded"

CloseStage(s) ==
  /\ worker[s] = "ready" /\ nxt[s] > NTasks[s]
  /\ stage' = [stage EXCEPT ![s] = StageVerdict(s)]
  /\ worker' = [worker EXCEPT ![s] = "closed"]
  /\ UNCHANGED <<run, task, skipped, pc, cur, nxt, failed, warned, warning, seen, event>>

\* stage_run_finished has been published and the results are handed over.
ReturnResults(s) ==
  /\ worker[s] = "closed"
  /\ worker' = [worker EXCEPT ![s] = "returned"]
  /\ UNCHANGED <<rows, pc, cur, nxt, failed, warned, warning, seen, event>>

-----------------------------------------------------------------------------
(* Faults.                                                                 *)

Busy == {"ready", "script", "halt", "closed"}

\* An exception leaves _execute_stage.  Called inline it ends the executor
\* too; in a thread of its own it ends only that thread, with no result.
StageRaises(s) ==
  /\ Faults /\ pc = "join" /\ worker[s] \in Busy
  /\ worker' = [worker EXCEPT ![s] = "raised"]
  /\ pc' = IF Batch(cur) = {cur} THEN "dead" ELSE pc
  /\ UNCHANGED <<rows, cur, nxt, failed, warned, warning, seen, event>>

\* The worker process dies or is recycled, and its daemon threads with it;
\* nothing picks the run up again.
ProcessDies ==
  /\ Faults /\ pc \notin {"idle", "done", "dead"}
  /\ pc' = "dead"
  /\ worker' = [s \in Stage |-> IF worker[s] \in Busy THEN "dead" ELSE worker[s]]
  /\ UNCHANGED <<rows, cur, nxt, failed, warned, warning, seen, event>>

-----------------------------------------------------------------------------
Executor ==
  \/ StartBatch \/ JoinPassed \/ CancelRemaining
  \/ ConcludeFailed \/ ConcludePassed \/ Announce

Worker(s) ==
  \/ StartTask(s) \/ ScriptEnds(s) \/ CancelRestOfStage(s)
  \/ CloseStage(s) \/ ReturnResults(s)

Next ==
  \/ StartPipelineRun
  \/ \E order \in RestartOrders : RestartFromStage(order)
  \/ \E new \in PatchStatuses : UpdateRunStatus(new)
  \/ Executor
  \/ \E s \in Stage : Worker(s)
  \/ \E s \in Stage : StageRaises(s)
  \/ ProcessDies

Spec == Init /\ [][Next]_vars

\* Threads that can take a step do so: they block only on join, and every
\* script is ended by its timeout.  Nobody has to send a request.
Fairness == WF_vars(Executor) /\ \A s \in Stage : WF_vars(Worker(s))

FairSpec == Spec /\ Fairness

-----------------------------------------------------------------------------
(* What the run promises, whatever the threads and the clients do.         *)

Stopping(t) == task[t] = "Failed" /\ OnError[t] = "fail"

\* Task t ended and let its stage go on.
Passed(t) == \/ task[t] \in {"Succeeded", "Warning"}
             \/ task[t] = "Failed" /\ OnError[t] # "fail"

\* No stage is running before every stage of the earlier batches has ended
\* well (the join in _execute_pipeline_async).  The exception is the code's
\* own: a stage thread that raised counts as one that did not fail.
BatchOrder ==
  \A i, j \in Stage :
    i < j /\ ~SameBatch(i, j) /\ stage[j] = "Running" =>
      stage[i] \in {"Succeeded", "Warning"} \/ worker[i] = "raised"

\* Inside a stage, a task runs only after every earlier task has ended in a
\* way that lets the stage go on (the loop of _execute_stage), and only in a
\* stage that is Running itself.
TaskOrder ==
  \A t \in Task : task[t] = "Running" =>
    /\ stage[t[1]] = "Running"
    /\ \A u \in TasksOf(t[1]) : u[2] < t[2] => Passed(u)

\* A Failed stage shows one task that stopped it, with the tasks before it
\* passed and every task after it Cancelled: none ran past the failure.
StageFailure ==
  \A s \in Stage : stage[s] = "Failed" =>
    \E t \in TasksOf(s) :
      /\ Stopping(t)
      /\ \A u \in TasksOf(s) : /\ u[2] < t[2] => Passed(u)
                              /\ u[2] > t[2] => task[u] = "Cancelled"

\* The executor may still write the run's row.
Live == pc \in {"batch", "join", "fail"}

Lifecycle == INSTANCE RunLifecycle WITH row <- run, live <- Live

\* Seen from outside, the run is what RunLifecycle says: the threads, the
\* batches and their faults amount to one write of the row, at the end.
ImplementsLifecycle == Lifecycle!Spec

-----------------------------------------------------------------------------
(* What it promises when no thread raises and no client writes a status.   *)

Concluded == pc \in {"announce", "done"}

TaskVerdict ==
  IF \E t \in Task : Stopping(t) THEN "Failed"
  ELSE IF \E t \in Task : task[t] = "Warning" THEN "Warning" ELSE "Succeeded"

\* The status of a finished run, and the one its event carries, is what the
\* task rows say, through three threads' worth of local flags.
VerdictFromTasks ==
  Concluded => /\ run = [status |-> TaskVerdict, finished |-> TRUE]
               /\ event \in {Absent, TaskVerdict}

\* A finished run leaves no stage and no task pending or running.
QuietWhenFinished ==
  Concluded => /\ \A s \in Stage : stage[s] \in Final
               /\ \A t \in Task : task[t] \in Final

\* A row that has reached a final status keeps it: no thread rewrites the
\* outcome of another, and no task is executed twice.
RowsSettle ==
  [][/\ \A s \in Stage : stage[s] \in Final => stage'[s] = stage[s]
     /\ \A t \in Task : task[t] \in Final => task'[t] = task[t]]_vars

\* Every run that has stages is finished and announced.
Termination == run.status = "Running" /\ NStages > 0 ~> pc = "done"

-----------------------------------------------------------------------------
(* The inductive invariant behind BatchOrder, TaskOrder and StageFailure.  *)

\* The executor and the stage calls it has made agree on the batch.
ControlInv ==
  /\ \A s \in Stage : s < cur =>
       worker[s] = "raised" \/ (worker[s] = "returned" /\ ~failed[s])
  /\ \A s \in Stage : cur <= s /\ s \notin Batch(cur) => worker[s] = "idle"
  /\ pc \in {"idle", "batch"} => \A s \in Stage : cur <= s => worker[s] = "idle"
  /\ \A s \in Stage : worker[s] \in Busy => pc = "join"
  /\ run.status = Absent => pc = "idle"
  /\ pc = "idle" => cur = 1

\* What a stage row says about the call that works on it.
StageInv ==
  \A s \in Stage :
    /\ worker[s] = "idle" =>
         /\ stage[s] \in {Absent, "Pending", "Succeeded", "Cancelled"}
         /\ nxt[s] = 1 /\ ~failed[s]
    /\ worker[s] \in {"ready", "script", "halt"} => stage[s] = "Running"
    /\ worker[s] \in {"closed", "returned"} =>
         stage[s] = StageVerdict(s) /\ nxt[s] = NTasks[s] + 1
    /\ worker[s] \in {"raised", "dead"} =>
         \/ stage[s] \in {"Running", "Cancelled"}
         \/ stage[s] = StageVerdict(s) /\ nxt[s] = NTasks[s] + 1

\* What the task rows of a stage say about the call that works on them.
TaskInv ==
  \A t \in Task : LET s == t[1] IN
    /\ task[t] = "Running" =>
         /\ t[2] = nxt[s] /\ ~failed[s] /\ stage[s] = "Running"
         /\ worker[s] \in {"script", "raised", "dead"}
    /\ t[2] < nxt[s] /\ ~failed[s] /\ stage[s] # "Cancelled" => Passed(t)

\* Task t has stopped stage s: the tasks before it passed, and those between
\* it and the task the call is at are cancelled.
StoppedBy(s, t) ==
  /\ Stopping(t) /\ t[2] < nxt[s]
  /\ \A u \in TasksOf(s) :
       /\ u[2] < t[2] => Passed(u)
       /\ t[2] < u[2] /\ u[2] < nxt[s] => task[u] = "Cancelled"

\* What the failure flag of stage s says about its task rows.
FailureOf(s) ==
  /\ nxt[s] <= NTasks[s] + 1
  /\ worker[s] = "script" => ~failed[s] /\ nxt[s] <= NTasks[s]
  /\ worker[s] = "halt" => failed[s]
  /\ worker[s] = "ready" /\ failed[s] => nxt[s] = NTasks[s] + 1
  /\ failed[s] /\ stage[s] # "Cancelled" => \E t \in TasksOf(s) : StoppedBy(s, t)

FailureInv == \A s \in Stage : FailureOf(s)

Inv == TypeOK /\ ControlInv /\ StageInv /\ TaskInv /\ FailureInv

=============================================================================
