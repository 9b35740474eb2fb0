--------------------------- MODULE PipelineRunProofs ---------------------------
(***************************************************************************)
(* Proofs about a pipeline run, for every shape of its pipeline: what      *)
(* holds of any execution and any fault, what the run promises when no     *)
(* thread raises, and what a client that polls it is shown.                *)
(***************************************************************************)
EXTENDS RunProgress, FiniteSetTheorems, WellFoundedInduction, TLAPS

\* A script's end is recorded as one of three statuses, whatever the code
\* returned and whatever the task's policy (_status_from_code).
LEMMA RecordedStatus ==
  ASSUME NEW rc, NEW onError
  PROVE  StatusFromCode(rc, onError) \in {"Succeeded", "Warning", "Failed"}
BY DEF StatusFromCode

\* Stages between two stages of one batch are in that batch, and two stages
\* of a batch are in the same batch as each other (_group_stage_runs).
LEMMA BatchConvex ==
  ASSUME NEW i \in Stage, NEW j \in Stage, NEW first \in Stage,
         first <= i, i <= j, j \in Batch(first)
  PROVE  i \in Batch(first) /\ SameBatch(i, j)
BY DEF Batch, SameBatch, Stage

\* The next action, case by case: what each step lemma below splits on.
LEMMA NextCases ==
  ASSUME [Next]_vars
  PROVE  \/ StartPipelineRun
         \/ \E order \in RestartOrders : RestartFromStage(order)
         \/ \E new \in PatchStatuses : UpdateRunStatus(new)
         \/ StartBatch \/ JoinPassed \/ CancelRemaining
         \/ ConcludeFailed \/ ConcludePassed \/ Announce
         \/ \E s \in Stage : \/ StartTask(s) \/ CancelRestOfStage(s) \/ CloseStage(s)
                             \/ ReturnResults(s) \/ StageRaises(s)
                             \/ \E st \in {"Succeeded", "Warning", "Failed"} : FinishTask(s, st)
         \/ ProcessDies
         \/ UNCHANGED vars
<1>1. ASSUME NEW s \in Stage, ScriptEnds(s)
      PROVE  \E st \in {"Succeeded", "Warning", "Failed"} : FinishTask(s, st)
  BY <1>1, RecordedStatus DEF ScriptEnds
<1>2. QED
  BY <1>1 DEF Next, Executor, Worker

-----------------------------------------------------------------------------
LEMMA TypeStep ==
  ASSUME Inv, [Next]_vars
  PROVE  TypeOK'
<1> USE ShapeAssumption, ScenarioAssumption DEF Inv, TypeOK, Row
<1>1. CASE StartPipelineRun
  BY <1>1 DEF StartPipelineRun, Spawn, NewRow, Status, RunStatus
<1>2. ASSUME NEW order \in RestartOrders, RestartFromStage(order)
      PROVE  TypeOK'
  BY <1>2 DEF RestartFromStage, Spawn, Status, RunStatus
<1>3. ASSUME NEW new \in PatchStatuses, UpdateRunStatus(new)
      PROVE  TypeOK'
  BY <1>3 DEF UpdateRunStatus, Rewritten, Status, threads
<1>4. CASE StartBatch
  BY <1>4 DEF StartBatch, ControlInv, Status, RunStatus
<1>5. CASE JoinPassed
  BY <1>5 DEF JoinPassed, rows, Results
<1>6. CASE CancelRemaining
  BY <1>6 DEF CancelRemaining, Status, RunStatus
<1>7. CASE ConcludeFailed \/ ConcludePassed
  <2>1. PICK st \in {"Failed", "Warning", "Succeeded"} : Conclude(st)
    BY <1>7 DEF ConcludeFailed, ConcludePassed
  <2>2. (IF seen = st THEN run.status ELSE st) \in Status \cup {Absent}
    BY DEF Status, RunStatus
  <2>3. run' \in [status : Status \cup {Absent}, finished : BOOLEAN]
    BY <2>1, <2>2 DEF Conclude
  <2>4. QED
    BY <2>1, <2>3 DEF Conclude
<1>8. CASE Announce
  BY <1>8 DEF Announce, ControlInv, rows
<1>9. ASSUME NEW s \in Stage
      PROVE  StartTask(s) \/ CancelRestOfStage(s) \/ CloseStage(s) \/ ReturnResults(s)
               \/ StageRaises(s) => TypeOK'
  <2>1. CASE StartTask(s)
    BY <2>1 DEF StartTask, Status, RunStatus
  <2>2. CASE CancelRestOfStage(s)
    BY <2>2 DEF CancelRestOfStage, Status, RunStatus, Stage
  <2>3. CASE CloseStage(s)
    BY <2>3 DEF CloseStage, StageVerdict, Status, RunStatus
  <2>4. CASE ReturnResults(s)
    BY <2>4 DEF ReturnResults, rows
  <2>5. CASE StageRaises(s)
    BY <2>5 DEF StageRaises, rows
  <2>6. QED
    BY <2>1, <2>2, <2>3, <2>4, <2>5
<1>10. ASSUME NEW s \in Stage, NEW st \in {"Succeeded", "Warning", "Failed"}, FinishTask(s, st)
       PROVE  TypeOK'
  <2>1. nxt[s] + 1 \in 1..(MaxTasks + 1)
    BY <1>10 DEF FinishTask, FailureInv, FailureOf
  <2>2. nxt' \in [Stage -> 1..(MaxTasks + 1)]
    BY <1>10, <2>1 DEF FinishTask
  <2>3. failed' \in [Stage -> BOOLEAN] /\ warned' \in [Stage -> BOOLEAN]
    BY <1>10, Zenon DEF FinishTask
  <2>4. task' \in [Task -> Status \cup {Absent}]
    BY <1>10 DEF FinishTask, Status, RunStatus
  <2>5. QED
    BY <1>10, <2>2, <2>3, <2>4 DEF FinishTask
<1>11. CASE ProcessDies
  BY <1>11 DEF ProcessDies, rows
<1>12. CASE UNCHANGED vars
  BY <1>12 DEF vars, rows, threads
<1>13. QED
  BY <1>1, <1>2, <1>3, <1>4, <1>5, <1>6, <1>7, <1>8, <1>9, <1>10, <1>11, <1>12, NextCases

-----------------------------------------------------------------------------
\* A stage call in progress belongs to the batch the executor waits for.
LEMMA BusyInBatch ==
  ASSUME TypeOK, ControlInv, NEW s \in Stage, worker[s] \in Busy
  PROVE  s \in Batch(cur) /\ cur <= s /\ pc = "join"
BY DEF TypeOK, ControlInv, Busy, Stage

LEMMA ControlStep ==
  ASSUME Inv, [Next]_vars
  PROVE  ControlInv'
<1> USE ShapeAssumption, ScenarioAssumption DEF Inv, TypeOK, ControlInv
<1>1. CASE StartPipelineRun
  BY <1>1 DEF StartPipelineRun, Spawn, NewRow, Absent, Batch, Stage
<1>2. ASSUME NEW order \in RestartOrders, RestartFromStage(order)
      PROVE  ControlInv'
  BY <1>2 DEF RestartFromStage, Spawn, Absent, Batch, Stage
<1>3. ASSUME NEW new \in PatchStatuses, UpdateRunStatus(new)
      PROVE  ControlInv'
  BY <1>3 DEF UpdateRunStatus, Rewritten, threads, Absent, RunStatus
<1>4. CASE StartBatch
  BY <1>4 DEF StartBatch, Batch, Busy, Stage
<1>5. CASE JoinPassed
  <2>1. PICK n \in (cur + 1)..(NStages + 1) : EndsBefore(cur, n) /\ cur' = n
    BY <1>5 DEF JoinPassed
  <2>2. \A s \in Stage : s < n <=> s < cur \/ s \in Batch(cur)
    BY <2>1 DEF EndsBefore, Stage
  <2>3. \A s \in Batch(cur) : worker[s] = "raised" \/ (worker[s] = "returned" /\ ~failed[s])
    BY <1>5 DEF JoinPassed, Joined, Results
  <2>4. \A s \in Stage : n <= s => worker[s] = "idle"
    BY <2>1, <2>2 DEF Stage
  <2>5. \A s \in Stage : worker[s] \notin Busy
    BY <2>3, BusyInBatch DEF Busy
  <2>6. run.status # Absent
    BY <1>5 DEF JoinPassed, Joined
  <2>7. QED
    BY <1>5, <2>1, <2>2, <2>3, <2>4, <2>5, <2>6 DEF JoinPassed, rows
<1>6. CASE CancelRemaining
  <2>1. /\ Joined /\ pc' = "fail"
        /\ UNCHANGED <<run, cur, worker, failed>>
    BY <1>6 DEF CancelRemaining
  <2>2. \A s \in Stage : worker[s] \notin Busy
    BY <2>1, BusyInBatch DEF Joined, Busy
  <2>3. QED
    BY <2>1, <2>2 DEF Joined, Batch
<1>7. CASE ConcludeFailed \/ ConcludePassed
  BY <1>7 DEF ConcludeFailed, ConcludePassed, Conclude, Busy, Absent
<1>8. CASE Announce
  BY <1>8 DEF Announce, rows
<1>9. ASSUME NEW s \in Stage, worker[s] \in Busy,
             worker' = [worker EXCEPT ![s] = worker'[s]],
             worker'[s] \in Busy \cup {"returned"},
             \A r \in Stage \ {s} : failed'[r] = failed[r],
             UNCHANGED <<run, pc, cur>>
      PROVE  ControlInv'
  <2>1. s \in Batch(cur) /\ cur <= s /\ pc = "join"
    BY <1>9, BusyInBatch
  <2>2. QED
    BY <1>9, <2>1 DEF Busy, Stage
<1>10. ASSUME NEW s \in Stage,
              \/ StartTask(s) \/ CancelRestOfStage(s) \/ CloseStage(s) \/ ReturnResults(s)
              \/ \E st \in {"Succeeded", "Warning", "Failed"} : FinishTask(s, st)
       PROVE  ControlInv'
  BY <1>9, <1>10 DEF StartTask, CancelRestOfStage, CloseStage, ReturnResults, FinishTask, Busy, rows
<1>11. ASSUME NEW s \in Stage, StageRaises(s)
       PROVE  ControlInv'
  <2>1. /\ worker[s] \in Busy /\ pc = "join"
        /\ worker' = [worker EXCEPT ![s] = "raised"]
        /\ pc' = IF Batch(cur) = {cur} THEN "dead" ELSE pc
        /\ UNCHANGED <<run, cur, failed>>
    BY <1>11 DEF StageRaises, rows
  <2>2. s \in Batch(cur) /\ cur <= s
    BY <2>1, BusyInBatch
  <2>3. Batch(cur) = {cur} => \A r \in Stage \ {s} : worker[r] \notin Busy
    BY <2>2, BusyInBatch
  <2>4. pc' \in {"join", "dead"}
    BY <2>1
  <2>5. \A r \in Stage : worker'[r] \in Busy => pc' = "join"
    BY <2>1, <2>3 DEF Busy
  <2>6. QED
    BY <2>1, <2>2, <2>4, <2>5 DEF Batch, Stage
<1>12. CASE ProcessDies
  BY <1>12 DEF ProcessDies, rows, Busy
<1>13. CASE UNCHANGED vars
  BY <1>13 DEF vars, rows, threads, Batch
<1>14. QED
  BY <1>1, <1>2, <1>3, <1>4, <1>5, <1>6, <1>7, <1>8, <1>10, <1>11, <1>12, <1>13, NextCases

-----------------------------------------------------------------------------
LEMMA StageStep ==
  ASSUME Inv, [Next]_vars
  PROVE  StageInv'
<1> USE ShapeAssumption, ScenarioAssumption DEF Inv, TypeOK, StageInv, StageVerdict
<1>1. CASE StartPipelineRun
  BY <1>1 DEF StartPipelineRun, ControlInv, Stage, Busy, Absent
<1>2. ASSUME NEW order \in RestartOrders, RestartFromStage(order)
      PROVE  StageInv'
  <2>1. \A s \in Stage : worker[s] = "idle" /\ stage'[s] \in {"Succeeded", "Pending"}
    BY <1>2 DEF RestartFromStage, ControlInv, Stage
  <2>2. QED
    BY <1>2, <2>1 DEF RestartFromStage
<1>3. ASSUME NEW new \in PatchStatuses, UpdateRunStatus(new)
      PROVE  StageInv'
  BY <1>3 DEF UpdateRunStatus, threads
<1>4. CASE StartBatch
  <2>1. \A s \in Batch(cur) : s \in Stage /\ nxt[s] = 1 /\ ~failed[s]
    BY <1>4 DEF StartBatch, ControlInv, Batch, Stage
  <2>2. QED
    BY <1>4, <2>1 DEF StartBatch
<1>5. CASE JoinPassed
  BY <1>5 DEF JoinPassed, rows
<1>6. CASE CancelRemaining
  <2>1. \A s \in Stage : worker[s] \notin Busy
    BY <1>6, BusyInBatch DEF CancelRemaining, Joined, Busy
  <2>2. ASSUME NEW s \in Stage
        PROVE  stage'[s] = stage[s] \/ (stage[s] \notin Final /\ stage'[s] = "Cancelled")
    BY <1>6 DEF CancelRemaining
  <2>3. QED
    BY <1>6, <2>1, <2>2 DEF CancelRemaining, Busy, Final
<1>7. CASE ConcludeFailed \/ ConcludePassed
  BY <1>7 DEF ConcludeFailed, ConcludePassed, Conclude
<1>8. CASE Announce
  BY <1>8 DEF Announce, rows
<1>9. ASSUME NEW s \in Stage
      PROVE  StartTask(s) \/ CancelRestOfStage(s) \/ CloseStage(s) \/ ReturnResults(s)
               \/ StageRaises(s) => StageInv'
  <2>1. CASE StartTask(s)
    BY <2>1 DEF StartTask
  <2>2. CASE CancelRestOfStage(s)
    BY <2>2 DEF CancelRestOfStage
  <2>3. CASE CloseStage(s)
    <3>1. nxt[s] = NTasks[s] + 1
      BY <2>3 DEF CloseStage, FailureInv, FailureOf, Stage
    <3>2. QED
      BY <2>3, <3>1 DEF CloseStage
  <2>4. CASE ReturnResults(s)
    BY <2>4 DEF ReturnResults, rows
  <2>5. CASE StageRaises(s)
    BY <2>5 DEF StageRaises, rows, Busy
  <2>6. QED
    BY <2>1, <2>2, <2>3, <2>4, <2>5
<1>10. ASSUME NEW s \in Stage, NEW st \in {"Succeeded", "Warning", "Failed"}, FinishTask(s, st)
       PROVE  StageInv'
  <2>1. /\ worker[s] = "script" /\ worker'[s] \in {"halt", "ready"}
        /\ stage' = stage
        /\ \A r \in Stage \ {s} : /\ worker'[r] = worker[r] /\ nxt'[r] = nxt[r]
                                  /\ failed'[r] = failed[r] /\ warned'[r] = warned[r]
    BY <1>10 DEF FinishTask
  <2>2. QED
    BY <2>1
<1>11. CASE ProcessDies
  BY <1>11 DEF ProcessDies, rows, Busy
<1>12. CASE UNCHANGED vars
  BY <1>12 DEF vars, rows, threads
<1>13. QED
  BY <1>1, <1>2, <1>3, <1>4, <1>5, <1>6, <1>7, <1>8, <1>9, <1>10, <1>11, <1>12, NextCases

-----------------------------------------------------------------------------
\* Tasks are pairs of a stage and a position in it.
LEMMA TaskPairs ==
  /\ \A t \in Task : /\ t[1] \in Stage /\ t[2] \in Nat /\ 1 <= t[2] /\ t[2] <= NTasks[t[1]]
                     /\ t = <<t[1], t[2]>>
  /\ \A s \in Stage, k \in Nat : 1 <= k /\ k <= NTasks[s] => <<s, k>> \in Task
BY ShapeAssumption DEF Task, Stage

LEMMA Below == \A a, b \in Nat : a < b + 1 /\ a # b => a < b
OBVIOUS

LEMMA TaskStep ==
  ASSUME Inv, [Next]_vars
  PROVE  TaskInv'
<1> USE ShapeAssumption, ScenarioAssumption, TaskPairs DEF Inv, TypeOK, TaskInv, Passed
<1>0. \A s \in Stage : worker[s] \in {"idle", "ready", "halt", "closed", "returned"} =>
        \A t \in TasksOf(s) : task[t] # "Running"
  BY DEF TasksOf
<1>1. CASE StartPipelineRun
  <2>1. \A s \in Stage : nxt'[s] = 1
    BY <1>1 DEF StartPipelineRun, ControlInv, StageInv, Stage
  <2>2. QED
    BY <1>1, <2>1 DEF StartPipelineRun
<1>2. ASSUME NEW order \in RestartOrders, RestartFromStage(order)
      PROVE  TaskInv'
  <2>1. \A s \in Stage : nxt'[s] = 1
    BY <1>2 DEF RestartFromStage, ControlInv, StageInv, Stage
  <2>2. \A t \in Task : task'[t] # "Running"
    BY <1>2 DEF RestartFromStage
  <2>3. QED
    BY <2>1, <2>2
<1>3. ASSUME NEW new \in PatchStatuses, UpdateRunStatus(new)
      PROVE  TaskInv'
  BY <1>3 DEF UpdateRunStatus, threads
<1>4. CASE StartBatch
  <2>1. \A s \in Batch(cur) : s \in Stage /\ worker[s] = "idle" /\ nxt[s] = 1
    BY <1>4 DEF StartBatch, ControlInv, StageInv, Batch, Stage
  <2>2. QED
    BY <1>4, <2>1, <1>0 DEF StartBatch, TasksOf
<1>5. CASE JoinPassed
  BY <1>5 DEF JoinPassed, rows
<1>6. CASE CancelRemaining
  <2> DEFINE rest == {s \in Stage \ Batch(cur) : stage[s] \notin Final}
  <2>1. /\ stage' = [s \in Stage |-> IF s \in rest THEN "Cancelled" ELSE stage[s]]
        /\ task' = [t \in Task |-> IF t[1] \in rest THEN "Cancelled" ELSE task[t]]
        /\ UNCHANGED <<worker, nxt, failed>>
    BY <1>6 DEF CancelRemaining
  <2> HIDE DEF rest
  <2>2. QED
    BY <2>1
<1>7. CASE ConcludeFailed \/ ConcludePassed
  BY <1>7 DEF ConcludeFailed, ConcludePassed, Conclude
<1>8. CASE Announce
  BY <1>8 DEF Announce, rows
<1>9. ASSUME NEW s \in Stage
      PROVE  StartTask(s) \/ CancelRestOfStage(s) \/ CloseStage(s) \/ ReturnResults(s)
               \/ StageRaises(s) => TaskInv'
  <2>1. CASE StartTask(s)
    <3>1. stage[s] = "Running" /\ ~failed[s]
      BY <2>1 DEF StartTask, StageInv, FailureInv, FailureOf
    <3>2. \A t \in TasksOf(s) : task[t] # "Running"
      BY <2>1, <1>0 DEF StartTask
    <3>3. QED
      BY <2>1, <3>1, <3>2 DEF StartTask, TasksOf
  <2>2. CASE CancelRestOfStage(s)
    <3>1. failed[s] /\ \A t \in TasksOf(s) : task[t] # "Running"
      BY <2>2, <1>0 DEF CancelRestOfStage, FailureInv, FailureOf
    <3>2. QED
      BY <2>2, <3>1 DEF CancelRestOfStage, TasksOf
  <2>3. CASE CloseStage(s)
    <3>1. stage[s] = "Running" /\ \A t \in TasksOf(s) : task[t] # "Running"
      BY <2>3, <1>0 DEF CloseStage, StageInv
    <3>2. QED
      BY <2>3, <3>1 DEF CloseStage, TasksOf
  <2>4. CASE ReturnResults(s)
    BY <2>4, <1>0 DEF ReturnResults, rows, TasksOf
  <2>5. CASE StageRaises(s)
    BY <2>5 DEF StageRaises, rows
  <2>6. QED
    BY <2>1, <2>2, <2>3, <2>4, <2>5
<1>10. ASSUME NEW s \in Stage, NEW st \in {"Succeeded", "Warning", "Failed"}, FinishTask(s, st)
       PROVE  TaskInv'
  <2> DEFINE now == <<s, nxt[s]>>
             fails == st = "Failed" /\ OnError[now] = "fail"
  <2>1. now \in Task /\ ~failed[s] /\ worker[s] = "script"
    BY <1>10 DEF FinishTask, FailureInv, FailureOf
  <2>2. /\ task' = [task EXCEPT ![now] = st]
        /\ nxt' = [nxt EXCEPT ![s] = nxt[s] + 1]
        /\ stage' = stage
        /\ \A r \in Stage \ {s} : worker'[r] = worker[r] /\ failed'[r] = failed[r]
    BY <1>10 DEF FinishTask
  <2>3. failed'[s] = fails
    <3>1. failed' = [failed EXCEPT ![s] = fails]
      BY <1>10 DEF FinishTask
    <3>2. QED
      BY <3>1, Zenon
  <2>4. \A t \in Task : t[1] # s => task'[t] = task[t]
    BY <2>2
  <2>5. \A t \in TasksOf(s) : t # now => task'[t] = task[t] /\ task[t] # "Running"
    BY <2>1, <2>2 DEF TasksOf
  <2>6. ASSUME NEW t \in TasksOf(s), t # now, t[2] < nxt[s] + 1
        PROVE  t[2] < nxt[s]
    <3>1. t = <<s, t[2]>> /\ t[2] \in Nat /\ nxt[s] \in Nat
      BY DEF TasksOf
    <3>2. t[2] # nxt[s]
      BY <2>6, <3>1, Zenon
    <3>3. QED
      BY <2>6, <3>1, <3>2, Below, Zenon
  <2>7. task'[now] = st /\ (~failed'[s] => ~fails)
    BY <2>1, <2>2, <2>3
  <2>8. ASSUME NEW t \in Task
        PROVE  /\ task'[t] = "Running" =>
                    /\ t[2] = nxt'[t[1]] /\ ~failed'[t[1]] /\ stage'[t[1]] = "Running"
                    /\ worker'[t[1]] \in {"script", "raised", "dead"}
               /\ t[2] < nxt'[t[1]] /\ ~failed'[t[1]] /\ stage'[t[1]] # "Cancelled" => Passed(t)'
    <3>1. CASE t[1] # s
      BY <3>1, <2>2, <2>4
    <3>2. CASE t = now
      BY <3>2, <2>2, <2>7
    <3>3. CASE t[1] = s /\ t # now
      BY <3>3, <2>1, <2>2, <2>5, <2>6 DEF TasksOf
    <3>4. QED
      BY <3>1, <3>2, <3>3
  <2>9. QED
    BY <2>8
<1>11. CASE ProcessDies
  BY <1>11 DEF ProcessDies, rows, Busy
<1>12. CASE UNCHANGED vars
  BY <1>12 DEF vars, rows, threads
<1>13. QED
  BY <1>1, <1>2, <1>3, <1>4, <1>5, <1>6, <1>7, <1>8, <1>9, <1>10, <1>11, <1>12, NextCases

-----------------------------------------------------------------------------
\* A step that leaves a stage's call and task rows alone keeps its facts.
LEMMA FailureFrame ==
  ASSUME NEW r \in Stage, FailureOf(r),
         nxt'[r] = nxt[r], worker'[r] = worker[r], failed'[r] = failed[r],
         stage'[r] = stage[r], \A u \in TasksOf(r) : task'[u] = task[u]
  PROVE  FailureOf(r)'
<1>1. ASSUME NEW t \in TasksOf(r), StoppedBy(r, t)
      PROVE  StoppedBy(r, t)'
  BY <1>1 DEF StoppedBy, Stopping, Passed, TasksOf
<1>2. QED
  BY <1>1 DEF FailureOf, TasksOf

LEMMA FailureStep ==
  ASSUME Inv, [Next]_vars
  PROVE  FailureInv'
<1> USE ShapeAssumption, ScenarioAssumption, TaskPairs
    DEF Inv, TypeOK, FailureInv, FailureOf, StoppedBy, Passed, Stopping, TasksOf
<1>1. CASE StartPipelineRun
  <2>1. \A s \in Stage : worker'[s] = "idle" /\ nxt'[s] = 1 /\ ~failed'[s]
    BY <1>1 DEF StartPipelineRun, ControlInv, StageInv, Stage
  <2>2. QED
    BY <2>1 DEF Stage
<1>2. ASSUME NEW order \in RestartOrders, RestartFromStage(order)
      PROVE  FailureInv'
  <2>1. \A s \in Stage : worker'[s] = "idle" /\ nxt'[s] = 1 /\ ~failed'[s]
    BY <1>2 DEF RestartFromStage, ControlInv, StageInv, Stage
  <2>2. QED
    BY <2>1 DEF Stage
<1>3. ASSUME NEW new \in PatchStatuses, UpdateRunStatus(new)
      PROVE  FailureInv'
  BY <1>3 DEF UpdateRunStatus, threads
<1>4. CASE StartBatch
  <2>1. \A s \in Batch(cur) : s \in Stage /\ ~failed[s]
    BY <1>4 DEF StartBatch, ControlInv, StageInv, Batch, Stage
  <2>2. QED
    BY <1>4, <2>1 DEF StartBatch
<1>5. CASE JoinPassed
  BY <1>5 DEF JoinPassed, rows
<1>6. CASE CancelRemaining
  <2> DEFINE rest == {s \in Stage \ Batch(cur) : stage[s] \notin Final}
  <2>1. /\ stage' = [s \in Stage |-> IF s \in rest THEN "Cancelled" ELSE stage[s]]
        /\ task' = [t \in Task |-> IF t[1] \in rest THEN "Cancelled" ELSE task[t]]
        /\ UNCHANGED <<worker, nxt, failed>>
    BY <1>6 DEF CancelRemaining
  <2> HIDE DEF rest
  <2>2. \A s \in Stage : stage'[s] # "Cancelled" =>
          /\ stage[s] # "Cancelled"
          /\ \A t \in TasksOf(s) : task'[t] = task[t]
    BY <2>1
  <2>3. QED
    BY <2>1, <2>2
<1>7. CASE ConcludeFailed \/ ConcludePassed
  BY <1>7 DEF ConcludeFailed, ConcludePassed, Conclude
<1>8. CASE Announce
  BY <1>8 DEF Announce, rows
<1>9. ASSUME NEW s \in Stage
      PROVE  StartTask(s) \/ CancelRestOfStage(s) \/ CloseStage(s) \/ ReturnResults(s)
               \/ StageRaises(s) => FailureInv'
  <2>1. CASE StartTask(s)
    <3>1. ~failed[s] /\ nxt[s] <= NTasks[s]
      BY <2>1 DEF StartTask
    <3>2. \A t \in Task : t[1] # s => task'[t] = task[t]
      BY <2>1 DEF StartTask
    <3>3. QED
      BY <2>1, <3>1, <3>2 DEF StartTask
  <2>2. CASE CancelRestOfStage(s)
    <3>1. failed[s] /\ nxt'[s] = NTasks[s] + 1 /\ stage' = stage /\ failed' = failed
      BY <2>2 DEF CancelRestOfStage
    <3>2. stage[s] # "Cancelled"
      BY <2>2 DEF CancelRestOfStage, StageInv
    <3>3. PICK t \in TasksOf(s) : StoppedBy(s, t)
      BY <3>1, <3>2
    <3>4. \A u \in TasksOf(s) :
            task'[u] = IF u[2] >= nxt[s] THEN "Cancelled" ELSE task[u]
      BY <2>2 DEF CancelRestOfStage
    <3>5. StoppedBy(s, t)'
      BY <3>1, <3>3, <3>4
    <3>6. \A r \in Stage \ {s} : /\ nxt'[r] = nxt[r] /\ worker'[r] = worker[r]
                                 /\ \A u \in TasksOf(r) : task'[u] = task[u]
      BY <2>2 DEF CancelRestOfStage
    <3>7. worker'[s] = "ready"
      BY <2>2 DEF CancelRestOfStage
    <3>8. FailureOf(s)'
      BY <3>1, <3>5, <3>7
    <3>9. ASSUME NEW r \in Stage \ {s}
          PROVE  FailureOf(r)'
      BY <3>1, <3>6, FailureFrame
    <3>10. QED
      BY <3>8, <3>9, Zenon
  <2>3. CASE CloseStage(s)
    <3>1. stage[s] = "Running"
      BY <2>3 DEF CloseStage, StageInv
    <3>2. QED
      BY <2>3, <3>1 DEF CloseStage
  <2>4. CASE ReturnResults(s)
    BY <2>4 DEF ReturnResults, rows
  <2>5. CASE StageRaises(s)
    BY <2>5 DEF StageRaises, rows
  <2>6. QED
    BY <2>1, <2>2, <2>3, <2>4, <2>5
<1>10. ASSUME NEW s \in Stage, NEW st \in {"Succeeded", "Warning", "Failed"}, FinishTask(s, st)
       PROVE  FailureInv'
  <2>0. PICK now \in TasksOf(s) : now = <<s, nxt[s]>>
    BY <1>10 DEF FinishTask
  <2> DEFINE fails == st = "Failed" /\ OnError[now] = "fail"
  <2>1. /\ now[2] = nxt[s] /\ nxt[s] <= NTasks[s] /\ ~failed[s]
        /\ worker[s] = "script" /\ stage[s] = "Running"
    BY <1>10, <2>0 DEF FinishTask, StageInv
  <2>2. /\ task' = [task EXCEPT ![now] = st]
        /\ nxt' = [nxt EXCEPT ![s] = nxt[s] + 1]
        /\ stage' = stage
        /\ worker' = [worker EXCEPT ![s] = IF fails THEN "halt" ELSE "ready"]
        /\ failed' = [failed EXCEPT ![s] = fails]
    BY <1>10, <2>0 DEF FinishTask
  <2>3. failed'[s] = fails
    BY <2>2, Zenon
  <2>4. ASSUME NEW r \in Stage \ {s}
        PROVE  /\ nxt'[r] = nxt[r] /\ worker'[r] = worker[r] /\ failed'[r] = failed[r]
               /\ \A u \in TasksOf(r) : task'[u] = task[u]
    BY <2>2
  <2>5. nxt'[s] = nxt[s] + 1 /\ nxt'[s] <= NTasks[s] + 1
    BY <2>1, <2>2
  <2>6. \A u \in TasksOf(s) : u # now => task'[u] = task[u]
    BY <2>2
  <2>7. ASSUME fails
        PROVE  StoppedBy(s, now)'
    <3>1. now[2] < nxt'[s] /\ task'[now] = "Failed"
      BY <2>1, <2>2, <2>5, <2>7
    <3>2. ASSUME NEW u \in TasksOf(s), u[2] < now[2]
          PROVE  Passed(u)'
      <4>1. Passed(u) /\ u # now
        BY <2>1, <3>2 DEF TaskInv
      <4>2. QED
        BY <2>6, <4>1
    <3>3. \A u \in TasksOf(s) : ~(now[2] < u[2] /\ u[2] < nxt'[s])
      BY <2>1, <2>5
    <3>4. Stopping(now)'
      BY <2>7, <3>1
    <3>5. QED
      BY <3>1, <3>2, <3>3, <3>4
  <2>8. worker'[s] = IF fails THEN "halt" ELSE "ready"
    BY <2>2
  <2>9. FailureOf(s)'
    <3>1. fails => \E t \in TasksOf(s) : StoppedBy(s, t)'
      BY <2>7
    <3>2. QED
      BY <2>3, <2>5, <2>8, <3>1
  <2>10. ASSUME NEW r \in Stage \ {s}
         PROVE  FailureOf(r)'
    BY <2>2, <2>4, FailureFrame
  <2>11. QED
    BY <2>9, <2>10, Zenon
<1>11. CASE ProcessDies
  BY <1>11 DEF ProcessDies, rows, Busy
<1>12. CASE UNCHANGED vars
  BY <1>12 DEF vars, rows, threads
<1>13. QED
  BY <1>1, <1>2, <1>3, <1>4, <1>5, <1>6, <1>7, <1>8, <1>9, <1>10, <1>11, <1>12, NextCases

-----------------------------------------------------------------------------
LEMMA InvInit == Init => Inv
<1> SUFFICES ASSUME Init PROVE Inv
  OBVIOUS
<1> USE ShapeAssumption, ScenarioAssumption, TaskPairs DEF Init
<1>1. TypeOK
  <2>1. cur \in 1..(NStages + 1) /\ nxt \in [Stage -> 1..(MaxTasks + 1)]
    OBVIOUS
  <2>2. run \in Row
    BY DEF NoRow, Row
  <2>3. QED
    BY <2>1, <2>2 DEF TypeOK
<1>2. ControlInv
  BY DEF ControlInv, Busy, Stage, NoRow
<1>3. StageInv
  BY DEF StageInv, Busy, Absent
<1>4. TaskInv
  BY DEF TaskInv, Absent
<1>5. FailureInv
  BY DEF FailureInv, FailureOf, Stage
<1>6. QED
  BY <1>1, <1>2, <1>3, <1>4, <1>5 DEF Inv

\* The rows and the threads' memory agree in every state of every run.
THEOREM Invariance == Spec => []Inv
<1>1. Inv /\ [Next]_vars => Inv'
  BY TypeStep, ControlStep, StageStep, TaskStep, FailureStep DEF Inv
<1>2. QED
  BY InvInit, <1>1, PTL DEF Spec

\* No stage runs before the earlier batches have ended well, whatever
\* threads raise and whatever clients PATCH (_execute_pipeline_async).
THEOREM BatchOrderHolds == Spec => []BatchOrder
<1>1. Inv => BatchOrder
  <2> SUFFICES ASSUME Inv, NEW i \in Stage, NEW j \in Stage,
                      i < j, ~SameBatch(i, j), stage[j] = "Running"
               PROVE  stage[i] \in {"Succeeded", "Warning"} \/ worker[i] = "raised"
    BY DEF BatchOrder
  <2> USE DEF Inv, TypeOK
  <2>1. worker[j] # "idle" /\ ~(worker[j] = "returned")
    BY DEF StageInv, StageVerdict, Absent
  <2>2. j < cur \/ (j \in Batch(cur) /\ cur \in Stage)
    BY <2>1, ShapeAssumption DEF ControlInv, Stage
  <2>3. i < cur
    BY <2>2, BatchConvex, ShapeAssumption DEF Stage
  <2>4. worker[i] = "raised" \/ (worker[i] = "returned" /\ ~failed[i])
    BY <2>3 DEF ControlInv
  <2>5. QED
    BY <2>4 DEF StageInv, StageVerdict
<1>2. QED
  BY Invariance, <1>1, PTL

\* A running task is in a running stage and every task before it passed
\* (_execute_stage).
THEOREM TaskOrderHolds == Spec => []TaskOrder
<1>1. Inv => TaskOrder
  <2> SUFFICES ASSUME Inv, NEW t \in Task, task[t] = "Running"
               PROVE  /\ stage[t[1]] = "Running"
                      /\ \A u \in TasksOf(t[1]) : u[2] < t[2] => Passed(u)
    BY DEF TaskOrder
  <2>1. stage[t[1]] = "Running" /\ t[2] = nxt[t[1]] /\ ~failed[t[1]]
    BY DEF Inv, TaskInv
  <2>2. QED
    BY <2>1, TaskPairs DEF Inv, TaskInv, TasksOf
<1>2. QED
  BY Invariance, <1>1, PTL

\* A Failed stage row shows the task that stopped it, and nothing ran after
\* that task (_execute_stage).
THEOREM StageFailureHolds == Spec => []StageFailure
<1>1. Inv => StageFailure
  <2> SUFFICES ASSUME Inv, NEW s \in Stage, stage[s] = "Failed"
               PROVE  \E t \in TasksOf(s) :
                        /\ Stopping(t)
                        /\ \A u \in TasksOf(s) :
                             /\ u[2] < t[2] => Passed(u)
                             /\ u[2] > t[2] => task[u] = "Cancelled"
    BY DEF StageFailure
  <2>1. nxt[s] = NTasks[s] + 1 /\ failed[s]
    BY DEF Inv, TypeOK, StageInv, StageVerdict, Absent, Busy
  <2>2. PICK t \in TasksOf(s) : StoppedBy(s, t)
    BY <2>1 DEF Inv, FailureInv, FailureOf
  <2>3. \A u \in TasksOf(s) : u[2] \in Nat /\ u[2] < nxt[s]
    BY <2>1, TaskPairs, ShapeAssumption DEF TasksOf
  <2>4. QED
    BY <2>2, <2>3, TaskPairs DEF StoppedBy, TasksOf
<1>2. QED
  BY Invariance, <1>1, PTL

-----------------------------------------------------------------------------
(* From outside, a pipeline run is a RunLifecycle.                         *)

LEMMA LifecycleInit == Init => Lifecycle!Init
BY DEF Init, Lifecycle!Init, Lifecycle!NoRow, Lifecycle!Absent, NoRow, Absent, Live

LEMMA LifecycleStep ==
  ASSUME Inv, [Next]_vars
  PROVE  Lifecycle!Next \/ UNCHANGED <<run, Live>>
<1> USE ShapeAssumption, ScenarioAssumption DEF Inv, TypeOK, Live
<1>1. CASE StartPipelineRun
  <2> USE DEF StartPipelineRun, Spawn, NewRow, Lifecycle!Create, Lifecycle!Absent, Absent
  <2>0. CASE NStages > 0
    BY <1>1, <2>0 DEF Lifecycle!Next
  <2>1. CASE ~(NStages > 0)
    BY <1>1, <2>1 DEF Lifecycle!Next
  <2>2. QED
    BY <2>0, <2>1
<1>2. ASSUME NEW order \in RestartOrders, RestartFromStage(order)
      PROVE  Lifecycle!Next
  <2>1. Lifecycle!Create
    BY <1>2 DEF RestartFromStage, Spawn, Lifecycle!Create, Lifecycle!Absent, Absent
  <2>2. QED
    BY <2>1 DEF Lifecycle!Next
<1>3. ASSUME NEW new \in PatchStatuses, UpdateRunStatus(new)
      PROVE  Lifecycle!Next
  <2>1. Lifecycle!Patch(new) /\ new \in Lifecycle!RunStatus
    BY <1>3 DEF UpdateRunStatus, threads, Lifecycle!Patch, Lifecycle!Absent, Absent, Rewritten,
       Lifecycle!Rewritten, TerminalStatuses, Lifecycle!TerminalStatuses, RunStatus,
       Lifecycle!RunStatus
  <2>2. QED
    BY <2>1 DEF Lifecycle!Next
<1>4. CASE ConcludeFailed \/ ConcludePassed
  <2>1. PICK st \in {"Failed", "Warning", "Succeeded"} : Conclude(st) /\ Live
    BY <1>4 DEF ConcludeFailed, ConcludePassed
  <2>2. (IF seen = st THEN run.status ELSE st) \in Lifecycle!Verdict \cup {run.status}
    BY DEF Lifecycle!Verdict
  <2>3. Lifecycle!Conclude
    BY <2>1, <2>2 DEF Conclude, Lifecycle!Conclude
  <2>4. QED
    BY <2>3 DEF Lifecycle!Next
<1>5. CASE StartBatch \/ JoinPassed \/ CancelRemaining \/ Announce
  BY <1>5 DEF StartBatch, JoinPassed, Joined, CancelRemaining, Announce, rows
<1>6. ASSUME NEW s \in Stage
      PROVE  StartTask(s) \/ CancelRestOfStage(s) \/ CloseStage(s) \/ ReturnResults(s)
               => UNCHANGED <<run, Live>>
  BY DEF StartTask, CancelRestOfStage, CloseStage, ReturnResults, rows
<1>7. ASSUME NEW s \in Stage, NEW st \in {"Succeeded", "Warning", "Failed"}, FinishTask(s, st)
      PROVE  UNCHANGED <<run, Live>>
  BY <1>7 DEF FinishTask
<1>8. ASSUME ProcessDies \/ \E s \in Stage : StageRaises(s)
      PROVE  Lifecycle!Vanish \/ UNCHANGED <<run, Live>>
  BY <1>8 DEF ProcessDies, StageRaises, rows, Lifecycle!Vanish
<1>9. CASE UNCHANGED vars
  BY <1>9 DEF vars, rows, threads
<1>10. QED
  BY <1>1, <1>2, <1>3, <1>4, <1>5, <1>6, <1>7, <1>8, <1>9, NextCases DEF Lifecycle!Next

\* Whatever its threads do, the run a client sees is created once and written
\* once by the executor; every other change of its row is a client's own
\* (start_pipeline_run, update_run_status, the end of _execute_pipeline_async).
THEOREM LifecycleImplemented == Spec => ImplementsLifecycle
<1>1. Inv /\ [Next]_vars => [Lifecycle!Next]_<<run, Live>>
  BY LifecycleStep
<1>2. QED
  BY LifecycleInit, Invariance, <1>1, PTL DEF Spec, ImplementsLifecycle, Lifecycle!Spec

-----------------------------------------------------------------------------
(***************************************************************************)
(* When no thread raises: QuietWhenFinished, after a restart as well,      *)
(* VerdictFromTasks too when no client writes a status, and RowsSettle     *)
(* without restarts.                                                       *)
(***************************************************************************)

Concluding == {"fail", "announce", "done"}

\* No thread has raised, and none died.
Healthy == /\ \A s \in Stage : worker[s] \notin {"raised", "dead"}
           /\ pc # "dead"

\* The flags of a stage's call are what its task rows say.  The rows before the task the call is at
\* are final, and the others have ended neither with a warning nor with a failure.
FlagsOf(s) ==
  /\ failed[s] <=> \E t \in TasksOf(s) : Stopping(t)
  /\ warned[s] <=> \E t \in TasksOf(s) : task[t] = "Warning"
  /\ \A t \in TasksOf(s) : IF t[2] < nxt[s] THEN task[t] \in Final ELSE task[t] \notin {"Warning", "Failed"}

Flags == \A s \in Stage : FlagsOf(s)

\* A stage that was seeded as finished, or cancelled, has its tasks so too.
Seeded ==
  \A s \in Stage : worker[s] = "idle" /\ stage[s] \in Final => \A t \in TasksOf(s) : task[t] \in Final

\* The executor's flag is that of the stages it is past.
Heard == warning <=> \E s \in Stage : s < cur /\ warned[s]

Quiet == /\ \A s \in Stage : stage[s] \in Final
         /\ \A t \in Task : task[t] \in Final

\* Nothing is open once the executor is about to write its verdict.
QuietAtEnd == pc \in Concluding => Quiet

\* The executor's row and what it concludes.
Concludes ==
  /\ Live => run = [status |-> "Running", finished |-> FALSE]
  /\ seen \in {NotLoaded, "Running"}
  /\ pc # "done" => event = Absent
  /\ pc = "fail" => \E s \in Stage : failed[s]
  /\ VerdictFromTasks

OutcomeInv == Healthy /\ Flags /\ Seeded /\ Heard /\ QuietAtEnd /\ Concludes

\* Without a restart, what has not been reached is not final before the end.
Settled ==
  /\ run.status = Absent => /\ \A s \in Stage : stage[s] = Absent
                            /\ \A t \in Task : task[t] = Absent
  /\ pc \notin Concluding =>
       \A s \in Stage : /\ worker[s] = "idle" => stage[s] \notin Final
                        /\ \A t \in TasksOf(s) : t[2] >= nxt[s] => task[t] \notin Final


-----------------------------------------------------------------------------
LEMMA HealthyStep ==
  ASSUME Healthy, Inv, [Next]_vars, ~Faults
  PROVE  Healthy'
<1> USE DEF Healthy, Inv, TypeOK
<1>1. CASE StartPipelineRun
  BY <1>1 DEF StartPipelineRun, Spawn
<1>2. ASSUME NEW order \in RestartOrders, RestartFromStage(order)
      PROVE  Healthy'
  BY <1>2 DEF RestartFromStage, Spawn
<1>3. ASSUME NEW new \in PatchStatuses, UpdateRunStatus(new)
      PROVE  Healthy'
  BY <1>3 DEF UpdateRunStatus, threads
<1>4. CASE StartBatch \/ JoinPassed \/ CancelRemaining \/ ConcludeFailed \/ ConcludePassed \/ Announce
  BY <1>4 DEF StartBatch, JoinPassed, CancelRemaining, ConcludeFailed, ConcludePassed, Conclude, Announce
<1>5. ASSUME NEW s \in Stage, StartTask(s) \/ CancelRestOfStage(s) \/ CloseStage(s) \/ ReturnResults(s)
      PROVE  Healthy'
  BY <1>5 DEF StartTask, CancelRestOfStage, CloseStage, ReturnResults
<1>6. ASSUME NEW s \in Stage, NEW st, FinishTask(s, st)
      PROVE  Healthy'
  BY <1>6 DEF FinishTask
<1>7. CASE UNCHANGED vars
  BY <1>7 DEF vars, threads
<1>8. ~ProcessDies /\ \A s \in Stage : ~StageRaises(s)
  BY DEF ProcessDies, StageRaises
<1>9. QED
  BY <1>1, <1>2, <1>3, <1>4, <1>5, <1>6, <1>7, <1>8, NextCases

-----------------------------------------------------------------------------
\* A stage whose call and task rows a step leaves alone keeps its flags.
LEMMA FlagsFrame ==
  ASSUME NEW r \in Stage, FlagsOf(r), nxt'[r] = nxt[r], failed'[r] = failed[r], warned'[r] = warned[r],
         \A u \in TasksOf(r) : task'[u] = task[u]
  PROVE  FlagsOf(r)'
BY DEF FlagsOf, Stopping, TasksOf

\* Nothing has happened in a stage that is not reached.
LEMMA NotReached ==
  ASSUME Inv, Flags, NEW s \in Stage, worker[s] = "idle"
  PROVE  /\ nxt[s] = 1 /\ ~failed[s] /\ ~warned[s]
         /\ \A t \in TasksOf(s) : ~(t[2] < nxt[s]) /\ t[2] >= nxt[s]
BY TaskPairs DEF Inv, StageInv, Flags, FlagsOf, TasksOf

\* Where the task rows hold no verdict, neither do the flags.
LEMMA FreshFlags ==
  ASSUME Inv, Flags, NEW s \in Stage, worker[s] = "idle",
         nxt'[s] = nxt[s], failed'[s] = failed[s], warned'[s] = warned[s],
         \A t \in TasksOf(s) : task'[t] \notin {"Warning", "Failed"}
  PROVE  FlagsOf(s)'
BY NotReached DEF FlagsOf, Stopping, TasksOf

\* At a join every stage is either finished or not reached.
LEMMA AtJoin ==
  ASSUME Inv, Healthy, Joined
  PROVE  /\ \A s \in Stage : s < cur => worker[s] = "returned" /\ ~failed[s]
         /\ \A s \in Batch(cur) : worker[s] = "returned"
         /\ \A s \in Stage : worker[s] \in {"returned", "idle"}
         /\ \A s \in Stage : worker[s] = "returned" => stage[s] \in Final /\ nxt[s] = NTasks[s] + 1
<1> USE DEF Inv, Healthy, TypeOK
<1>1. \A s \in Stage : s < cur => worker[s] = "returned" /\ ~failed[s]
  BY DEF ControlInv
<1>2. \A s \in Batch(cur) : worker[s] = "returned"
  BY DEF Joined, Batch
<1>3. ASSUME NEW s \in Stage
      PROVE  worker[s] \in {"returned", "idle"}
  <2>1. s < cur \/ cur <= s
    BY ShapeAssumption DEF Stage
  <2>2. cur <= s /\ s \notin Batch(cur) => worker[s] = "idle"
    BY DEF ControlInv
  <2>3. QED
    BY <1>1, <1>2, <2>1, <2>2
<1>4. \A s \in Stage : worker[s] = "returned" => stage[s] \in Final /\ nxt[s] = NTasks[s] + 1
  BY DEF StageInv, StageVerdict, Final
<1>5. QED
  BY <1>1, <1>2, <1>3, <1>4

LEMMA FlagsStep ==
  ASSUME Inv, Healthy, Flags, [Next]_vars, ~Faults
  PROVE  Flags'
<1> USE DEF Flags
<1>1. CASE StartPipelineRun
  <2>1. \A s \in Stage : worker[s] = "idle"
    BY <1>1, ShapeAssumption DEF StartPipelineRun, Inv, TypeOK, ControlInv, Stage
  <2>2. \A s \in Stage : \A t \in TasksOf(s) : task'[t] \notin {"Warning", "Failed"}
    BY <1>1 DEF StartPipelineRun, TasksOf
  <2>3. QED
    BY <1>1, <2>1, <2>2, FreshFlags DEF StartPipelineRun
<1>2. ASSUME NEW order \in RestartOrders, RestartFromStage(order)
      PROVE  Flags'
  <2>1. \A s \in Stage : worker[s] = "idle"
    BY <1>2, ShapeAssumption DEF RestartFromStage, Inv, TypeOK, ControlInv, Stage
  <2>2. \A s \in Stage : \A t \in TasksOf(s) : task'[t] \notin {"Warning", "Failed"}
    BY <1>2 DEF RestartFromStage, TasksOf
  <2>3. QED
    BY <1>2, <2>1, <2>2, FreshFlags DEF RestartFromStage
<1>3. CASE UNCHANGED <<task, nxt, failed, warned>>
  BY <1>3, FlagsFrame
<1>4. CASE CancelRemaining
  <2>1. /\ Joined /\ UNCHANGED <<nxt, failed, warned>>
        /\ \A t \in Task : task'[t] = task[t] \/ (stage[t[1]] \notin Final /\ task'[t] = "Cancelled")
        /\ \A t \in Task : stage[t[1]] \in Final => task'[t] = task[t]
    BY <1>4 DEF CancelRemaining
  <2>2. ASSUME NEW s \in Stage
        PROVE  FlagsOf(s)'
    <3>1. CASE worker[s] = "returned"
      <4>1. \A t \in TasksOf(s) : task'[t] = task[t]
        BY <2>1, <3>1, AtJoin DEF TasksOf
      <4>2. QED
        BY <2>1, <4>1, FlagsFrame
    <3>2. CASE worker[s] = "idle"
      <4>1. \A t \in TasksOf(s) : task[t] \notin {"Warning", "Failed"}
        BY <3>2, NotReached DEF FlagsOf
      <4>2. \A t \in TasksOf(s) : task'[t] \notin {"Warning", "Failed"}
        BY <2>1, <4>1 DEF TasksOf
      <4>3. QED
        BY <2>1, <3>2, <4>2, FreshFlags
    <3>3. QED
      BY <2>1, <3>1, <3>2, AtJoin
  <2>3. QED
    BY <2>2
<1>5. ASSUME NEW s \in Stage, StartTask(s)
      PROVE  Flags'
  <2>1. /\ UNCHANGED <<nxt, failed, warned>>
        /\ \A t \in Task : t # <<s, nxt[s]>> => task'[t] = task[t]
        /\ <<s, nxt[s]>> \in Task => task'[<<s, nxt[s]>>] = "Running"
    BY <1>5 DEF StartTask, Inv, TypeOK
  <2>2. ASSUME NEW r \in Stage \ {s}
        PROVE  FlagsOf(r)'
    BY <2>1, FlagsFrame DEF TasksOf
  <2>3. FlagsOf(s)'
    <3>1. nxt[s] \in Nat
      BY ShapeAssumption DEF Inv, TypeOK
    <3>2. ASSUME NEW t \in TasksOf(s), t = <<s, nxt[s]>>
          PROVE  t[2] = nxt[s] /\ task[t] \notin {"Warning", "Failed"} /\ task'[t] = "Running"
      BY <2>1, <3>1, <3>2 DEF FlagsOf, TasksOf
    <3>3. ASSUME NEW t \in TasksOf(s)
          PROVE  /\ task'[t] = task[t] \/ (task[t] \notin {"Warning", "Failed"} /\ task'[t] = "Running" /\ ~(t[2] < nxt[s]))
      BY <2>1, <3>1, <3>2 DEF TasksOf
    <3>4. \A t \in TasksOf(s) : /\ task'[t] = "Warning" <=> task[t] = "Warning"
                                /\ task'[t] = "Failed" <=> task[t] = "Failed"
                                /\ t[2] < nxt[s] => task'[t] = task[t]
      BY <3>3
    <3>5. QED
      BY <2>1, <3>4 DEF FlagsOf, Stopping, TasksOf
  <2>4. QED
    BY <2>2, <2>3
<1>6. ASSUME NEW s \in Stage, CancelRestOfStage(s)
      PROVE  Flags'
  <2>1. /\ UNCHANGED <<failed, warned>> /\ nxt' = [nxt EXCEPT ![s] = NTasks[s] + 1]
        /\ \A t \in Task : task'[t] = IF t[1] = s /\ t[2] >= nxt[s] THEN "Cancelled" ELSE task[t]
    BY <1>6 DEF CancelRestOfStage
  <2>2. ASSUME NEW r \in Stage \ {s}
        PROVE  FlagsOf(r)'
    <3>1. nxt'[r] = nxt[r] /\ \A u \in TasksOf(r) : task'[u] = task[u]
      BY <2>1 DEF TasksOf, Inv, TypeOK
    <3>2. QED
      BY <2>1, <3>1, FlagsFrame
  <2>3. FlagsOf(s)'
    <3>1. nxt[s] \in Nat /\ nxt'[s] = NTasks[s] + 1
      BY <2>1, ShapeAssumption DEF Inv, TypeOK
    <3>2. ASSUME NEW t \in TasksOf(s)
          PROVE  /\ t[2] < nxt'[s] /\ task'[t] \in Final
                 /\ task'[t] = "Warning" <=> task[t] = "Warning"
                 /\ task'[t] = "Failed" <=> task[t] = "Failed"
      <4>1. t \in Task /\ t[1] = s /\ t[2] \in Nat /\ t[2] <= NTasks[s] /\ NTasks[s] \in Nat
        BY TaskPairs, ShapeAssumption DEF TasksOf
      <4>2. CASE t[2] >= nxt[s]
        BY <2>1, <3>1, <4>1, <4>2 DEF FlagsOf, Final
      <4>3. CASE t[2] < nxt[s]
        BY <2>1, <3>1, <4>1, <4>3 DEF FlagsOf
      <4>4. QED
        BY <3>1, <4>1, <4>2, <4>3
    <3>3. QED
      BY <2>1, <3>2 DEF FlagsOf, Stopping, TasksOf
  <2>4. QED
    BY <2>2, <2>3
<1>7. ASSUME NEW s \in Stage, NEW st \in {"Succeeded", "Warning", "Failed"}, FinishTask(s, st)
      PROVE  Flags'
  <2>1. PICK now \in TasksOf(s) : now = <<s, nxt[s]>>
    BY <1>7, TaskPairs DEF FinishTask, Inv, TypeOK, FailureInv, FailureOf, TasksOf
  <2>2. PICK fails \in BOOLEAN : fails = (st = "Failed" /\ OnError[now] = "fail")
    OBVIOUS
  <2>3. /\ worker[s] = "script" /\ nxt[s] \in Nat /\ now[2] = nxt[s] /\ ~failed[s]
    BY <1>7, <2>1, ShapeAssumption DEF FinishTask, Inv, TypeOK, FailureInv, FailureOf
  <2>4. /\ \A u \in Task : u # now => task'[u] = task[u]
        /\ task'[now] = st /\ nxt' = [nxt EXCEPT ![s] = nxt[s] + 1]
    BY <1>7, <2>1 DEF FinishTask, Inv, TypeOK, TasksOf
  <2>5. failed' = [failed EXCEPT ![s] = fails] /\ warned' = [warned EXCEPT ![s] = @ \/ st = "Warning"]
    BY <1>7, <2>1, <2>2 DEF FinishTask
  <2>6. ASSUME NEW r \in Stage \ {s}
        PROVE  FlagsOf(r)'
    <3>1. /\ nxt'[r] = nxt[r] /\ failed'[r] = failed[r] /\ warned'[r] = warned[r]
      BY <2>4, <2>5 DEF Inv, TypeOK
    <3>2. \A u \in TasksOf(r) : task'[u] = task[u]
      BY <2>1, <2>4 DEF TasksOf
    <3>3. QED
      BY <3>1, <3>2, FlagsFrame
  <2>7. FlagsOf(s)'
    <3>1. nxt'[s] = nxt[s] + 1
      BY <2>4 DEF Inv, TypeOK
    <3>2. failed'[s] = fails
      BY <2>5, Zenon DEF Inv, TypeOK
    <3>3. warned'[s] <=> warned[s] \/ st = "Warning"
      BY <2>5, Zenon DEF Inv, TypeOK
    <3>4. \A t \in TasksOf(s) : t # now => task'[t] = task[t]
      BY <2>4 DEF TasksOf
    <3>5. task[now] \notin {"Warning", "Failed"}
      BY <2>3 DEF FlagsOf
    <3>6. failed'[s] <=> \E t \in TasksOf(s) : Stopping(t)'
      <4>1. \A t \in TasksOf(s) : ~Stopping(t)
        BY <2>3 DEF FlagsOf
      <4>2. Stopping(now)' <=> fails
        BY <2>2, <2>4 DEF Stopping
      <4>3. QED
        BY <3>2, <3>4, <4>1, <4>2 DEF Stopping
    <3>7. warned'[s] <=> \E t \in TasksOf(s) : task'[t] = "Warning"
      <4>1. warned[s] <=> \E t \in TasksOf(s) : task[t] = "Warning"
        BY DEF FlagsOf
      <4>2. QED
        BY <2>4, <3>3, <3>4, <3>5, <4>1
    <3>8. ASSUME NEW t \in TasksOf(s)
          PROVE  IF t[2] < nxt'[s] THEN task'[t] \in Final ELSE task'[t] \notin {"Warning", "Failed"}
      <4>1. CASE t = now
        BY <2>3, <2>4, <3>1, <4>1 DEF Final
      <4>2. CASE t # now
        <5>1. t = <<s, t[2]>> /\ t[2] \in Nat
          BY TaskPairs DEF TasksOf
        <5>2. t[2] # nxt[s]
          BY <2>1, <4>2, <5>1, Zenon
        <5>3. t[2] < nxt'[s] <=> t[2] < nxt[s]
          BY <2>3, <3>1, <5>1, <5>2
        <5>4. QED
          BY <3>4, <4>2, <5>3 DEF FlagsOf
      <4>3. QED
        BY <4>1, <4>2
    <3>9. QED
      BY <3>6, <3>7, <3>8 DEF FlagsOf, TasksOf
  <2>8. QED
    BY <2>6, <2>7
<1>8. ASSUME NEW s \in Stage, CloseStage(s) \/ ReturnResults(s)
      PROVE  UNCHANGED <<task, nxt, failed, warned>>
  BY <1>8 DEF CloseStage, ReturnResults, rows
<1>9. StartBatch \/ JoinPassed \/ ConcludeFailed \/ ConcludePassed \/ Announce
      \/ (\E new \in PatchStatuses : UpdateRunStatus(new)) \/ UNCHANGED vars => UNCHANGED <<task, nxt, failed, warned>>
  BY DEF StartBatch, JoinPassed, ConcludeFailed, ConcludePassed, Conclude, Announce, UpdateRunStatus, vars, rows, threads
<1>10. ~ProcessDies /\ \A s \in Stage : ~StageRaises(s)
  BY DEF ProcessDies, StageRaises
<1>11. QED
  BY <1>1, <1>2, <1>3, <1>4, <1>5, <1>6, <1>7, <1>8, <1>9, <1>10, NextCases

-----------------------------------------------------------------------------
LEMMA SeededStep ==
  ASSUME Inv, Healthy, Flags, Seeded, [Next]_vars, ~Faults
  PROVE  Seeded'
<1> USE DEF Seeded
<1>1. CASE StartPipelineRun
  BY <1>1 DEF StartPipelineRun, Final
<1>2. ASSUME NEW order \in RestartOrders, RestartFromStage(order)
      PROVE  Seeded'
  BY <1>2 DEF RestartFromStage, TasksOf, Final
<1>3. CASE StartBatch
  BY <1>3 DEF StartBatch
<1>4. CASE CancelRemaining
  <2>1. PICK rest \in SUBSET Stage :
          /\ \A s \in Stage : /\ s \in rest => stage[s] \notin Final
                              /\ stage'[s] = IF s \in rest THEN "Cancelled" ELSE stage[s]
          /\ \A t \in Task : task'[t] = IF t[1] \in rest THEN "Cancelled" ELSE task[t]
          /\ worker' = worker
    BY <1>4 DEF CancelRemaining
  <2>2. QED
    BY <2>1 DEF TasksOf, Final
<1>5. ASSUME NEW s \in Stage,
             \/ StartTask(s) \/ CancelRestOfStage(s) \/ CloseStage(s) \/ ReturnResults(s)
             \/ \E st \in {"Succeeded", "Warning", "Failed"} : FinishTask(s, st)
      PROVE  Seeded'
  <2>1. /\ worker[s] # "idle" /\ worker'[s] # "idle"
        /\ \A r \in Stage \ {s} : /\ worker'[r] = worker[r] /\ stage'[r] = stage[r]
                                  /\ \A t \in TasksOf(r) : task'[t] = task[t]
    BY <1>5, TaskPairs DEF StartTask, CancelRestOfStage, CloseStage, ReturnResults, FinishTask, Inv, TypeOK, TasksOf, rows
  <2>2. QED
    BY <2>1 DEF TasksOf
<1>6. JoinPassed \/ ConcludeFailed \/ ConcludePassed \/ Announce
      \/ (\E new \in PatchStatuses : UpdateRunStatus(new)) \/ UNCHANGED vars => UNCHANGED <<stage, task, worker>>
  BY DEF JoinPassed, ConcludeFailed, ConcludePassed, Conclude, Announce, UpdateRunStatus, vars, rows, threads
<1>7. ~ProcessDies /\ \A s \in Stage : ~StageRaises(s)
  BY DEF ProcessDies, StageRaises
<1>8. QED
  BY <1>1, <1>2, <1>3, <1>4, <1>5, <1>6, <1>7, NextCases

LEMMA HeardStep ==
  ASSUME Inv, Healthy, Flags, Heard, [Next]_vars, ~Faults
  PROVE  Heard'
<1> USE DEF Heard
<1>1. CASE JoinPassed
  <2>1. PICK n \in (cur + 1)..(NStages + 1) : EndsBefore(cur, n) /\ cur' = n
    BY <1>1 DEF JoinPassed
  <2>2. \A s \in Stage : s < n <=> s < cur \/ s \in Batch(cur)
    BY <2>1, ShapeAssumption DEF EndsBefore, Stage, Inv, TypeOK
  <2>3. Batch(cur) \subseteq Stage /\ \A s \in Batch(cur) : worker[s] = "returned"
    BY <1>1, AtJoin DEF JoinPassed, Batch
  <2>4. warned' = warned /\ (warning' <=> warning \/ \E s \in Batch(cur) : warned[s])
    BY <1>1, <2>3 DEF JoinPassed, Results
  <2>5. QED
    BY <2>1, <2>2, <2>3, <2>4
<1>2. ASSUME NEW s \in Stage, NEW st \in {"Succeeded", "Warning", "Failed"}, FinishTask(s, st)
      PROVE  Heard'
  <2>1. cur <= s
    BY <1>2, BusyInBatch DEF FinishTask, Inv, Busy
  <2>2. /\ UNCHANGED <<warning, cur>> /\ \A r \in Stage : r # s => warned'[r] = warned[r]
    BY <1>2 DEF FinishTask, Inv, TypeOK
  <2>3. \A r \in Stage : r < cur => r # s
    BY <2>1, ShapeAssumption DEF Stage, Inv, TypeOK
  <2>4. QED
    BY <2>2, <2>3
<1>3. StartPipelineRun \/ StartBatch \/ CancelRemaining \/ ConcludeFailed \/ ConcludePassed \/ Announce
      \/ (\E new \in PatchStatuses : UpdateRunStatus(new)) \/ (\E order \in RestartOrders : RestartFromStage(order))
      \/ UNCHANGED vars => UNCHANGED <<warning, warned, cur>>
  BY DEF StartPipelineRun, RestartFromStage, StartBatch, CancelRemaining, ConcludeFailed, ConcludePassed, Conclude,
     Announce, UpdateRunStatus, vars, rows, threads
<1>4. ASSUME NEW s \in Stage, StartTask(s) \/ CancelRestOfStage(s) \/ CloseStage(s) \/ ReturnResults(s)
      PROVE  UNCHANGED <<warning, warned, cur>>
  BY <1>4 DEF StartTask, CancelRestOfStage, CloseStage, ReturnResults
<1>5. ~ProcessDies /\ \A s \in Stage : ~StageRaises(s)
  BY DEF ProcessDies, StageRaises
<1>6. QED
  BY <1>1, <1>2, <1>3, <1>4, <1>5, NextCases

-----------------------------------------------------------------------------
\* What a finished stage leaves.
LEMMA StageDone ==
  ASSUME Inv, Flags, NEW s \in Stage, nxt[s] = NTasks[s] + 1
  PROVE  \A t \in TasksOf(s) : task[t] \in Final
BY TaskPairs, ShapeAssumption DEF Flags, FlagsOf, TasksOf

LEMMA QuietStep ==
  ASSUME Inv, Healthy, Flags, Seeded, QuietAtEnd, [Next]_vars, ~Faults
  PROVE  QuietAtEnd'
<1> USE DEF Inv, QuietAtEnd, Concluding
<1>1. CASE StartPipelineRun \/ (\E order \in RestartOrders : RestartFromStage(order)) \/ StartBatch \/ JoinPassed
  BY <1>1 DEF StartPipelineRun, RestartFromStage, Spawn, StartBatch, JoinPassed
<1>2. CASE CancelRemaining
  <2>1. Joined
    BY <1>2 DEF CancelRemaining
  <2>2. /\ \A s \in Stage : stage'[s] = IF s \notin Batch(cur) /\ stage[s] \notin Final THEN "Cancelled" ELSE stage[s]
        /\ \A t \in Task : task'[t] = IF t[1] \notin Batch(cur) /\ stage[t[1]] \notin Final THEN "Cancelled" ELSE task[t]
    BY <1>2, TaskPairs DEF CancelRemaining
  <2>3. \A s \in Batch(cur) : s \in Stage /\ stage[s] \in Final
    BY <2>1, AtJoin DEF Batch
  <2>4. \A s \in Stage : stage'[s] \in Final
    BY <2>2, <2>3 DEF Final
  <2>5. ASSUME NEW t \in Task
        PROVE  task'[t] \in Final
    <3>1. t[1] \in Stage /\ t \in TasksOf(t[1])
      BY TaskPairs DEF TasksOf
    <3>2. CASE worker[t[1]] = "returned"
      <4>1. task[t] \in Final
        BY <2>1, <3>1, <3>2, AtJoin, StageDone
      <4>2. QED
        BY <2>2, <4>1 DEF Final
    <3>3. CASE worker[t[1]] = "idle"
      BY <2>2, <2>3, <3>1, <3>3 DEF Seeded, Final
    <3>4. QED
      BY <2>1, <3>1, <3>2, <3>3, AtJoin
  <2>6. QED
    BY <2>4, <2>5 DEF Quiet
<1>3. CASE ConcludePassed
  <2>1. pc = "batch" /\ cur > NStages /\ UNCHANGED <<stage, task>>
    BY <1>3 DEF ConcludePassed, Conclude
  <2>2. \A s \in Stage : s < cur
    BY <2>1, ShapeAssumption DEF Stage, TypeOK
  <2>3. \A s \in Stage : stage[s] \in Final /\ nxt[s] = NTasks[s] + 1
    BY <2>2 DEF ControlInv, Healthy, StageInv, StageVerdict, Final
  <2>4. \A t \in Task : t[1] \in Stage /\ t \in TasksOf(t[1])
    BY TaskPairs DEF TasksOf
  <2>5. QED
    BY <2>1, <2>3, <2>4, StageDone DEF Quiet
<1>4. CASE ConcludeFailed \/ Announce \/ (\E new \in PatchStatuses : UpdateRunStatus(new)) \/ UNCHANGED vars
  <2>1. UNCHANGED <<stage, task>> /\ (pc' \in Concluding => pc \in Concluding)
    BY <1>4 DEF ConcludeFailed, Conclude, Announce, UpdateRunStatus, vars, rows, threads
  <2>2. QED
    BY <2>1 DEF Quiet
<1>5. ASSUME NEW s \in Stage,
             \/ StartTask(s) \/ CancelRestOfStage(s) \/ CloseStage(s) \/ ReturnResults(s)
             \/ \E st \in {"Succeeded", "Warning", "Failed"} : FinishTask(s, st)
      PROVE  QuietAtEnd'
  <2>1. pc = "join"
    BY <1>5, BusyInBatch DEF StartTask, CancelRestOfStage, CloseStage, ReturnResults, FinishTask, Busy
  <2>2. pc' = pc
    BY <1>5 DEF StartTask, CancelRestOfStage, CloseStage, ReturnResults, FinishTask, rows
  <2>3. QED
    BY <2>1, <2>2
<1>6. ~ProcessDies /\ \A s \in Stage : ~StageRaises(s)
  BY DEF ProcessDies, StageRaises
<1>7. QED
  BY <1>1, <1>2, <1>3, <1>4, <1>5, <1>6, NextCases

LEMMA ConcludesStep ==
  ASSUME Inv, OutcomeInv, [Next]_vars, ~Faults, PatchStatuses = {}
  PROVE  Concludes'
<1> USE DEF Inv, OutcomeInv, Concludes, Concluding, VerdictFromTasks, Concluded, Live
<1>1. CASE StartPipelineRun
  BY <1>1 DEF StartPipelineRun, Spawn, NewRow, ControlInv
<1>2. ASSUME NEW order \in RestartOrders, RestartFromStage(order)
      PROVE  Concludes'
  BY <1>2 DEF RestartFromStage, Spawn, ControlInv
<1>3. CASE StartBatch
  BY <1>3 DEF StartBatch
<1>4. CASE JoinPassed
  BY <1>4 DEF JoinPassed, Joined, rows
<1>5. CASE CancelRemaining
  <2>1. /\ Joined /\ Results(failed) /\ pc' = "fail" /\ seen' = NotLoaded /\ UNCHANGED <<run, failed, event>>
    BY <1>5 DEF CancelRemaining
  <2>2. \E s \in Stage : failed[s]
    BY <2>1 DEF Results, Batch
  <2>3. QED
    BY <2>1, <2>2 DEF Joined
<1>6. CASE ConcludeFailed
  <2>1. /\ pc = "fail" /\ run' = [status |-> "Failed", finished |-> TRUE] /\ pc' = "announce"
        /\ UNCHANGED <<stage, task, failed, seen, event>>
    BY <1>6 DEF ConcludeFailed, Conclude, NotLoaded
  <2>2. \E t \in Task : Stopping(t)
    BY <2>1 DEF Flags, FlagsOf, TasksOf
  <2>3. TaskVerdict' = "Failed"
    BY <2>1, <2>2 DEF TaskVerdict, Stopping
  <2>4. QED
    BY <2>1, <2>3
<1>7. CASE ConcludePassed
  <2>1. /\ pc = "batch" /\ cur > NStages /\ pc' = "announce"
        /\ run' = [status |-> IF warning THEN "Warning" ELSE "Succeeded", finished |-> TRUE]
        /\ UNCHANGED <<stage, task, seen, event>>
    BY <1>7 DEF ConcludePassed, Conclude, NotLoaded
  <2>2. \A s \in Stage : s < cur
    BY <2>1, ShapeAssumption DEF Stage, TypeOK
  <2>3. \A s \in Stage : worker[s] = "returned" /\ ~failed[s]
    BY <2>2 DEF ControlInv, Healthy
  <2>4. \A t \in Task : t[1] \in Stage /\ t \in TasksOf(t[1])
    BY TaskPairs DEF TasksOf
  <2>5. ~\E t \in Task : Stopping(t)
    BY <2>3, <2>4 DEF Flags, FlagsOf
  <2>6. warning <=> \E t \in Task : task[t] = "Warning"
    BY <2>2, <2>4 DEF Heard, Flags, FlagsOf, TasksOf
  <2>7. TaskVerdict' = IF warning THEN "Warning" ELSE "Succeeded"
    BY <2>1, <2>5, <2>6 DEF TaskVerdict, Stopping
  <2>8. QED
    BY <2>1, <2>7
<1>8. CASE Announce
  <2>1. /\ pc = "announce" /\ event' = run.status /\ pc' = "done" /\ UNCHANGED <<run, stage, task, seen>>
    BY <1>8 DEF Announce, rows
  <2>2. TaskVerdict' = TaskVerdict
    BY <2>1 DEF TaskVerdict, Stopping
  <2>3. QED
    BY <2>1, <2>2
<1>9. ASSUME NEW s \in Stage,
             \/ StartTask(s) \/ CancelRestOfStage(s) \/ CloseStage(s) \/ ReturnResults(s)
             \/ \E st \in {"Succeeded", "Warning", "Failed"} : FinishTask(s, st)
      PROVE  Concludes'
  <2>1. pc = "join"
    BY <1>9, BusyInBatch DEF StartTask, CancelRestOfStage, CloseStage, ReturnResults, FinishTask, Busy
  <2>2. UNCHANGED <<pc, run, seen, event>>
    BY <1>9 DEF StartTask, CancelRestOfStage, CloseStage, ReturnResults, FinishTask, rows
  <2>3. QED
    BY <2>1, <2>2
<1>10. CASE UNCHANGED vars
  <2>1. UNCHANGED <<pc, run, seen, event, stage, task, failed>>
    BY <1>10 DEF vars, rows, threads
  <2>2. TaskVerdict' = TaskVerdict
    BY <2>1 DEF TaskVerdict, Stopping
  <2>3. QED
    BY <2>1, <2>2
<1>11. ~ProcessDies /\ \A s \in Stage : ~StageRaises(s)
  BY DEF ProcessDies, StageRaises
<1>12. QED
  BY <1>1, <1>2, <1>3, <1>4, <1>5, <1>6, <1>7, <1>8, <1>9, <1>10, <1>11, NextCases

LEMMA OutcomeInit == Init => OutcomeInv
<1> SUFFICES ASSUME Init PROVE OutcomeInv
  OBVIOUS
<1> USE DEF Init
<1>1. Healthy /\ Seeded /\ Heard /\ QuietAtEnd
  BY DEF Healthy, Seeded, Heard, QuietAtEnd, Concluding, Final, Absent
<1>2. Flags
  BY TaskPairs DEF Flags, FlagsOf, TasksOf, Stopping, Absent
<1>3. Concludes
  BY DEF Concludes, Concluding, Live, VerdictFromTasks, Concluded
<1>4. QED
  BY <1>1, <1>2, <1>3 DEF OutcomeInv

\* Without faults and foreign writes the outcome is an invariant, for every pipeline and every restart.
LEMMA Outcome ==
  ASSUME ~Faults, PatchStatuses = {}
  PROVE  Spec => [](Inv /\ OutcomeInv)
<1>1. Inv /\ OutcomeInv /\ [Next]_vars => OutcomeInv'
  BY HealthyStep, FlagsStep, SeededStep, HeardStep, QuietStep, ConcludesStep DEF OutcomeInv
<1>2. QED
  BY InvInit, OutcomeInit, Invariance, <1>1, PTL DEF Spec

\* What a finished run and its event say is what its task rows say, when nothing raises and no client
\* writes a status (the results, flags and last commit of _execute_pipeline_async).
THEOREM VerdictHolds ==
  ASSUME ~Faults, PatchStatuses = {}
  PROVE  Spec => []VerdictFromTasks
<1>1. OutcomeInv => VerdictFromTasks
  BY DEF OutcomeInv, Concludes
<1>2. QED
  BY Outcome, <1>1, PTL

\* A finished run leaves nothing pending or running behind when nothing raises, whatever clients write and
\* restart: a PATCH changes the row of the run, and the executor never asks that row what to do.
THEOREM QuietHolds ==
  ASSUME ~Faults
  PROVE  Spec => []QuietWhenFinished
<1> DEFINE I == Healthy /\ Flags /\ Seeded /\ QuietAtEnd
<1>1. Init => I
  BY OutcomeInit DEF OutcomeInv
<1>2. Inv /\ I /\ [Next]_vars => I'
  BY HealthyStep, FlagsStep, SeededStep, QuietStep
<1>3. I => QuietWhenFinished
  BY DEF QuietAtEnd, Concluding, Quiet, QuietWhenFinished, Concluded
<1>4. QED
  BY Invariance, <1>1, <1>2, <1>3, PTL DEF Spec

-----------------------------------------------------------------------------
(* Rows that have ended.                                                   *)

Settling == Healthy /\ Flags /\ Settled

\* The step of a run without restarts and faults, and what it does to rows that have ended.
SettleRows ==
  /\ \A s \in Stage : stage[s] \in Final => stage'[s] = stage[s]
  /\ \A t \in Task : task[t] \in Final => task'[t] = task[t]

LEMMA SettledStep ==
  ASSUME Inv, Settling, [Next]_vars, ~Faults, RestartOrders = {}
  PROVE  Settled' /\ SettleRows
<1> USE DEF Inv, Settling, Settled, SettleRows, Concluding
<1>1. CASE StartPipelineRun
  <2>1. /\ run.status = Absent /\ run'.status # Absent /\ \A s \in Stage : worker[s] = "idle" /\ stage'[s] = "Pending"
        /\ \A t \in Task : task'[t] = "Pending"
    BY <1>1, ShapeAssumption DEF StartPipelineRun, NewRow, Absent, TypeOK, ControlInv, Stage
  <2>2. QED
    BY <2>1 DEF Final, Absent, TasksOf
<1>2. ASSUME NEW new \in PatchStatuses, UpdateRunStatus(new)
      PROVE  Settled' /\ SettleRows
  <2>1. run.status # Absent /\ run'.status # Absent /\ UNCHANGED <<stage, task, pc, worker, nxt>>
    BY <1>2, ScenarioAssumption DEF UpdateRunStatus, Rewritten, threads, Absent, RunStatus
  <2>2. QED
    BY <2>1
<1>3. CASE StartBatch
  <2>1. /\ pc = "batch" /\ pc' = "join" /\ UNCHANGED <<run, task, nxt>>
        /\ \A s \in Stage : /\ stage'[s] = IF s \in Batch(cur) THEN "Running" ELSE stage[s]
                            /\ worker'[s] = IF s \in Batch(cur) THEN "ready" ELSE worker[s]
    BY <1>3 DEF StartBatch
  <2>2. run.status # Absent
    BY <2>1 DEF ControlInv
  <2>3. \A s \in Batch(cur) : s \in Stage /\ cur <= s
    BY DEF Batch
  <2>4. \A s \in Batch(cur) : worker[s] = "idle"
    BY <2>1, <2>3 DEF ControlInv
  <2>5. QED
    BY <2>1, <2>2, <2>3, <2>4
<1>4. CASE JoinPassed
  BY <1>4 DEF JoinPassed, Joined, rows
<1>5. CASE CancelRemaining
  <2>1. /\ Joined /\ pc' = "fail" /\ run' = run /\ UNCHANGED worker
        /\ \A s \in Stage : stage'[s] = IF s \notin Batch(cur) /\ stage[s] \notin Final THEN "Cancelled" ELSE stage[s]
        /\ \A t \in Task : task'[t] = IF t[1] \notin Batch(cur) /\ stage[t[1]] \notin Final THEN "Cancelled" ELSE task[t]
    BY <1>5, TaskPairs DEF CancelRemaining
  <2>2. run.status # Absent /\ pc = "join"
    BY <2>1 DEF Joined, ControlInv
  <2>3. ASSUME NEW t \in Task, stage[t[1]] \notin Final
        PROVE  task[t] \notin Final
    <3>1. t[1] \in Stage /\ t \in TasksOf(t[1])
      BY TaskPairs DEF TasksOf
    <3>2. worker[t[1]] = "idle"
      BY <2>1, <2>3, <3>1, AtJoin
    <3>3. t[2] >= nxt[t[1]]
      BY <3>1, <3>2, NotReached
    <3>4. QED
      BY <2>2, <3>1, <3>3
  <2>4. QED
    BY <2>1, <2>2, <2>3
<1>6. CASE ConcludeFailed \/ ConcludePassed
  <2>1. PICK st \in {"Failed", "Warning", "Succeeded"} : Conclude(st) /\ pc # "idle"
    BY <1>6 DEF ConcludeFailed, ConcludePassed
  <2>2. run'.status # Absent
    BY <2>1 DEF Conclude, ControlInv, Absent
  <2>3. pc' = "announce" /\ UNCHANGED <<stage, task>>
    BY <2>1 DEF Conclude
  <2>4. QED
    BY <2>2, <2>3
<1>7. CASE Announce
  BY <1>7 DEF Announce, rows
<1>8. ASSUME NEW s \in Stage, pc = "join", UNCHANGED <<run, pc>>, worker[s] # "idle",
             worker'[s] # "idle", nxt'[s] \in {nxt[s], nxt[s] + 1, NTasks[s] + 1}, nxt'[s] >= nxt[s],
             stage[s] = "Running" \/ stage'[s] = stage[s],
             \A r \in Stage \ {s} : worker'[r] = worker[r] /\ nxt'[r] = nxt[r] /\ stage'[r] = stage[r],
             \A t \in Task : \/ task'[t] = task[t]
                             \/ /\ t[1] = s /\ t[2] >= nxt[s]
                                /\ t[2] >= nxt'[s] => task'[t] \notin Final
      PROVE  Settled' /\ SettleRows
  <2>1. run.status # Absent
    BY <1>8 DEF ControlInv
  <2>2. \A r \in Stage : stage[r] \in Final => stage'[r] = stage[r]
    BY <1>8 DEF Final
  <2>3. \A t \in Task : task[t] \in Final => task'[t] = task[t]
    BY <1>8 DEF TasksOf
  <2>4. ASSUME NEW r \in Stage
        PROVE  /\ worker'[r] = "idle" => stage'[r] \notin Final
               /\ \A t \in TasksOf(r) : t[2] >= nxt'[r] => task'[t] \notin Final
    <3>1. worker'[r] = "idle" => stage'[r] \notin Final
      BY <1>8
    <3>2. ASSUME NEW t \in TasksOf(r), t[2] >= nxt'[r]
          PROVE  task'[t] \notin Final
      <4>1. t \in Task /\ t[1] = r /\ t[2] \in Nat /\ nxt[r] \in Nat /\ nxt'[r] \in Nat /\ NTasks[r] \in Nat
        BY <1>8, TaskPairs, ShapeAssumption DEF TasksOf, TypeOK
      <4>2. t[2] >= nxt[r]
        BY <1>8, <3>2, <4>1
      <4>3. task[t] \notin Final
        BY <1>8, <4>2
      <4>4. QED
        BY <1>8, <3>2, <4>1, <4>3
    <3>3. QED
      BY <3>1, <3>2
  <2>5. QED
    BY <1>8, <2>1, <2>2, <2>3, <2>4 DEF TasksOf
<1>9. ASSUME NEW s \in Stage,
             \/ StartTask(s) \/ CancelRestOfStage(s) \/ CloseStage(s) \/ ReturnResults(s)
             \/ \E st \in {"Succeeded", "Warning", "Failed"} : FinishTask(s, st)
      PROVE  Settled' /\ SettleRows
  <2>0. /\ pc = "join" /\ nxt[s] \in Nat /\ NTasks[s] \in Nat
        /\ worker[s] \in {"ready", "script", "halt"} => stage[s] = "Running"
    BY <1>9, BusyInBatch, ShapeAssumption
    DEF StartTask, CancelRestOfStage, CloseStage, ReturnResults, FinishTask, Busy, TypeOK, StageInv
  <2>1. CASE StartTask(s)
    <3>1. \A t \in Task : task'[t] = task[t] \/ (t = <<s, nxt[s]>> /\ task'[t] = "Running")
      BY <2>1 DEF StartTask, TypeOK
    <3>2. \A t \in Task : t = <<s, nxt[s]>> => t[1] = s /\ t[2] >= nxt[s]
      BY <2>0
    <3>3. QED
      BY <1>8, <2>0, <2>1, <3>1, <3>2 DEF StartTask, TypeOK, Final
  <2>2. CASE CancelRestOfStage(s)
    <3>1. /\ nxt'[s] = NTasks[s] + 1 /\ nxt[s] <= NTasks[s] + 1
      BY <2>2 DEF CancelRestOfStage, TypeOK, FailureInv, FailureOf
    <3>2. ASSUME NEW t \in Task
          PROVE  task'[t] = task[t] \/ (t[1] = s /\ t[2] >= nxt[s] /\ ~(t[2] >= nxt'[s]))
      BY <2>0, <2>2, <3>1, TaskPairs DEF CancelRestOfStage
    <3>3. QED
      BY <1>8, <2>0, <2>2, <3>1, <3>2 DEF CancelRestOfStage, TypeOK
  <2>3. CASE CloseStage(s)
    BY <1>8, <2>0, <2>3 DEF CloseStage, TypeOK
  <2>4. CASE ReturnResults(s)
    BY <1>8, <2>0, <2>4 DEF ReturnResults, TypeOK, rows
  <2>5. ASSUME NEW st \in {"Succeeded", "Warning", "Failed"}, FinishTask(s, st)
        PROVE  Settled' /\ SettleRows
    <3>1. /\ nxt'[s] = nxt[s] + 1 /\ worker'[s] \in {"halt", "ready"} /\ worker[s] = "script" /\ UNCHANGED <<run, pc, stage>>
          /\ \A r \in Stage \ {s} : worker'[r] = worker[r] /\ nxt'[r] = nxt[r]
      BY <2>5 DEF FinishTask, TypeOK
    <3>2. \A t \in Task : task'[t] = task[t] \/ t = <<s, nxt[s]>>
      BY <2>5 DEF FinishTask, TypeOK
    <3>3. \A t \in Task : t = <<s, nxt[s]>> => t[1] = s /\ t[2] >= nxt[s] /\ ~(t[2] >= nxt'[s])
      BY <2>0, <3>1
    <3>4. QED
      BY <1>8, <2>0, <3>1, <3>2, <3>3
  <2>6. QED
    BY <1>9, <2>1, <2>2, <2>3, <2>4, <2>5
<1>10. CASE UNCHANGED vars
  BY <1>10 DEF vars, rows, threads
<1>11. ~ProcessDies /\ \A s \in Stage : ~StageRaises(s)
  BY DEF ProcessDies, StageRaises
<1>12. QED
  BY <1>1, <1>2, <1>3, <1>4, <1>5, <1>6, <1>7, <1>9, <1>10, <1>11, NextCases

\* A row that has ended is not written again, when nothing raises and the run is no restart
\* (_execute_stage and the cancelling of what is left).
THEOREM RowsSettleHolds ==
  ASSUME ~Faults, RestartOrders = {}
  PROVE  Spec => RowsSettle
<1>1. Init => Settling
  <2> SUFFICES ASSUME Init PROVE Settling
    OBVIOUS
  <2>1. Healthy /\ Flags
    BY OutcomeInit DEF OutcomeInv
  <2>2. Settled
    BY DEF Init, Settled, Absent, Final, TasksOf
  <2>3. QED
    BY <2>1, <2>2 DEF Settling
<1>2. Inv /\ Settling /\ [Next]_vars => Settling' /\ SettleRows
  BY SettledStep, HealthyStep, FlagsStep DEF Settling
<1>3. Inv /\ Settling /\ [Next]_vars =>
        [/\ \A s \in Stage : stage[s] \in Final => stage'[s] = stage[s]
         /\ \A t \in Task : task[t] \in Final => task'[t] = task[t]]_vars
  BY <1>2 DEF SettleRows
<1>4. QED
  BY InvInit, Invariance, <1>1, <1>2, <1>3, PTL DEF Spec, RowsSettle

-----------------------------------------------------------------------------
(***************************************************************************)
(* For every poll of the run and every fault: as long as no client writes  *)
(* statuses, a client that sees 100 sees a finished run.                   *)
(***************************************************************************)

\* The run's row only goes forward, and what a request has loaded of it is not ahead of it.
Ahead ==
  /\ run.status \in {Absent, "Running"} \cup Final
  /\ reader # "idle" => /\ sawStatus \in {"Running"} \cup Final
                        /\ sawStatus \in Final => run.status \in Final
  /\ HundredMeansFinal

\* What a step of the run does to its row.
LEMMA RowGoesOn ==
  ASSUME [Next]_vars, PatchStatuses = {}
  PROVE  /\ run.status \in {Absent, "Running"} \cup Final => run'.status \in {Absent, "Running"} \cup Final
         /\ run.status \in Final => run'.status \in Final
<1>1. CASE StartPipelineRun
  BY <1>1 DEF StartPipelineRun, NewRow, Final, Absent
<1>2. ASSUME NEW order \in RestartOrders, RestartFromStage(order)
      PROVE  run'.status = "Running" /\ run.status \notin Final
  BY <1>2 DEF RestartFromStage, Final, Absent
<1>3. CASE ConcludeFailed \/ ConcludePassed
  <2>1. PICK st \in {"Failed", "Warning", "Succeeded"} : Conclude(st)
    BY <1>3 DEF ConcludeFailed, ConcludePassed
  <2>2. run'.status \in {run.status, st}
    BY <2>1 DEF Conclude
  <2>3. QED
    BY <2>2 DEF Final
<1>4. StartBatch \/ JoinPassed \/ CancelRemaining \/ Announce \/ ProcessDies \/ UNCHANGED vars => run' = run
  BY DEF StartBatch, JoinPassed, CancelRemaining, Announce, ProcessDies, vars, rows
<1>5. ASSUME NEW s \in Stage,
             \/ StartTask(s) \/ CancelRestOfStage(s) \/ CloseStage(s) \/ ReturnResults(s) \/ StageRaises(s)
             \/ \E st \in {"Succeeded", "Warning", "Failed"} : FinishTask(s, st)
      PROVE  run' = run
  BY <1>5 DEF StartTask, CancelRestOfStage, CloseStage, ReturnResults, StageRaises, FinishTask, rows
<1>6. QED
  BY <1>1, <1>2, <1>3, <1>4, <1>5, NextCases

\* The cap of 99 on a run in progress.
LEMMA Capped == ASSUME NEW halves PROVE Percentage("Running", halves) # 100
<1> DEFINE pct == Rounded(100 * halves, 2 * TotalWeight)
<1>1. Percentage("Running", halves) = IF pct > 99 THEN 99 ELSE pct
  BY DEF Percentage
<1> HIDE DEF pct
<1>2. QED
  BY <1>1

LEMMA AheadStep ==
  ASSUME Ahead, [ProgressNext]_<<vars, request>>, PatchStatuses = {}
  PROVE  Ahead'
<1> USE DEF Ahead, HundredMeansFinal
<1>1. CASE [Next]_vars /\ UNCHANGED request
  BY <1>1, RowGoesOn DEF request
<1>2. CASE LoadRun /\ UNCHANGED vars
  BY <1>2 DEF LoadRun, vars, rows, Final
<1>3. CASE LoadStages /\ UNCHANGED vars
  BY <1>3 DEF LoadStages, vars, rows
<1>4. CASE LoadTasks /\ UNCHANGED vars
  BY <1>4 DEF LoadTasks, vars, rows
<1>5. CASE Answer /\ UNCHANGED vars
  <2>1. run' = run /\ reader' = "idle" /\ shown' = Percentage(sawStatus, half) /\ reader # "idle"
    BY <1>5 DEF Answer, vars, rows
  <2>2. shown' = 100 => sawStatus # "Running"
    BY <2>1, Capped
  <2>3. QED
    BY <2>1, <2>2
<1>6. QED
  BY <1>1, <1>2, <1>3, <1>4, <1>5 DEF ProgressNext, Request

\* 100 is never shown before the executor has written its verdict, however the loads of an answer fall
\* between the steps of the run, and whatever raises or dies (completion_percentage).
THEOREM HundredHolds ==
  ASSUME PatchStatuses = {}
  PROVE  ProgressSpec => []HundredMeansFinal
<1>1. ProgressInit => Ahead
  BY DEF ProgressInit, Init, NoRow, Ahead, HundredMeansFinal, Final
<1>2. Ahead /\ [ProgressNext]_<<vars, request>> => Ahead'
  BY AheadStep
<1>3. Ahead => HundredMeansFinal
  BY DEF Ahead
<1>4. QED
  BY <1>1, <1>2, <1>3, PTL DEF ProgressSpec

-----------------------------------------------------------------------------
(***************************************************************************)
(* Sums, quotients and the percentage made of them, for every shape and    *)
(* every weight: what is shown is a percentage, and it seldom goes back.   *)
(***************************************************************************)

\* Induction over the subsets of a finite set.
LEMMA Subsets ==
  ASSUME NEW S, IsFiniteSet(S), NEW P, {} \in P,
         \A T \in SUBSET S : T # {} /\ (\A U \in SUBSET T : U # T => U \in P) => T \in P
  PROVE  \A T \in SUBSET S : T \in P
<1> DEFINE B == {T \in SUBSET S : T \notin P}
<1> SUFFICES ASSUME B # {} PROVE FALSE
  OBVIOUS
<1>1. IsWellFoundedOn(StrictSubsetOrdering(S), SUBSET S)
  BY FS_StrictSubsetOrderingWellFounded, FS_FiniteSubsetsOfFinite
<1>2. PICK T \in B : \A U \in B : ~(<<U, T>> \in StrictSubsetOrdering(S))
  BY <1>1, WFMin, Zenon
<1>3. \A U \in SUBSET T : U # T => U \in P
  BY <1>2 DEF StrictSubsetOrdering
<1>4. QED
  BY <1>2, <1>3

\* One of the elements of a set, the one a sum takes first.
First(S) == CHOOSE x \in S : TRUE

\* The sums of f over the subsets of S.
SumTable(f, S, g) == g = [T \in SUBSET S |-> IF T = {} THEN 0 ELSE f[First(T)] + g[T \ {First(T)}]]

LEMMA SumIsTable ==
  ASSUME NEW f, NEW S
  PROVE  SumFunctionOnSet(f, S) = (CHOOSE g : SumTable(f, S, g))[S]
BY DEF SumFunctionOnSet, FoldFunctionOnSet, MapThenFoldSet, SumTable, First

LEMMA TablesAgree ==
  ASSUME NEW f, NEW S, IsFiniteSet(S), NEW A \in SUBSET S, NEW B \in SUBSET S, NEW g, NEW h,
         SumTable(f, A, g), SumTable(f, B, h)
  PROVE  \A T \in SUBSET S : T \subseteq A /\ T \subseteq B => g[T] = h[T]
<1> DEFINE P == {T \in SUBSET S : T \subseteq A /\ T \subseteq B => g[T] = h[T]}
<1>1. {} \in P
  BY DEF SumTable
<1>2. ASSUME NEW T \in SUBSET S, T # {}, \A U \in SUBSET T : U # T => U \in P PROVE T \in P
  <2> SUFFICES ASSUME T \subseteq A, T \subseteq B PROVE g[T] = h[T]
    OBVIOUS
  <2> DEFINE x == First(T)  U == T \ {x}
  <2>1. x \in T
    BY <1>2 DEF First
  <2> HIDE DEF x
  <2>2. g[T] = f[x] + g[U] /\ h[T] = f[x] + h[U]
    BY <1>2 DEF SumTable, x
  <2>3. U \in P
    BY <1>2, <2>1
  <2>4. QED
    BY <2>2, <2>3
<1> HIDE DEF P
<1>3. \A T \in SUBSET S : T \in P
  BY <1>1, <1>2, Subsets
<1>4. QED
  BY <1>3 DEF P

LEMMA TablesExist ==
  ASSUME NEW f, NEW S, IsFiniteSet(S)
  PROVE  \A T \in SUBSET S : \E g : SumTable(f, T, g)
<1> DEFINE P == {T \in SUBSET S : \E g : SumTable(f, T, g)}
<1>1. {} \in P
  <2> DEFINE g == [T \in SUBSET {} |-> 0]
  <2>1. SumTable(f, {}, g)
    BY DEF SumTable
  <2>2. QED
    BY <2>1
<1>2. ASSUME NEW T \in SUBSET S, T # {}, \A U \in SUBSET T : U # T => U \in P PROVE T \in P
  <2> DEFINE Of(U) == CHOOSE g : SumTable(f, U, g)
             Less(U) == U \ {First(U)}
             h == [U \in SUBSET T |-> IF U = {} THEN 0 ELSE f[First(U)] + Of(Less(U))[Less(U)]]
  <2>1. ASSUME NEW U \in SUBSET T, U # {} PROVE Less(U) \in SUBSET T /\ Less(U) # T /\ First(U) \in U
    BY <2>1 DEF First
  <2>2. ASSUME NEW U \in SUBSET T, U # T PROVE SumTable(f, U, Of(U))
    BY <1>2, <2>2
  <2> HIDE DEF Less, Of
  <2>3. ASSUME NEW U \in SUBSET T, U # {} PROVE h[Less(U)] = Of(Less(U))[Less(U)]
    <3> DEFINE V == Less(U)  W == Less(V)
    <3>1. V \in SUBSET T /\ V # T
      BY <2>1, <2>3
    <3> HIDE DEF V
    <3>2. SumTable(f, V, Of(V))
      BY <2>2, <3>1
    <3>3. CASE V = {}
      BY <3>1, <3>2, <3>3 DEF SumTable, V
    <3>4. CASE V # {}
      <4>1. W \in SUBSET T /\ W # T /\ W \in SUBSET V
        BY <2>1, <3>1, <3>4 DEF Less
      <4>2. SumTable(f, W, Of(W))
        BY <2>2, <4>1
      <4>3. V \in SUBSET S /\ W \in SUBSET S /\ W \subseteq W /\ W \subseteq V
        BY <3>1, <4>1
      <4> DEFINE w == Of(W)  v == Of(V)
      <4>4. SumTable(f, W, w) /\ SumTable(f, V, v)
        BY <3>2, <4>2
      <4> HIDE DEF W, w, v
      <4>8. w[W] = v[W]
        BY <4>3, <4>4, TablesAgree
      <4>5. Of(V)[V] = f[First(V)] + Of(V)[W]
        BY <3>2, <3>4 DEF SumTable, Less, W
      <4>6. h[V] = f[First(V)] + Of(W)[W]
        BY <3>1, <3>4 DEF W
      <4>7. QED
        BY <4>5, <4>6, <4>8 DEF V, w, v
    <3>5. QED
      BY <3>3, <3>4
  <2>4. \A U \in SUBSET T : h[U] = IF U = {} THEN 0 ELSE f[First(U)] + h[Less(U)]
    BY <2>3
  <2>5. h = [U \in SUBSET T |-> h[U]]
    OBVIOUS
  <2> HIDE DEF h
  <2>6. SumTable(f, T, h)
    BY <2>4, <2>5 DEF SumTable, Less
  <2>7. QED
    BY <2>6
<1> HIDE DEF P
<1>3. \A T \in SUBSET S : T \in P
  BY <1>1, <1>2, Subsets
<1>4. QED
  BY <1>3 DEF P

LEMMA SumFirst ==
  ASSUME NEW f, NEW S, IsFiniteSet(S)
  PROVE  SumFunctionOnSet(f, S) = IF S = {} THEN 0 ELSE f[First(S)] + SumFunctionOnSet(f, S \ {First(S)})
<1> DEFINE Of(U) == CHOOSE g : SumTable(f, U, g)
           T == S \ {First(S)}
<1>1. SumTable(f, S, Of(S)) /\ SumTable(f, T, Of(T))
  BY TablesExist
<1>2. SumFunctionOnSet(f, S) = Of(S)[S] /\ SumFunctionOnSet(f, T) = Of(T)[T]
  BY SumIsTable
<1> HIDE DEF Of
<1>3. Of(S)[T] = Of(T)[T]
  BY <1>1, TablesAgree
<1>4. Of(S)[S] = IF S = {} THEN 0 ELSE f[First(S)] + Of(S)[T]
  BY <1>1 DEF SumTable
<1>5. QED
  BY <1>2, <1>3, <1>4

LEMMA SumEmpty == \A f : SumFunctionOnSet(f, {}) = 0
<1>1. IsFiniteSet({})
  BY FS_EmptySet
<1>2. QED
  BY <1>1, SumFirst

LEMMA SumType ==
  ASSUME NEW S, IsFiniteSet(S), NEW f, \A x \in S : f[x] \in Nat
  PROVE  SumFunctionOnSet(f, S) \in Nat
<1> DEFINE P == {T \in SUBSET S : SumFunctionOnSet(f, T) \in Nat}
<1>1. {} \in P
  BY SumEmpty
<1>2. ASSUME NEW T \in SUBSET S, T # {}, \A U \in SUBSET T : U # T => U \in P PROVE T \in P
  <2> DEFINE x == First(T)  U == T \ {x}
  <2>1. x \in T
    BY <1>2 DEF First
  <2>2. IsFiniteSet(T)
    BY FS_Subset
  <2>3. SumFunctionOnSet(f, T) = f[x] + SumFunctionOnSet(f, U)
    BY <1>2, <2>2, SumFirst
  <2> HIDE DEF x
  <2>4. SumFunctionOnSet(f, U) \in Nat
    BY <1>2, <2>1
  <2>5. QED
    BY <2>1, <2>3, <2>4
<1> HIDE DEF P
<1>3. \A T \in SUBSET S : T \in P
  BY <1>1, <1>2, Subsets
<1>4. QED
  BY <1>3 DEF P

\* Any element may be taken first.
LEMMA SumAny ==
  ASSUME NEW S, IsFiniteSet(S), NEW f, \A x \in S : f[x] \in Nat
  PROVE  \A x \in S : SumFunctionOnSet(f, S) = f[x] + SumFunctionOnSet(f, S \ {x})
<1> DEFINE Sum(T) == SumFunctionOnSet(f, T)
           P == {T \in SUBSET S : \A x \in T : Sum(T) = f[x] + Sum(T \ {x})}
<1>0. \A T \in SUBSET S : IsFiniteSet(T) /\ Sum(T) \in Nat
  BY FS_Subset, SumType
<1>1. {} \in P
  OBVIOUS
<1>2. ASSUME NEW T \in SUBSET S, T # {}, \A U \in SUBSET T : U # T => U \in P PROVE T \in P
  <2> SUFFICES ASSUME NEW x \in T PROVE Sum(T) = f[x] + Sum(T \ {x})
    OBVIOUS
  <2> DEFINE c == First(T)
  <2>1. c \in T
    BY <1>2 DEF First
  <2>2. Sum(T) = f[c] + Sum(T \ {c})
    BY <1>0, <1>2, SumFirst
  <2> HIDE DEF c, Sum
  <2>3. CASE c = x
    BY <2>2, <2>3
  <2>4. CASE c # x
    <3> DEFINE U == T \ {c}  V == T \ {x}  W == T \ {c, x}
    <3>1. U \in P /\ V \in P /\ x \in U /\ c \in V /\ U \ {x} = W /\ V \ {c} = W
      BY <1>2, <2>1, <2>4
    <3>2. Sum(U) = f[x] + Sum(W) /\ Sum(V) = f[c] + Sum(W)
      BY <3>1
    <3>3. f[x] \in Nat /\ f[c] \in Nat /\ Sum(W) \in Nat
      BY <1>0, <2>1
    <3> HIDE DEF U, V, W
    <3>4. QED
      BY <2>2, <3>2, <3>3 DEF U, V
  <2>5. QED
    BY <2>3, <2>4
<1> HIDE DEF P, Sum
<1>3. \A T \in SUBSET S : T \in P
  BY <1>1, <1>2, Subsets
<1>4. QED
  BY <1>3 DEF P, Sum

\* A sum whose terms are no more than k times those of another one.
LEMMA SumAtMost ==
  ASSUME NEW S, IsFiniteSet(S), NEW f, NEW g, NEW k \in {1, 2},
         \A x \in S : f[x] \in Nat /\ g[x] \in Nat /\ f[x] <= k * g[x]
  PROVE  SumFunctionOnSet(f, S) <= k * SumFunctionOnSet(g, S)
<1> DEFINE F(T) == SumFunctionOnSet(f, T)  G(T) == SumFunctionOnSet(g, T)
           P == {T \in SUBSET S : F(T) <= k * G(T)}
<1>0. \A T \in SUBSET S : IsFiniteSet(T) /\ F(T) \in Nat /\ G(T) \in Nat
  BY FS_Subset, SumType
<1>1. {} \in P
  BY SumEmpty
<1>2. ASSUME NEW T \in SUBSET S, T # {}, \A U \in SUBSET T : U # T => U \in P PROVE T \in P
  <2> DEFINE x == First(T)  U == T \ {x}
  <2>1. x \in T
    BY <1>2 DEF First
  <2>2. F(T) = f[x] + F(U) /\ G(T) = g[x] + G(U)
    BY <1>0, <1>2, SumFirst
  <2> HIDE DEF x, F, G
  <2>3. F(U) <= k * G(U) /\ F(U) \in Nat /\ G(U) \in Nat
    BY <1>0, <1>2, <2>1
  <2>4. f[x] \in Nat /\ g[x] \in Nat /\ f[x] <= k * g[x]
    BY <2>1
  <2> HIDE DEF U
  <2>5. F(T) <= k * G(T)
    <3>1. k = 1 \/ k = 2
      OBVIOUS
    <3>2. QED
      BY <2>2, <2>3, <2>4, <3>1
  <2>6. QED
    BY <2>5
<1> HIDE DEF P, F, G
<1>3. \A T \in SUBSET S : T \in P
  BY <1>1, <1>2, Subsets
<1>4. QED
  BY <1>3 DEF P, F, G

\* Equal terms, equal sums.
LEMMA SumSame ==
  ASSUME NEW S, IsFiniteSet(S), NEW f, NEW g, \A x \in S : f[x] = g[x]
  PROVE  SumFunctionOnSet(f, S) = SumFunctionOnSet(g, S)
<1> DEFINE F(T) == SumFunctionOnSet(f, T)  G(T) == SumFunctionOnSet(g, T)
           P == {T \in SUBSET S : F(T) = G(T)}
<1>0. \A T \in SUBSET S : IsFiniteSet(T)
  BY FS_Subset
<1>1. {} \in P
  BY SumEmpty
<1>2. ASSUME NEW T \in SUBSET S, T # {}, \A U \in SUBSET T : U # T => U \in P PROVE T \in P
  <2> DEFINE x == First(T)  U == T \ {x}
  <2>1. x \in T
    BY <1>2 DEF First
  <2>2. F(T) = f[x] + F(U) /\ G(T) = g[x] + G(U)
    BY <1>0, <1>2, SumFirst
  <2> HIDE DEF x, F, G
  <2>3. F(U) = G(U) /\ f[x] = g[x]
    BY <1>2, <2>1
  <2> HIDE DEF U
  <2>4. QED
    BY <2>2, <2>3
<1> HIDE DEF P, F, G
<1>3. \A T \in SUBSET S : T \in P
  BY <1>1, <1>2, Subsets
<1>4. QED
  BY <1>3 DEF P, F, G

\* A sum over part of a set.
LEMMA SumPart ==
  ASSUME NEW S, IsFiniteSet(S), NEW f, \A x \in S : f[x] \in Nat, NEW T \in SUBSET S
  PROVE  SumFunctionOnSet(f, T) <= SumFunctionOnSet(f, S)
<1> DEFINE F(U) == SumFunctionOnSet(f, U)
           P == {U \in SUBSET S : F(U \cap T) <= F(U)}
<1>0. \A U \in SUBSET S : IsFiniteSet(U) /\ F(U) \in Nat
  BY FS_Subset, SumType
<1>1. {} \in P
  BY SumEmpty
<1>2. ASSUME NEW U \in SUBSET S, U # {}, \A V \in SUBSET U : V # U => V \in P PROVE U \in P
  <2> DEFINE x == First(U)  V == U \ {x}
  <2>1. x \in U /\ V \in P
    BY <1>2 DEF First
  <2>2. F(U) = f[x] + F(V)
    BY <1>0, <1>2, SumFirst
  <2>3. x \in T => F(U \cap T) = f[x] + F((U \cap T) \ {x})
    BY <1>0, <2>1, SumAny
  <2> HIDE DEF x, F
  <2>4. (U \cap T) \ {x} = V \cap T /\ (x \notin T => U \cap T = V \cap T)
    BY <2>1
  <2>5. F(V) \in Nat /\ F(V \cap T) \in Nat /\ f[x] \in Nat
    BY <1>0, <2>1
  <2>6. F(V \cap T) <= F(V)
    BY <2>1
  <2>7. F(U \cap T) <= F(U)
    <3>1. CASE x \in T
      <4>1. F(U \cap T) = f[x] + F(V \cap T)
        BY <2>3, <2>4, <3>1
      <4>2. QED
        BY <2>2, <2>5, <2>6, <4>1
    <3>2. CASE x \notin T
      <4>1. F(U \cap T) = F(V \cap T)
        BY <2>4, <3>2
      <4>2. QED
        BY <2>2, <2>5, <2>6, <4>1
    <3>3. QED
      BY <3>1, <3>2
  <2>8. QED
    BY <2>7
<1> HIDE DEF P, F
<1>3. \A U \in SUBSET S : U \in P
  BY <1>1, <1>2, Subsets
<1>4. S \cap T = T
  OBVIOUS
<1>5. QED
  BY <1>3, <1>4 DEF P, F

-----------------------------------------------------------------------------
LEMMA Quotient ==
  ASSUME NEW n \in Nat, NEW d \in Nat \ {0}
  PROVE  n \div d \in Nat /\ d * (n \div d) <= n /\ n < d * (n \div d) + d
<1>1. n \div d \in Int /\ n \div d >= 0
  OBVIOUS
<1>2. d * (n \div d) <= n
  OBVIOUS
<1>3. n < d * (n \div d) + d
  OBVIOUS
<1>4. QED
  BY <1>1, <1>2, <1>3

LEMMA Times == \A d \in Nat \ {0}, a \in Nat, b \in Nat : a < b => d * a + d <= d * b
OBVIOUS

LEMMA RoundedGrows ==
  ASSUME NEW n \in Nat, NEW m \in Nat, NEW d \in Nat \ {0}, n <= m
  PROVE  Rounded(n, d) \in Nat /\ Rounded(n, d) <= Rounded(m, d)
<1> DEFINE q == n \div d  q2 == m \div d  x == d * q  y == d * q2
<1>1. /\ q \in Nat /\ x \in Int /\ x <= n /\ n < x + d
      /\ q2 \in Nat /\ y \in Int /\ y <= m /\ m < y + d
  BY Quotient
<1>2. Rounded(n, d) = (IF 2 * (n - x) > d \/ (2 * (n - x) = d /\ q % 2 = 1) THEN q + 1 ELSE q)
      /\ Rounded(m, d) = (IF 2 * (m - y) > d \/ (2 * (m - y) = d /\ q2 % 2 = 1) THEN q2 + 1 ELSE q2)
  BY DEF Rounded
<1> HIDE DEF q, q2
<1>3. (q2 < q => y + d <= x) /\ (q = q2 => x = y)
  BY <1>1, Times
<1> HIDE DEF x, y
<1>4. ~(q2 < q)
  BY <1>1, <1>3
<1>5. CASE q < q2
  BY <1>1, <1>2, <1>5
<1>6. CASE q = q2
  <2>1. 2 * (n - x) <= 2 * (m - y) /\ 2 * (n - x) \in Int /\ 2 * (m - y) \in Int
    BY <1>1, <1>3, <1>6
  <2>2. QED
    BY <1>1, <1>2, <1>6, <2>1
<1>7. QED
  BY <1>1, <1>4, <1>5, <1>6

LEMMA Whole == ASSUME NEW d \in Nat \ {0} PROVE Rounded(100 * d, d) = 100
<1> DEFINE q == (100 * d) \div d
<1>1. q \in Nat /\ d * q <= 100 * d /\ 100 * d < d * q + d
  BY Quotient
<1> HIDE DEF q
<1>2. q = 100
  <2>1. q < 100 => d * q + d <= d * 100
    BY <1>1, Times
  <2>2. 100 < q => d * 100 + d <= d * q
    BY <1>1, Times
  <2>3. QED
    BY <1>1, <2>1, <2>2
<1>3. QED
  BY <1>2 DEF Rounded, q

-----------------------------------------------------------------------------
(* The sums of an answer.                                                  *)

\* How much stage s counts for, when its tasks have these statuses and it has that one.
HalvesBy(held, s, status) ==
  IF TasksOf(s) = {} THEN Halves(status)
  ELSE SumFunctionOnSet([t \in TasksOf(s) |-> Weight(t) * Halves(held[t])], TasksOf(s))

LEMMA HalvesValue ==
  /\ \A status : Halves(status) \in {0, 1, 2}
  /\ Halves("Pending") = 0 /\ Halves("Cancelled") = 0 /\ Halves(Absent) = 0
  /\ Halves("Running") = 1 /\ Halves("Failed") = 1 /\ Halves("Succeeded") = 2 /\ Halves("Warning") = 2
<1>1. ASSUME NEW status PROVE Halves(status) \in {0, 1, 2}
  <2>1. CASE status \in {"Succeeded", "Warning"}
    BY <2>1 DEF Halves
  <2>2. CASE status \in {"Running", "Failed"}
    BY <2>2 DEF Halves
  <2>3. CASE status \notin {"Succeeded", "Warning", "Running", "Failed"}
    BY <2>3 DEF Halves
  <2>4. QED
    BY <2>1, <2>2, <2>3
<1>2. QED
  BY <1>1 DEF Halves, Absent

LEMMA Weights == \A t \in Task : Weight(t) \in Nat /\ Weight(t) >= 1
BY CodeAssumption DEF Weight

\* Weighted halves.
LEMMA Scaled ==
  ASSUME NEW w \in Nat, NEW h \in {0, 1, 2}, NEW k \in {0, 1, 2}, h <= k
  PROVE  w * h \in Nat /\ w * h <= 1 * (w * k) /\ w * h <= 2 * w
<1>1. (h = 0 \/ h = 1 \/ h = 2) /\ (k = 0 \/ k = 1 \/ k = 2)
  OBVIOUS
<1>2. QED
  BY <1>1

LEMMA FiniteTasks == \A s : IsFiniteSet(TasksOf(s))
<1>1. IsFiniteSet(Stage) /\ IsFiniteSet(1..MaxTasks)
  BY FS_Interval, ShapeAssumption DEF Stage
<1>2. IsFiniteSet(Stage \X (1..MaxTasks))
  BY <1>1, FS_Product
<1>3. ASSUME NEW s PROVE TasksOf(s) \in SUBSET (Stage \X (1..MaxTasks))
  BY DEF TasksOf, Task
<1>4. QED
  BY <1>2, <1>3, FS_Subset

\* A stage counts for a part of twice its weight, and for more the further its rows are.
LEMMA HalvesBounded ==
  ASSUME NEW s, NEW held, NEW status
  PROVE  /\ WeightOf(s) \in Nat /\ WeightOf(s) >= 1
         /\ HalvesBy(held, s, status) \in Nat /\ HalvesBy(held, s, status) <= 2 * WeightOf(s)
<1>1. CASE TasksOf(s) = {}
  BY <1>1, HalvesValue DEF WeightOf, HalvesBy
<1>2. CASE TasksOf(s) # {}
  <2> DEFINE S == TasksOf(s)
             w == [t \in S |-> Weight(t)]
             h == [t \in S |-> Weight(t) * Halves(held[t])]
  <2>1. IsFiniteSet(S) /\ S \subseteq Task
    BY FiniteTasks DEF TasksOf
  <2>2. \A t \in S : w[t] \in Nat /\ w[t] >= 1
    BY <2>1, Weights
  <2>3. \A t \in S : h[t] \in Nat /\ h[t] <= 2 * w[t]
    BY <2>1, Weights, HalvesValue, Scaled
  <2>4. WeightOf(s) = SumFunctionOnSet(w, S)
    BY <1>2 DEF WeightOf, SumFunction
  <2>5. HalvesBy(held, s, status) = SumFunctionOnSet(h, S)
    BY <1>2 DEF HalvesBy
  <2> HIDE DEF w, h
  <2>6. PICK t \in S : TRUE
    BY <1>2
  <2>7. SumFunctionOnSet(w, S) = w[t] + SumFunctionOnSet(w, S \ {t})
    BY <2>1, <2>2, SumAny
  <2>8. IsFiniteSet(S \ {t}) /\ \A u \in S \ {t} : w[u] \in Nat
    BY <2>1, <2>2, FS_Subset
  <2>9. SumFunctionOnSet(w, S \ {t}) \in Nat
    BY <2>8, SumType
  <2>10. SumFunctionOnSet(h, S) \in Nat
    BY <2>1, <2>3, SumType
  <2>11. SumFunctionOnSet(h, S) <= 2 * SumFunctionOnSet(w, S)
    BY <2>1, <2>2, <2>3, SumAtMost
  <2>12. QED
    BY <2>2, <2>4, <2>5, <2>7, <2>9, <2>10, <2>11
<1>3. QED
  BY <1>1, <1>2

LEMMA HalvesGrow ==
  ASSUME NEW s, NEW held, NEW later, NEW status, NEW next,
         \A t \in Task : Halves(held[t]) <= Halves(later[t]), Halves(status) <= Halves(next)
  PROVE  HalvesBy(held, s, status) <= HalvesBy(later, s, next)
<1>1. CASE TasksOf(s) = {}
  BY <1>1 DEF HalvesBy
<1>2. CASE TasksOf(s) # {}
  <2> DEFINE S == TasksOf(s)
             g == [t \in S |-> Weight(t) * Halves(held[t])]
             h == [t \in S |-> Weight(t) * Halves(later[t])]
  <2>1. IsFiniteSet(S) /\ S \subseteq Task
    BY FiniteTasks DEF TasksOf
  <2>2. \A t \in S : g[t] \in Nat /\ h[t] \in Nat /\ g[t] <= 1 * h[t]
    BY <2>1, Weights, HalvesValue, Scaled
  <2>3. HalvesBy(held, s, status) = SumFunctionOnSet(g, S) /\ HalvesBy(later, s, next) = SumFunctionOnSet(h, S)
    BY <1>2 DEF HalvesBy
  <2> HIDE DEF g, h
  <2>4. SumFunctionOnSet(g, S) \in Nat /\ SumFunctionOnSet(h, S) \in Nat
    BY <2>1, <2>2, SumType
  <2>5. SumFunctionOnSet(g, S) <= 1 * SumFunctionOnSet(h, S)
    BY <2>1, <2>2, SumAtMost
  <2>6. QED
    BY <2>3, <2>4, <2>5
<1>3. QED
  BY <1>1, <1>2

\* Sums over the stages a to b.
Span(f, a, b) == SumFunctionOnSet(f, a..b)

Counts(held, statuses) == [s \in Stage |-> HalvesBy(held, s, statuses[s])]
AllWeights == [s \in Stage |-> WeightOf(s)]

Counting(f) == \A s \in Stage : f[s] \in Nat /\ f[s] <= 2 * AllWeights[s]

LEMMA CountsCount == ASSUME NEW held, NEW statuses PROVE Counting(Counts(held, statuses))
BY HalvesBounded DEF Counting, Counts, AllWeights

LEMMA Spans ==
  ASSUME NEW a \in Nat, NEW b \in Nat, a >= 1, b <= NStages
  PROVE  /\ a..b \in SUBSET Stage /\ IsFiniteSet(a..b) /\ IsFiniteSet(Stage) /\ Stage = 1..NStages
         /\ Span(AllWeights, a, b) \in Nat /\ Span(AllWeights, a, b) <= TotalWeight /\ TotalWeight \in Nat
<1>1. a..b \in SUBSET Stage /\ IsFiniteSet(a..b) /\ IsFiniteSet(Stage) /\ Stage = 1..NStages
  BY ShapeAssumption, FS_Interval DEF Stage
<1>2. \A s \in Stage : AllWeights[s] \in Nat
  BY HalvesBounded DEF AllWeights
<1>3. \A s \in a..b : AllWeights[s] \in Nat
  BY <1>1, <1>2
<1>4. TotalWeight = SumFunctionOnSet(AllWeights, Stage)
  BY DEF TotalWeight, SumFunction, AllWeights
<1>5. Span(AllWeights, a, b) \in Nat /\ TotalWeight \in Nat
  BY <1>1, <1>2, <1>3, <1>4, SumType DEF Span
<1>6. Span(AllWeights, a, b) <= TotalWeight
  BY <1>1, <1>2, <1>4, SumPart DEF Span
<1>7. QED
  BY <1>1, <1>5, <1>6

LEMMA TotalPositive == NStages > 0 => TotalWeight >= 1
<1> SUFFICES ASSUME NStages > 0 PROVE TotalWeight >= 1
  OBVIOUS
<1>1. 1 \in Stage /\ IsFiniteSet(Stage)
  BY ShapeAssumption, FS_Interval DEF Stage
<1>2. \A s \in Stage : AllWeights[s] \in Nat /\ AllWeights[s] >= 1
  BY HalvesBounded DEF AllWeights
<1>3. TotalWeight = SumFunctionOnSet(AllWeights, Stage)
  BY DEF TotalWeight, SumFunction, AllWeights
<1>4. SumFunctionOnSet(AllWeights, Stage) = AllWeights[1] + SumFunctionOnSet(AllWeights, Stage \ {1})
  BY <1>1, <1>2, SumAny
<1>5. IsFiniteSet(Stage \ {1}) /\ \A s \in Stage \ {1} : AllWeights[s] \in Nat
  BY <1>1, <1>2, FS_Subset
<1>6. SumFunctionOnSet(AllWeights, Stage \ {1}) \in Nat
  BY <1>5, SumType
<1>7. QED
  BY <1>1, <1>2, <1>3, <1>4, <1>6

LEMMA SpanBounds ==
  ASSUME NEW a \in Nat, NEW b \in Nat, a >= 1, b <= NStages, NEW f, Counting(f)
  PROVE  Span(f, a, b) \in Nat /\ Span(f, a, b) <= 2 * Span(AllWeights, a, b)
<1>1. a..b \in SUBSET Stage /\ IsFiniteSet(a..b)
  BY Spans
<1>2. \A s \in a..b : f[s] \in Nat /\ AllWeights[s] \in Nat /\ f[s] <= 2 * AllWeights[s]
  BY <1>1, HalvesBounded DEF Counting, AllWeights
<1>3. QED
  BY <1>1, <1>2, SumType, SumAtMost DEF Span

LEMMA SpanGrows ==
  ASSUME NEW a \in Nat, NEW b \in Nat, a >= 1, b <= NStages, NEW f, Counting(f), NEW g, Counting(g),
         \A s \in Stage : f[s] <= g[s]
  PROVE  Span(f, a, b) <= Span(g, a, b)
<1>1. a..b \in SUBSET Stage /\ IsFiniteSet(a..b)
  BY Spans
<1>2. \A s \in a..b : f[s] \in Nat /\ g[s] \in Nat /\ f[s] <= 1 * g[s]
  BY <1>1 DEF Counting
<1>3. Span(f, a, b) <= 1 * Span(g, a, b)
  BY <1>1, <1>2, SumAtMost DEF Span
<1>4. QED
  BY <1>3, SpanBounds

\* One stage more at either end.
LEMMA SpanEnds ==
  ASSUME NEW a \in Nat, NEW b \in Nat, a >= 1, b <= NStages, a <= b, NEW f, \A s \in Stage : f[s] \in Nat
  PROVE  Span(f, a, b) = f[a] + Span(f, a + 1, b) /\ Span(f, a, b) = Span(f, a, b - 1) + f[b]
<1>1. a..b \in SUBSET Stage /\ IsFiniteSet(a..b)
  BY Spans
<1>2. (a..b) \ {a} = (a + 1)..b /\ (a..b) \ {b} = a..(b - 1) /\ a \in a..b /\ b \in a..b
  OBVIOUS
<1>3. Span(f, a, b) = f[a] + Span(f, a + 1, b) /\ Span(f, a, b) = f[b] + Span(f, a, b - 1)
  BY <1>1, <1>2, SumAny DEF Span
<1>4. f[b] \in Nat
  BY <1>1, <1>2
<1>5. Span(f, a, b - 1) \in Nat
  <2>1. a..(b - 1) \in SUBSET Stage /\ IsFiniteSet(a..(b - 1))
    BY <1>1, FS_Interval
  <2>2. QED
    BY <2>1, SumType DEF Span
<1>6. QED
  BY <1>3, <1>4, <1>5

LEMMA SpanNone == \A f, a, b : a \in Int /\ b \in Int /\ b < a => Span(f, a, b) = 0
<1>1. \A a, b \in Int : b < a => a..b = {}
  OBVIOUS
<1>2. QED
  BY <1>1, SumEmpty DEF Span

\* The percentage grows with what is counted and with the run's end, and is one if that is a part.
LEMMA PercentageGrows ==
  ASSUME NStages > 0, NEW st, NEW end, end = "Running" => st = "Running",
         NEW n \in Nat, NEW m \in Nat, n <= m
  PROVE  /\ Percentage(st, n) \in Nat /\ Percentage(st, n) <= Percentage(end, m)
         /\ n <= 2 * TotalWeight => Percentage(st, n) \in 0..100
<1>1. TotalWeight \in Nat /\ TotalWeight >= 1
  BY Spans, TotalPositive, ShapeAssumption
<1> DEFINE d == 2 * TotalWeight
           p == Rounded(100 * n, d)  q == Rounded(100 * m, d)
<1>2. /\ d \in Nat \ {0} /\ 100 * n \in Nat /\ 100 * m \in Nat /\ 100 * d \in Nat
      /\ 100 * n <= 100 * m /\ (n <= d => 100 * n <= 100 * d)
  BY <1>1
<1> HIDE DEF d
<1>3. p \in Nat /\ p <= q
  BY <1>2, RoundedGrows
<1>4. q \in Nat
  BY <1>2, RoundedGrows
<1>5. n <= d => p <= 100
  <2>1. n <= d => p <= Rounded(100 * d, d)
    BY <1>2, RoundedGrows
  <2>2. Rounded(100 * d, d) = 100
    BY <1>2, Whole
  <2>3. QED
    BY <2>1, <2>2
<1>6. Percentage(st, n) = (IF st = "Running" /\ p > 99 THEN 99 ELSE p)
      /\ Percentage(end, m) = (IF end = "Running" /\ q > 99 THEN 99 ELSE q)
      /\ d = 2 * TotalWeight
  BY DEF Percentage, d
<1> HIDE DEF p, q
<1>7. QED
  BY <1>3, <1>4, <1>5, <1>6

-----------------------------------------------------------------------------
(* What an answer is made of.                                              *)

LEMMA HalvesAre == ASSUME NEW s, NEW status PROVE HalvesOf(s, status) = HalvesBy(task, s, status)
BY DEF HalvesOf, HalvesBy, SumFunction

\* The sum so far is a part of twice the weight of the stages it covers.
ProgressInv ==
  /\ ProgressTypeOK
  /\ half <= 2 * Span(AllWeights, 1, atStage - 1)
  /\ reader = "tasks" => NStages > 0

LEMMA ProgressInvInit == ProgressInit => ProgressInv
<1> SUFFICES ASSUME ProgressInit PROVE ProgressInv
  OBVIOUS
<1>1. /\ reader = "idle" /\ sawStatus = Absent /\ sawStages = [s \in Stage |-> Absent]
      /\ atStage = 1 /\ half = 0 /\ shown = 0
  BY DEF ProgressInit
<1>2. TotalWeight \in Nat /\ 1 \in 1..(NStages + 1)
  BY Spans, ShapeAssumption
<1>3. Span(AllWeights, 1, 0) = 0
  BY SpanNone
<1>4. ProgressTypeOK
  BY <1>1, <1>2 DEF ProgressTypeOK
<1>5. QED
  BY <1>1, <1>3, <1>4 DEF ProgressInv

LEMMA ProgressInvStep ==
  ASSUME TypeOK, ProgressInv, [ProgressNext]_<<vars, request>>
  PROVE  ProgressInv'
<1>0. NStages \in Nat /\ TotalWeight \in Nat
  BY Spans, ShapeAssumption
<1>1. CASE UNCHANGED request
  BY <1>1 DEF request, ProgressInv, ProgressTypeOK
<1>2. CASE LoadRun /\ UNCHANGED vars
  <2>1. /\ reader' \in {"idle", "stages"} /\ sawStatus' \in Status \cup {Absent} /\ shown' \in 0..100
        /\ UNCHANGED <<sawStages, atStage, half>>
    BY <1>2 DEF LoadRun, TypeOK, Row, ProgressInv, ProgressTypeOK
  <2>2. QED
    BY <2>1 DEF ProgressInv, ProgressTypeOK
<1>3. CASE LoadStages /\ UNCHANGED vars
  <2>1. /\ sawStages' \in [Stage -> Status \cup {Absent}] /\ atStage' = 1 /\ half' = 0
        /\ reader' \in {"idle", "tasks"} /\ shown' \in 0..100 /\ (reader' = "tasks" => NStages > 0)
        /\ UNCHANGED sawStatus
    BY <1>0, <1>3 DEF LoadStages, TypeOK, ProgressInv, ProgressTypeOK
  <2>2. Span(AllWeights, 1, 0) = 0
    BY SpanNone
  <2>3. ProgressTypeOK'
    BY <1>0, <2>1 DEF ProgressInv, ProgressTypeOK
  <2>4. QED
    BY <2>1, <2>2, <2>3 DEF ProgressInv
<1>4. CASE LoadTasks /\ UNCHANGED vars
  <2> DEFINE s == atStage  h == HalvesOf(s, sawStages[s])  w == WeightOf(s)
             sofar == Span(AllWeights, 1, s - 1)  all == Span(AllWeights, 1, s)
  <2>1. /\ s \in Stage /\ s \in Nat /\ 1 <= s /\ s <= NStages
        /\ half' = half + h /\ atStage' = s + 1 /\ UNCHANGED <<reader, sawStatus, sawStages, shown>>
    BY <1>0, <1>4 DEF LoadTasks, ProgressInv, ProgressTypeOK, Stage
  <2>2. h \in Nat /\ h <= 2 * w /\ w \in Nat
    BY HalvesAre, HalvesBounded
  <2>3. all = sofar + w
    <3>1. \A r \in Stage : AllWeights[r] \in Nat
      BY HalvesBounded DEF AllWeights
    <3>2. all = sofar + AllWeights[s]
      BY <2>1, <3>1, SpanEnds
    <3>3. QED
      BY <2>1, <3>2 DEF AllWeights
  <2>4. all \in Nat /\ all <= TotalWeight
    BY <2>1, Spans
  <2>5. half \in Nat /\ half <= 2 * sofar /\ sofar \in Nat
    <3>1. sofar \in Nat
      BY <1>0, <2>1, Spans
    <3>2. QED
      BY <3>1 DEF ProgressInv, ProgressTypeOK
  <2> HIDE DEF h, w, sofar
  <2>6. half' \in Nat /\ half' <= 2 * all
    BY <2>1, <2>2, <2>3, <2>4, <2>5
  <2>7. half' \in 0..(2 * TotalWeight)
    BY <1>0, <2>4, <2>6
  <2>8. atStage' \in 1..(NStages + 1) /\ atStage' - 1 = s
    BY <1>0, <2>1
  <2>9. ProgressTypeOK'
    BY <2>1, <2>7, <2>8 DEF ProgressInv, ProgressTypeOK
  <2>10. QED
    BY <2>1, <2>6, <2>8, <2>9 DEF ProgressInv
<1>5. CASE Answer /\ UNCHANGED vars
  <2>1. /\ reader' = "idle" /\ shown' = Percentage(sawStatus, half) /\ NStages > 0
        /\ half \in Nat /\ half <= 2 * TotalWeight /\ UNCHANGED <<sawStatus, sawStages, atStage, half>>
    BY <1>0, <1>5 DEF Answer, ProgressInv, ProgressTypeOK
  <2>2. Percentage(sawStatus, half) \in 0..100
    BY <2>1, PercentageGrows
  <2>3. QED
    BY <2>1, <2>2 DEF ProgressInv, ProgressTypeOK
<1>6. QED
  BY <1>1, <1>2, <1>3, <1>4, <1>5 DEF ProgressNext, Request

\* However the loads of an answer fall between the steps of the run, the sum of what its tasks have done
\* never exceeds the weight of the pipeline, and the percentage is one: from 0 to 100 (completion_percentage).
THEOREM ProgressTypeCorrect == ProgressSpec => []ProgressTypeOK
<1>1. ProgressInit => Inv /\ ProgressInv
  BY InvInit, ProgressInvInit DEF ProgressInit
<1>2. Inv /\ ProgressInv /\ [ProgressNext]_<<vars, request>> => (Inv /\ ProgressInv)'
  <2>1. ProgressNext \/ UNCHANGED <<vars, request>> => [Next]_vars
    BY DEF ProgressNext
  <2>2. Inv /\ [Next]_vars => Inv'
    BY TypeStep, ControlStep, StageStep, TaskStep, FailureStep DEF Inv
  <2>3. Inv => TypeOK
    BY DEF Inv
  <2>4. QED
    BY <2>1, <2>2, <2>3, ProgressInvStep
<1>3. ProgressInv => ProgressTypeOK
  BY DEF ProgressInv
<1>4. QED
  BY <1>1, <1>2, <1>3, PTL DEF ProgressSpec

-----------------------------------------------------------------------------
(* Where the rows of a run only go forward.                                *)

\* A task at or after the one its stage's call is at has not counted for more than having begun,
\* and a stage that is not called yet for nothing.
Begun(t) ==
  IF t[2] = nxt[t[1]] /\ worker[t[1]] \in {"script", "raised", "dead"} THEN 1 ELSE 0

Unreached ==
  /\ \A s \in Stage : worker[s] = "idle" => stage[s] # "Succeeded"
  /\ \A t \in Task : t[2] >= nxt[t[1]] => Halves(task[t]) <= Begun(t)

\* What the run's row says about the executor.
RowAhead ==
  /\ Live => run.status = "Running"
  /\ run.status \in {Absent, "Running"} \cup Final
  /\ NStages = 0 => run.status \in {Absent, "Succeeded"} /\ pc = "idle"

Onwards ==
  /\ \A t \in Task : Halves(task[t]) <= Halves(task'[t])
  /\ \A s \in Stage : Halves(stage[s]) <= Halves(stage'[s])

\* What the rows count for now.
AllCounted == Span(Counts(task, stage), 1, NStages)

EndedWell == run.status \in {"Succeeded", "Warning"}

\* What a request still has to count keeps its answer from going below the last one, and
\* what it has counted keeps the next one from going below it.
Tracks ==
  /\ run.status = Absent => shown = 0 /\ reader = "idle"
  /\ NStages = 0 => reader = "idle"
  /\ reader = "idle" /\ NStages > 0 => EndedWell \/ shown <= Percentage(run.status, AllCounted)
  /\ reader # "idle" =>
       /\ sawStatus \in {"Running", "Failed", "Cancelled"}
       /\ sawStatus # "Running" => run.status \in Final
  /\ reader = "stages" => shown <= Percentage(sawStatus, AllCounted)
  /\ reader = "tasks" =>
       /\ half <= Span(Counts(task, stage), 1, atStage - 1)
       /\ shown <= Percentage(sawStatus, half + Span(Counts(task, sawStages), atStage, NStages))
       /\ \A s \in Stage : Halves(sawStages[s]) <= Halves(stage[s])

TracksUnlessCancelled == Tracks \/ CancelledAfterRaise

\* Tasks of a stage that is not called yet count for nothing, and neither does the stage.
LEMMA NothingYet ==
  ASSUME Inv, Unreached, NEW s \in Stage, worker[s] = "idle"
  PROVE  /\ nxt[s] = 1 /\ stage[s] \in {Absent, "Pending", "Cancelled"} /\ Halves(stage[s]) = 0
         /\ \A t \in Task : t[1] = s => t[2] >= nxt[s] /\ Halves(task[t]) = 0
<1>1. nxt[s] = 1 /\ stage[s] \in {Absent, "Pending", "Cancelled"}
  BY DEF Inv, StageInv, Unreached
<1>2. Halves(stage[s]) = 0
  BY <1>1, HalvesValue
<1>3. ASSUME NEW t \in Task, t[1] = s
      PROVE  t[2] >= nxt[s] /\ Halves(task[t]) = 0
  <2>1. t[2] >= nxt[s]
    BY <1>1, <1>3, TaskPairs
  <2>2. Begun(t) = 0
    BY <1>3 DEF Begun
  <2>3. Halves(task[t]) <= 0
    BY <1>3, <2>1, <2>2 DEF Unreached
  <2>4. QED
    BY <2>1, <2>3, HalvesValue
<1>4. QED
  BY <1>1, <1>2, <1>3

\* A step of one stage's call: what it has to be shown of it.
LEMMA WorkerOnwards ==
  ASSUME Inv, Unreached, NEW s \in Stage, worker[s] # "idle", worker'[s] # "idle",
         \A r \in Stage \ {s} : worker'[r] = worker[r] /\ nxt'[r] = nxt[r] /\ stage'[r] = stage[r],
         Halves(stage[s]) <= Halves(stage'[s]),
         \A t \in Task : t[1] # s => task'[t] = task[t],
         \A t \in Task : t[1] = s =>
           /\ Halves(task[t]) <= Halves(task'[t])
           /\ t[2] >= nxt'[s] => Halves(task'[t]) <= Begun(t)'
  PROVE  Unreached' /\ Onwards
<1>1. \A r \in Stage : worker'[r] = "idle" => stage'[r] # "Succeeded"
  BY DEF Unreached
<1>2. ASSUME NEW t \in Task, t[2] >= nxt'[t[1]]
      PROVE  Halves(task'[t]) <= Begun(t)'
  <2>1. CASE t[1] = s
    BY <1>2, <2>1
  <2>2. CASE t[1] # s
    <3>1. t[1] \in Stage \ {s}
      BY <2>2, TaskPairs
    <3>2. Begun(t)' = Begun(t)
      BY <3>1 DEF Begun
    <3>3. QED
      BY <1>2, <2>2, <3>1, <3>2 DEF Unreached
  <2>3. QED
    BY <2>1, <2>2
<1>3. Unreached'
  BY <1>1, <1>2 DEF Unreached
<1>4. \A t \in Task : Halves(task[t]) <= Halves(task'[t])
  <2>1. \A t \in Task : Halves(task[t]) <= Halves(task[t])
    BY HalvesValue
  <2>2. QED
    BY <2>1
<1>5. \A r \in Stage : Halves(stage[r]) <= Halves(stage'[r])
  <2>1. \A r \in Stage : Halves(stage[r]) <= Halves(stage[r])
    BY HalvesValue
  <2>2. QED
    BY <2>1
<1>6. QED
  BY <1>3, <1>4, <1>5 DEF Onwards

LEMMA SameRows ==
  ASSUME Unreached, stage' = stage, task' = task, nxt' = nxt,
         \A s \in Stage : worker'[s] = worker[s] \/ (worker[s] # "idle" /\ worker'[s] \in {"raised", "dead"})
  PROVE  Unreached' /\ Onwards
<1>1. \A r \in Stage : worker'[r] = "idle" => stage'[r] # "Succeeded"
  BY DEF Unreached
<1>2. ASSUME NEW t \in Task, t[2] >= nxt'[t[1]]
      PROVE  Halves(task'[t]) <= Begun(t)'
  <2>1. t[1] \in Stage
    BY TaskPairs
  <2>2. Halves(task[t]) <= Begun(t)
    BY <1>2 DEF Unreached
  <2>3. Begun(t) \in {0, 1} /\ Begun(t)' \in {0, 1} /\ Begun(t) <= Begun(t)'
    BY <2>1 DEF Begun
  <2>4. QED
    BY <2>2, <2>3, HalvesValue
<1>3. (\A t \in Task : Halves(task[t]) <= Halves(task[t])) /\ \A s \in Stage : Halves(stage[s]) <= Halves(stage[s])
  BY HalvesValue
<1>4. QED
  BY <1>1, <1>2, <1>3 DEF Unreached, Onwards

LEMMA OnwardsStep ==
  ASSUME Inv, Unreached, [Next]_vars, RestartOrders = {}
  PROVE  Unreached' /\ (Onwards \/ CancelledAfterRaise')
<1>0. TypeOK /\ ControlInv /\ StageInv
  BY DEF Inv
<1>1. CASE StartPipelineRun
  <2>1. /\ stage' = [s \in Stage |-> "Pending"] /\ task' = [t \in Task |-> "Pending"]
        /\ \A s \in Stage : worker[s] = "idle"
    BY <1>0, <1>1, ShapeAssumption DEF StartPipelineRun, ControlInv, Stage
  <2>2. \A t \in Task : Halves(task[t]) = 0 /\ t[1] \in Stage
    BY <2>1, NothingYet, TaskPairs
  <2>3. \A s \in Stage : Halves(stage[s]) = 0
    BY <2>1, NothingYet
  <2>4. Onwards
    BY <2>1, <2>2, <2>3, HalvesValue DEF Onwards
  <2>5. \A t \in Task : Begun(t)' \in {0, 1} /\ Halves(task'[t]) = 0
    BY <2>1, HalvesValue DEF Begun
  <2>6. Unreached'
    BY <2>1, <2>5 DEF Unreached
  <2>7. QED
    BY <2>4, <2>6
<1>2. ASSUME NEW new \in PatchStatuses, UpdateRunStatus(new)
      PROVE  Unreached' /\ Onwards
  BY <1>2, SameRows DEF UpdateRunStatus, threads
<1>3. CASE StartBatch
  <2>1. /\ pc = "batch" /\ task' = task /\ nxt' = nxt
        /\ \A s \in Stage : /\ stage'[s] = IF s \in Batch(cur) THEN "Running" ELSE stage[s]
                            /\ worker'[s] = IF s \in Batch(cur) THEN "ready" ELSE worker[s]
    BY <1>3 DEF StartBatch
  <2>2. \A s \in Batch(cur) : s \in Stage /\ worker[s] = "idle"
    BY <1>0, <2>1 DEF ControlInv, Batch
  <2>3. \A s \in Stage : Halves(stage[s]) <= Halves(stage'[s])
    BY <2>1, <2>2, NothingYet, HalvesValue
  <2>4. \A t \in Task : Halves(task[t]) <= Halves(task'[t])
    BY <2>1, HalvesValue
  <2>5. \A s \in Stage : worker'[s] = "idle" => stage'[s] # "Succeeded"
    BY <2>1 DEF Unreached
  <2>6. ASSUME NEW t \in Task, t[2] >= nxt'[t[1]]
        PROVE  Halves(task'[t]) <= Begun(t)'
    <3>1. t[1] \in Stage /\ Halves(task[t]) <= Begun(t)
      BY <2>1, <2>6, TaskPairs DEF Unreached
    <3>2. Begun(t)' = Begun(t)
      BY <2>1, <2>2, <3>1 DEF Begun
    <3>3. QED
      BY <2>1, <3>1, <3>2
  <2>7. QED
    BY <2>3, <2>4, <2>5, <2>6 DEF Unreached, Onwards
<1>4. CASE CancelRemaining
  <2> DEFINE rest == {s \in Stage \ Batch(cur) : stage[s] \notin Final}
  <2>1. /\ UNCHANGED <<worker, nxt>>
        /\ \A s \in Stage : stage'[s] = IF s \in rest THEN "Cancelled" ELSE stage[s]
        /\ \A t \in Task : task'[t] = IF t[1] \in rest THEN "Cancelled" ELSE task[t]
    BY <1>4 DEF CancelRemaining
  <2>2. \A s \in rest : worker[s] \in {"idle", "raised"}
    BY <1>0 DEF ControlInv, StageInv, StageVerdict, Final, TypeOK, Stage
  <2> HIDE DEF rest
  <2>3. rest \in SUBSET Stage
    BY DEF rest
  <2>4. Unreached'
    <3>1. \A s \in Stage : worker'[s] = "idle" => stage'[s] # "Succeeded"
      BY <2>1 DEF Unreached
    <3>2. ASSUME NEW t \in Task, t[2] >= nxt'[t[1]]
          PROVE  Halves(task'[t]) <= Begun(t)'
      <4>1. Begun(t)' = Begun(t) /\ Begun(t) \in {0, 1}
        BY <2>1 DEF Begun
      <4>2. Halves(task[t]) <= Begun(t)
        BY <2>1, <3>2 DEF Unreached
      <4>3. QED
        BY <2>1, <4>1, <4>2, HalvesValue
    <3>3. QED
      BY <3>1, <3>2 DEF Unreached
  <2>5. CASE \E s \in rest : worker[s] = "raised"
    BY <2>1, <2>3, <2>4, <2>5 DEF CancelledAfterRaise
  <2>6. CASE \A s \in rest : worker[s] = "idle"
    <3>1. \A s \in rest : Halves(stage[s]) = 0
      BY <2>3, <2>6, NothingYet
    <3>2. \A t \in Task : t[1] \in rest => Halves(task[t]) = 0
      BY <2>3, <2>6, NothingYet
    <3>3. Onwards
      BY <2>1, <3>1, <3>2, HalvesValue DEF Onwards
    <3>4. QED
      BY <2>4, <3>3
  <2>7. QED
    BY <2>2, <2>5, <2>6
<1>5. CASE JoinPassed \/ ConcludeFailed \/ ConcludePassed \/ Announce
  <2>1. UNCHANGED <<stage, task, nxt, worker>>
    BY <1>5 DEF JoinPassed, ConcludeFailed, ConcludePassed, Conclude, Announce, rows
  <2>2. QED
    BY <2>1, SameRows
<1>6. CASE ProcessDies
  <2>1. /\ UNCHANGED <<stage, task, nxt>>
        /\ \A s \in Stage : worker'[s] = IF worker[s] \in Busy THEN "dead" ELSE worker[s]
    BY <1>6 DEF ProcessDies, rows
  <2>2. QED
    BY <2>1, SameRows DEF Busy
<1>7. ASSUME NEW s \in Stage, StageRaises(s)
      PROVE  Unreached' /\ Onwards
  <2>1. UNCHANGED <<stage, task, nxt>> /\ worker' = [worker EXCEPT ![s] = "raised"] /\ worker[s] \in Busy
    BY <1>7 DEF StageRaises, rows
  <2>2. \A r \in Stage : worker'[r] = worker[r] \/ (worker[r] # "idle" /\ worker'[r] \in {"raised", "dead"})
    BY <1>0, <2>1 DEF Busy, TypeOK
  <2>3. QED
    BY <2>1, <2>2, SameRows
<1>8. ASSUME NEW s \in Stage,
             \/ StartTask(s) \/ CancelRestOfStage(s) \/ CloseStage(s) \/ ReturnResults(s)
             \/ \E st \in {"Succeeded", "Warning", "Failed"} : FinishTask(s, st)
      PROVE  Unreached' /\ Onwards
  <2>0. /\ nxt[s] \in Nat /\ NTasks[s] \in Nat
        /\ worker[s] \in {"ready", "script", "halt"} => stage[s] = "Running"
        /\ \A t \in Task : t = <<s, nxt[s]>> <=> t[1] = s /\ t[2] = nxt[s]
        /\ \A t \in Task : t[2] \in Nat /\ t[2] <= NTasks[t[1]]
    BY <1>0, ShapeAssumption, TaskPairs DEF TypeOK, StageInv
  <2>1. CASE StartTask(s)
    <3>1. /\ stage' = stage /\ nxt' = nxt /\ worker[s] = "ready" /\ worker'[s] = "script"
          /\ \A r \in Stage \ {s} : worker'[r] = worker[r]
          /\ \A t \in Task : task'[t] = IF t = <<s, nxt[s]>> THEN "Running" ELSE task[t]
      BY <1>0, <2>1 DEF StartTask, TypeOK
    <3>2. ASSUME NEW t \in Task, t[1] = s
          PROVE  /\ Halves(task[t]) <= Halves(task'[t])
                 /\ t[2] >= nxt'[s] => Halves(task'[t]) <= Begun(t)'
      <4>1. Begun(t) = 0 /\ Begun(t)' = (IF t[2] = nxt[s] THEN 1 ELSE 0)
        BY <3>1, <3>2 DEF Begun
      <4>2. t[2] >= nxt[s] => Halves(task[t]) <= 0
        BY <3>2, <4>1 DEF Unreached
      <4>3. QED
        BY <2>0, <3>1, <3>2, <4>1, <4>2, HalvesValue
    <3>3. \A t \in Task : t[1] # s => task'[t] = task[t]
      BY <2>0, <3>1
    <3>4. Halves(stage[s]) <= Halves(stage'[s])
      BY <3>1, HalvesValue
    <3>5. QED
      BY <3>1, <3>2, <3>3, <3>4, WorkerOnwards
  <2>2. CASE CancelRestOfStage(s)
    <3>1. /\ stage' = stage /\ worker[s] = "halt" /\ worker'[s] = "ready" /\ nxt'[s] = NTasks[s] + 1
          /\ \A r \in Stage \ {s} : worker'[r] = worker[r] /\ nxt'[r] = nxt[r]
          /\ \A t \in Task : task'[t] = IF t[1] = s /\ t[2] >= nxt[s] THEN "Cancelled" ELSE task[t]
      BY <1>0, <2>2 DEF CancelRestOfStage, TypeOK
    <3>2. ASSUME NEW t \in Task, t[1] = s
          PROVE  /\ Halves(task[t]) <= Halves(task'[t])
                 /\ t[2] >= nxt'[s] => Halves(task'[t]) <= Begun(t)'
      <4>1. Begun(t) = 0
        BY <3>1, <3>2 DEF Begun
      <4>2. t[2] >= nxt[s] => Halves(task[t]) <= 0
        BY <3>2, <4>1 DEF Unreached
      <4>3. ~(t[2] >= nxt'[s])
        BY <2>0, <3>1, <3>2
      <4>4. QED
        BY <3>1, <3>2, <4>2, <4>3, HalvesValue
    <3>3. Halves(stage[s]) <= Halves(stage'[s])
      BY <3>1, HalvesValue
    <3>4. QED
      BY <3>1, <3>2, <3>3, WorkerOnwards
  <2>3. CASE CloseStage(s)
    <3>1. /\ task' = task /\ nxt' = nxt /\ nxt[s] > NTasks[s] /\ worker[s] = "ready" /\ worker'[s] = "closed"
          /\ stage'[s] \in {"Failed", "Warning", "Succeeded"}
          /\ \A r \in Stage \ {s} : worker'[r] = worker[r] /\ stage'[r] = stage[r]
      BY <1>0, <2>3 DEF CloseStage, TypeOK, StageVerdict
    <3>2. ASSUME NEW t \in Task, t[1] = s
          PROVE  /\ Halves(task[t]) <= Halves(task'[t])
                 /\ t[2] >= nxt'[s] => Halves(task'[t]) <= Begun(t)'
      <4>1. ~(t[2] >= nxt'[s])
        BY <2>0, <3>1, <3>2
      <4>2. QED
        BY <3>1, <4>1, HalvesValue
    <3>3. Halves(stage[s]) <= Halves(stage'[s])
      BY <2>0, <3>1, HalvesValue
    <3>4. QED
      BY <3>1, <3>2, <3>3, WorkerOnwards
  <2>4. CASE ReturnResults(s)
    <3>1. /\ task' = task /\ nxt' = nxt /\ stage' = stage /\ worker[s] = "closed" /\ worker'[s] = "returned"
          /\ \A r \in Stage \ {s} : worker'[r] = worker[r]
      BY <1>0, <2>4 DEF ReturnResults, TypeOK, rows
    <3>2. ASSUME NEW t \in Task, t[1] = s
          PROVE  /\ Halves(task[t]) <= Halves(task'[t])
                 /\ t[2] >= nxt'[s] => Halves(task'[t]) <= Begun(t)'
      <4>1. Begun(t) = 0 /\ Begun(t)' = 0
        BY <3>1, <3>2 DEF Begun
      <4>2. t[2] >= nxt[s] => Halves(task[t]) <= 0
        BY <3>2, <4>1 DEF Unreached
      <4>3. QED
        BY <3>1, <4>1, <4>2, HalvesValue
    <3>3. Halves(stage[s]) <= Halves(stage'[s])
      BY <3>1, HalvesValue
    <3>4. QED
      BY <3>1, <3>2, <3>3, WorkerOnwards
  <2>5. ASSUME NEW st \in {"Succeeded", "Warning", "Failed"}, FinishTask(s, st)
        PROVE  Unreached' /\ Onwards
    <3>1. /\ stage' = stage /\ worker[s] = "script" /\ worker'[s] \in {"halt", "ready"} /\ nxt'[s] = nxt[s] + 1
          /\ \A r \in Stage \ {s} : worker'[r] = worker[r] /\ nxt'[r] = nxt[r]
          /\ \A t \in Task : task'[t] = IF t = <<s, nxt[s]>> THEN st ELSE task[t]
      BY <1>0, <2>5 DEF FinishTask, TypeOK
    <3>2. Halves(st) \in {1, 2}
      BY HalvesValue
    <3>3. ASSUME NEW t \in Task, t[1] = s
          PROVE  /\ Halves(task[t]) <= Halves(task'[t])
                 /\ t[2] >= nxt'[s] => Halves(task'[t]) <= Begun(t)'
      <4>1. Begun(t) = (IF t[2] = nxt[s] THEN 1 ELSE 0) /\ Begun(t)' = 0
        BY <3>1, <3>3 DEF Begun
      <4>2. t[2] >= nxt[s] => Halves(task[t]) <= Begun(t)
        BY <3>3 DEF Unreached
      <4>3. QED
        BY <2>0, <3>1, <3>2, <3>3, <4>1, <4>2, HalvesValue
    <3>4. \A t \in Task : t[1] # s => task'[t] = task[t]
      BY <2>0, <3>1
    <3>5. Halves(stage[s]) <= Halves(stage'[s])
      BY <3>1, HalvesValue
    <3>6. QED
      BY <3>1, <3>3, <3>4, <3>5, WorkerOnwards
  <2>6. QED
    BY <1>8, <2>1, <2>2, <2>3, <2>4, <2>5
<1>9. CASE UNCHANGED vars
  BY <1>9, SameRows DEF vars, rows, threads
<1>10. ASSUME NEW order \in RestartOrders PROVE FALSE
  BY <1>10
<1>11. QED
  BY <1>1, <1>2, <1>3, <1>4, <1>5, <1>6, <1>7, <1>8, <1>9, <1>10, NextCases

\* A stage that was cancelled after its call raised stays so.
LEMMA CancelledStays ==
  ASSUME Inv, CancelledAfterRaise, [Next]_vars
  PROVE  CancelledAfterRaise'
<1>1. PICK s \in Stage : worker[s] = "raised" /\ stage[s] = "Cancelled"
  BY DEF CancelledAfterRaise
<1>2. TypeOK /\ ControlInv
  BY DEF Inv
<1>3. worker'[s] = "raised" /\ stage'[s] = "Cancelled"
  <2>1. CASE StartPipelineRun
    BY <1>2, <1>1, <2>1, ShapeAssumption DEF StartPipelineRun, ControlInv, Stage, TypeOK
  <2>2. ASSUME NEW order \in RestartOrders, RestartFromStage(order)
        PROVE  FALSE
    BY <1>2, <1>1, <2>2, ShapeAssumption DEF RestartFromStage, ControlInv, Stage, TypeOK
  <2>3. CASE StartBatch
    <3>1. s \notin Batch(cur)
      BY <1>2, <1>1, <2>3 DEF StartBatch, ControlInv, Batch
    <3>2. QED
      BY <1>1, <2>3, <3>1 DEF StartBatch
  <2>4. CASE CancelRemaining
    BY <1>1, <2>4 DEF CancelRemaining
  <2>5. JoinPassed \/ ConcludeFailed \/ ConcludePassed \/ Announce
        \/ (\E new \in PatchStatuses : UpdateRunStatus(new)) \/ UNCHANGED vars => UNCHANGED <<worker, stage>>
    BY DEF JoinPassed, ConcludeFailed, ConcludePassed, Conclude, Announce, UpdateRunStatus, vars, rows, threads
  <2>6. CASE ProcessDies
    BY <1>1, <2>6 DEF ProcessDies, rows, Busy
  <2>7. ASSUME NEW r \in Stage,
               \/ StartTask(r) \/ CancelRestOfStage(r) \/ CloseStage(r) \/ ReturnResults(r) \/ StageRaises(r)
               \/ \E st \in {"Succeeded", "Warning", "Failed"} : FinishTask(r, st)
        PROVE  worker'[s] = worker[s] /\ stage'[s] = stage[s]
    <3>1. r # s
      BY <1>1, <2>7 DEF StartTask, CancelRestOfStage, CloseStage, ReturnResults, StageRaises, FinishTask, Busy
    <3>2. QED
      BY <1>2, <2>7, <3>1
      DEF StartTask, CancelRestOfStage, CloseStage, ReturnResults, StageRaises, FinishTask, TypeOK, rows
  <2>8. QED
    BY <1>1, <2>1, <2>2, <2>3, <2>4, <2>5, <2>6, <2>7, NextCases
<1>4. QED
  BY <1>3 DEF CancelledAfterRaise

\* The run's row, of a run that no client writes to or restarts.
LEMMA RowStep ==
  ASSUME RowAhead, [Next]_vars, PatchStatuses = {}, RestartOrders = {}
  PROVE  /\ RowAhead' /\ (run.status # Absent => run'.status # Absent) /\ (EndedWell => EndedWell')
         /\ (run.status \in Final => run'.status \in Final)
<1>1. CASE StartPipelineRun
  BY <1>1, ShapeAssumption DEF StartPipelineRun, Spawn, NewRow, RowAhead, EndedWell, Live, Final, Absent
<1>2. ASSUME NEW order \in RestartOrders PROVE FALSE
  BY <1>2
<1>3. ASSUME NEW new \in PatchStatuses PROVE FALSE
  BY <1>3
<1>4. CASE ConcludeFailed \/ ConcludePassed
  <2>1. PICK st \in {"Failed", "Warning", "Succeeded"} : Conclude(st) /\ Live
    BY <1>4 DEF ConcludeFailed, ConcludePassed, Live
  <2>2. run.status = "Running" /\ run'.status \in {"Running", st} /\ pc' = "announce" /\ NStages # 0
    BY <2>1 DEF Conclude, RowAhead, Absent
  <2>3. QED
    BY <2>2 DEF RowAhead, EndedWell, Live, Final, Absent
<1>5. CASE StartBatch \/ JoinPassed \/ CancelRemaining \/ Announce \/ ProcessDies \/ UNCHANGED vars
  <2>1. run' = run /\ (Live' => Live) /\ (pc = "idle" => pc' = "idle")
    BY <1>5 DEF StartBatch, JoinPassed, CancelRemaining, Joined, Announce, ProcessDies, Live, vars, rows, threads
  <2>2. QED
    BY <2>1 DEF RowAhead, EndedWell
<1>6. ASSUME NEW s \in Stage,
             \/ StartTask(s) \/ CancelRestOfStage(s) \/ CloseStage(s) \/ ReturnResults(s) \/ StageRaises(s)
             \/ \E st \in {"Succeeded", "Warning", "Failed"} : FinishTask(s, st)
      PROVE  /\ RowAhead' /\ (run.status # Absent => run'.status # Absent) /\ (EndedWell => EndedWell')
             /\ (run.status \in Final => run'.status \in Final)
  <2>1. run' = run /\ (Live' => Live) /\ (pc = "idle" => pc' = "idle")
    BY <1>6 DEF StartTask, CancelRestOfStage, CloseStage, ReturnResults, StageRaises, FinishTask, Live, rows
  <2>2. QED
    BY <2>1 DEF RowAhead, EndedWell
<1>7. QED
  BY <1>1, <1>2, <1>3, <1>4, <1>5, <1>6, NextCases

\* Rows that have gone on count for no less.
Further(f, g, S) == \A x \in S : Halves(f[x]) <= Halves(g[x])

LEMMA CountsGrow ==
  ASSUME NEW held, NEW later, NEW statuses, NEW next, Further(held, later, Task), Further(statuses, next, Stage),
         NEW a \in Nat, NEW b \in Nat, a >= 1, b <= NStages
  PROVE  /\ Span(Counts(held, statuses), a, b) \in Nat /\ Span(Counts(later, next), a, b) \in Nat
         /\ Span(Counts(held, statuses), a, b) <= Span(Counts(later, next), a, b)
<1> DEFINE f == Counts(held, statuses)  g == Counts(later, next)
<1>1. Counting(f) /\ Counting(g)
  BY CountsCount
<1>2. \A s \in Stage : f[s] <= g[s]
  BY HalvesGrow DEF Counts, Further
<1> HIDE DEF f, g
<1>3. Span(f, a, b) \in Nat /\ Span(g, a, b) \in Nat
  BY <1>1, SpanBounds
<1>4. Span(f, a, b) <= Span(g, a, b)
  BY <1>1, <1>2, SpanGrows
<1>5. QED
  BY <1>3, <1>4 DEF f, g

LEMMA TracksRun ==
  ASSUME ProgressInv, RowAhead, Tracks, [Next]_vars, UNCHANGED request, Onwards,
         PatchStatuses = {}, RestartOrders = {}
  PROVE  Tracks'
<1>0. /\ NStages \in Nat /\ half \in Nat /\ shown \in Nat /\ atStage \in Nat /\ atStage >= 1 /\ atStage - 1 <= NStages
      /\ UNCHANGED <<reader, sawStatus, sawStages, atStage, half, shown>>
  BY ShapeAssumption DEF ProgressInv, ProgressTypeOK, request
<1>1. /\ (run.status # Absent => run'.status # Absent) /\ (EndedWell => EndedWell')
      /\ (run.status \in Final => run'.status \in Final) /\ RowAhead'
  BY RowStep
<1>2. /\ Further(task, task', Task) /\ Further(stage, stage', Stage)
      /\ Further(sawStages, sawStages, Stage)
  BY HalvesValue DEF Onwards, Further
<1> DEFINE all == Span(Counts(task, stage), 1, NStages)  all2 == Span(Counts(task', stage'), 1, NStages)
           done == Span(Counts(task, stage), 1, atStage - 1)  done2 == Span(Counts(task', stage'), 1, atStage - 1)
           left == Span(Counts(task, sawStages), atStage, NStages)
           left2 == Span(Counts(task', sawStages), atStage, NStages)
<1>3. all \in Nat /\ all2 \in Nat /\ all <= all2
  BY <1>0, <1>2, CountsGrow
<1>4. done \in Nat /\ done2 \in Nat /\ done <= done2
  BY <1>0, <1>2, CountsGrow
<1>5. left \in Nat /\ left2 \in Nat /\ left <= left2
  BY <1>0, <1>2, CountsGrow
<1>6. /\ AllCounted = all /\ AllCounted' = all2
      /\ Span(Counts(task, stage), 1, atStage - 1)' = done2
      /\ Span(Counts(task, sawStages), atStage, NStages)' = left2
  BY <1>0 DEF AllCounted
<1> HIDE DEF all, all2, done, done2, left, left2
<1>7. reader = "idle" /\ NStages > 0 => EndedWell' \/ shown <= Percentage(run'.status, all2)
  <2> SUFFICES ASSUME reader = "idle", NStages > 0, ~EndedWell'
               PROVE  shown <= Percentage(run'.status, all2)
    OBVIOUS
  <2>1. Percentage(run'.status, all2) \in Nat
    BY <1>3, PercentageGrows
  <2>2. CASE run.status = Absent
    BY <2>1, <2>2 DEF Tracks
  <2>3. CASE run.status # Absent
    <3>1. run'.status = "Running" => run.status = "Running"
      BY <1>1, <2>3 DEF RowAhead, Final
    <3>2. Percentage(run.status, all) \in Nat /\ Percentage(run.status, all) <= Percentage(run'.status, all2)
      BY <1>3, <3>1, PercentageGrows
    <3>3. shown <= Percentage(run.status, all)
      BY <1>1, <1>6 DEF Tracks
    <3>4. QED
      BY <1>0, <2>1, <3>2, <3>3
  <2>4. QED
    BY <2>2, <2>3
<1>8. reader = "stages" => shown <= Percentage(sawStatus, all2)
  <2> SUFFICES ASSUME reader = "stages" PROVE shown <= Percentage(sawStatus, all2)
    OBVIOUS
  <2>1. NStages > 0 /\ shown <= Percentage(sawStatus, all)
    BY <1>0, <1>6 DEF Tracks
  <2>2. /\ Percentage(sawStatus, all) \in Nat /\ Percentage(sawStatus, all) <= Percentage(sawStatus, all2)
        /\ Percentage(sawStatus, all2) \in Nat
    BY <1>3, <2>1, PercentageGrows
  <2>3. QED
    BY <1>0, <2>1, <2>2
<1>9. reader = "tasks" => half <= done2 /\ shown <= Percentage(sawStatus, half + left2)
  <2> SUFFICES ASSUME reader = "tasks" PROVE half <= done2 /\ shown <= Percentage(sawStatus, half + left2)
    OBVIOUS
  <2>1. NStages > 0 /\ shown <= Percentage(sawStatus, half + left) /\ half <= done
    BY <1>0 DEF Tracks, done, left
  <2>2. half + left \in Nat /\ half + left2 \in Nat /\ half + left <= half + left2
    BY <1>0, <1>5
  <2>3. /\ Percentage(sawStatus, half + left) \in Nat /\ Percentage(sawStatus, half + left2) \in Nat
        /\ Percentage(sawStatus, half + left) <= Percentage(sawStatus, half + left2)
    BY <2>1, <2>2, PercentageGrows
  <2>4. QED
    BY <1>0, <1>4, <2>1, <2>3
<1>10. reader = "tasks" => \A s \in Stage : Halves(sawStages[s]) <= Halves(stage'[s])
  BY <1>2, HalvesValue DEF Tracks, Further
<1>11. /\ run'.status = Absent => shown = 0 /\ reader = "idle"
       /\ NStages = 0 => reader = "idle"
       /\ reader # "idle" => /\ sawStatus \in {"Running", "Failed", "Cancelled"}
                             /\ sawStatus # "Running" => run'.status \in Final
  BY <1>1 DEF Tracks
<1>12. QED
  BY <1>0, <1>6, <1>7, <1>8, <1>9, <1>10, <1>11 DEF Tracks

LEMMA TracksRequest ==
  ASSUME ProgressInv, RowAhead, Tracks, Request, UNCHANGED vars
  PROVE  Tracks' /\ shown' >= shown
<1>0. /\ NStages \in Nat /\ half \in Nat /\ shown \in 0..100 /\ atStage \in Nat /\ atStage >= 1 /\ atStage - 1 <= NStages
      /\ run' = run /\ task' = task /\ stage' = stage
  BY ShapeAssumption DEF ProgressInv, ProgressTypeOK, vars, rows
<1>1. AllCounted' = AllCounted /\ EndedWell' = EndedWell
  BY <1>0 DEF AllCounted, EndedWell
<1>2. CASE LoadRun
  <2>1. /\ reader = "idle" /\ run.status # Absent /\ sawStatus' = run.status
        /\ IF EndedWell THEN shown' = 100 /\ reader' = "idle" ELSE reader' = "stages" /\ shown' = shown
    BY <1>2 DEF LoadRun, EndedWell
  <2>2. CASE EndedWell
    BY <1>0, <1>1, <2>1, <2>2 DEF Tracks
  <2>3. CASE ~EndedWell
    <3>1. NStages > 0
      BY <1>0, <2>1, <2>3 DEF RowAhead, EndedWell
    <3>2. shown <= Percentage(run.status, AllCounted)
      BY <2>1, <2>3, <3>1 DEF Tracks
    <3>3. run.status \in {"Running", "Failed", "Cancelled"}
      BY <2>1, <2>3 DEF RowAhead, EndedWell, Final
    <3>4. QED
      BY <1>0, <1>1, <2>1, <2>3, <3>1, <3>2, <3>3 DEF Tracks, Final
  <2>4. QED
    BY <2>2, <2>3
<1>3. CASE LoadStages
  <2>1. NStages > 0 /\ reader = "stages"
    BY <1>0, <1>3 DEF LoadStages, Tracks
  <2>2. /\ sawStages' = stage /\ atStage' = 1 /\ half' = 0 /\ reader' = "tasks" /\ shown' = shown /\ sawStatus' = sawStatus
    BY <1>3, <2>1 DEF LoadStages
  <2>3. Span(Counts(task, stage), 1, 0) = 0
    BY SpanNone
  <2>4. Span(Counts(task, stage), 1, atStage - 1)' = Span(Counts(task, stage), 1, 0)
        /\ Span(Counts(task, sawStages), atStage, NStages)' = AllCounted
    BY <1>0, <2>2 DEF AllCounted
  <2>5. AllCounted \in Nat
    <3>1. Counting(Counts(task, stage))
      BY CountsCount
    <3>2. QED
      BY <1>0, <2>1, <3>1, SpanBounds DEF AllCounted
  <2>6. 0 + AllCounted = AllCounted
    BY <2>5
  <2>7. half' + Span(Counts(task, sawStages), atStage, NStages)' = AllCounted
    BY <2>2, <2>4, <2>6
  <2>8. \A s \in Stage : Halves(stage[s]) <= Halves(stage[s])
    BY HalvesValue
  <2>9. QED
    BY <1>0, <2>1, <2>2, <2>3, <2>4, <2>7, <2>8 DEF Tracks
<1>4. CASE LoadTasks
  <2> DEFINE k == atStage
             left == Span(Counts(task, sawStages), k, NStages)
             left2 == Span(Counts(task, sawStages), k + 1, NStages)
             done == Span(Counts(task, stage), 1, k - 1)
             done2 == Span(Counts(task, stage), 1, k)
             h == HalvesBy(task, k, sawStages[k])
             g == HalvesBy(task, k, stage[k])
  <2>1. /\ k \in Stage /\ k \in Nat /\ 1 <= k /\ k <= NStages /\ reader = "tasks" /\ half' = half + h /\ atStage' = k + 1
        /\ UNCHANGED <<reader, sawStatus, sawStages, shown>>
    BY <1>0, <1>4, HalvesAre DEF LoadTasks, Stage
  <2>2. Counting(Counts(task, sawStages)) /\ Counting(Counts(task, stage))
    BY CountsCount
  <2>3. /\ \A s \in Stage : Counts(task, sawStages)[s] \in Nat
        /\ \A s \in Stage : Counts(task, stage)[s] \in Nat
    BY <2>2 DEF Counting
  <2>4. left = Counts(task, sawStages)[k] + left2
    BY <1>0, <2>1, <2>3, SpanEnds
  <2>5. done2 = done + Counts(task, stage)[k]
    BY <1>0, <2>1, <2>3, SpanEnds
  <2>6. Counts(task, sawStages)[k] = h /\ Counts(task, stage)[k] = g
    BY <2>1 DEF Counts
  <2>7. h \in Nat /\ g \in Nat /\ left2 \in Nat /\ done \in Nat
    BY <1>0, <2>1, <2>2, HalvesBounded, SpanBounds
  <2>8. h <= g
    <3>1. /\ \A t \in Task : Halves(task[t]) <= Halves(task[t])
          /\ Halves(sawStages[k]) <= Halves(stage[k])
      BY <2>1, HalvesValue DEF Tracks
    <3>2. QED
      BY <3>1, HalvesGrow
  <2>9. half <= done /\ shown <= Percentage(sawStatus, half + left)
    BY <2>1 DEF Tracks
  <2>10. /\ Span(Counts(task, stage), 1, atStage - 1)' = done2
         /\ Span(Counts(task, sawStages), atStage, NStages)' = left2
    <3>1. (k + 1) - 1 = k
      BY <2>1
    <3>2. QED
      BY <1>0, <2>1, <3>1
  <2> HIDE DEF left, left2, done, done2, h, g
  <2>11. half' <= done2
    BY <1>0, <2>1, <2>5, <2>6, <2>7, <2>8, <2>9
  <2>12. half' + left2 = half + left
    BY <1>0, <2>1, <2>4, <2>6, <2>7
  <2>13. reader' = "tasks" => /\ half' <= Span(Counts(task, stage), 1, atStage - 1)'
                              /\ shown' <= Percentage(sawStatus', half' + Span(Counts(task, sawStages), atStage, NStages)')
    BY <2>1, <2>9, <2>10, <2>11, <2>12
  <2>14. QED
    BY <1>0, <2>1, <2>13 DEF Tracks
<1>5. CASE Answer
  <2>1. /\ reader = "tasks" /\ reader' = "idle" /\ shown' = Percentage(sawStatus, half) /\ atStage - 1 = NStages /\ NStages > 0
        /\ NStages < atStage
    BY <1>0, <1>5 DEF Answer, ProgressInv
  <2>2. Span(Counts(task, sawStages), atStage, NStages) = 0
    BY <1>0, <2>1, SpanNone
  <2>3. half + 0 = half
    BY <1>0
  <2>4. shown' >= shown
    <3>1. shown <= shown'
      BY <2>1, <2>2, <2>3 DEF Tracks
    <3>2. shown' \in Nat
      BY <1>0, <2>1, PercentageGrows
    <3>3. QED
      BY <1>0, <3>1, <3>2
  <2>5. half <= AllCounted
    BY <2>1 DEF Tracks, AllCounted
  <2>6. AllCounted \in Nat
    <3>1. Counting(Counts(task, stage))
      BY CountsCount
    <3>2. QED
      BY <1>0, <2>1, <3>1, SpanBounds DEF AllCounted
  <2>7. run.status = "Running" => sawStatus = "Running"
    BY <2>1 DEF Tracks, Final
  <2>8. Percentage(sawStatus, half) <= Percentage(run.status, AllCounted)
    BY <1>0, <2>1, <2>5, <2>6, <2>7, PercentageGrows
  <2>9. run.status # Absent
    BY <2>1 DEF Tracks
  <2>10. QED
    BY <1>0, <1>1, <2>1, <2>4, <2>8, <2>9 DEF Tracks
<1>6. QED
  BY <1>2, <1>3, <1>4, <1>5 DEF Request

\* Whatever raises or dies, as long as no client writes or restarts: the percentage goes back
\* only where a stage that had done some of its work is cancelled (completion_percentage).
THEOREM NeverGoesBack ==
  ASSUME PatchStatuses = {}, RestartOrders = {}
  PROVE  ProgressSpec => NeverBack
<1> DEFINE I == Inv /\ ProgressInv /\ Unreached /\ RowAhead /\ TracksUnlessCancelled
           Step == [ProgressNext]_<<vars, request>>
<1>1. ProgressInit => I
  <2> SUFFICES ASSUME ProgressInit PROVE I
    OBVIOUS
  <2>1. Inv /\ ProgressInv
    BY InvInit, ProgressInvInit DEF ProgressInit
  <2>2. /\ run.status = Absent /\ pc = "idle" /\ reader = "idle" /\ shown = 0
        /\ \A s \in Stage : stage[s] = Absent
        /\ \A t \in Task : task[t] = Absent
    BY DEF ProgressInit, Init, NoRow
  <2>3. Unreached
    <3>1. \A t \in Task : Begun(t) \in {0, 1} /\ Halves(task[t]) = 0
      BY <2>2, HalvesValue DEF Begun
    <3>2. QED
      BY <2>2, <3>1 DEF Unreached, Absent
  <2>4. RowAhead
    BY <2>2 DEF RowAhead, Live
  <2>5. Tracks
    <3>1. NStages > 0 => 0 <= Percentage(run.status, AllCounted)
      <4> SUFFICES ASSUME NStages > 0 PROVE 0 <= Percentage(run.status, AllCounted)
        OBVIOUS
      <4>1. Counting(Counts(task, stage))
        BY CountsCount
      <4>2. AllCounted \in Nat
        BY <4>1, SpanBounds, ShapeAssumption DEF AllCounted
      <4>3. QED
        BY <4>2, PercentageGrows
    <3>2. QED
      BY <2>2, <3>1 DEF Tracks
  <2>6. QED
    BY <2>1, <2>3, <2>4, <2>5 DEF TracksUnlessCancelled
<1>2. ASSUME I, Step
      PROVE  I' /\ (shown' >= shown \/ CancelledAfterRaise \/ UNCHANGED shown)
  <2>1. [Next]_vars
    BY <1>2 DEF ProgressNext
  <2>2. Inv' /\ ProgressInv' /\ Unreached' /\ RowAhead' /\ (Onwards \/ CancelledAfterRaise')
    <3>1. Inv'
      BY <1>2, <2>1, TypeStep, ControlStep, StageStep, TaskStep, FailureStep DEF Inv
    <3>2. ProgressInv'
      BY <1>2, ProgressInvStep DEF Inv
    <3>3. Unreached' /\ (Onwards \/ CancelledAfterRaise')
      BY <1>2, <2>1, OnwardsStep
    <3>4. RowAhead'
      BY <1>2, <2>1, RowStep
    <3>5. QED
      BY <3>1, <3>2, <3>3, <3>4
  <2>3. CASE CancelledAfterRaise
    BY <1>2, <2>1, <2>2, <2>3, CancelledStays DEF TracksUnlessCancelled
  <2>4. CASE Tracks
    <3>1. CASE UNCHANGED request
      BY <1>2, <2>1, <2>2, <2>4, <3>1, TracksRun DEF TracksUnlessCancelled, request
    <3>2. CASE Request /\ UNCHANGED vars
      BY <1>2, <2>2, <2>4, <3>2, TracksRequest DEF TracksUnlessCancelled
    <3>3. QED
      BY <1>2, <3>1, <3>2 DEF ProgressNext
  <2>5. QED
    BY <1>2, <2>3, <2>4 DEF TracksUnlessCancelled
<1> HIDE DEF I
<1>3. I /\ Step => I' /\ [shown' >= shown \/ CancelledAfterRaise]_shown
  BY <1>2
<1>4. QED
  BY <1>1, <1>3, PTL DEF ProgressSpec, NeverBack

=============================================================================
