------------------------------ MODULE Triggers ------------------------------
(***************************************************************************)
(* What starts scripts besides the pages: a webhook, whose call creates a  *)
(* pipeline run, starts its executor and then records the delivery         *)
(* (routes/webhook.py), and a task run on demand, with a thread of its own *)
(* (routes/agents.py, services/execution_service.py).  The latter may name *)
(* a stage run: if its stage has not started, the executor takes the row   *)
(* as well.  A run stands here for one of its stages; of the stages before *)
(* and after it, which PipelineRun has, one thing is seen: that a batch    *)
(* failed and what is not finished is cancelled.  A process that dies      *)
(* takes its requests, executors and threads along.                        *)
(***************************************************************************)
EXTENDS Properties, ScriptExecution

CONSTANTS
  SeededTasks,  \* tasks of the stage
  OnError,      \* the policy of all tasks
  InCluster

NoRun == 0

ASSUME TriggersAssumption == OnError \in ErrorPolicy /\ SeededTasks \in Nat /\ InCluster \in BOOLEAN

VARIABLES
  hooks,       \* rows of webhooks; the token is the number of its changes
  deliveries,  \* rows of webhook_deliveries
  runs,        \* pipeline runs, with their executors
  taskRuns     \* rows of task_runs, with their threads; scripts and result are history

tables == <<hooks, deliveries, runs, taskRuns>>
vars == <<rows, call, tables>>

Final == {"Succeeded", "Warning", "Failed", "Cancelled"}

Outcomes == {StatusFromCode(ReturnCode(InCluster, x), OnError) : x \in Exit}

-----------------------------------------------------------------------------
(* The management of webhooks.                                             *)

CreateWebhook(r) ==
  /\ Arrives(r) /\ Answer(r)
  /\ hooks' = Append(hooks, [live |-> TRUE, active |-> TRUE, token |-> 0])
  /\ UNCHANGED <<deliveries, runs, taskRuns>>

UpdateWebhook(r, h) ==
  /\ Arrives(r) /\ hooks[h].live /\ Answer(r)
  /\ \E active \in BOOLEAN, regenerate \in {0, 1} :
       hooks' = [hooks EXCEPT ![h].active = active, ![h].token = @ + regenerate]
  /\ UNCHANGED <<deliveries, runs, taskRuns>>

DeleteWebhook(r, h) ==
  /\ Arrives(r) /\ hooks[h].live /\ Answer(r)
  /\ hooks' = [hooks EXCEPT ![h].live = FALSE]
  /\ deliveries' = {d \in deliveries : d.hook # h}
  /\ UNCHANGED <<runs, taskRuns>>

-----------------------------------------------------------------------------
(* trigger_webhook.                                                        *)

\* The caller has some token; what is loaded here is not looked at again.
Trigger(r, h) ==
  /\ Arrives(r)
  /\ \E token \in 0..hooks[h].token :
       IF hooks[h].live /\ hooks[h].active /\ token = hooks[h].token
       THEN call' = [call EXCEPT ![r] = [at |-> "triggering", hook |-> h]]
       ELSE Answer(r)
  /\ UNCHANGED tables

Seed(k) ==
  [i \in 1..SeededTasks |->
     [status |-> "Pending", run |-> k, own |-> "none", early |-> TRUE, scripts |-> 0, result |-> "Pending"]]

\* start_pipeline_run up to its commit.  The stage's rows are Pending; no one executes them yet.
CommitRun(r) ==
  LET k == Len(runs) + 1
  IN  /\ call[r].at = "triggering"
      /\ runs' = Append(runs, [by |-> r, hook |-> call[r].hook, pc |-> "seeded", todo |-> {}, current |-> 0])
      /\ taskRuns' = taskRuns \o Seed(k)
      /\ call' = [call EXCEPT ![r] = [at |-> "committed", hook |-> call[r].hook, run |-> k]]
      /\ UNCHANGED <<hooks, deliveries>>

\* thread.start().
StartExecutor(r) ==
  /\ call[r].at = "committed"
  /\ runs' = [runs EXCEPT ![call[r].run].pc = "ready"]
  /\ call' = [call EXCEPT ![r].at = "started"]
  /\ UNCHANGED <<hooks, deliveries, taskRuns>>

\* An exception, before the commit or after it: the delivery tells of no run, or the session
\* takes no delivery either.
StartFails(r) ==
  /\ call[r].at \in {"triggering", "committed"}
  /\ call' = [call EXCEPT ![r] = [at |-> "failed", hook |-> call[r].hook, run |-> NoRun]]
  /\ UNCHANGED tables

DeliveryOf(r) == [hook |-> call[r].hook, run |-> call[r].run, by |-> r]

\* (Mutant of Deliver: a webhook disabled meanwhile has no deliveries.)
DeliverIfActive(r) ==
  /\ call[r].at \in {"started", "failed"}
  /\ \/ hooks[call[r].hook].active /\ deliveries' = deliveries \cup {DeliveryOf(r)} /\ Answer(r)
     \/ ~hooks[call[r].hook].active /\ UNCHANGED deliveries /\ Answer(r)
     \/ call[r].at = "failed" /\ UNCHANGED deliveries /\ call' = [call EXCEPT ![r].at = "lost"]
  /\ UNCHANGED <<hooks, runs, taskRuns>>

\* The delivery of a webhook deleted meanwhile is refused, or left without its webhook on SQLite.
Deliver(r) ==
  /\ call[r].at \in {"started", "failed"}
  /\ \/ deliveries' = deliveries \cup {DeliveryOf(r)} /\ Answer(r)
     \/ ~hooks[call[r].hook].live /\ UNCHANGED deliveries /\ Answer(r)
     \/ call[r].at = "failed" /\ UNCHANGED deliveries /\ call' = [call EXCEPT ![r].at = "lost"]
  /\ UNCHANGED <<hooks, runs, taskRuns>>

-----------------------------------------------------------------------------
(* run_task, create_and_run_task and run_task_async.                       *)

\* (early is history: the stage had not started.)
RunTask(r, k) ==
  /\ Arrives(r)
  /\ taskRuns' = Append(taskRuns,
       [status |-> "Pending", run |-> k, own |-> "none", early |-> k # NoRun /\ runs[k].pc \in {"seeded", "ready"},
        scripts |-> 0, result |-> "Pending"])
  /\ call' = [call EXCEPT ![r] = [at |-> "queued", row |-> Len(taskRuns) + 1]]
  /\ UNCHANGED <<hooks, deliveries, runs>>

StartThread(r) ==
  /\ call[r].at = "queued"
  /\ taskRuns' = [taskRuns EXCEPT ![call[r].row].own = "ready"]
  /\ Answer(r)
  /\ UNCHANGED <<hooks, deliveries, runs>>

WorkerRuns(i) ==
  /\ taskRuns[i].own = "ready"
  /\ taskRuns' = [taskRuns EXCEPT ![i].own = "script", ![i].status = "Running", ![i].scripts = @ + 1]
  /\ UNCHANGED <<call, hooks, deliveries, runs>>

WorkerEnds(i) ==
  /\ taskRuns[i].own = "script"
  /\ \E status \in Outcomes :
       taskRuns' = [taskRuns EXCEPT ![i].own = "over", ![i].status = status, ![i].result = status]
  /\ UNCHANGED <<call, hooks, deliveries, runs>>

-----------------------------------------------------------------------------
(* _execute_stage, as far as task runs go.                                 *)

RowsOf(k) == {i \in DOMAIN taskRuns : taskRuns[i].run = k}

StartStage(k) ==
  /\ runs[k].pc = "ready"
  /\ runs' = [runs EXCEPT ![k].pc = "stage", ![k].todo = RowsOf(k)]
  /\ UNCHANGED <<call, hooks, deliveries, taskRuns>>

\* The rows as they were read when the stage started.
Waiting(k) == runs[k].todo

\* A row that its own thread has already marked Running is not written again.
StartTask(k) ==
  /\ runs[k].pc = "stage" /\ runs[k].current = 0
  /\ \E i \in Waiting(k) : \E status \in {"Running"} \cup (IF taskRuns[i].own = "none" THEN {} ELSE {taskRuns[i].status}) :
       /\ runs' = [runs EXCEPT ![k].current = i, ![k].todo = @ \ {i}]
       /\ taskRuns' = [taskRuns EXCEPT ![i].status = status, ![i].scripts = @ + 1]
  /\ UNCHANGED <<call, hooks, deliveries>>

\* A failure cancels the rows that are left, whatever their own threads are doing.
EndTask(k) ==
  LET i == runs[k].current
  IN  /\ runs[k].pc = "stage" /\ i # 0
      /\ \E status \in Outcomes :
           LET halts == status = "Failed" /\ OnError = "fail"
           IN  /\ taskRuns' = [j \in DOMAIN taskRuns |->
                                 IF j = i THEN [taskRuns[j] EXCEPT !.status = status]
                                 ELSE IF halts /\ j \in runs[k].todo THEN [taskRuns[j] EXCEPT !.status = "Cancelled"]
                                 ELSE taskRuns[j]]
               /\ runs' = [runs EXCEPT ![k].current = 0, ![k].todo = IF halts THEN {} ELSE @]
      /\ UNCHANGED <<call, hooks, deliveries>>

EndStage(k) ==
  /\ runs[k].pc = "stage" /\ runs[k].current = 0 /\ Waiting(k) = {}
  /\ runs' = [runs EXCEPT ![k].pc = "over"]
  /\ UNCHANGED <<call, hooks, deliveries, taskRuns>>

\* The call raises in a thread of its own: the stage stays Running, the executor goes on.
StageRaises(k) ==
  /\ runs[k].pc = "stage"
  /\ runs' = [runs EXCEPT ![k].pc = "raised"]
  /\ UNCHANGED <<call, hooks, deliveries, taskRuns>>

\* Another batch failed, before this stage's or after the one it raised in: its rows are
\* cancelled, whatever they hold.
CancelStage(k) ==
  /\ runs[k].pc \in {"ready", "raised"}
  /\ runs' = [runs EXCEPT ![k].pc = "cancelled"]
  /\ taskRuns' = [i \in DOMAIN taskRuns |->
                    IF i \in RowsOf(k) THEN [taskRuns[i] EXCEPT !.status = "Cancelled"] ELSE taskRuns[i]]
  /\ UNCHANGED <<call, hooks, deliveries>>

-----------------------------------------------------------------------------
(* A process is killed.  Its requests are lost; callers may ask again.     *)

Open == {r \in Requests : call[r].at \in {"triggering", "committed", "started", "failed", "queued"}}

Executing == {k \in DOMAIN runs : runs[k].pc \in {"ready", "stage", "raised"}}

Working == {i \in DOMAIN taskRuns : taskRuns[i].own \in {"ready", "script"}}

\* The thread of a run that was just started is in the process of its request.
Die ==
  \E R \in SUBSET Open, K \in SUBSET Executing, I \in SUBSET Working :
    /\ R # {} \/ K # {} \/ I # {}
    /\ \A r \in Open : call[r].at = "started" => (r \in R <=> call[r].run \in K) \/ call[r].run \notin Executing
    /\ call' = [r \in Requests |-> IF r \in R THEN [at |-> "lost"] ELSE call[r]]
    /\ runs' = [k \in DOMAIN runs |-> IF k \in K THEN [runs[k] EXCEPT !.pc = "dead"] ELSE runs[k]]
    /\ taskRuns' = [i \in DOMAIN taskRuns |-> IF i \in I THEN [taskRuns[i] EXCEPT !.own = "dead"] ELSE taskRuns[i]]
    /\ UNCHANGED <<hooks, deliveries>>

Init ==
  /\ PropertiesInit
  /\ hooks = <<>> /\ deliveries = {} /\ runs = <<>> /\ taskRuns = <<>>

TriggerRequest(r) ==
  \/ CreateWebhook(r) \/ CommitRun(r) \/ StartExecutor(r) \/ StartFails(r) \/ Deliver(r) \/ StartThread(r)
  \/ \E h \in DOMAIN hooks : UpdateWebhook(r, h) \/ DeleteWebhook(r, h) \/ Trigger(r, h)
  \/ \E k \in {NoRun} \cup DOMAIN runs : RunTask(r, k)

Execution ==
  \/ \E k \in DOMAIN runs : \/ StartStage(k) \/ StartTask(k) \/ EndTask(k) \/ EndStage(k)
                           \/ StageRaises(k) \/ CancelStage(k)
  \/ \E i \in DOMAIN taskRuns : WorkerRuns(i) \/ WorkerEnds(i)

Next ==
  \/ \E r \in Requests : (PropertyRequest(r) /\ UNCHANGED tables) \/ (TriggerRequest(r) /\ UNCHANGED rows)
  \/ (Execution \/ Die) /\ UNCHANGED rows

Spec == Init /\ [][Next]_vars

-----------------------------------------------------------------------------
\* A run that a webhook started is told of by exactly one of its deliveries, unless the call that
\* started it is not over, was lost or failed after the commit, or the webhook is deleted; and a
\* delivery tells only of a run whose executor was started (webhook.py:42 of the models).
RunsTold ==
  /\ \A k \in DOMAIN runs :
       LET r == runs[k].by
       IN  \/ Cardinality({d \in deliveries : d.run = k /\ d.hook = runs[k].hook}) = 1
           \/ call[r].at \in {"committed", "started", "failed", "lost"}
           \/ ~hooks[runs[k].hook].live
           \/ \E d \in deliveries : d.by = r /\ d.run = NoRun
  /\ \A d \in deliveries : d.run # NoRun => runs[d.run].pc # "seeded" /\ runs[d.run].hook = d.hook

\* The script of a task run is executed once, except for a row that its request put into a stage
\* that had not started yet: executor and thread both execute that one.  All others keep the status
\* that their own thread ended with, unless the stage was cancelled with them: a stage whose thread
\* raised is still Running when a later batch fails (run_service.py:334-347).  A stage that is over
\* or cancelled has ended the rows it was given.
ScriptsOnce ==
  /\ \A i \in DOMAIN taskRuns :
       LET t == taskRuns[i]
       IN  t.own = "none" \/ ~t.early =>
             /\ t.scripts <= 1
             /\ t.own = "over" /\ t.status # t.result =>
                  t.run # NoRun /\ runs[t.run].pc = "cancelled" /\ t.status = "Cancelled"
  /\ \A k \in DOMAIN runs : runs[k].pc \in {"over", "cancelled"} =>
       \A i \in RowsOf(k) : taskRuns[i].own = "none" /\ taskRuns[i].early => taskRuns[i].status \in Final

StartsTold == RunsTold /\ ScriptsOnce
=============================================================================
