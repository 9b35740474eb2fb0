---------------------------- MODULE TriggersProofs ----------------------------
(***************************************************************************)
(* TriggersInv is an invariant of webhooks, runs and task runs, and with   *)
(* it StartsTold: for any number of requests, webhooks and runs, and       *)
(* whatever dies on the way.  ResolutionInv is one of properties and their *)
(* resolution, and with it ResolvedNearby.                                 *)
(***************************************************************************)
EXTENDS Triggers, FiniteSetTheorems, SequenceTheorems, TLAPS

Hook == [live : BOOLEAN, active : BOOLEAN, token : Nat]

RunRow == [by : Requests, hook : Nat, pc : {"seeded", "ready", "stage", "raised", "over", "cancelled", "dead"},
           todo : SUBSET Nat, current : Nat]

TaskRow == [status : {"Pending", "Running"} \cup Final, run : Nat,
            own : {"none", "ready", "script", "over", "dead"}, early : BOOLEAN,
            scripts : Nat, result : {"Pending"} \cup Final]

Delivery == [hook : Nat, run : Nat, by : Requests]

\* Requests that are about webhooks and task runs, at each of their steps.
Triggering == [at : {"triggering"}, hook : DOMAIN hooks]
Recording == [at : {"committed", "started", "failed"}, hook : DOMAIN hooks, run : {NoRun} \cup DOMAIN runs]
Queued == [at : {"queued"}, row : DOMAIN taskRuns]

Calls ==
  /\ call = [r \in Requests |-> call[r]]
  /\ \A r \in Requests :
       /\ "at" \in DOMAIN call[r]
       /\ call[r].at = "triggering" => call[r] \in Triggering
       /\ call[r].at \in {"committed", "started", "failed"} => call[r] \in Recording
       /\ call[r].at = "queued" => call[r] \in Queued

Typed ==
  /\ hooks \in Seq(Hook) /\ runs \in Seq(RunRow) /\ taskRuns \in Seq(TaskRow)
  /\ deliveries \subseteq Delivery

\* A request makes one run at most, and while it is open it knows which.
OwnRun ==
  /\ \A k \in DOMAIN runs :
       LET r == runs[k].by
       IN  /\ call[r].at \in {"committed", "started", "failed", "lost", "done"}
           /\ runs[k].hook \in DOMAIN hooks
           /\ call[r].at \in {"committed", "started", "failed"} => call[r].hook = runs[k].hook
           /\ call[r].at \in {"committed", "started"} => call[r].run = k
  /\ \A r \in Requests :
       /\ call[r].at \in {"committed", "started"} =>
            call[r].run \in DOMAIN runs /\ runs[call[r].run].by = r
       /\ call[r].at = "committed" => runs[call[r].run].pc = "seeded"
       /\ call[r].at = "started" => runs[call[r].run].pc # "seeded"
       /\ call[r].at = "failed" => call[r].run = NoRun

\* A delivery is the last thing its request does.
Recorded ==
  /\ \A d \in deliveries :
       /\ call[d.by].at = "done"
       /\ d.run # NoRun => /\ d.run \in DOMAIN runs /\ runs[d.run].by = d.by
                           /\ runs[d.run].hook = d.hook /\ runs[d.run].pc # "seeded"
       /\ \A k \in DOMAIN runs : runs[k].by = d.by => runs[k].hook = d.hook
  /\ \A k \in DOMAIN runs :
       LET r == runs[k].by
       IN  call[r].at = "done" =>
             \/ ~hooks[runs[k].hook].live
             \/ \E d \in deliveries : d.by = r /\ d.run = NoRun
             \/ \E d \in deliveries : {e \in deliveries : e.run = k /\ e.hook = runs[k].hook} = {d}

\* The stage was cancelled with its rows after t's own thread had ended.
CancelledAlong(t) == t.run # NoRun /\ runs[t.run].pc = "cancelled" /\ t.status = "Cancelled"

\* What a stage has yet to do with its rows, and what it has done.
Staged ==
  \A i \in DOMAIN taskRuns :
    LET t == taskRuns[i]
    IN  /\ t.run # NoRun => t.run \in DOMAIN runs
        /\ t.run # NoRun /\ ~t.early => runs[t.run].pc \notin {"seeded", "ready"}
        /\ t.own = "none" => /\ t.scripts <= 1
                             /\ t.run = NoRun \/ runs[t.run].pc \in {"seeded", "ready"} => t.scripts = 0
        /\ t.own = "none" /\ t.early => t.run # NoRun
        /\ t.own = "none" /\ t.early /\ runs[t.run].pc \in {"stage", "over"} =>
             i \in runs[t.run].todo \cup {runs[t.run].current} \/ t.status \in Final
        /\ t.run # NoRun /\ t.own = "none" /\ runs[t.run].pc = "cancelled" => ~t.early \/ t.status \in Final
        /\ ~t.early => /\ t.own \in {"none", "ready"} => t.scripts = 0
                       /\ t.scripts <= 1
                       /\ t.own = "over" => t.status = t.result \/ CancelledAlong(t)

Taken ==
  \A k \in DOMAIN runs :
    /\ runs[k].pc \in {"seeded", "ready", "over"} => runs[k].todo = {} /\ runs[k].current = 0
    /\ \A i \in runs[k].todo : /\ i \in DOMAIN taskRuns /\ taskRuns[i].run = k /\ taskRuns[i].early
                               /\ taskRuns[i].own = "none" => taskRuns[i].scripts = 0
    /\ runs[k].current # 0 => /\ runs[k].current \in DOMAIN taskRuns /\ runs[k].current \notin runs[k].todo
                              /\ taskRuns[runs[k].current].run = k /\ taskRuns[runs[k].current].early

\* A task run waits for the start of its thread by one request.
Waited ==
  \A r \in Requests : call[r].at = "queued" =>
    /\ taskRuns[call[r].row].own = "none"
    /\ \A q \in Requests : call[q].at = "queued" /\ call[q].row = call[r].row => q = r

TriggersInv == Calls /\ Typed /\ OwnRun /\ Recorded /\ Staged /\ Taken /\ Waited
-----------------------------------------------------------------------------
(* Requests.                                                               *)

\* The steps the invariant speaks of.
Open0 == {"triggering", "committed", "started", "failed", "queued"}
Marked == Open0 \cup {"lost", "done"}

LEMMA Shapes ==
  ASSUME Typed
  PROVE  /\ DOMAIN hooks = 1..Len(hooks) /\ Len(hooks) \in Nat /\ \A h \in DOMAIN hooks : hooks[h] \in Hook
         /\ DOMAIN runs = 1..Len(runs) /\ Len(runs) \in Nat /\ \A k \in DOMAIN runs : runs[k] \in RunRow
         /\ DOMAIN taskRuns = 1..Len(taskRuns) /\ Len(taskRuns) \in Nat
         /\ \A i \in DOMAIN taskRuns : taskRuns[i] \in TaskRow
BY LenProperties, ElementOfSeq DEF Typed

\* Requests of other kinds leave everything as it is.
LEMMA OthersAside ==
  ASSUME TriggersInv, UNCHANGED tables, call' = [q \in Requests |-> call'[q]],
         \A q \in Requests : call'[q] = call[q] \/ (call[q].at \notin Marked /\ call'[q].at \notin Open0 /\ "at" \in DOMAIN call'[q])
  PROVE  TriggersInv'
<1> USE DEF TriggersInv, tables
<1>1. Calls'
  BY DEF Calls, Triggering, Recording, Queued, Open0
<1>2. Typed'
  BY DEF Typed
<1>3. OwnRun'
  BY Shapes DEF OwnRun, Open0, Marked, RunRow
<1>4. Recorded'
  <2>1. \A d \in deliveries : call'[d.by] = call[d.by]
    BY DEF Recorded, Typed, Delivery, Marked
  <2>2. \A k \in DOMAIN runs : call'[runs[k].by] = call[runs[k].by]
    BY Shapes DEF OwnRun, RunRow, Marked, Open0
  <2>3. QED
    BY <2>1, <2>2 DEF Recorded
<1>5. Staged' /\ Taken'
  BY DEF Staged, CancelledAlong, Taken
<1>6. Waited'
  BY DEF Waited, Open0
<1>7. QED
  BY <1>1, <1>2, <1>3, <1>4, <1>5, <1>6

LEMMA PropertyCalls ==
  ASSUME Calls, NEW r \in Requests, PropertyRequest(r)
  PROVE  /\ call' = [q \in Requests |-> call'[q]]
         /\ \A q \in Requests : \/ call'[q] = call[q]
                                \/ /\ call[q].at \notin Marked /\ call'[q].at \notin Open0
                                   /\ "at" \in DOMAIN call'[q]
<1> DEFINE Goal == /\ call' = [q \in Requests |-> call'[q]]
                   /\ \A q \in Requests : \/ call'[q] = call[q]
                                          \/ /\ call[q].at \notin Marked /\ call'[q].at \notin Open0
                                             /\ "at" \in DOMAIN call'[q]
<1> USE DEF Calls, Marked, Open0
<1>1. New.at = "new" /\ Done.at = "done" /\ "at" \in DOMAIN Done
  BY DEF New, Done
<1>2. ASSUME NEW x, call' = [call EXCEPT ![r] = x], "at" \in DOMAIN x, x.at \notin Open0, call[r].at \notin Marked
      PROVE  Goal
  BY <1>2
<1> HIDE DEF Goal
<1>3. CASE BeginResolution(r)
  <2>1. PICK ctx \in Contexts : call' = [call EXCEPT ![r] =
           [at |-> "gathering", ctx |-> ctx, left |-> ctx, names |-> {}, held |-> {},
            first |-> rows, edited |-> [n \in Names |-> 0]]]
    BY <1>3 DEF BeginResolution
  <2>2. call[r].at = "new"
    BY <1>1, <1>3 DEF BeginResolution, Arrives
  <2>3. QED
    BY <1>2, <2>1, <2>2
<1>4. CASE Gather(r)
  <2> DEFINE level == Gathers(call[r].left)
             names == call[r].names \cup HasRow(level)
  <2>1. PICK held : call' = [call EXCEPT ![r].left = @ \ {level}, ![r].names = names, ![r].held = held]
    BY <1>4 DEF Gather
  <2>2. call[r].at = "gathering" /\ "at" \in DOMAIN call[r]
    BY <1>4 DEF Gather
  <2> DEFINE x == [call[r] EXCEPT !.left = @ \ {level}, !.names = names, !.held = held]
  <2>3. call' = [call EXCEPT ![r] = x]
    BY <2>1
  <2>4. "at" \in DOMAIN x /\ x.at = "gathering"
    BY <2>2
  <2> HIDE DEF x
  <2>5. QED
    BY <1>2, <2>2, <2>3, <2>4
<1>5. ASSUME NEW c, NEW todo, NEW answer, NEW x \in NextName(c, todo, answer)
      PROVE  "at" \in DOMAIN x /\ x.at \in {"resolving", "resolved"}
  BY <1>5 DEF NextName
<1>6. CASE Gathered(r)
  BY <1>2, <1>5, <1>6 DEF Gathered
<1>7. CASE ReadLevel(r)
  <2> DEFINE y == [call[r] EXCEPT !.left = @ \ {Foremost(call[r].left)}]
  <2>1. y.at = "resolving" /\ "at" \in DOMAIN y
        /\ call[r].at = "resolving"
    BY <1>7 DEF ReadLevel
  <2>2. PICK x : /\ call' = [call EXCEPT ![r] = x]
                 /\ \/ \E todo, answer : x \in NextName(call[r], todo, answer)
                    \/ x = y
    BY <1>7 DEF ReadLevel
  <2> HIDE DEF y
  <2>3. "at" \in DOMAIN x /\ x.at \in {"resolving", "resolved"}
    BY <1>5, <2>1, <2>2
  <2>4. QED
    BY <1>2, <2>1, <2>2, <2>3
<1>8. CASE AnswerResolution(r)
  BY <1>1, <1>2, <1>8 DEF AnswerResolution, Answer
<1>9. CASE BeginEdit(r)
  <2>1. call[r].at = "new"
    BY <1>1, <1>9 DEF BeginEdit, Arrives
  <2>2. ASSUME NEW cell, NEW goal,
               call' = [call EXCEPT ![r] = [at |-> "editing", cell |-> cell, goal |-> goal, row |-> rows[cell]]]
        PROVE  Goal
    BY <1>2, <2>1, <2>2
  <2>3. Goal
    BY <1>9, <2>2 DEF BeginEdit
  <2>4. QED
    BY <2>3 DEF Goal
<1>10. CASE CommitEdit(r)
  <2> DEFINE cell == call[r].cell
             y(q) == [call[q] EXCEPT !.edited[cell[2]] = @ + 1]
  <2>1. \A q \in Requests : "at" \in DOMAIN y(q) /\ y(q).at = call[q].at
    OBVIOUS
  <2>2. call[r].at = "editing" /\ call' = [q \in Requests |-> call'[q]]
        /\ \A q \in Requests : \/ q = r /\ call'[q] = Done
                               \/ call'[q] = call[q]
                               \/ call[q].at \in {"gathering", "resolving", "resolved"} /\ call'[q] = y(q)
    BY <1>10 DEF CommitEdit
  <2> HIDE DEF y
  <2>3. QED
    BY <1>1, <2>1, <2>2 DEF Goal
<1>11. QED
  BY <1>3, <1>4, <1>6, <1>7, <1>8, <1>9, <1>10 DEF PropertyRequest, Goal

-----------------------------------------------------------------------------
(* Webhooks and their calls.                                               *)

\* Who makes a run and who records a delivery are past their first steps.
LEMMA Authors ==
  ASSUME TriggersInv
  PROVE  /\ \A k \in DOMAIN runs : runs[k].by \in Requests /\ runs[k].hook \in DOMAIN hooks
         /\ \A d \in deliveries : d.by \in Requests
         /\ \A r \in Requests : call[r].at \in {"new", "triggering", "queued"} =>
              /\ \A k \in DOMAIN runs : runs[k].by # r
              /\ \A d \in deliveries : d.by # r
         /\ \A r \in Requests : call[r].at # "done" => \A d \in deliveries : d.by # r
<1>1. \A k \in DOMAIN runs : runs[k].by \in Requests
  BY Shapes DEF TriggersInv, RunRow
<1>2. \A d \in deliveries : d.by \in Requests
  BY DEF TriggersInv, Typed, Delivery
<1>3. QED
  BY <1>1, <1>2 DEF TriggersInv, OwnRun, Recorded

LEMMA HooksChange ==
  ASSUME TriggersInv, NEW r \in Requests, call[r].at = "new", NEW x, call' = [call EXCEPT ![r] = x],
         x = Done \/ x \in [at : {"triggering"}, hook : DOMAIN hooks'],
         hooks' \in Seq(Hook), DOMAIN hooks \subseteq DOMAIN hooks',
         \A h \in DOMAIN hooks : hooks'[h].live => hooks[h].live,
         deliveries' \subseteq deliveries,
         \A d \in deliveries : d \in deliveries' \/ (d.hook \in DOMAIN hooks /\ ~hooks'[d.hook].live),
         UNCHANGED <<runs, taskRuns>>
  PROVE  TriggersInv'
<1> USE DEF TriggersInv
<1>1. /\ call'[r] = x /\ "at" \in DOMAIN x /\ x.at \in {"done", "triggering"}
      /\ \A q \in Requests \ {r} : call'[q] = call[q]
      /\ call' = [q \in Requests |-> call'[q]]
  BY DEF Calls, Done
<1>2. /\ \A k \in DOMAIN runs : runs[k].by \in Requests /\ runs[k].by # r /\ runs[k].hook \in DOMAIN hooks
      /\ \A d \in deliveries : d.by \in Requests /\ d.by # r
  BY Authors
<1>3. Calls'
  BY <1>1 DEF Calls, Triggering, Recording, Queued, Done
<1>4. Typed'
  BY DEF Typed
<1>5. OwnRun'
  BY <1>1, <1>2 DEF OwnRun
<1>6. Recorded'
  <2>1. \A d \in deliveries : call'[d.by] = call[d.by]
    BY <1>1, <1>2
  <2>2. ASSUME NEW k \in DOMAIN runs, call'[runs[k].by].at = "done"
        PROVE  \/ ~hooks'[runs[k].hook].live
               \/ \E d \in deliveries' : d.by = runs[k].by /\ d.run = NoRun
               \/ \E d \in deliveries' : {e \in deliveries' : e.run = k /\ e.hook = runs[k].hook} = {d}
    <3>1. call[runs[k].by].at = "done" /\ runs[k].hook \in DOMAIN hooks
      BY <1>1, <1>2, <2>2
    <3>2. \A d \in deliveries : d.by = runs[k].by => d.hook = runs[k].hook
      BY DEF Recorded
    <3>3. CASE ~hooks[runs[k].hook].live
      BY <3>1, <3>3
    <3>4. CASE \E d \in deliveries : d.by = runs[k].by /\ d.run = NoRun
      BY <3>2, <3>4
    <3>5. ASSUME NEW d \in deliveries, {e \in deliveries : e.run = k /\ e.hook = runs[k].hook} = {d}
          PROVE  \/ ~hooks'[runs[k].hook].live
                 \/ \E f \in deliveries' : {e \in deliveries' : e.run = k /\ e.hook = runs[k].hook} = {f}
      <4>1. d.hook = runs[k].hook
        BY <3>5
      <4>2. CASE d \in deliveries'
        <5>1. {e \in deliveries' : e.run = k /\ e.hook = runs[k].hook} = {d}
          BY <3>5, <4>2
        <5>2. QED
          BY <4>2, <5>1
      <4>3. QED
        BY <4>1, <4>2
    <3>6. QED
      BY <3>1, <3>3, <3>4, <3>5 DEF Recorded
  <2>3. QED
    BY <2>1, <2>2 DEF Recorded
<1>7. Staged' /\ Taken'
  BY DEF Staged, CancelledAlong, Taken
<1>8. Waited'
  BY <1>1 DEF Waited
<1>9. QED
  BY <1>3, <1>4, <1>5, <1>6, <1>7, <1>8

LEMMA HookStep ==
  ASSUME TriggersInv, NEW r \in Requests,
         CreateWebhook(r) \/ \E h \in DOMAIN hooks : UpdateWebhook(r, h) \/ DeleteWebhook(r, h) \/ Trigger(r, h)
  PROVE  TriggersInv'
<1>1. hooks \in Seq(Hook) /\ DOMAIN hooks = 1..Len(hooks) /\ Len(hooks) \in Nat
      /\ \A h \in DOMAIN hooks : hooks[h] \in Hook
  BY Shapes DEF TriggersInv, Typed
<1>2. call[r].at = "new"
  BY DEF CreateWebhook, UpdateWebhook, DeleteWebhook, Trigger, Arrives, New
<1>3. CASE CreateWebhook(r)
  <2> DEFINE new == [live |-> TRUE, active |-> TRUE, token |-> 0]
  <2>1. /\ hooks' = Append(hooks, new) /\ call' = [call EXCEPT ![r] = Done]
        /\ UNCHANGED <<deliveries, runs, taskRuns>> /\ new \in Hook
    BY <1>3 DEF CreateWebhook, Answer, Hook
  <2> HIDE DEF new
  <2>2. hooks' \in Seq(Hook) /\ DOMAIN hooks \subseteq DOMAIN hooks' /\ \A h \in DOMAIN hooks : hooks'[h] = hooks[h]
    BY <1>1, <2>1, AppendProperties
  <2>3. QED
    BY <1>2, <2>1, <2>2, HooksChange
<1>4. ASSUME NEW h \in DOMAIN hooks, UpdateWebhook(r, h)
      PROVE  TriggersInv'
  <2>1. PICK active \in BOOLEAN, regenerate \in {0, 1} :
          hooks' = [hooks EXCEPT ![h].active = active, ![h].token = @ + regenerate]
    BY <1>4 DEF UpdateWebhook
  <2>2. call' = [call EXCEPT ![r] = Done] /\ UNCHANGED <<deliveries, runs, taskRuns>>
    BY <1>4 DEF UpdateWebhook, Answer
  <2> DEFINE new == [hooks[h] EXCEPT !.active = active, !.token = @ + regenerate]
  <2>3. hooks' = [hooks EXCEPT ![h] = new] /\ new \in Hook /\ new.live = hooks[h].live
    <3>1. hooks[h] \in [live : BOOLEAN, active : BOOLEAN, token : Nat]
      BY <1>1 DEF Hook
    <3> DEFINE token == hooks[h].token + regenerate
    <3>2. new \in Hook /\ new.live = hooks[h].live
      <4>1. token \in Nat
        BY <3>1
      <4> HIDE DEF token
      <4>2. [hooks[h] EXCEPT !.active = active, !.token = token] \in Hook
        BY <3>1, <4>1 DEF Hook
      <4>3. [hooks[h] EXCEPT !.active = active, !.token = token].live = hooks[h].live
        BY <3>1
      <4>4. QED
        BY <4>2, <4>3 DEF token
    <3>3. hooks' = [hooks EXCEPT ![h] = new]
      BY <2>1
    <3>4. QED
      BY <3>2, <3>3
  <2> HIDE DEF new
  <2>4. hooks' \in Seq(Hook) /\ DOMAIN hooks' = DOMAIN hooks /\ \A g \in DOMAIN hooks : hooks'[g].live = hooks[g].live
    BY <1>1, <2>3, ExceptSeq
  <2>5. QED
    BY <1>2, <2>2, <2>4, HooksChange
<1>5. ASSUME NEW h \in DOMAIN hooks, DeleteWebhook(r, h)
      PROVE  TriggersInv'
  <2>1. /\ hooks' = [hooks EXCEPT ![h].live = FALSE] /\ deliveries' = {d \in deliveries : d.hook # h}
        /\ call' = [call EXCEPT ![r] = Done] /\ UNCHANGED <<runs, taskRuns>>
    BY <1>5 DEF DeleteWebhook, Answer
  <2> DEFINE new == [hooks[h] EXCEPT !.live = FALSE]
  <2>2. hooks' = [hooks EXCEPT ![h] = new] /\ new \in Hook /\ ~new.live
    <3>1. hooks[h] \in [live : BOOLEAN, active : BOOLEAN, token : Nat]
      BY <1>1 DEF Hook
    <3>2. QED
      BY <2>1, <3>1 DEF Hook
  <2> HIDE DEF new
  <2>3. /\ hooks' \in Seq(Hook) /\ DOMAIN hooks' = DOMAIN hooks /\ ~hooks'[h].live
        /\ \A g \in DOMAIN hooks : hooks'[g].live => hooks[g].live
    BY <1>1, <2>2, ExceptSeq
  <2>4. QED
    BY <1>2, <2>1, <2>3, HooksChange
<1>6. ASSUME NEW h \in DOMAIN hooks, Trigger(r, h)
      PROVE  TriggersInv'
  <2> DEFINE x == [at |-> "triggering", hook |-> h]
  <2>1. UNCHANGED tables /\ (call' = [call EXCEPT ![r] = x] \/ call' = [call EXCEPT ![r] = Done])
    BY <1>6 DEF Trigger, Answer
  <2>2. x \in [at : {"triggering"}, hook : DOMAIN hooks']
    BY <2>1 DEF tables
  <2> HIDE DEF x
  <2>3. QED
    BY <1>1, <1>2, <2>1, <2>2, HooksChange DEF tables
<1>7. QED
  BY <1>3, <1>4, <1>5, <1>6

LEMMA SeedShape ==
  ASSUME NEW k \in Nat
  PROVE  /\ Seed(k) \in Seq(TaskRow) /\ Len(Seed(k)) \in Nat
         /\ \A i \in 1..Len(Seed(k)) :
              Seed(k)[i] = [status |-> "Pending", run |-> k, own |-> "none", early |-> TRUE, scripts |-> 0, result |-> "Pending"]
<1> DEFINE row == [status |-> "Pending", run |-> k, own |-> "none", early |-> TRUE, scripts |-> 0, result |-> "Pending"]
<1>1. row \in TaskRow
  BY DEF TaskRow
<1>2. Seed(k) = [i \in 1..SeededTasks |-> row] /\ SeededTasks \in Nat
  BY TriggersAssumption DEF Seed
<1> HIDE DEF row
<1>3. QED
  BY <1>1, <1>2 DEF row

LEMMA CommitRunKept ==
  ASSUME TriggersInv, NEW r \in Requests, CommitRun(r)
  PROVE  TriggersInv'
<1> USE DEF TriggersInv
<1> DEFINE k == Len(runs) + 1
           x == [at |-> "committed", hook |-> call[r].hook, run |-> k]
           run == [by |-> r, hook |-> call[r].hook, pc |-> "seeded", todo |-> {}, current |-> 0]
<1>1. /\ call[r].at = "triggering" /\ call[r].hook \in DOMAIN hooks
      /\ call' = [call EXCEPT ![r] = x] /\ UNCHANGED <<hooks, deliveries>>
      /\ runs' = Append(runs, run) /\ taskRuns' = taskRuns \o Seed(k)
  BY DEF CommitRun, Calls, Triggering
<1>2. /\ DOMAIN runs = 1..Len(runs) /\ Len(runs) \in Nat /\ k \in Nat /\ k # NoRun
      /\ DOMAIN taskRuns = 1..Len(taskRuns) /\ Len(taskRuns) \in Nat
      /\ runs \in Seq(RunRow) /\ taskRuns \in Seq(TaskRow) /\ call[r].hook \in Nat
  BY <1>1, Shapes DEF Typed, NoRun
<1>3. run \in RunRow /\ run.by = r /\ run.hook = call[r].hook /\ run.pc = "seeded" /\ run.todo = {} /\ run.current = 0
  BY <1>2 DEF RunRow
<1>4. x.at = "committed" /\ x.hook = call[r].hook /\ x.run = k /\ "at" \in DOMAIN x
      /\ x \in [at : {"committed"}, hook : DOMAIN hooks, run : {k}]
  BY <1>1
<1> HIDE DEF x, run, k
<1>5. /\ runs' \in Seq(RunRow) /\ DOMAIN runs' = DOMAIN runs \cup {k} /\ k \notin DOMAIN runs
      /\ runs'[k] = run /\ \A j \in DOMAIN runs : runs'[j] = runs[j]
  <2>1. /\ runs' \in Seq(RunRow) /\ Len(runs') = Len(runs) + 1 /\ runs'[Len(runs) + 1] = run
        /\ \A j \in 1..Len(runs) : runs'[j] = runs[j]
    BY <1>1, <1>2, <1>3, AppendProperties
  <2>2. DOMAIN runs' = 1..(Len(runs) + 1)
    BY <2>1, LenProperties
  <2>3. QED
    BY <1>2, <2>1, <2>2 DEF k
<1>6. /\ taskRuns' \in Seq(TaskRow) /\ DOMAIN taskRuns \subseteq DOMAIN taskRuns'
      /\ \A i \in DOMAIN taskRuns : taskRuns'[i] = taskRuns[i]
      /\ \A i \in DOMAIN taskRuns' \ DOMAIN taskRuns :
           taskRuns'[i] = [status |-> "Pending", run |-> k, own |-> "none", early |-> TRUE, scripts |-> 0, result |-> "Pending"]
  <2> DEFINE seed == Seed(k)
  <2>1. seed \in Seq(TaskRow) /\ Len(seed) \in Nat
        /\ \A i \in 1..Len(seed) :
             seed[i] = [status |-> "Pending", run |-> k, own |-> "none", early |-> TRUE, scripts |-> 0, result |-> "Pending"]
    BY <1>2, SeedShape
  <2>2. taskRuns' = taskRuns \o seed
    BY <1>1
  <2> HIDE DEF seed
  <2>3. /\ taskRuns' \in Seq(TaskRow) /\ Len(taskRuns') = Len(taskRuns) + Len(seed)
        /\ \A i \in 1..Len(taskRuns) + Len(seed) :
             taskRuns'[i] = IF i <= Len(taskRuns) THEN taskRuns[i] ELSE seed[i - Len(taskRuns)]
    BY <1>2, <2>1, <2>2, ConcatProperties
  <2>4. DOMAIN taskRuns' = 1..Len(taskRuns) + Len(seed)
    BY <2>3, LenProperties
  <2>5. \A i \in DOMAIN taskRuns' \ DOMAIN taskRuns : i - Len(taskRuns) \in 1..Len(seed) /\ ~(i <= Len(taskRuns))
    BY <1>2, <2>1, <2>4
  <2>6. QED
    BY <1>2, <2>1, <2>3, <2>4, <2>5
<1>7. /\ call'[r] = x /\ \A q \in Requests \ {r} : call'[q] = call[q]
      /\ call' = [q \in Requests |-> call'[q]]
  BY <1>1 DEF Calls
<1>8. /\ \A j \in DOMAIN runs : runs[j].by \in Requests \ {r}
      /\ \A d \in deliveries : d.by \in Requests \ {r}
  BY <1>1, Authors
<1>9. Calls'
  BY <1>1, <1>4, <1>5, <1>6, <1>7 DEF Calls, Triggering, Recording, Queued
<1>10. Typed'
  BY <1>1, <1>5, <1>6 DEF Typed
<1>11. OwnRun'
  BY <1>1, <1>3, <1>4, <1>5, <1>7, <1>8 DEF OwnRun
<1>12. Recorded'
  <2>1. \A j \in DOMAIN runs : j # k
    BY <1>5
  <2>2. ASSUME NEW d \in deliveries
        PROVE  /\ call'[d.by].at = "done"
               /\ d.run # NoRun => /\ d.run \in DOMAIN runs' /\ runs'[d.run].by = d.by
                                   /\ runs'[d.run].hook = d.hook /\ runs'[d.run].pc # "seeded"
               /\ \A j \in DOMAIN runs' : runs'[j].by = d.by => runs'[j].hook = d.hook
    BY <1>3, <1>5, <1>7, <1>8, <2>1 DEF Recorded
  <2>3. ASSUME NEW j \in DOMAIN runs', call'[runs'[j].by].at = "done"
        PROVE  j \in DOMAIN runs /\ runs'[j] = runs[j] /\ call[runs[j].by].at = "done"
    BY <1>3, <1>4, <1>5, <1>7, <1>8, <2>3
  <2>4. ASSUME NEW j \in DOMAIN runs', call'[runs'[j].by].at = "done"
        PROVE  \/ ~hooks[runs'[j].hook].live
               \/ \E d \in deliveries : d.by = runs'[j].by /\ d.run = NoRun
               \/ \E d \in deliveries : {e \in deliveries : e.run = j /\ e.hook = runs'[j].hook} = {d}
    BY <2>3, <2>4 DEF Recorded
  <2>5. hooks' = hooks /\ deliveries' = deliveries
    BY <1>1
  <2>6. QED
    BY <2>2, <2>4, <2>5 DEF Recorded
<1>13. Staged'
  <2>1. ASSUME NEW i \in DOMAIN taskRuns
        PROVE  taskRuns'[i] = taskRuns[i] /\ (taskRuns[i].run # NoRun => runs'[taskRuns[i].run] = runs[taskRuns[i].run])
    BY <1>5, <1>6 DEF Staged, CancelledAlong
  <2>2. ASSUME NEW i \in DOMAIN taskRuns' \ DOMAIN taskRuns
        PROVE  LET t == taskRuns'[i] IN t.run = k /\ t.own = "none" /\ t.early /\ t.scripts = 0
    BY <1>6
  <2>3. QED
    BY <1>2, <1>3, <1>5, <2>1, <2>2 DEF Staged, CancelledAlong
<1>14. Taken'
  BY <1>3, <1>5, <1>6 DEF Taken
<1>15. Waited'
  BY <1>4, <1>6, <1>7 DEF Waited, Calls, Queued
<1>16. QED
  BY <1>9, <1>10, <1>11, <1>12, <1>13, <1>14, <1>15

\* What a change of one run's row keeps of the list of runs.
LEMMA RunsEdited ==
  ASSUME TriggersInv, NEW k \in DOMAIN runs, NEW new \in RunRow, runs' = [runs EXCEPT ![k] = new]
  PROVE  /\ runs' \in Seq(RunRow) /\ DOMAIN runs' = DOMAIN runs /\ runs'[k] = new
         /\ \A j \in DOMAIN runs \ {k} : runs'[j] = runs[j]
BY Shapes, ExceptSeq DEF TriggersInv, Typed

\* Changes that no delivery is affected by.
LEMMA RecordedStays ==
  ASSUME TriggersInv, UNCHANGED <<hooks, deliveries>>, DOMAIN runs' = DOMAIN runs,
         \A k \in DOMAIN runs : /\ runs'[k].by = runs[k].by /\ runs'[k].hook = runs[k].hook
                                /\ runs'[k].pc = "seeded" => runs[k].pc = "seeded"
                                /\ call'[runs[k].by].at = "done" => call[runs[k].by].at = "done",
         \A d \in deliveries : call'[d.by].at = "done"
  PROVE  Recorded'
<1> USE DEF TriggersInv
<1>1. ASSUME NEW d \in deliveries
      PROVE  /\ call'[d.by].at = "done"
             /\ d.run # NoRun => /\ d.run \in DOMAIN runs' /\ runs'[d.run].by = d.by
                                 /\ runs'[d.run].hook = d.hook /\ runs'[d.run].pc # "seeded"
             /\ \A k \in DOMAIN runs' : runs'[k].by = d.by => runs'[k].hook = d.hook
  BY DEF Recorded
<1>2. ASSUME NEW k \in DOMAIN runs', call'[runs'[k].by].at = "done"
      PROVE  \/ ~hooks[runs'[k].hook].live
             \/ \E d \in deliveries : d.by = runs'[k].by /\ d.run = NoRun
             \/ \E d \in deliveries : {e \in deliveries : e.run = k /\ e.hook = runs'[k].hook} = {d}
  BY <1>2 DEF Recorded
<1>3. QED
  BY <1>1, <1>2 DEF Recorded

LEMMA StartExecutorKept ==
  ASSUME TriggersInv, NEW r \in Requests, StartExecutor(r)
  PROVE  TriggersInv'
<1> USE DEF TriggersInv
<1> DEFINE k == call[r].run
           x == [call[r] EXCEPT !.at = "started"]
           run == [runs[k] EXCEPT !.pc = "ready"]
<1>1. /\ call[r].at = "committed" /\ call[r] \in Recording
      /\ call' = [call EXCEPT ![r] = x] /\ UNCHANGED <<hooks, deliveries, taskRuns>>
      /\ runs' = [runs EXCEPT ![k] = run]
  BY DEF StartExecutor, Calls
<1>2. k \in DOMAIN runs /\ runs[k].by = r /\ runs[k].pc = "seeded" /\ runs[k] \in RunRow
  BY <1>1, Shapes DEF OwnRun
<1>3. /\ run \in RunRow /\ run.pc = "ready" /\ run.by = r /\ run.hook = runs[k].hook
      /\ run.todo = runs[k].todo /\ run.current = runs[k].current
  BY <1>2 DEF RunRow
<1>4. x \in Recording /\ x.at = "started" /\ x.hook = call[r].hook /\ x.run = k /\ "at" \in DOMAIN x
  BY <1>1 DEF Recording
<1>5. /\ call'[r] = x /\ \A q \in Requests \ {r} : call'[q] = call[q]
      /\ call' = [q \in Requests |-> call'[q]]
  BY <1>1 DEF Calls
<1> HIDE DEF x, run
<1>6. PICK j \in DOMAIN runs : j = k
  BY <1>2
<1>7. /\ runs' \in Seq(RunRow) /\ DOMAIN runs' = DOMAIN runs /\ runs'[j] = run
      /\ \A l \in DOMAIN runs \ {j} : runs'[l] = runs[l]
  BY <1>1, <1>2, <1>3, <1>6, RunsEdited
<1> HIDE DEF k
<1>8. \A d \in deliveries : d.by \in Requests \ {r}
  BY <1>1, Authors
<1>9. Calls'
  BY <1>1, <1>4, <1>5, <1>7 DEF Calls, Triggering, Recording, Queued
<1>10. Typed'
  BY <1>1, <1>7 DEF Typed
<1>11. OwnRun'
  <2>1. \A l \in DOMAIN runs : runs'[l].by = runs[l].by /\ runs'[l].hook = runs[l].hook /\ runs[l].by \in Requests
    BY <1>2, <1>3, <1>6, <1>7, Authors
  <2>2. \A l \in DOMAIN runs : runs[l].by = r => l = k
    BY <1>1 DEF OwnRun, k
  <2>3. call[r].hook = runs[k].hook
    BY <1>1, <1>2 DEF OwnRun
  <2>4. ASSUME NEW l \in DOMAIN runs'
        PROVE  LET q == runs'[l].by
               IN  /\ call'[q].at \in {"committed", "started", "failed", "lost", "done"}
                   /\ runs'[l].hook \in DOMAIN hooks'
                   /\ call'[q].at \in {"committed", "started", "failed"} => call'[q].hook = runs'[l].hook
                   /\ call'[q].at \in {"committed", "started"} => call'[q].run = l
    BY <1>1, <1>4, <1>5, <1>7, <2>1, <2>2, <2>3 DEF OwnRun
  <2>5. ASSUME NEW q \in Requests
        PROVE  /\ call'[q].at \in {"committed", "started"} =>
                    call'[q].run \in DOMAIN runs' /\ runs'[call'[q].run].by = q
               /\ call'[q].at = "committed" => runs'[call'[q].run].pc = "seeded"
               /\ call'[q].at = "started" => runs'[call'[q].run].pc # "seeded"
               /\ call'[q].at = "failed" => call'[q].run = NoRun
    <3>1. CASE q = r
      BY <1>2, <1>3, <1>4, <1>5, <1>6, <1>7, <3>1
    <3>2. CASE q # r
      BY <1>2, <1>3, <1>5, <1>6, <1>7, <3>2 DEF OwnRun
    <3>3. QED
      BY <3>1, <3>2
  <2>6. QED
    BY <2>4, <2>5 DEF OwnRun
<1>12. Recorded'
  <2>1. \A l \in DOMAIN runs : runs'[l].by = runs[l].by /\ runs'[l].hook = runs[l].hook /\ (runs'[l].pc = "seeded" => runs[l].pc = "seeded")
    BY <1>2, <1>3, <1>6, <1>7
  <2>2. \A q \in Requests : call'[q].at = "done" <=> call[q].at = "done"
    BY <1>1, <1>4, <1>5
  <2>3. \A l \in DOMAIN runs : runs[l].by \in Requests
    BY Authors
  <2>4. hooks' = hooks /\ deliveries' = deliveries
    BY <1>1
  <2>5. QED
    BY <1>7, <1>8, <2>1, <2>2, <2>3, <2>4, RecordedStays DEF Recorded
<1>13. Staged'
  <2>1. \A l \in DOMAIN runs : /\ runs'[l].todo = runs[l].todo /\ runs'[l].current = runs[l].current
                               /\ runs'[l] = runs[l] \/ (runs[l].pc = "seeded" /\ runs'[l].pc = "ready")
    BY <1>2, <1>3, <1>6, <1>7
  <2>2. QED
    BY <1>1, <1>7, <2>1 DEF Staged, CancelledAlong
<1>14. Taken'
  BY <1>1, <1>2, <1>3, <1>6, <1>7 DEF Taken
<1>15. Waited'
  BY <1>1, <1>4, <1>5 DEF Waited
<1>16. QED
  BY <1>9, <1>10, <1>11, <1>12, <1>13, <1>14, <1>15

\* The end of a request that changes no table but the deliveries, and keeps those in order.
LEMMA OnlyDeliveries ==
  ASSUME TriggersInv, NEW r \in Requests, call[r].at \in {"triggering", "committed", "started", "failed"},
         NEW x, "at" \in DOMAIN x, call' = [call EXCEPT ![r] = x],
         \/ x.at \in {"lost", "done"}
         \/ x \in Recording /\ x.at = "failed" /\ x.hook = call[r].hook /\ x.run = NoRun,
         UNCHANGED <<hooks, runs, taskRuns>>, deliveries' \subseteq Delivery, Recorded'
  PROVE  TriggersInv'
<1> USE DEF TriggersInv
<1>1. /\ call'[r] = x /\ \A q \in Requests \ {r} : call'[q] = call[q]
      /\ call' = [q \in Requests |-> call'[q]]
  BY DEF Calls
<1>2. \A k \in DOMAIN runs : runs[k].by \in Requests
  BY Authors
<1>3. Calls'
  BY <1>1 DEF Calls, Triggering, Recording, Queued
<1>4. Typed'
  BY DEF Typed
<1>5. OwnRun'
  <2>1. \A k \in DOMAIN runs : runs[k].by = r => call[r].at # "triggering" /\ call[r].hook = runs[k].hook
    BY Authors DEF OwnRun
  <2>2. ASSUME NEW k \in DOMAIN runs
        PROVE  LET q == runs[k].by
               IN  /\ call'[q].at \in {"committed", "started", "failed", "lost", "done"}
                   /\ runs[k].hook \in DOMAIN hooks
                   /\ call'[q].at \in {"committed", "started", "failed"} => call'[q].hook = runs[k].hook
                   /\ call'[q].at \in {"committed", "started"} => call'[q].run = k
    BY <1>1, <1>2, <2>1 DEF OwnRun
  <2>3. ASSUME NEW q \in Requests
        PROVE  /\ call'[q].at \in {"committed", "started"} =>
                    call'[q].run \in DOMAIN runs /\ runs[call'[q].run].by = q
               /\ call'[q].at = "committed" => runs[call'[q].run].pc = "seeded"
               /\ call'[q].at = "started" => runs[call'[q].run].pc # "seeded"
               /\ call'[q].at = "failed" => call'[q].run = NoRun
    BY <1>1 DEF OwnRun
  <2>4. QED
    BY <2>2, <2>3 DEF OwnRun
<1>6. Staged' /\ Taken'
  BY DEF Staged, CancelledAlong, Taken
<1>7. Waited'
  BY <1>1 DEF Waited
<1>8. QED
  BY <1>3, <1>4, <1>5, <1>6, <1>7

LEMMA StartFailsKept ==
  ASSUME TriggersInv, NEW r \in Requests, StartFails(r)
  PROVE  TriggersInv'
<1> USE DEF TriggersInv
<1> DEFINE x == [at |-> "failed", hook |-> call[r].hook, run |-> NoRun]
<1>1. /\ call[r].at \in {"triggering", "committed"} /\ call[r].hook \in DOMAIN hooks
      /\ call' = [call EXCEPT ![r] = x] /\ UNCHANGED tables
  BY DEF StartFails, Calls, Triggering, Recording
<1>2. x \in Recording /\ x.at = "failed" /\ x.hook = call[r].hook /\ x.run = NoRun /\ "at" \in DOMAIN x
  BY <1>1 DEF Recording
<1> HIDE DEF x
<1>3. Recorded'
  <2>1. \A q \in Requests : call'[q].at = "done" <=> call[q].at = "done"
    BY <1>1, <1>2 DEF Calls
  <2>2. /\ \A k \in DOMAIN runs : runs[k].by \in Requests
        /\ \A d \in deliveries : d.by \in Requests /\ call[d.by].at = "done"
    BY Authors DEF Recorded
  <2>3. QED
    BY <1>1, <2>1, <2>2, RecordedStays DEF tables
<1>4. QED
  BY <1>1, <1>2, <1>3, OnlyDeliveries DEF tables, Typed

LEMMA DeliverKept ==
  ASSUME TriggersInv, NEW r \in Requests, Deliver(r)
  PROVE  TriggersInv'
<1> USE DEF TriggersInv
<1>1. call[r].at \in {"started", "failed"} /\ call[r] \in Recording /\ UNCHANGED <<hooks, runs, taskRuns>>
  BY DEF Deliver, Calls
<1>2. /\ \A k \in DOMAIN runs : runs[k].by \in Requests
      /\ \A d \in deliveries : d.by \in Requests /\ d.by # r /\ call[d.by].at = "done"
  BY <1>1, Authors DEF Recorded
<1>3. \A k \in DOMAIN runs : runs[k].by = r => call[r].hook = runs[k].hook /\ (call[r].at = "started" => call[r].run = k)
  BY <1>1 DEF OwnRun
<1>4. Done.at = "done" /\ "at" \in DOMAIN Done
  BY DEF Done
<1>5. CASE deliveries' = deliveries \cup {DeliveryOf(r)} /\ Answer(r)
  <2>1. call' = [call EXCEPT ![r] = Done]
    BY <1>5 DEF Answer
  <2>2. call'[r].at = "done" /\ \A q \in Requests \ {r} : call'[q] = call[q]
    BY <1>4, <2>1 DEF Calls
  <2>3. PICK d : d = DeliveryOf(r)
    OBVIOUS
  <2>4. /\ d \in Delivery /\ d.by = r /\ d.hook = call[r].hook /\ d.run = call[r].run
        /\ deliveries' = deliveries \cup {d}
    <3>1. hooks \in Seq(Hook) /\ DOMAIN hooks \subseteq Nat /\ DOMAIN runs \subseteq Nat
      BY Shapes DEF Typed
    <3>2. call[r].hook \in Nat /\ call[r].run \in Nat
      BY <1>1, <3>1 DEF Recording, NoRun
    <3>3. QED
      BY <1>5, <2>3, <3>2 DEF DeliveryOf, Delivery
  <2>5. d.run # NoRun => /\ call[r].at = "started" /\ d.run \in DOMAIN runs /\ runs[d.run].by = r
                         /\ runs[d.run].hook = d.hook /\ runs[d.run].pc # "seeded"
    BY <1>1, <2>4 DEF OwnRun
  <2>6. \A k \in DOMAIN runs : k # NoRun
    BY Shapes DEF NoRun
  <2>7. ASSUME NEW e \in deliveries'
        PROVE  /\ call'[e.by].at = "done"
               /\ e.run # NoRun => /\ e.run \in DOMAIN runs /\ runs[e.run].by = e.by
                                   /\ runs[e.run].hook = e.hook /\ runs[e.run].pc # "seeded"
               /\ \A k \in DOMAIN runs : runs[k].by = e.by => runs[k].hook = e.hook
    <3>1. CASE e = d
      BY <1>3, <2>2, <2>4, <2>5, <3>1
    <3>2. CASE e \in deliveries
      BY <1>2, <2>2, <3>2 DEF Recorded
    <3>3. QED
      BY <2>4, <3>1, <3>2
  <2>8. ASSUME NEW k \in DOMAIN runs, call'[runs[k].by].at = "done"
        PROVE  \/ ~hooks[runs[k].hook].live
               \/ \E e \in deliveries' : e.by = runs[k].by /\ e.run = NoRun
               \/ \E e \in deliveries' : {f \in deliveries' : f.run = k /\ f.hook = runs[k].hook} = {e}
    <3>1. CASE runs[k].by = r
      <4>1. CASE d.run = NoRun
        BY <2>4, <3>1, <4>1
      <4>2. CASE d.run # NoRun
        <5>1. d.run = k /\ d.hook = runs[k].hook
          BY <1>3, <2>4, <2>5, <3>1, <4>2
        <5>2. \A e \in deliveries : e.run # k
          BY <1>2, <2>6, <3>1 DEF Recorded
        <5>3. {f \in deliveries' : f.run = k /\ f.hook = runs[k].hook} = {d}
          BY <2>4, <5>1, <5>2
        <5>4. QED
          BY <2>4, <5>3
      <4>3. QED
        BY <4>1, <4>2
    <3>2. CASE runs[k].by # r
      <4>1. call[runs[k].by].at = "done"
        BY <1>2, <2>2, <2>8, <3>2
      <4>2. d.run # k
        BY <2>5, <2>6, <3>2
      <4>3. {f \in deliveries' : f.run = k /\ f.hook = runs[k].hook} = {f \in deliveries : f.run = k /\ f.hook = runs[k].hook}
        BY <2>4, <4>2
      <4>4. deliveries \subseteq deliveries'
        BY <2>4
      <4>5. QED
        BY <4>1, <4>3, <4>4 DEF Recorded
    <3>3. QED
      BY <3>1, <3>2
  <2>9. Recorded'
    BY <1>1, <2>7, <2>8 DEF Recorded
  <2>10. deliveries' \subseteq Delivery
    BY <2>4 DEF Typed
  <2>11. QED
    BY <1>1, <1>4, <2>1, <2>9, <2>10, OnlyDeliveries
<1>6. CASE ~hooks[call[r].hook].live /\ UNCHANGED deliveries /\ Answer(r)
  <2>1. call' = [call EXCEPT ![r] = Done]
    BY <1>6 DEF Answer
  <2>2. \A q \in Requests \ {r} : call'[q] = call[q]
    BY <2>1 DEF Calls
  <2>3. ASSUME NEW e \in deliveries
        PROVE  /\ call'[e.by].at = "done"
               /\ e.run # NoRun => /\ e.run \in DOMAIN runs /\ runs[e.run].by = e.by
                                   /\ runs[e.run].hook = e.hook /\ runs[e.run].pc # "seeded"
               /\ \A k \in DOMAIN runs : runs[k].by = e.by => runs[k].hook = e.hook
    BY <1>2, <2>2 DEF Recorded
  <2>4. ASSUME NEW k \in DOMAIN runs, call'[runs[k].by].at = "done"
        PROVE  \/ ~hooks[runs[k].hook].live
               \/ \E e \in deliveries : e.by = runs[k].by /\ e.run = NoRun
               \/ \E e \in deliveries : {f \in deliveries : f.run = k /\ f.hook = runs[k].hook} = {e}
    <3>1. CASE runs[k].by = r
      BY <1>3, <1>6, <3>1
    <3>2. CASE runs[k].by # r
      BY <1>2, <2>2, <2>4, <3>2 DEF Recorded
    <3>3. QED
      BY <3>1, <3>2
  <2>5. Recorded'
    BY <1>1, <1>6, <2>3, <2>4 DEF Recorded
  <2>6. QED
    BY <1>1, <1>4, <1>6, <2>1, <2>5, OnlyDeliveries DEF Typed
<1>7. CASE call[r].at = "failed" /\ UNCHANGED deliveries /\ call' = [call EXCEPT ![r].at = "lost"]
  <2> DEFINE x == [call[r] EXCEPT !.at = "lost"]
  <2>1. call' = [call EXCEPT ![r] = x] /\ "at" \in DOMAIN x /\ x.at = "lost"
    BY <1>1, <1>7 DEF Recording
  <2> HIDE DEF x
  <2>2. \A q \in Requests : call'[q].at = "done" <=> call[q].at = "done"
    BY <1>1, <2>1 DEF Calls
  <2>3. Recorded'
    BY <1>1, <1>2, <1>7, <2>2, RecordedStays
  <2>4. QED
    BY <1>1, <1>7, <2>1, <2>3, OnlyDeliveries DEF Typed
<1>8. QED
  BY <1>5, <1>6, <1>7 DEF Deliver

-----------------------------------------------------------------------------
(* Task runs on demand and their threads.                                  *)

\* What a change of one task run's row keeps of the list.
LEMMA TasksEdited ==
  ASSUME TriggersInv, NEW i \in DOMAIN taskRuns, NEW new \in TaskRow, taskRuns' = [taskRuns EXCEPT ![i] = new]
  PROVE  /\ taskRuns' \in Seq(TaskRow) /\ DOMAIN taskRuns' = DOMAIN taskRuns /\ taskRuns'[i] = new
         /\ \A j \in DOMAIN taskRuns \ {i} : taskRuns'[j] = taskRuns[j]
BY Shapes, ExceptSeq DEF TriggersInv, Typed

\* No delivery and no run is made by a request about a task run.
LEMMA RunTaskKept ==
  ASSUME TriggersInv, NEW r \in Requests, NEW k \in {NoRun} \cup DOMAIN runs, RunTask(r, k)
  PROVE  TriggersInv'
<1> USE DEF TriggersInv
<1> DEFINE n == Len(taskRuns) + 1
           x == [at |-> "queued", row |-> n]
<1>1. PICK early \in BOOLEAN : early = (k # NoRun /\ runs[k].pc \in {"seeded", "ready"})
  OBVIOUS
<1> DEFINE new == [status |-> "Pending", run |-> k, own |-> "none", early |-> early, scripts |-> 0, result |-> "Pending"]
<1>2. /\ call[r].at = "new" /\ call' = [call EXCEPT ![r] = x] /\ UNCHANGED <<hooks, deliveries, runs>>
      /\ taskRuns' = Append(taskRuns, new)
  <2>1. new = [status |-> "Pending", run |-> k, own |-> "none",
               early |-> k # NoRun /\ runs[k].pc \in {"seeded", "ready"}, scripts |-> 0, result |-> "Pending"]
    BY <1>1
  <2>2. QED
    BY <2>1 DEF RunTask, Arrives, New
<1>3. /\ DOMAIN taskRuns = 1..Len(taskRuns) /\ Len(taskRuns) \in Nat /\ taskRuns \in Seq(TaskRow) /\ k \in Nat
  BY Shapes DEF Typed, NoRun
<1>4. /\ new \in TaskRow /\ new.run = k /\ new.own = "none" /\ new.early = early /\ new.scripts = 0
  BY <1>3 DEF TaskRow
<1>5. x.at = "queued" /\ "at" \in DOMAIN x /\ x.row = n /\ x \in [at : {"queued"}, row : {n}]
  OBVIOUS
<1>6. /\ taskRuns' \in Seq(TaskRow) /\ DOMAIN taskRuns' = DOMAIN taskRuns \cup {n} /\ n \notin DOMAIN taskRuns
      /\ taskRuns'[n] = new /\ \A i \in DOMAIN taskRuns : taskRuns'[i] = taskRuns[i]
  <2> HIDE DEF new
  <2>1. /\ taskRuns' \in Seq(TaskRow) /\ Len(taskRuns') = Len(taskRuns) + 1 /\ taskRuns'[Len(taskRuns) + 1] = new
        /\ \A i \in 1..Len(taskRuns) : taskRuns'[i] = taskRuns[i]
    BY <1>2, <1>3, <1>4, AppendProperties
  <2>2. DOMAIN taskRuns' = 1..(Len(taskRuns) + 1)
    BY <2>1, LenProperties
  <2>3. QED
    BY <1>3, <2>1, <2>2
<1> HIDE DEF x, new, n
<1>7. /\ call'[r] = x /\ \A q \in Requests \ {r} : call'[q] = call[q]
      /\ call' = [q \in Requests |-> call'[q]]
  BY <1>2 DEF Calls
<1>8. /\ \A j \in DOMAIN runs : runs[j].by \in Requests \ {r}
      /\ \A d \in deliveries : d.by \in Requests \ {r} /\ call[d.by].at = "done"
  BY <1>2, Authors DEF Recorded
<1>9. Calls'
  BY <1>2, <1>5, <1>6, <1>7 DEF Calls, Triggering, Recording, Queued
<1>10. Typed'
  BY <1>2, <1>6 DEF Typed
<1>11. OwnRun'
  BY <1>2, <1>5, <1>7, <1>8 DEF OwnRun
<1>12. Recorded'
  BY <1>2, <1>7, <1>8, RecordedStays
<1>13. Staged'
  <2>1. runs' = runs /\ (k # NoRun => k \in DOMAIN runs)
    BY <1>2
  <2>2. ASSUME NEW i \in DOMAIN taskRuns', i = n
        PROVE  LET t == taskRuns'[i]
               IN  t.run = k /\ t.own = "none" /\ (t.early <=> k # NoRun /\ runs[k].pc \in {"seeded", "ready"})
                   /\ t.scripts = 0
    BY <1>1, <1>4, <1>6, <2>2
  <2>3. ASSUME NEW i \in DOMAIN taskRuns', i # n
        PROVE  i \in DOMAIN taskRuns /\ taskRuns'[i] = taskRuns[i]
    BY <1>6, <2>3
  <2>4. QED
    BY <2>1, <2>2, <2>3 DEF Staged, CancelledAlong
<1>14. Taken'
  BY <1>2, <1>6 DEF Taken
<1>15. Waited'
  BY <1>4, <1>5, <1>6, <1>7 DEF Waited, Calls, Queued
<1>16. QED
  BY <1>9, <1>10, <1>11, <1>12, <1>13, <1>14, <1>15

LEMMA StartThreadKept ==
  ASSUME TriggersInv, NEW r \in Requests, StartThread(r)
  PROVE  TriggersInv'
<1> USE DEF TriggersInv
<1>1. /\ call[r].at = "queued" /\ call[r].row \in DOMAIN taskRuns
      /\ call' = [call EXCEPT ![r] = Done] /\ UNCHANGED <<hooks, deliveries, runs>>
  BY DEF StartThread, Answer, Calls, Queued
<1>2. PICK i \in DOMAIN taskRuns : i = call[r].row
  BY <1>1
<1> DEFINE new == [taskRuns[i] EXCEPT !.own = "ready"]
<1>3. taskRuns' = [taskRuns EXCEPT ![i] = new]
  BY <1>2 DEF StartThread
<1>4. taskRuns[i] \in TaskRow /\ taskRuns[i].own = "none"
  BY <1>1, <1>2, Shapes DEF Waited
<1>5. /\ new \in TaskRow /\ new.own = "ready" /\ new.run = taskRuns[i].run /\ new.early = taskRuns[i].early
      /\ new.scripts = taskRuns[i].scripts
  BY <1>4 DEF TaskRow
<1> HIDE DEF new
<1>6. /\ taskRuns' \in Seq(TaskRow) /\ DOMAIN taskRuns' = DOMAIN taskRuns /\ taskRuns'[i] = new
      /\ \A j \in DOMAIN taskRuns \ {i} : taskRuns'[j] = taskRuns[j]
  BY <1>3, <1>5, TasksEdited
<1>7. /\ call'[r].at = "done" /\ "at" \in DOMAIN call'[r] /\ \A q \in Requests \ {r} : call'[q] = call[q]
      /\ call' = [q \in Requests |-> call'[q]]
  BY <1>1 DEF Calls, Done
<1>8. /\ \A j \in DOMAIN runs : runs[j].by \in Requests \ {r}
      /\ \A d \in deliveries : d.by \in Requests \ {r} /\ call[d.by].at = "done"
  BY <1>1, Authors DEF Recorded
<1>9. Calls'
  BY <1>1, <1>6, <1>7 DEF Calls, Triggering, Recording, Queued
<1>10. Typed'
  BY <1>1, <1>6 DEF Typed
<1>11. OwnRun'
  BY <1>1, <1>7, <1>8 DEF OwnRun
<1>12. Recorded'
  BY <1>1, <1>7, <1>8, RecordedStays
<1>13. Staged'
  BY <1>1, <1>4, <1>5, <1>6 DEF Staged, CancelledAlong
<1>14. Taken'
  BY <1>1, <1>4, <1>5, <1>6 DEF Taken
<1>15. Waited'
  <2>1. ASSUME NEW q \in Requests, call'[q].at = "queued"
        PROVE  call'[q] = call[q] /\ call[q].row \in DOMAIN taskRuns /\ call[q].row # i
    BY <1>1, <1>2, <1>7, <2>1 DEF Waited, Calls, Queued
  <2>2. \A q \in Requests : call'[q].at = "queued" => taskRuns'[call'[q].row].own = "none"
    BY <1>6, <1>7, <2>1 DEF Waited
  <2>3. QED
    BY <2>1, <2>2 DEF Waited
<1>16. QED
  BY <1>9, <1>10, <1>11, <1>12, <1>13, <1>14, <1>15

\* A thread executes a row that nobody waits for any more.
LEMMA WorkerSteps ==
  ASSUME TriggersInv, UNCHANGED <<call, hooks, deliveries, runs>>,
         NEW i \in DOMAIN taskRuns, taskRuns[i].own # "none", NEW new \in TaskRow, taskRuns' = [taskRuns EXCEPT ![i] = new],
         new.run = taskRuns[i].run, new.early = taskRuns[i].early, new.own # "none",
         ~new.early => /\ new.own = "ready" => new.scripts = 0
                       /\ new.scripts <= 1
                       /\ new.own = "over" => new.status = new.result
  PROVE  TriggersInv'
<1> USE DEF TriggersInv
<1>1. /\ taskRuns' \in Seq(TaskRow) /\ DOMAIN taskRuns' = DOMAIN taskRuns /\ taskRuns'[i] = new
      /\ \A j \in DOMAIN taskRuns \ {i} : taskRuns'[j] = taskRuns[j]
  BY TasksEdited
<1>2. Calls'
  BY <1>1 DEF Calls, Triggering, Recording, Queued
<1>3. Typed'
  BY <1>1 DEF Typed
<1>4. OwnRun' /\ Recorded'
  BY DEF OwnRun, Recorded
<1>5. Staged'
  BY <1>1 DEF Staged, CancelledAlong
<1>6. Taken'
  BY <1>1 DEF Taken
<1>7. Waited'
  BY <1>1 DEF Waited
<1>8. QED
  BY <1>2, <1>3, <1>4, <1>5, <1>6, <1>7

LEMMA OutcomesFinal == Outcomes \subseteq Final
BY DEF Outcomes, Final, StatusFromCode

LEMMA WorkerKept ==
  ASSUME TriggersInv, NEW i \in DOMAIN taskRuns, WorkerRuns(i) \/ WorkerEnds(i)
  PROVE  TriggersInv'
<1> USE DEF TriggersInv
<1>1. taskRuns[i] \in TaskRow
  BY Shapes
<1>2. CASE WorkerRuns(i)
  <2> DEFINE scripts == taskRuns[i].scripts + 1
             new == [taskRuns[i] EXCEPT !.own = "script", !.status = "Running", !.scripts = scripts]
  <2>1. scripts \in Nat /\ taskRuns[i].own = "ready" /\ (~taskRuns[i].early => scripts <= 1)
    BY <1>1, <1>2 DEF TaskRow, WorkerRuns, Staged, CancelledAlong
  <2>2. taskRuns' = [taskRuns EXCEPT ![i] = new] /\ UNCHANGED <<call, hooks, deliveries, runs>>
    BY <1>2 DEF WorkerRuns
  <2> HIDE DEF scripts
  <2>3. /\ new \in TaskRow /\ new.own = "script" /\ new.run = taskRuns[i].run /\ new.early = taskRuns[i].early
        /\ new.scripts = scripts
    BY <1>1, <2>1 DEF TaskRow
  <2> HIDE DEF new
  <2>4. QED
    BY <2>1, <2>2, <2>3, WorkerSteps
<1>3. CASE WorkerEnds(i)
  <2>1. PICK status \in Outcomes : taskRuns' = [taskRuns EXCEPT ![i].own = "over", ![i].status = status, ![i].result = status]
    BY <1>3 DEF WorkerEnds
  <2> DEFINE new == [taskRuns[i] EXCEPT !.own = "over", !.status = status, !.result = status]
  <2>2. taskRuns' = [taskRuns EXCEPT ![i] = new] /\ UNCHANGED <<call, hooks, deliveries, runs>> /\ taskRuns[i].own = "script"
    BY <1>3, <2>1 DEF WorkerEnds
  <2>3. status \in Final
    BY OutcomesFinal
  <2>4. /\ new \in TaskRow /\ new.own = "over" /\ new.run = taskRuns[i].run /\ new.early = taskRuns[i].early
        /\ new.scripts = taskRuns[i].scripts /\ new.status = new.result
    BY <1>1, <2>3 DEF TaskRow
  <2> HIDE DEF new
  <2>5. QED
    BY <2>2, <2>4, WorkerSteps DEF Staged, CancelledAlong
<1>4. QED
  BY <1>2, <1>3

-----------------------------------------------------------------------------
(* The executor of a run and its stage.                                    *)

\* What the steps of the executor of k, which touch only rows of k, must keep.
LEMMA StageSteps ==
  ASSUME TriggersInv, UNCHANGED <<call, hooks, deliveries>>,
         NEW k \in DOMAIN runs, NEW new \in RunRow, runs' = [runs EXCEPT ![k] = new],
         runs[k].pc # "seeded", new.pc # "seeded", new.by = runs[k].by, new.hook = runs[k].hook,
         taskRuns' \in Seq(TaskRow), DOMAIN taskRuns' = DOMAIN taskRuns,
         \A i \in DOMAIN taskRuns : /\ taskRuns'[i].run = taskRuns[i].run /\ taskRuns'[i].early = taskRuns[i].early
                                    /\ taskRuns'[i].own = taskRuns[i].own
                                    /\ taskRuns'[i] = taskRuns[i] \/ taskRuns[i].run = k,
         Staged', Taken'
  PROVE  TriggersInv'
<1> USE DEF TriggersInv
<1>1. /\ runs' \in Seq(RunRow) /\ DOMAIN runs' = DOMAIN runs /\ runs'[k] = new
      /\ \A j \in DOMAIN runs \ {k} : runs'[j] = runs[j]
  BY RunsEdited
<1>2. \A j \in DOMAIN runs : /\ runs'[j].by = runs[j].by /\ runs'[j].hook = runs[j].hook
                             /\ runs'[j].pc = "seeded" <=> runs[j].pc = "seeded"
  BY <1>1
<1>3. Calls'
  BY <1>1 DEF Calls, Triggering, Recording, Queued
<1>4. Typed'
  BY <1>1 DEF Typed
<1>5. OwnRun'
  BY <1>1, <1>2 DEF OwnRun
<1>6. Recorded'
  BY <1>1, <1>2, RecordedStays DEF Recorded
<1>7. Waited'
  BY DEF Waited, Calls, Queued
<1>8. QED
  BY <1>3, <1>4, <1>5, <1>6, <1>7

LEMMA StartStageKept ==
  ASSUME TriggersInv, NEW k \in DOMAIN runs, StartStage(k)
  PROVE  TriggersInv'
<1> USE DEF TriggersInv
<1> DEFINE rws == RowsOf(k)
           new == [runs[k] EXCEPT !.pc = "stage", !.todo = rws]
<1>1. /\ runs[k].pc = "ready" /\ runs[k] \in RunRow
      /\ runs' = [runs EXCEPT ![k] = new] /\ UNCHANGED <<call, hooks, deliveries, taskRuns>>
  BY Shapes DEF StartStage
<1>2. /\ DOMAIN taskRuns \subseteq Nat /\ DOMAIN runs \subseteq Nat /\ k # NoRun
      /\ \A i : i \in rws <=> i \in DOMAIN taskRuns /\ taskRuns[i].run = k
  BY Shapes DEF RowsOf, NoRun
<1>3. rws \in SUBSET Nat
  BY <1>2
<1> HIDE DEF rws
<1>4. /\ new \in RunRow /\ new.pc = "stage" /\ new.by = runs[k].by /\ new.hook = runs[k].hook
      /\ new.todo = rws /\ new.current = 0
  BY <1>1, <1>3 DEF RunRow, Taken
<1> HIDE DEF new
<1>5. DOMAIN runs' = DOMAIN runs /\ runs'[k] = new /\ \A j \in DOMAIN runs \ {k} : runs'[j] = runs[j]
  BY <1>1, <1>4, RunsEdited
<1>6. Staged'
  BY <1>1, <1>2, <1>4, <1>5 DEF Staged, CancelledAlong
<1>7. Taken'
  BY <1>1, <1>2, <1>4, <1>5 DEF Taken, Staged, CancelledAlong
<1>8. QED
  BY <1>1, <1>4, <1>6, <1>7, StageSteps DEF Typed

LEMMA StartTaskKept ==
  ASSUME TriggersInv, NEW k \in DOMAIN runs, StartTask(k)
  PROVE  TriggersInv'
<1> USE DEF TriggersInv
<1>1. /\ runs[k].pc = "stage" /\ runs[k].current = 0 /\ runs[k] \in RunRow
      /\ UNCHANGED <<call, hooks, deliveries>>
  BY Shapes DEF StartTask
<1>2. PICK i \in runs[k].todo : \E status \in {"Running"} \cup (IF taskRuns[i].own = "none" THEN {} ELSE {taskRuns[i].status}) :
        /\ runs' = [runs EXCEPT ![k].current = i, ![k].todo = @ \ {i}]
        /\ taskRuns' = [taskRuns EXCEPT ![i].status = status, ![i].scripts = @ + 1]
  BY DEF StartTask, Waiting
<1>3. /\ i \in DOMAIN taskRuns /\ taskRuns[i].run = k /\ taskRuns[i].early /\ taskRuns[i] \in TaskRow
      /\ taskRuns[i].own = "none" => taskRuns[i].scripts = 0
  BY <1>2, Shapes DEF Taken
<1>4. PICK status \in {"Pending", "Running"} \cup Final :
        /\ runs' = [runs EXCEPT ![k].current = i, ![k].todo = @ \ {i}]
        /\ taskRuns' = [taskRuns EXCEPT ![i].status = status, ![i].scripts = @ + 1]
  BY <1>2, <1>3 DEF TaskRow
<1> DEFINE new == [runs[k] EXCEPT !.current = i, !.todo = @ \ {i}]
           scripts == taskRuns[i].scripts + 1
           row == [taskRuns[i] EXCEPT !.status = status, !.scripts = scripts]
<1>5. runs' = [runs EXCEPT ![k] = new] /\ taskRuns' = [taskRuns EXCEPT ![i] = row]
  BY <1>4
<1>6. i \in Nat /\ i # 0 /\ 0 \notin DOMAIN taskRuns /\ k # NoRun
  BY <1>3, Shapes DEF NoRun
<1>7. scripts \in Nat /\ (taskRuns[i].own = "none" => scripts = 1)
  BY <1>3 DEF TaskRow
<1> HIDE DEF scripts
<1>8. /\ row \in TaskRow /\ row.run = k /\ row.early /\ row.own = taskRuns[i].own /\ row.scripts = scripts
  BY <1>3, <1>4, <1>7 DEF TaskRow
<1>9. /\ new \in RunRow /\ new.pc = "stage" /\ new.by = runs[k].by /\ new.hook = runs[k].hook
      /\ new.todo = runs[k].todo \ {i} /\ new.current = i
  BY <1>1, <1>6 DEF RunRow
<1> HIDE DEF new, row
<1>10. DOMAIN runs' = DOMAIN runs /\ runs'[k] = new /\ \A j \in DOMAIN runs \ {k} : runs'[j] = runs[j]
  BY <1>5, <1>9, RunsEdited
<1>11. /\ taskRuns' \in Seq(TaskRow) /\ DOMAIN taskRuns' = DOMAIN taskRuns /\ taskRuns'[i] = row
       /\ \A j \in DOMAIN taskRuns \ {i} : taskRuns'[j] = taskRuns[j]
  BY <1>3, <1>5, <1>8, TasksEdited
<1>12. Staged'
  <2>1. ASSUME NEW j \in DOMAIN taskRuns
        PROVE  (taskRuns[j].run # NoRun => taskRuns[j].run \in DOMAIN runs)
               /\ (j # i => taskRuns'[j] = taskRuns[j]) /\ j # 0
    BY <1>6, <1>11 DEF Staged, CancelledAlong
  <2>2. runs'[k].todo \cup {runs'[k].current} = runs[k].todo
    BY <1>2, <1>9, <1>10
  <2>3. \A j \in DOMAIN runs : /\ runs'[j].pc = runs[j].pc
                               /\ j # k => runs'[j] = runs[j]
    BY <1>1, <1>9, <1>10
  <2>4. ASSUME NEW j \in DOMAIN taskRuns, taskRuns[j].own = "none", taskRuns[j].early, taskRuns[j].run # NoRun,
               runs[taskRuns[j].run].pc \in {"stage", "over"}
        PROVE  \/ j \in runs'[taskRuns[j].run].todo \cup {runs'[taskRuns[j].run].current}
               \/ taskRuns'[j].status \in Final
    <3>1. CASE j = i
      BY <1>3, <1>9, <1>10, <3>1
    <3>2. CASE j # i /\ taskRuns[j].run = k
      BY <1>1, <2>1, <2>2, <2>4, <3>2 DEF Staged, CancelledAlong
    <3>3. CASE j # i /\ taskRuns[j].run # k
      BY <2>1, <2>3, <2>4, <3>3 DEF Staged, CancelledAlong
    <3>4. QED
      BY <3>1, <3>2, <3>3
  <2>5. QED
    BY <1>1, <1>3, <1>7, <1>8, <1>10, <1>11, <2>1, <2>3, <2>4 DEF Staged, CancelledAlong
<1>13. Taken'
  <2>1. ASSUME NEW l \in DOMAIN runs, l # k
        PROVE  /\ \A j \in runs[l].todo : j # i
               /\ runs[l].current # i
    BY <1>3, <1>6, <2>1 DEF Taken
  <2>2. QED
    BY <1>1, <1>3, <1>8, <1>9, <1>10, <1>11, <2>1 DEF Taken
<1>14. QED
  BY <1>1, <1>3, <1>5, <1>8, <1>9, <1>11, <1>12, <1>13, StageSteps

LEMMA StageRaisesKept ==
  ASSUME TriggersInv, NEW k \in DOMAIN runs, StageRaises(k)
  PROVE  TriggersInv'
<1> USE DEF TriggersInv
<1> DEFINE new == [runs[k] EXCEPT !.pc = "raised"]
<1>1. /\ runs[k].pc = "stage" /\ runs[k] \in RunRow
      /\ runs' = [runs EXCEPT ![k] = new] /\ UNCHANGED <<call, hooks, deliveries, taskRuns>>
  BY Shapes DEF StageRaises
<1>2. /\ new \in RunRow /\ new.pc = "raised" /\ new.by = runs[k].by /\ new.hook = runs[k].hook
      /\ new.todo = runs[k].todo /\ new.current = runs[k].current
  BY <1>1 DEF RunRow
<1> HIDE DEF new
<1>3. DOMAIN runs' = DOMAIN runs /\ runs'[k] = new /\ \A j \in DOMAIN runs \ {k} : runs'[j] = runs[j]
  BY <1>1, <1>2, RunsEdited
<1>4. Staged'
  BY <1>1, <1>2, <1>3 DEF Staged, CancelledAlong
<1>5. Taken'
  BY <1>1, <1>2, <1>3 DEF Taken
<1>6. QED
  BY <1>1, <1>2, <1>4, <1>5, StageSteps DEF Typed

LEMMA EndStageKept ==
  ASSUME TriggersInv, NEW k \in DOMAIN runs, EndStage(k)
  PROVE  TriggersInv'
<1> USE DEF TriggersInv
<1> DEFINE new == [runs[k] EXCEPT !.pc = "over"]
<1>1. /\ runs[k].pc = "stage" /\ runs[k].current = 0 /\ runs[k].todo = {} /\ runs[k] \in RunRow
      /\ runs' = [runs EXCEPT ![k] = new] /\ UNCHANGED <<call, hooks, deliveries, taskRuns>>
  BY Shapes DEF EndStage, Waiting
<1>2. /\ new \in RunRow /\ new.pc = "over" /\ new.by = runs[k].by /\ new.hook = runs[k].hook
      /\ new.todo = {} /\ new.current = 0
  BY <1>1 DEF RunRow
<1> HIDE DEF new
<1>3. DOMAIN runs' = DOMAIN runs /\ runs'[k] = new /\ \A j \in DOMAIN runs \ {k} : runs'[j] = runs[j]
  BY <1>1, <1>2, RunsEdited
<1>4. Staged'
  BY <1>1, <1>2, <1>3 DEF Staged, CancelledAlong
<1>5. Taken'
  BY <1>1, <1>2, <1>3 DEF Taken
<1>6. QED
  BY <1>1, <1>2, <1>4, <1>5, StageSteps DEF Typed

\* A list changed row by row.
LEMMA Mapped ==
  ASSUME NEW S, NEW s \in Seq(S), NEW f, f = [j \in DOMAIN s |-> f[j]], \A j \in DOMAIN s : f[j] \in S
  PROVE  f \in Seq(S) /\ DOMAIN f = DOMAIN s
<1>1. DOMAIN s = 1..Len(s) /\ Len(s) \in Nat
  BY LenProperties
<1>2. f \in [1..Len(s) -> S]
  BY <1>1
<1>3. QED
  BY <1>1, <1>2, IsASeq

LEMMA EndTaskKept ==
  ASSUME TriggersInv, NEW k \in DOMAIN runs, EndTask(k)
  PROVE  TriggersInv'
<1> USE DEF TriggersInv
<1>1. /\ runs[k].pc = "stage" /\ runs[k].current # 0 /\ runs[k] \in RunRow
      /\ UNCHANGED <<call, hooks, deliveries>>
  BY Shapes DEF EndTask
<1>2. PICK i \in DOMAIN taskRuns : i = runs[k].current
  BY <1>1 DEF Taken
<1>3. taskRuns[i].run = k /\ taskRuns[i].early /\ i \notin runs[k].todo
  BY <1>1, <1>2 DEF Taken
<1>4. PICK status \in Outcomes, halts \in BOOLEAN :
        /\ taskRuns' = [j \in DOMAIN taskRuns |->
                          IF j = i THEN [taskRuns[j] EXCEPT !.status = status]
                          ELSE IF halts /\ j \in runs[k].todo THEN [taskRuns[j] EXCEPT !.status = "Cancelled"]
                          ELSE taskRuns[j]]
        /\ runs' = [runs EXCEPT ![k].current = 0, ![k].todo = IF halts THEN {} ELSE @]
  <2>1. PICK status \in Outcomes :
          LET halts == status = "Failed" /\ OnError = "fail"
          IN  /\ taskRuns' = [j \in DOMAIN taskRuns |->
                                IF j = runs[k].current THEN [taskRuns[j] EXCEPT !.status = status]
                                ELSE IF halts /\ j \in runs[k].todo THEN [taskRuns[j] EXCEPT !.status = "Cancelled"]
                                ELSE taskRuns[j]]
              /\ runs' = [runs EXCEPT ![k].current = 0, ![k].todo = IF halts THEN {} ELSE @]
    BY DEF EndTask
  <2>2. PICK halts \in BOOLEAN : halts = (status = "Failed" /\ OnError = "fail")
    OBVIOUS
  <2>3. QED
    BY <1>2, <2>1, <2>2
<1>5. status \in Final
  BY OutcomesFinal
<1>6. ASSUME NEW j \in DOMAIN taskRuns
      PROVE  /\ taskRuns'[j] \in TaskRow /\ taskRuns'[j].run = taskRuns[j].run /\ taskRuns'[j].early = taskRuns[j].early
             /\ taskRuns'[j].own = taskRuns[j].own /\ taskRuns'[j].scripts = taskRuns[j].scripts
             /\ j # i /\ ~(halts /\ j \in runs[k].todo) => taskRuns'[j] = taskRuns[j]
             /\ j = i \/ (halts /\ j \in runs[k].todo) => taskRuns'[j].status \in Final
  <2>1. taskRuns[j] \in TaskRow
    BY Shapes
  <2>2. ASSUME NEW c \in Final
        PROVE  LET t == [taskRuns[j] EXCEPT !.status = c]
               IN  /\ t \in TaskRow /\ t.run = taskRuns[j].run /\ t.early = taskRuns[j].early
                   /\ t.own = taskRuns[j].own /\ t.scripts = taskRuns[j].scripts /\ t.status = c
    BY <2>1 DEF TaskRow
  <2>3. CASE j = i
    <3>1. taskRuns'[j] = [taskRuns[j] EXCEPT !.status = status]
      BY <1>4, <2>3
    <3>2. QED
      BY <1>5, <2>2, <2>3, <3>1
  <2>4. CASE j # i /\ halts /\ j \in runs[k].todo
    <3>1. taskRuns'[j] = [taskRuns[j] EXCEPT !.status = "Cancelled"]
      BY <1>4, <2>4
    <3>2. "Cancelled" \in Final
      BY DEF Final
    <3>3. QED
      BY <2>2, <2>4, <3>1, <3>2
  <2>5. CASE j # i /\ ~(halts /\ j \in runs[k].todo)
    <3>1. taskRuns'[j] = taskRuns[j]
      BY <1>4, <2>5
    <3>2. QED
      BY <2>1, <2>5, <3>1
  <2>6. QED
    BY <2>3, <2>4, <2>5
<1>7. taskRuns' \in Seq(TaskRow) /\ DOMAIN taskRuns' = DOMAIN taskRuns
  <2>1. taskRuns' = [j \in DOMAIN taskRuns |-> taskRuns'[j]]
    BY <1>4
  <2>2. \A j \in DOMAIN taskRuns : taskRuns'[j] \in TaskRow
    BY <1>6
  <2>3. taskRuns \in Seq(TaskRow)
    BY DEF Typed
  <2>4. QED
    BY <2>1, <2>2, <2>3, Mapped
<1>8. PICK todo \in SUBSET Nat : /\ todo = IF halts THEN {} ELSE runs[k].todo
  BY <1>1 DEF RunRow
<1> DEFINE new == [runs[k] EXCEPT !.current = 0, !.todo = todo]
<1>9. runs' = [runs EXCEPT ![k] = new]
  BY <1>4, <1>8
<1>10. /\ new \in RunRow /\ new.pc = "stage" /\ new.by = runs[k].by /\ new.hook = runs[k].hook
       /\ new.todo = todo /\ new.current = 0
  BY <1>1 DEF RunRow
<1> HIDE DEF new
<1>11. DOMAIN runs' = DOMAIN runs /\ runs'[k] = new /\ \A j \in DOMAIN runs \ {k} : runs'[j] = runs[j]
  BY <1>9, <1>10, RunsEdited
<1>12. \A j \in runs[k].todo : taskRuns[j].run = k /\ taskRuns[j].early
  BY DEF Taken
<1>13. Staged'
  <2>1. ASSUME NEW j \in DOMAIN taskRuns, taskRuns[j].own = "none", taskRuns[j].early, taskRuns[j].run # NoRun,
               runs[taskRuns[j].run].pc \in {"stage", "over"}
        PROVE  \/ j \in runs'[taskRuns[j].run].todo \cup {runs'[taskRuns[j].run].current}
               \/ taskRuns'[j].status \in Final
    <3>1. /\ taskRuns[j].run \in DOMAIN runs
          /\ j \in runs[taskRuns[j].run].todo \cup {runs[taskRuns[j].run].current} \/ taskRuns[j].status \in Final
      BY <2>1 DEF Staged, CancelledAlong
    <3>2. CASE taskRuns[j].run # k
      BY <1>3, <1>6, <1>11, <1>12, <3>1, <3>2
    <3>3. CASE taskRuns[j].run = k
      BY <1>2, <1>6, <1>8, <1>10, <1>11, <3>1, <3>3
    <3>4. QED
      BY <3>2, <3>3
  <2>2. \A j \in DOMAIN runs : runs'[j].pc = runs[j].pc
    BY <1>1, <1>10, <1>11
  <2>3. \A j \in DOMAIN taskRuns : ~taskRuns[j].early => taskRuns'[j] = taskRuns[j]
    BY <1>3, <1>6, <1>12
  <2>4. QED
    BY <1>6, <1>7, <1>11, <2>1, <2>2, <2>3 DEF Staged, CancelledAlong
<1>14. Taken'
  BY <1>1, <1>6, <1>7, <1>8, <1>10, <1>11 DEF Taken
<1>15. \A j \in DOMAIN taskRuns : taskRuns'[j] = taskRuns[j] \/ (taskRuns[j].run = k /\ taskRuns[j].early)
  BY <1>3, <1>6, <1>12
<1>16. QED
  BY <1>1, <1>6, <1>7, <1>9, <1>10, <1>13, <1>14, <1>15, StageSteps

LEMMA CancelStageKept ==
  ASSUME TriggersInv, NEW k \in DOMAIN runs, CancelStage(k)
  PROVE  TriggersInv'
<1> USE DEF TriggersInv
<1> DEFINE new == [runs[k] EXCEPT !.pc = "cancelled"]
<1>1. /\ runs[k].pc \in {"ready", "raised"} /\ runs[k] \in RunRow /\ k # NoRun
      /\ runs' = [runs EXCEPT ![k] = new] /\ UNCHANGED <<call, hooks, deliveries>>
      /\ taskRuns' = [i \in DOMAIN taskRuns |->
                        IF taskRuns[i].run = k THEN [taskRuns[i] EXCEPT !.status = "Cancelled"] ELSE taskRuns[i]]
  BY Shapes DEF CancelStage, RowsOf, NoRun
<1>2. /\ new \in RunRow /\ new.pc = "cancelled" /\ new.by = runs[k].by /\ new.hook = runs[k].hook
      /\ new.todo = runs[k].todo /\ new.current = runs[k].current
  BY <1>1 DEF RunRow
<1> HIDE DEF new
<1>3. DOMAIN runs' = DOMAIN runs /\ runs'[k] = new /\ \A j \in DOMAIN runs \ {k} : runs'[j] = runs[j]
  BY <1>1, <1>2, RunsEdited
<1>4. ASSUME NEW i \in DOMAIN taskRuns
      PROVE  /\ taskRuns'[i] \in TaskRow /\ taskRuns'[i].run = taskRuns[i].run /\ taskRuns'[i].early = taskRuns[i].early
             /\ taskRuns'[i].own = taskRuns[i].own /\ taskRuns'[i].scripts = taskRuns[i].scripts
             /\ taskRuns[i].run # k => taskRuns'[i] = taskRuns[i]
             /\ taskRuns[i].run = k => taskRuns'[i].status = "Cancelled"
  <2>1. taskRuns[i] \in TaskRow /\ "Cancelled" \in Final
    BY Shapes DEF Final
  <2> DEFINE t == [taskRuns[i] EXCEPT !.status = "Cancelled"]
  <2>2. /\ t \in TaskRow /\ t.run = taskRuns[i].run /\ t.early = taskRuns[i].early
        /\ t.own = taskRuns[i].own /\ t.scripts = taskRuns[i].scripts /\ t.status = "Cancelled"
    BY <2>1 DEF TaskRow
  <2> HIDE DEF t
  <2>3. taskRuns'[i] = IF taskRuns[i].run = k THEN t ELSE taskRuns[i]
    BY <1>1 DEF t
  <2>4. QED
    BY <2>1, <2>2, <2>3
<1>5. taskRuns' \in Seq(TaskRow) /\ DOMAIN taskRuns' = DOMAIN taskRuns
  <2>1. taskRuns' = [j \in DOMAIN taskRuns |-> taskRuns'[j]] /\ \A j \in DOMAIN taskRuns : taskRuns'[j] \in TaskRow
    BY <1>1, <1>4
  <2>2. taskRuns \in Seq(TaskRow)
    BY DEF Typed
  <2>3. QED
    BY <2>1, <2>2, Mapped
<1>6. Staged'
  <2>1. ASSUME NEW i \in DOMAIN taskRuns, taskRuns[i].run # k
        PROVE  taskRuns'[i] = taskRuns[i] /\ (taskRuns[i].run # NoRun => runs'[taskRuns[i].run] = runs[taskRuns[i].run])
    BY <1>3, <1>4, <2>1 DEF Staged, CancelledAlong
  <2>2. ASSUME NEW i \in DOMAIN taskRuns, taskRuns[i].run = k
        PROVE  /\ taskRuns'[i].run = k /\ runs'[k].pc = "cancelled" /\ taskRuns'[i].status = "Cancelled"
               /\ taskRuns'[i].early = taskRuns[i].early /\ taskRuns'[i].own = taskRuns[i].own
               /\ taskRuns'[i].scripts = taskRuns[i].scripts
    BY <1>2, <1>3, <1>4, <2>2
  <2>3. "Cancelled" \in Final
    BY DEF Final
  <2>4. QED
    BY <1>1, <1>3, <1>5, <2>1, <2>2, <2>3 DEF Staged, CancelledAlong
<1>7. Taken'
  BY <1>1, <1>2, <1>3, <1>4, <1>5 DEF Taken
<1>8. QED
  BY <1>1, <1>2, <1>4, <1>5, <1>6, <1>7, StageSteps

-----------------------------------------------------------------------------
(* The death of a process, and the theorem.                                *)

LEMMA DieKept ==
  ASSUME TriggersInv, Die
  PROVE  TriggersInv'
<1> USE DEF TriggersInv
<1>1. PICK R \in SUBSET Open, K \in SUBSET Executing, I \in SUBSET Working :
        /\ call' = [r \in Requests |-> IF r \in R THEN [at |-> "lost"] ELSE call[r]]
        /\ runs' = [k \in DOMAIN runs |-> IF k \in K THEN [runs[k] EXCEPT !.pc = "dead"] ELSE runs[k]]
        /\ taskRuns' = [i \in DOMAIN taskRuns |-> IF i \in I THEN [taskRuns[i] EXCEPT !.own = "dead"] ELSE taskRuns[i]]
        /\ UNCHANGED <<hooks, deliveries>>
  BY DEF Die
<1>2. /\ call' = [r \in Requests |-> call'[r]]
      /\ \A r \in R : r \in Requests /\ call[r].at \in Open0 /\ call'[r].at = "lost" /\ "at" \in DOMAIN call'[r]
      /\ \A r \in Requests \ R : call'[r] = call[r]
  BY <1>1 DEF Open, Open0
<1>3. \A k \in DOMAIN runs :
        /\ runs'[k] \in RunRow /\ runs'[k].by = runs[k].by /\ runs'[k].hook = runs[k].hook
        /\ runs'[k].todo = runs[k].todo /\ runs'[k].current = runs[k].current
        /\ runs'[k].pc = runs[k].pc \/ (runs[k].pc # "seeded" /\ runs'[k].pc = "dead")
  BY <1>1, Shapes DEF Executing, RunRow
<1>4. \A i \in DOMAIN taskRuns :
        /\ taskRuns'[i] \in TaskRow /\ taskRuns'[i].run = taskRuns[i].run /\ taskRuns'[i].early = taskRuns[i].early
        /\ taskRuns'[i].scripts = taskRuns[i].scripts /\ taskRuns'[i].status = taskRuns[i].status
        /\ taskRuns'[i].result = taskRuns[i].result
        /\ taskRuns'[i].own = taskRuns[i].own \/ (taskRuns[i].own # "none" /\ taskRuns'[i].own = "dead")
  <2>1. ASSUME NEW i \in DOMAIN taskRuns, i \in I
        PROVE  LET t == [taskRuns[i] EXCEPT !.own = "dead"]
               IN  /\ t \in TaskRow /\ t.run = taskRuns[i].run /\ t.early = taskRuns[i].early
                   /\ t.scripts = taskRuns[i].scripts /\ t.status = taskRuns[i].status /\ t.result = taskRuns[i].result
                   /\ taskRuns[i].own # "none" /\ t.own = "dead"
    BY <2>1, Shapes DEF TaskRow, Working
  <2>2. \A i \in DOMAIN taskRuns : taskRuns'[i] = IF i \in I THEN [taskRuns[i] EXCEPT !.own = "dead"] ELSE taskRuns[i]
    BY <1>1
  <2>3. QED
    BY <2>1, <2>2, Shapes
<1>5. /\ runs' \in Seq(RunRow) /\ DOMAIN runs' = DOMAIN runs
      /\ taskRuns' \in Seq(TaskRow) /\ DOMAIN taskRuns' = DOMAIN taskRuns
  <2>1. /\ runs' = [k \in DOMAIN runs |-> runs'[k]] /\ \A k \in DOMAIN runs : runs'[k] \in RunRow
        /\ taskRuns' = [i \in DOMAIN taskRuns |-> taskRuns'[i]] /\ \A i \in DOMAIN taskRuns : taskRuns'[i] \in TaskRow
    BY <1>1, <1>3, <1>4
  <2>2. runs \in Seq(RunRow) /\ taskRuns \in Seq(TaskRow)
    BY DEF Typed
  <2>3. QED
    BY <2>1, <2>2, Mapped
<1>6. /\ \A k \in DOMAIN runs : runs[k].by \in Requests
      /\ \A d \in deliveries : d.by \in Requests /\ call[d.by].at = "done"
  BY Authors DEF Recorded
<1>7. \A r \in Requests : (call'[r].at = "done" => call[r].at = "done") /\ (call[r].at = "done" => call'[r] = call[r])
  BY <1>2 DEF Open0
<1>8. Calls'
  BY <1>1, <1>2, <1>5 DEF Calls, Triggering, Recording, Queued
<1>9. Typed'
  BY <1>1, <1>5 DEF Typed
<1>10. OwnRun'
  <2>1. ASSUME NEW k \in DOMAIN runs
        PROVE  LET r == runs[k].by
               IN  /\ call'[r].at \in {"committed", "started", "failed", "lost", "done"}
                   /\ runs[k].hook \in DOMAIN hooks
                   /\ call'[r].at \in {"committed", "started", "failed"} => call'[r].hook = runs[k].hook
                   /\ call'[r].at \in {"committed", "started"} => call'[r].run = k
    BY <1>2, <1>6 DEF OwnRun
  <2>2. ASSUME NEW r \in Requests
        PROVE  /\ call'[r].at \in {"committed", "started"} =>
                    call'[r].run \in DOMAIN runs' /\ runs'[call'[r].run].by = r
               /\ call'[r].at = "committed" => runs'[call'[r].run].pc = "seeded"
               /\ call'[r].at = "started" => runs'[call'[r].run].pc # "seeded"
               /\ call'[r].at = "failed" => call'[r].run = NoRun
    BY <1>2, <1>3, <1>5 DEF OwnRun
  <2>3. QED
    BY <1>1, <1>3, <1>5, <2>1, <2>2 DEF OwnRun
<1>11. Recorded'
  BY <1>1, <1>3, <1>5, <1>6, <1>7, RecordedStays
<1>12. Staged'
  <2>0. ASSUME NEW k \in DOMAIN runs
        PROVE  /\ k \in DOMAIN runs' /\ runs'[k].todo = runs[k].todo /\ runs'[k].current = runs[k].current
               /\ runs'[k].pc = runs[k].pc \/ (runs[k].pc \notin {"seeded", "cancelled"} /\ runs'[k].pc = "dead")
    <3>1. k \in K => runs[k].pc \in {"ready", "stage", "raised"}
      BY <1>1 DEF Executing
    <3>2. k \notin K => runs'[k].pc = runs[k].pc
      BY <1>1
    <3>3. QED
      BY <1>3, <1>5, <3>1, <3>2
  <2>1. ASSUME NEW i \in DOMAIN taskRuns, taskRuns[i].run # NoRun
        PROVE  LET k == taskRuns[i].run
               IN  /\ k \in DOMAIN runs /\ k \in DOMAIN runs' /\ taskRuns'[i].run = k
                   /\ runs'[k].todo = runs[k].todo /\ runs'[k].current = runs[k].current
                   /\ runs'[k].pc = runs[k].pc \/ (runs[k].pc \notin {"seeded", "cancelled"} /\ runs'[k].pc = "dead")
    <3>1. taskRuns[i].run \in DOMAIN runs
      BY <2>1 DEF Staged
    <3>2. taskRuns'[i].run = taskRuns[i].run
      BY <1>4
    <3>3. QED
      BY <2>0, <3>1, <3>2
  <2>2. ASSUME NEW i \in DOMAIN taskRuns, ~taskRuns[i].early
        PROVE  /\ taskRuns'[i].own \in {"none", "ready"} => taskRuns'[i].scripts = 0
               /\ taskRuns'[i].scripts <= 1
               /\ taskRuns'[i].own = "over" => taskRuns'[i].status = taskRuns'[i].result \/ CancelledAlong(taskRuns[i])'
    BY <1>4, <2>1, <2>2 DEF Staged, CancelledAlong
  <2>3. ASSUME NEW i \in DOMAIN taskRuns
        PROVE  LET t == taskRuns'[i]
               IN  /\ t.run # NoRun => t.run \in DOMAIN runs'
                   /\ t.run # NoRun /\ ~t.early => runs'[t.run].pc \notin {"seeded", "ready"}
                   /\ t.own = "none" => /\ t.scripts <= 1
                                        /\ t.run = NoRun \/ runs'[t.run].pc \in {"seeded", "ready"} => t.scripts = 0
                   /\ t.own = "none" /\ t.early => t.run # NoRun
                   /\ t.own = "none" /\ t.early /\ runs'[t.run].pc \in {"stage", "over"} =>
                        i \in runs'[t.run].todo \cup {runs'[t.run].current} \/ t.status \in Final
                   /\ t.run # NoRun /\ t.own = "none" /\ runs'[t.run].pc = "cancelled" => ~t.early \/ t.status \in Final
    BY <1>4, <2>1 DEF Staged
  <2>4. QED
    BY <1>4, <1>5, <2>2, <2>3 DEF Staged
<1>13. Taken'
  <2>1. ASSUME NEW k \in DOMAIN runs'
        PROVE  /\ runs'[k].pc \in {"seeded", "ready", "over"} => runs'[k].todo = {} /\ runs'[k].current = 0
               /\ \A i \in runs'[k].todo : /\ i \in DOMAIN taskRuns' /\ taskRuns'[i].run = k /\ taskRuns'[i].early
                                           /\ taskRuns'[i].own = "none" => taskRuns'[i].scripts = 0
               /\ runs'[k].current # 0 =>
                    /\ runs'[k].current \in DOMAIN taskRuns' /\ runs'[k].current \notin runs'[k].todo
                    /\ taskRuns'[runs'[k].current].run = k /\ taskRuns'[runs'[k].current].early
    <3>1. /\ k \in DOMAIN runs /\ runs'[k].todo = runs[k].todo /\ runs'[k].current = runs[k].current
          /\ runs'[k].pc \in {"seeded", "ready", "over"} => runs'[k].pc = runs[k].pc
      BY <1>3, <1>5
    <3>2. \A i \in DOMAIN taskRuns : taskRuns'[i].own = "none" => taskRuns[i].own = "none"
      BY <1>4
    <3>3. ASSUME NEW i \in runs'[k].todo
          PROVE  /\ i \in DOMAIN taskRuns' /\ taskRuns'[i].run = k /\ taskRuns'[i].early
                 /\ taskRuns'[i].own = "none" => taskRuns'[i].scripts = 0
      <4>1. /\ i \in DOMAIN taskRuns /\ taskRuns[i].run = k /\ taskRuns[i].early
            /\ taskRuns[i].own = "none" => taskRuns[i].scripts = 0
        BY <3>1 DEF Taken
      <4>2. QED
        BY <1>4, <1>5, <3>2, <4>1
    <3>4. runs'[k].current # 0 =>
            /\ runs'[k].current \in DOMAIN taskRuns /\ runs'[k].current \notin runs'[k].todo
            /\ taskRuns'[runs'[k].current].run = k /\ taskRuns'[runs'[k].current].early
      BY <1>4, <3>1 DEF Taken
    <3>5. runs'[k].pc \in {"seeded", "ready", "over"} => runs'[k].todo = {} /\ runs'[k].current = 0
      BY <3>1 DEF Taken
    <3>6. QED
      BY <1>5, <3>3, <3>4, <3>5
  <2>2. QED
    BY <2>1 DEF Taken
<1>14. Waited'
  <2>1. ASSUME NEW r \in Requests, call'[r].at = "queued"
        PROVE  call'[r] = call[r] /\ call[r].row \in DOMAIN taskRuns
    BY <1>2, <2>1 DEF Calls, Queued
  <2>2. \A r \in Requests : call'[r].at = "queued" => taskRuns'[call'[r].row].own = "none"
    BY <1>4, <2>1 DEF Waited
  <2>3. QED
    BY <2>1, <2>2 DEF Waited
<1>15. QED
  BY <1>8, <1>9, <1>10, <1>11, <1>12, <1>13, <1>14

LEMMA TriggersInit == Init => TriggersInv
<1> SUFFICES ASSUME Init PROVE TriggersInv
  OBVIOUS
<1>1. /\ call = [r \in Requests |-> New] /\ hooks = <<>> /\ deliveries = {} /\ runs = <<>> /\ taskRuns = <<>>
  BY DEF Init, PropertiesInit
<1>2. New.at = "new" /\ "at" \in DOMAIN New
  BY DEF New
<1>3. DOMAIN runs = {} /\ DOMAIN taskRuns = {} /\ hooks \in Seq(Hook) /\ runs \in Seq(RunRow) /\ taskRuns \in Seq(TaskRow)
  BY <1>1, EmptySeq
<1>4. Calls /\ Typed /\ Waited
  BY <1>1, <1>2, <1>3 DEF Calls, Typed, Waited
<1>5. OwnRun /\ Recorded /\ Staged /\ Taken
  BY <1>1, <1>2, <1>3 DEF OwnRun, Recorded, Staged, CancelledAlong, Taken
<1>6. QED
  BY <1>4, <1>5 DEF TriggersInv

LEMMA TriggersStep == TriggersInv /\ [Next]_vars => TriggersInv'
<1> SUFFICES ASSUME TriggersInv, [Next]_vars PROVE TriggersInv'
  OBVIOUS
<1>1. ASSUME NEW r \in Requests, PropertyRequest(r), UNCHANGED tables
      PROVE  TriggersInv'
  BY <1>1, PropertyCalls, OthersAside DEF TriggersInv
<1>2. ASSUME NEW r \in Requests, TriggerRequest(r)
      PROVE  TriggersInv'
  BY <1>2, HookStep, CommitRunKept, StartExecutorKept, StartFailsKept, DeliverKept, StartThreadKept, RunTaskKept
  DEF TriggerRequest
<1>3. CASE Execution
  BY <1>3, StartStageKept, StartTaskKept, EndTaskKept, EndStageKept, StageRaisesKept, CancelStageKept, WorkerKept
  DEF Execution
<1>4. CASE Die
  BY <1>4, DieKept
<1>5. CASE UNCHANGED vars
  <2>1. call' = call /\ UNCHANGED tables
    BY <1>5 DEF vars
  <2>2. call' = [q \in Requests |-> call'[q]]
    BY <2>1 DEF TriggersInv, Calls
  <2>3. QED
    BY <2>1, <2>2, OthersAside
<1>6. QED
  BY <1>1, <1>2, <1>3, <1>4, <1>5 DEF Next

\* The invariant says what the property does.
LEMMA InvTells == TriggersInv => StartsTold
<1> SUFFICES ASSUME TriggersInv PROVE StartsTold
  OBVIOUS
<1> USE DEF TriggersInv
<1>1. ASSUME NEW k \in DOMAIN runs
      PROVE  \/ Cardinality({d \in deliveries : d.run = k /\ d.hook = runs[k].hook}) = 1
             \/ call[runs[k].by].at \in {"committed", "started", "failed", "lost"}
             \/ ~hooks[runs[k].hook].live
             \/ \E d \in deliveries : d.by = runs[k].by /\ d.run = NoRun
  <2>1. ASSUME NEW d \in deliveries, {e \in deliveries : e.run = k /\ e.hook = runs[k].hook} = {d}
        PROVE  Cardinality({e \in deliveries : e.run = k /\ e.hook = runs[k].hook}) = 1
    BY <2>1, FS_Singleton
  <2>2. QED
    BY <2>1 DEF OwnRun, Recorded
<1>2. RunsTold
  BY <1>1 DEF RunsTold, Recorded
<1>3. \A k \in DOMAIN runs : k # NoRun
  BY Shapes DEF NoRun
<1>4. ASSUME NEW i \in DOMAIN taskRuns, taskRuns[i].own = "none" \/ ~taskRuns[i].early
      PROVE  /\ taskRuns[i].scripts <= 1
             /\ taskRuns[i].own = "over" => taskRuns[i].status = taskRuns[i].result \/ CancelledAlong(taskRuns[i])
  BY <1>4 DEF Staged, CancelledAlong
<1>5. ASSUME NEW k \in DOMAIN runs, runs[k].pc \in {"over", "cancelled"}, NEW i \in RowsOf(k), taskRuns[i].own = "none", taskRuns[i].early
      PROVE  taskRuns[i].status \in Final
  <2>1. i \in DOMAIN taskRuns /\ taskRuns[i].run = k /\ i # 0
    BY Shapes DEF RowsOf
  <2>2. QED
    BY <1>3, <1>5, <2>1 DEF Staged, CancelledAlong, Taken
<1>6. ScriptsOnce
  BY <1>4, <1>5 DEF ScriptsOnce, CancelledAlong
<1>7. QED
  BY <1>2, <1>6 DEF StartsTold

\* For any number of webhooks, calls, runs and task runs, whatever is edited or dies meanwhile: a run
\* is told of by one delivery, but for the named ends of its call, and the script of a task run is
\* executed once and its status stays, but for a row put into a stage that had not started, and for
\* the status of a row that was cancelled with its stage.
THEOREM StartsAreTold == Spec => []StartsTold
<1>1. Spec => []TriggersInv
  BY TriggersInit, TriggersStep, PTL DEF Spec
<1>2. QED
  BY <1>1, InvTells, PTL

-----------------------------------------------------------------------------
(* Resolution.                                                             *)

\* The steps of a resolution.
Asking == {"gathering", "resolving", "resolved"}

Gathering(c) ==
  /\ DOMAIN c = {"at", "ctx", "left", "names", "held", "first", "edited"}
  /\ c.left \subseteq c.ctx /\ c.names \subseteq Names

Resolving(c) ==
  /\ DOMAIN c = {"at", "ctx", "left", "name", "todo", "answer", "held", "first", "edited"}
  /\ c.left \subseteq c.ctx /\ c.name \in Names \ c.todo /\ c.todo \subseteq Names
  /\ c.answer = [n \in Names |-> c.answer[n]] /\ \A n \in c.todo \cup {c.name} : c.answer[n] = Null

Resolved(c) == DOMAIN c = {"at", "ctx", "answer", "first", "edited"}

Editing(c) == c.cell \in Cells

Shaped(c) ==
  /\ "at" \in DOMAIN c
  /\ c.at = "editing" => Editing(c)
  /\ c.at = "gathering" => Gathering(c)
  /\ c.at = "resolving" => Resolving(c)
  /\ c.at = "resolved" => Resolved(c)
  /\ c.at \in Asking => c.ctx \subseteq Levels /\ c.edited \in [Names -> 0..2]

\* At most one row of a name has changed, and none when no change was met.
AtMostOne(first, ctx, n, changes) ==
  /\ changes = 0 => \A l \in ctx : rows[<<l, n>>] = first[<<l, n>>]
  /\ changes = 1 => \E k \in ctx : \A l \in ctx \ {k} : rows[<<l, n>>] = first[<<l, n>>]

\* The level had no row at the beginning, or has none now.
RuledOut(first, l, n) == first[<<l, n>>].id = 0 \/ rows[<<l, n>>].id = 0

\* What a resolution knows about a name is of the beginning or of now.
Near(c, n) ==
  /\ AtMostOne(c.first, c.ctx, n, c.edited[n])
  /\ c.edited[n] <= 1 =>
       /\ c.at # "resolved" =>
            \A x \in c.held : x.name = n => x.level \in c.ctx /\ x.row \in {c.first[<<x.level, n>>], rows[<<x.level, n>>]}
       /\ c.at = "gathering" /\ n \notin c.names => \A l \in c.ctx \ c.left : RuledOut(c.first, l, n)
       /\ c.at = "resolving" /\ n = c.name => \A l \in c.ctx \ c.left : RuledOut(c.first, l, n)
       /\ c.at = "resolved" \/ (c.at = "resolving" /\ n \notin c.todo \cup {c.name}) =>
            c.answer[n] \in {Chain(c.first, c.ctx, n), Chain(rows, c.ctx, n)}

ResolutionInv ==
  /\ rows = [cell \in Cells |-> rows[cell]]
  /\ call = [r \in Requests |-> call[r]]
  /\ \A r \in Requests : Shaped(call[r])
  /\ \A r \in Requests : call[r].at \in Asking => \A n \in Names : Near(call[r], n)

\* Levels are asked one after the other.
LEMMA Places ==
  ASSUME NEW l \in Levels, NEW m \in Levels
  PROVE  Place[l] \in 1..7 /\ (Place[l] = Place[m] => l = m)
<1>1. /\ Place["task_run"] = 1 /\ Place["stage_run"] = 2 /\ Place["pipeline_run"] = 3 /\ Place["task"] = 4
      /\ Place["stage"] = 5 /\ Place["pipeline"] = 6 /\ Place["product"] = 7
  BY DEF Place
<1>2. \A k \in Levels : k \in {"task_run", "stage_run", "pipeline_run", "task", "stage", "pipeline", "product"}
  BY DEF Levels, RunLevels
<1>3. QED
  BY <1>1, <1>2

\* Of some levels one is asked first.
LEMMA ForemostFirst ==
  ASSUME NEW S \in SUBSET Levels, S # {}
  PROVE  /\ Foremost(S) \in S
         /\ \A m \in S : Place[Foremost(S)] <= Place[m]
         /\ \A l \in S : (\A m \in S : Place[l] <= Place[m]) => l = Foremost(S)
<1>1. \A l, m \in Levels : Place[l] \in 1..7 /\ (Place[l] = Place[m] => l = m)
  BY Places
<1>2. \E l \in S : \A m \in S : Place[l] <= Place[m]
  <2> DEFINE Least(i) == \A m \in S : i <= Place[m]
             Has(i) == \E l \in S : Place[l] = i
  <2>1. \A i \in 1..7 : Least(i) => Has(i) \/ Least(i + 1)
    BY <1>1
  <2>2. Least(1) /\ ~Least(8)
    BY <1>1
  <2>3. \A i \in 1..7 : Least(i) /\ Has(i) => \E l \in S : \A m \in S : Place[l] <= Place[m]
    OBVIOUS
  <2> HIDE DEF Least, Has
  <2>4. \E i \in 1..7 : Least(i) /\ Has(i)
    BY <2>1, <2>2
  <2>5. QED
    BY <2>3, <2>4
<1>3. QED
  BY <1>1, <1>2 DEF Foremost

\* What the chain gives depends on the rows of its levels alone.
LEMMA ChainSame ==
  ASSUME NEW s, NEW t, NEW ctx, NEW n, \A l \in ctx : s[<<l, n>>] = t[<<l, n>>], ctx \subseteq Levels
  PROVE  Chain(s, ctx, n) = Chain(t, ctx, n)
<1> DEFINE S == {l \in ctx : s[<<l, n>>].id # 0}
           T == {l \in ctx : t[<<l, n>>].id # 0}
<1>1. S = T /\ S \subseteq Levels
  OBVIOUS
<1>2. S # {} => Foremost(S) \in ctx
  BY <1>1, ForemostFirst
<1>3. QED
  BY <1>1, <1>2 DEF Chain

\* A level gives the chain its value if those asked before it have no row.
LEMMA ChainAt ==
  ASSUME NEW t, NEW ctx \in SUBSET Levels, NEW n, NEW l \in ctx, t[<<l, n>>].id # 0,
         \A m \in ctx : Place[m] < Place[l] => t[<<m, n>>].id = 0
  PROVE  Chain(t, ctx, n) = Coerced(l, t[<<l, n>>])
<1> DEFINE S == {m \in ctx : t[<<m, n>>].id # 0}
<1>1. S \subseteq Levels /\ l \in S /\ \A m \in Levels : Place[m] \in 1..7
  BY Places
<1>2. \A m \in S : Place[l] <= Place[m]
  BY <1>1
<1>3. Foremost(S) = l
  BY <1>1, <1>2, ForemostFirst
<1>4. QED
  BY <1>1, <1>3 DEF Chain

\* A row found below levels that are ruled out is what the chain gives, at the beginning or now.
LEMMA FoundNear ==
  ASSUME NEW first, NEW ctx \in SUBSET Levels, NEW n, NEW l \in ctx, NEW e \in 0..1, AtMostOne(first, ctx, n, e),
         \A m \in ctx : Place[m] < Place[l] => RuledOut(first, m, n),
         NEW row \in {first[<<l, n>>], rows[<<l, n>>]}, row.id # 0
  PROVE  Coerced(l, row) \in {Chain(first, ctx, n), Chain(rows, ctx, n)}
<1>1. PICK k \in ctx : \A m \in ctx \ {k} : rows[<<m, n>>] = first[<<m, n>>]
  BY DEF AtMostOne
<1>2. \A m \in ctx \ {k} : Place[m] < Place[l] => first[<<m, n>>].id = 0 /\ rows[<<m, n>>].id = 0
  BY <1>1 DEF RuledOut
<1>3. CASE k = l
  <2>1. ASSUME NEW m \in ctx, Place[m] < Place[l]
        PROVE  first[<<m, n>>].id = 0 /\ rows[<<m, n>>].id = 0
    <3>1. m # l
      BY <2>1, Places
    <3>2. QED
      BY <1>2, <1>3, <2>1, <3>1
  <2>2. QED
    BY <2>1, ChainAt
<1>4. CASE k # l
  <2>1. first[<<l, n>>] = row /\ rows[<<l, n>>] = row
    BY <1>1, <1>4
  <2>2. CASE Place[k] < Place[l]
    BY <1>2, <2>1, <2>2, ChainAt DEF RuledOut
  <2>3. CASE ~(Place[k] < Place[l])
    BY <1>2, <2>1, <2>3, ChainAt
  <2>4. QED
    BY <2>2, <2>3
<1>5. QED
  BY <1>3, <1>4

\* A name whose levels are all ruled out has no value, at the beginning or now.
LEMMA NullNear ==
  ASSUME NEW first, NEW ctx \in SUBSET Levels, NEW n, NEW e \in 0..1, AtMostOne(first, ctx, n, e),
         \A m \in ctx : RuledOut(first, m, n)
  PROVE  Null \in {Chain(first, ctx, n), Chain(rows, ctx, n)}
<1>1. \/ \A m \in ctx : first[<<m, n>>].id = 0
      \/ \A m \in ctx : rows[<<m, n>>].id = 0
  BY DEF AtMostOne, RuledOut
<1>2. \A t : (\A m \in ctx : t[<<m, n>>].id = 0) => Chain(t, ctx, n) = Null
  BY DEF Chain
<1>3. QED
  BY <1>1, <1>2
-----------------------------------------------------------------------------
\* A step of one request that writes no row.
LEMMA OneCall ==
  ASSUME ResolutionInv, NEW r \in Requests, NEW x, rows' = rows, call' = [call EXCEPT ![r] = x],
         Shaped(x), x.at \in Asking => \A n \in Names : Near(x, n)
  PROVE  ResolutionInv'
<1>1. \A q \in Requests : call'[q] = IF q = r THEN x ELSE call[q]
  BY DEF ResolutionInv
<1>2. \A q \in Requests : Shaped(call'[q])
  BY <1>1 DEF ResolutionInv
<1>3. \A q \in Requests : call'[q].at \in Asking => \A n \in Names : Near(call'[q], n)
  BY <1>1 DEF ResolutionInv
<1>5. \A q \in Requests : call'[q].at \in Asking => \A n \in Names : Near(call[q], n)'
  <2>1. ASSUME NEW c, NEW n PROVE Chain(rows', c, n) = Chain(rows, c, n)
    BY DEF Chain
  <2>2. QED
    BY <1>3, <2>1 DEF Near, AtMostOne, RuledOut
<1>6. QED
  BY <1>2, <1>5 DEF ResolutionInv, Shaped

\* Steps that have nothing to do with properties.
LEMMA NoResolution ==
  ASSUME ResolutionInv, rows' = rows, call' = [q \in Requests |-> call'[q]],
         \A q \in Requests : call'[q] = call[q] \/ ("at" \in DOMAIN call'[q] /\ call'[q].at \notin Asking \cup {"editing"})
  PROVE  ResolutionInv'
<1>1. \A q \in Requests : Shaped(call'[q])
  BY DEF ResolutionInv, Shaped, Asking
<1>2. \A q \in Requests : call'[q].at \in Asking => call'[q] = call[q]
  OBVIOUS
<1>3. ASSUME NEW q \in Requests, call'[q].at \in Asking, NEW n \in Names PROVE Near(call[q], n)'
  <2>1. Near(call[q], n)
    BY <1>2, <1>3 DEF ResolutionInv
  <2>2. \A c, m : Chain(rows', c, m) = Chain(rows, c, m)
    BY DEF Chain
  <2>3. QED
    BY <1>2, <1>3, <2>1, <2>2 DEF Near, AtMostOne, RuledOut
<1>4. QED
  BY <1>1, <1>3 DEF ResolutionInv

LEMMA BeginResolutionKept ==
  ASSUME ResolutionInv, NEW r \in Requests, BeginResolution(r)
  PROVE  ResolutionInv'
<1>1. PICK ctx \in Contexts : call' = [call EXCEPT ![r] =
         [at |-> "gathering", ctx |-> ctx, left |-> ctx, names |-> {}, held |-> {},
          first |-> rows, edited |-> [n \in Names |-> 0]]]
  BY DEF BeginResolution
<1> DEFINE x == [at |-> "gathering", ctx |-> ctx, left |-> ctx, names |-> {}, held |-> {},
                 first |-> rows, edited |-> [n \in Names |-> 0]]
<1>2. ctx \subseteq Levels
  BY DEF Contexts, Levels, RunLevels
<1>3. Shaped(x)
  BY <1>2 DEF Shaped, Gathering, Asking
<1>4. \A n \in Names : Near(x, n)
  BY DEF Near, AtMostOne
<1> HIDE DEF x
<1>5. rows' = rows /\ call' = [call EXCEPT ![r] = x]
  BY <1>1 DEF BeginResolution, x
<1>6. QED
  BY <1>3, <1>4, <1>5, OneCall

\* The level gathered next is one of those that are left.
LEMMA GathersLeft ==
  ASSUME NEW S \in SUBSET Levels, S # {}
  PROVE  Gathers(S) \in S
<1>1. CASE S \ RunLevels = {}
  BY <1>1, ForemostFirst DEF Gathers
<1>2. CASE S \ RunLevels # {}
  <2>1. Foremost(S \ RunLevels) \in S \ RunLevels
    BY <1>2, ForemostFirst
  <2>2. QED
    BY <1>2, <2>1 DEF Gathers
<1>3. QED
  BY <1>1, <1>2

LEMMA GatherKept ==
  ASSUME ResolutionInv, NEW r \in Requests, Gather(r)
  PROVE  ResolutionInv'
<1> DEFINE c == call[r]
           level == Gathers(c.left)
<1>1. c.at = "gathering" /\ c.left # {} /\ rows' = rows
  BY DEF Gather
<1>2. Gathering(c) /\ Shaped(c) /\ c.ctx \subseteq Levels /\ c.edited \in [Names -> 0..2]
  BY <1>1 DEF ResolutionInv, Shaped, Asking
<1>3. level \in c.left /\ level \in c.ctx
  BY <1>1, <1>2, GathersLeft DEF Gathering
<1>4. PICK held \in IF HasRow(level) = {} THEN {c.held} ELSE {Holding(c.held, level, n) : n \in HasRow(level)} :
        call' = [call EXCEPT ![r].left = @ \ {level}, ![r].names = @ \cup HasRow(level), ![r].held = held]
  BY DEF Gather
<1> DEFINE x == [c EXCEPT !.left = @ \ {level}, !.names = @ \cup HasRow(level), !.held = held]
<1>5. /\ DOMAIN x = DOMAIN c /\ x.at = "gathering" /\ x.ctx = c.ctx /\ x.first = c.first /\ x.edited = c.edited
      /\ x.left = c.left \ {level} /\ x.names = c.names \cup HasRow(level) /\ x.held = held
  BY <1>1, <1>2 DEF Gathering
<1>6. call' = [call EXCEPT ![r] = x]
  BY <1>4
<1> HIDE DEF x
<1>7. HasRow(level) \subseteq Names
  BY DEF HasRow
<1>8. Shaped(x)
  BY <1>2, <1>3, <1>5, <1>7 DEF Shaped, Gathering, Asking
<1>9. ASSUME NEW y \in held PROVE y \in c.held \/ \E n \in Names : y = [level |-> level, name |-> n, row |-> rows[<<level, n>>]]
  BY <1>4, <1>7 DEF Holding
<1>10. ASSUME NEW n \in Names PROVE Near(x, n)
  <2>1. Near(c, n)
    BY <1>1 DEF ResolutionInv, Asking
  <2>2. n \notin HasRow(level) => rows[<<level, n>>].id = 0
    BY DEF HasRow
  <2>3. AtMostOne(x.first, x.ctx, n, x.edited[n])
    BY <1>5, <2>1 DEF Near
  <2>4. \A y \in c.held : c.edited[n] <= 1 /\ y.name = n =>
          y.level \in c.ctx /\ y.row \in {c.first[<<y.level, n>>], rows[<<y.level, n>>]}
    BY <1>1, <2>1 DEF Near
  <2>5. \A y \in held : c.edited[n] <= 1 /\ y.name = n =>
          y.level \in c.ctx /\ y.row \in {c.first[<<y.level, n>>], rows[<<y.level, n>>]}
    <3> SUFFICES ASSUME NEW y \in held, c.edited[n] <= 1, y.name = n
                 PROVE  y.level \in c.ctx /\ y.row \in {c.first[<<y.level, n>>], rows[<<y.level, n>>]}
      OBVIOUS
    <3>1. CASE y \in c.held
      BY <2>4, <3>1
    <3>2. ASSUME NEW m \in Names, y = [level |-> level, name |-> m, row |-> rows[<<level, m>>]]
          PROVE  y.level \in c.ctx /\ y.row = rows[<<y.level, n>>]
      <4>1. y.level = level /\ m = n /\ y.row = rows[<<level, m>>]
        BY <3>2
      <4>2. QED
        BY <1>3, <4>1
    <3>3. QED
      BY <1>9, <3>1, <3>2
  <2>6. c.edited[n] <= 1 /\ n \notin x.names => \A l \in x.ctx \ x.left : RuledOut(x.first, l, n)
    BY <1>1, <1>5, <2>1, <2>2 DEF Near, RuledOut
  <2>7. QED
    BY <1>5, <2>3, <2>5, <2>6 DEF Near
<1>11. QED
  BY <1>1, <1>6, <1>8, <1>10, OneCall

\* The next name, or the answer, when all names but those to do have been answered.
LEMMA NextNameNear ==
  ASSUME NEW c, c.ctx \subseteq Levels, c.edited \in [Names -> 0..2],
         NEW todo \in SUBSET Names, NEW answer, answer = [n \in Names |-> answer[n]],
         \A n \in todo : answer[n] = Null,
         \A n \in Names : AtMostOne(c.first, c.ctx, n, c.edited[n]),
         \A n \in Names : c.edited[n] <= 1 =>
           /\ \A y \in c.held : y.name = n => y.level \in c.ctx /\ y.row \in {c.first[<<y.level, n>>], rows[<<y.level, n>>]}
           /\ n \notin todo => answer[n] \in {Chain(c.first, c.ctx, n), Chain(rows, c.ctx, n)},
         NEW x \in NextName(c, todo, answer)
  PROVE  Shaped(x) /\ \A n \in Names : Near(x, n)
<1>1. ASSUME NEW m \in todo,
             x = [at |-> "resolving", ctx |-> c.ctx, left |-> c.ctx, name |-> m, todo |-> todo \ {m},
                  answer |-> answer, held |-> c.held, first |-> c.first, edited |-> c.edited]
      PROVE  Shaped(x) /\ \A n \in Names : Near(x, n)
  <2>1. /\ DOMAIN x = {"at", "ctx", "left", "name", "todo", "answer", "held", "first", "edited"}
        /\ x.at = "resolving" /\ x.ctx = c.ctx /\ x.left = c.ctx /\ x.name = m /\ x.todo = todo \ {m}
        /\ x.answer = answer /\ x.held = c.held /\ x.first = c.first /\ x.edited = c.edited
    BY <1>1
  <2>2. Shaped(x)
    BY <2>1 DEF Shaped, Resolving, Asking
  <2>3. \A n \in Names : Near(x, n)
    BY <2>1 DEF Near
  <2>4. QED
    BY <2>2, <2>3
<1>2. ASSUME todo = {},
             x = [at |-> "resolved", ctx |-> c.ctx, answer |-> answer, first |-> c.first, edited |-> c.edited]
      PROVE  Shaped(x) /\ \A n \in Names : Near(x, n)
  <2>1. /\ DOMAIN x = {"at", "ctx", "answer", "first", "edited"} /\ x.at = "resolved"
        /\ x.ctx = c.ctx /\ x.answer = answer /\ x.first = c.first /\ x.edited = c.edited
    BY <1>2
  <2>2. Shaped(x)
    BY <2>1 DEF Shaped, Resolved, Asking
  <2>3. \A n \in Names : Near(x, n)
    BY <1>2, <2>1 DEF Near
  <2>4. QED
    BY <2>2, <2>3
<1>3. QED
  BY <1>1, <1>2 DEF NextName

LEMMA GatheredKept ==
  ASSUME ResolutionInv, NEW r \in Requests, Gathered(r)
  PROVE  ResolutionInv'
<1> DEFINE c == call[r]
           answer == [n \in Names |-> Null]
<1>1. c.at = "gathering" /\ c.left = {} /\ rows' = rows
  BY DEF Gathered
<1>2. /\ Gathering(c) /\ c.ctx \in SUBSET Levels /\ c.edited \in [Names -> 0..2]
      /\ \A n \in Names : Near(c, n)
  BY <1>1 DEF ResolutionInv, Shaped, Asking
<1>3. PICK x \in NextName(c, c.names, answer) : call' = [call EXCEPT ![r] = x]
  BY DEF Gathered
<1>4. ASSUME NEW n \in Names, c.edited[n] <= 1, n \notin c.names
      PROVE  answer[n] \in {Chain(c.first, c.ctx, n), Chain(rows, c.ctx, n)}
  <2>1. \A l \in c.ctx : RuledOut(c.first, l, n)
    BY <1>1, <1>2, <1>4 DEF Near
  <2>2. AtMostOne(c.first, c.ctx, n, c.edited[n]) /\ c.edited[n] \in 0..1
    BY <1>2, <1>4 DEF Near
  <2>3. QED
    BY <1>2, <2>1, <2>2, NullNear
<1>5. \A n \in Names : AtMostOne(c.first, c.ctx, n, c.edited[n])
  BY <1>2 DEF Near
<1>6. \A n \in Names : c.edited[n] <= 1 =>
        \A y \in c.held : y.name = n => y.level \in c.ctx /\ y.row \in {c.first[<<y.level, n>>], rows[<<y.level, n>>]}
  BY <1>1, <1>2 DEF Near
<1>7. c.names \in SUBSET Names
  BY <1>2 DEF Gathering
<1> HIDE DEF c, answer
<1>8. answer = [n \in Names |-> answer[n]] /\ \A n \in Names : answer[n] = Null
  BY DEF answer
<1>9. Shaped(x) /\ \A n \in Names : Near(x, n)
  BY <1>2, <1>4, <1>5, <1>6, <1>7, <1>8, NextNameNear
<1>10. QED
  BY <1>1, <1>3, <1>9, OneCall

LEMMA ReadLevelKept ==
  ASSUME ResolutionInv, NEW r \in Requests, ReadLevel(r)
  PROVE  ResolutionInv'
<1> DEFINE c == call[r]
           level == Foremost(c.left)
           row == Queried(c, <<level, c.name>>)
<1>1. c.at = "resolving" /\ rows' = rows
  BY DEF ReadLevel
<1>2. /\ Resolving(c) /\ c.ctx \in SUBSET Levels /\ c.edited \in [Names -> 0..2]
      /\ \A n \in Names : Near(c, n)
  BY <1>1 DEF ResolutionInv, Shaped, Asking
<1>3. /\ c.name \in Names \ c.todo /\ c.todo \in SUBSET Names /\ c.answer = [n \in Names |-> c.answer[n]]
      /\ \A n \in c.todo \cup {c.name} : c.answer[n] = Null
      /\ \A n \in Names : AtMostOne(c.first, c.ctx, n, c.edited[n])
      /\ \A n \in Names : c.edited[n] <= 1 =>
           \A y \in c.held : y.name = n => y.level \in c.ctx /\ y.row \in {c.first[<<y.level, n>>], rows[<<y.level, n>>]}
      /\ \A n \in Names \ (c.todo \cup {c.name}) : c.edited[n] <= 1 =>
           c.answer[n] \in {Chain(c.first, c.ctx, n), Chain(rows, c.ctx, n)}
      /\ c.edited[c.name] <= 1 => \A l \in c.ctx \ c.left : RuledOut(c.first, l, c.name)
  BY <1>1, <1>2 DEF Resolving, Near
<1>4. PICK x \in IF c.left = {} THEN NextName(c, c.todo, c.answer)
                 ELSE IF Found(row) THEN NextName(c, c.todo, [c.answer EXCEPT ![c.name] = Coerced(level, row)])
                 ELSE {[c EXCEPT !.left = @ \ {level}]} : call' = [call EXCEPT ![r] = x]
  BY DEF ReadLevel
<1>5. CASE c.left = {}
  <2>1. ASSUME NEW n \in Names, c.edited[n] <= 1, n \notin c.todo
        PROVE  c.answer[n] \in {Chain(c.first, c.ctx, n), Chain(rows, c.ctx, n)}
    <3>1. CASE n = c.name
      <4>1. c.answer[n] = Null /\ \A l \in c.ctx : RuledOut(c.first, l, n)
        BY <1>3, <1>5, <2>1, <3>1
      <4>2. AtMostOne(c.first, c.ctx, n, c.edited[n]) /\ c.edited[n] \in 0..1
        BY <1>2, <1>3, <2>1
      <4> HIDE DEF c
      <4>3. QED
        BY <1>2, <4>1, <4>2, NullNear
    <3>2. QED
      BY <1>3, <2>1, <3>1
  <2>2. x \in NextName(c, c.todo, c.answer)
    BY <1>4, <1>5
  <2> HIDE DEF c
  <2>3. Shaped(x) /\ \A n \in Names : Near(x, n)
    BY <1>2, <1>3, <2>1, <2>2, NextNameNear
  <2>4. QED
    BY <1>1, <1>4, <2>3, OneCall
<1>6. ASSUME c.left # {}, c.edited[c.name] <= 1
      PROVE  row \in {c.first[<<level, c.name>>], rows[<<level, c.name>>]}
  <2> DEFINE cell == <<level, c.name>>
             old == {y.row : y \in {z \in c.held : <<z.level, z.name>> = cell /\ z.row.id = rows[cell].id}}
  <2>1. old \subseteq {c.first[cell], rows[cell]}
    BY <1>3, <1>6
  <2>2. CASE old = {}
    BY <2>2 DEF Queried
  <2>3. CASE old # {}
    <3>1. row = CHOOSE o \in old : TRUE
      BY <2>3 DEF Queried
    <3>2. row \in old
      BY <2>3, <3>1
    <3>3. QED
      BY <2>1, <3>2
  <2>4. QED
    BY <2>2, <2>3
<1>7. c.left # {} => /\ level \in c.left /\ level \in c.ctx
                     /\ \A m \in c.left : Place[level] <= Place[m]
  BY <1>2, ForemostFirst DEF Resolving
<1>8. CASE c.left # {} /\ Found(row)
  <2> DEFINE answer == [c.answer EXCEPT ![c.name] = Coerced(level, row)]
  <2>1. /\ answer = [n \in Names |-> answer[n]] /\ answer[c.name] = Coerced(level, row)
        /\ \A n \in Names \ {c.name} : answer[n] = c.answer[n]
    BY <1>3
  <2>2. ASSUME c.edited[c.name] <= 1
        PROVE  answer[c.name] \in {Chain(c.first, c.ctx, c.name), Chain(rows, c.ctx, c.name)}
    <3>1. row \in {c.first[<<level, c.name>>], rows[<<level, c.name>>]} /\ row.id # 0
      BY <1>6, <1>8, <2>2 DEF Found
    <3>2. AtMostOne(c.first, c.ctx, c.name, c.edited[c.name]) /\ c.edited[c.name] \in 0..1
      BY <1>2, <1>3, <2>2
    <3>3. \A m \in c.ctx : Place[m] < Place[level] => RuledOut(c.first, m, c.name)
      <4>1. \A m \in c.left : Place[m] \in Int /\ Place[level] \in Int
        BY <1>2, <1>7, <1>8, Places DEF Resolving
      <4>2. QED
        BY <1>3, <1>7, <1>8, <2>2, <4>1
    <3> HIDE DEF c, level, row
    <3>4. Coerced(level, row) \in {Chain(c.first, c.ctx, c.name), Chain(rows, c.ctx, c.name)}
      BY <1>2, <1>7, <1>8, <3>1, <3>2, <3>3, FoundNear
    <3>5. QED
      BY <2>1, <3>4
  <2>3. x \in NextName(c, c.todo, answer)
    BY <1>4, <1>8
  <2> HIDE DEF c, answer
  <2>4. \A n \in Names : c.edited[n] <= 1 /\ n \notin c.todo =>
          answer[n] \in {Chain(c.first, c.ctx, n), Chain(rows, c.ctx, n)}
    BY <1>3, <2>1, <2>2
  <2>5. \A n \in c.todo : answer[n] = Null
    BY <1>3, <2>1
  <2>6. Shaped(x) /\ \A n \in Names : Near(x, n)
    BY <1>2, <1>3, <2>1, <2>3, <2>4, <2>5, NextNameNear
  <2>7. QED
    BY <1>1, <1>4, <2>6, OneCall
<1>9. CASE c.left # {} /\ ~Found(row)
  <2> DEFINE y == [c EXCEPT !.left = @ \ {level}]
  <2>1. x = y
    BY <1>4, <1>9
  <2>2. /\ DOMAIN y = DOMAIN c /\ y.at = "resolving" /\ y.ctx = c.ctx /\ y.left = c.left \ {level} /\ y.name = c.name
        /\ y.todo = c.todo /\ y.answer = c.answer /\ y.held = c.held /\ y.first = c.first /\ y.edited = c.edited
    BY <1>1, <1>2 DEF Resolving
  <2> HIDE DEF y
  <2>3. Shaped(y)
    BY <1>2, <2>2 DEF Shaped, Resolving, Asking
  <2>4. ASSUME NEW n \in Names PROVE Near(y, n)
    <3>1. c.edited[c.name] <= 1 => RuledOut(c.first, level, c.name)
      BY <1>6, <1>9 DEF Found, RuledOut
    <3>2. c.edited[n] <= 1 /\ n = c.name => \A l \in y.ctx \ y.left : RuledOut(c.first, l, n)
      BY <1>3, <2>2, <3>1
    <3>3. QED
      BY <1>3, <2>2, <3>2 DEF Near
  <2>5. QED
    BY <1>1, <1>4, <2>1, <2>3, <2>4, OneCall
<1>10. QED
  BY <1>5, <1>8, <1>9

LEMMA AnswerResolutionKept ==
  ASSUME ResolutionInv, NEW r \in Requests, AnswerResolution(r)
  PROVE  ResolutionInv'
<1>1. rows' = rows /\ call' = [call EXCEPT ![r] = Done] /\ "at" \in DOMAIN Done /\ Done.at = "done"
  BY DEF AnswerResolution, Answer, Done
<1>2. Shaped(Done)
  BY <1>1 DEF Shaped, Asking
<1>3. QED
  BY <1>1, <1>2, OneCall DEF Asking

LEMMA BeginEditKept ==
  ASSUME ResolutionInv, NEW r \in Requests, BeginEdit(r)
  PROVE  ResolutionInv'
<1>1. ASSUME NEW cell \in Cells, NEW goal,
             call' = [call EXCEPT ![r] = [at |-> "editing", cell |-> cell, goal |-> goal, row |-> rows[cell]]]
      PROVE  ResolutionInv'
  <2> DEFINE x == [at |-> "editing", cell |-> cell, goal |-> goal, row |-> rows[cell]]
  <2>1. "at" \in DOMAIN x /\ x.at = "editing" /\ x.cell = cell
    OBVIOUS
  <2> HIDE DEF x
  <2>2. Shaped(x)
    BY <2>1 DEF Shaped, Asking, Editing
  <2>3. rows' = rows /\ call' = [call EXCEPT ![r] = x]
    BY <1>1 DEF BeginEdit, x
  <2>4. QED
    BY <2>1, <2>2, <2>3, OneCall DEF Asking
<1>2. QED
  BY <1>1 DEF BeginEdit

\* A change of a row in the chain of an open resolution is counted; what was of now is of the
\* beginning, as long as it is the first.
LEMMA CommitEditKept ==
  ASSUME ResolutionInv, NEW r \in Requests, CommitEdit(r)
  PROVE  ResolutionInv'
<1> DEFINE cell == call[r].cell
           changes == Committed(r) # rows[cell]
           Meets(q) == /\ call[q].at \in Asking /\ changes
                       /\ cell[1] \in call[q].ctx /\ call[q].edited[cell[2]] < 2
           counted(q) == [call[q] EXCEPT !.edited[cell[2]] = @ + 1]
<1>1. call[r].at = "editing" /\ rows' = [rows EXCEPT ![cell] = Committed(r)]
      /\ call' = [q \in Requests |-> IF q = r THEN Done ELSE IF Meets(q) THEN counted(q) ELSE call[q]]
  BY DEF CommitEdit, Asking
<1>2. cell \in Cells /\ cell = <<cell[1], cell[2]>> /\ cell[1] \in Levels /\ cell[2] \in Names
  BY <1>1 DEF ResolutionInv, Shaped, Editing, Cells
<1>3. /\ rows' = [x \in Cells |-> rows'[x]] /\ \A x \in Cells : x # cell => rows'[x] = rows[x]
      /\ rows'[cell] = Committed(r)
  BY <1>1, <1>2 DEF ResolutionInv
<1>4. call' = [q \in Requests |-> call'[q]] /\ call'[r] = Done /\ Done.at = "done" /\ "at" \in DOMAIN Done
  BY <1>1 DEF Done
<1>5. ASSUME NEW q \in Requests, q # r, ~Meets(q)
      PROVE  call'[q] = call[q]
  BY <1>1, <1>5
<1>6. ASSUME NEW q \in Requests, q # r, Meets(q)
      PROVE  /\ call'[q] = counted(q)
             /\ DOMAIN counted(q) = DOMAIN call[q]
             /\ \A f \in DOMAIN call[q] \ {"edited"} : counted(q)[f] = call[q][f]
             /\ counted(q).edited = [call[q].edited EXCEPT ![cell[2]] = @ + 1]
  <2>1. "edited" \in DOMAIN call[q]
    BY <1>6 DEF ResolutionInv, Shaped, Gathering, Resolving, Resolved, Asking
  <2>2. QED
    BY <1>1, <1>6, <2>1
<1>7. ASSUME NEW q \in Requests, q # r, call[q].at \in Asking
      PROVE  /\ call'[q].at = call[q].at /\ call'[q].ctx = call[q].ctx /\ call'[q].first = call[q].first
             /\ DOMAIN call'[q] = DOMAIN call[q]
             /\ call[q].at # "resolved" => call'[q].held = call[q].held /\ call'[q].left = call[q].left
             /\ call[q].at = "gathering" => call'[q].names = call[q].names
             /\ call[q].at = "resolving" => call'[q].name = call[q].name /\ call'[q].todo = call[q].todo
             /\ call[q].at # "gathering" => call'[q].answer = call[q].answer
             /\ call'[q].edited \in [Names -> 0..2]
             /\ \A n \in Names : \/ call'[q].edited[n] = call[q].edited[n] /\ ~(Meets(q) /\ n = cell[2])
                                 \/ Meets(q) /\ n = cell[2] /\ call'[q].edited[n] = call[q].edited[n] + 1
  <2>1. call[q].edited \in [Names -> 0..2] /\ Shaped(call[q])
    BY <1>7 DEF ResolutionInv, Shaped
  <2>2. CASE Meets(q)
    <3>1. call'[q].edited = [call[q].edited EXCEPT ![cell[2]] = @ + 1]
      BY <1>6, <1>7, <2>2
    <3>2. \A f \in DOMAIN call[q] \ {"edited"} : call'[q][f] = call[q][f]
      BY <1>6, <1>7, <2>2
    <3>3. DOMAIN call'[q] = DOMAIN call[q]
      BY <1>6, <1>7, <2>2
    <3>4. call[q].edited[cell[2]] < 2 /\ Meets(q)
      BY <2>2
    <3> HIDE DEF Meets, cell
    <3>5. call'[q].edited \in [Names -> 0..2]
          /\ \A n \in Names : call'[q].edited[n] = IF n = cell[2] THEN call[q].edited[n] + 1 ELSE call[q].edited[n]
      BY <1>2, <2>1, <3>1, <3>4
    <3>6. QED
      BY <1>7, <2>1, <3>2, <3>3, <3>4, <3>5 DEF Shaped, Gathering, Resolving, Resolved, Asking
  <2>3. CASE ~Meets(q)
    BY <1>5, <1>7, <2>1, <2>3
  <2>4. QED
    BY <2>2, <2>3
<1>8. ASSUME NEW q \in Requests PROVE Shaped(call'[q])
  <2>1. CASE q = r
    BY <1>4, <2>1 DEF Shaped, Asking
  <2>2. CASE q # r /\ call[q].at \in Asking
    <3>1. Shaped(call[q])
      BY DEF ResolutionInv
    <3> HIDE DEF Meets, cell, counted
    <3>2. QED
      BY <1>7, <2>2, <3>1 DEF Shaped, Gathering, Resolving, Resolved, Asking
  <2>3. CASE q # r /\ call[q].at \notin Asking
    BY <1>5, <2>3 DEF ResolutionInv
  <2>4. QED
    BY <2>1, <2>2, <2>3
<1>9. ASSUME NEW q \in Requests, call'[q].at \in Asking, NEW n \in Names
      PROVE  Near(call[q], n)'
  <2>1. q # r /\ call[q].at \in Asking
    <3>1. q # r
      BY <1>4, <1>9 DEF Asking
    <3>2. CASE Meets(q)
      BY <3>1, <3>2
    <3>3. CASE ~Meets(q)
      BY <1>5, <1>9, <3>1, <3>3
    <3>4. QED
      BY <3>1, <3>2, <3>3
  <2>2. Near(call[q], n) /\ call[q].ctx \subseteq Levels /\ call[q].edited \in [Names -> 0..2]
    BY <2>1 DEF ResolutionInv, Shaped
  <2> DEFINE c == call[q]
  <2>3. CASE call'[q].edited[n] = c.edited[n] /\ ~(Meets(q) /\ n = cell[2])
    <3>1. CASE c.edited[n] <= 1
      <4>1. \A l \in c.ctx : rows'[<<l, n>>] = rows[<<l, n>>]
        <5>1. ASSUME NEW l \in c.ctx PROVE rows'[<<l, n>>] = rows[<<l, n>>]
          <6>1. <<l, n>> \in Cells
            BY <2>2 DEF Cells
          <6>2. CASE <<l, n>> # cell
            BY <1>3, <6>1, <6>2
          <6>3. CASE <<l, n>> = cell
            <7>1. cell[1] = l /\ cell[2] = n
              BY <6>3
            <7>2. ~Meets(q) /\ call[q].edited[cell[2]] < 2
              BY <2>2, <2>3, <3>1, <7>1
            <7>3. ~changes
              BY <2>1, <7>1, <7>2
            <7>4. QED
              BY <1>3, <6>3, <7>3
          <6>4. QED
            BY <6>2, <6>3
        <5>2. QED
          BY <5>1
      <4>2. Chain(rows', c.ctx, n) = Chain(rows, c.ctx, n)
        BY <2>2, <4>1, ChainSame
      <4> HIDE DEF Meets, cell, counted
      <4>3. QED
        BY <1>7, <2>1, <2>2, <2>3, <4>1, <4>2 DEF Near, AtMostOne, RuledOut
    <3>2. CASE ~(c.edited[n] <= 1)
      <4> HIDE DEF Meets, cell, counted
      <4>1. call'[q].edited[n] = 2
        BY <2>2, <2>3, <3>2
      <4>2. QED
        BY <4>1 DEF Near, AtMostOne
    <3>3. QED
      BY <3>1, <3>2
  <2>4. CASE Meets(q) /\ n = cell[2] /\ call'[q].edited[n] = c.edited[n] + 1
    <3>1. CASE c.edited[n] = 0
      <4>1. \A l \in c.ctx : rows[<<l, n>>] = c.first[<<l, n>>]
        BY <2>2, <3>1 DEF Near, AtMostOne
      <4>2. \A l \in c.ctx \ {cell[1]} : rows'[<<l, n>>] = c.first[<<l, n>>]
        <5>1. ASSUME NEW l \in c.ctx \ {cell[1]} PROVE rows'[<<l, n>>] = rows[<<l, n>>]
          <6>1. <<l, n>> \in Cells /\ <<l, n>> # cell
            BY <2>2 DEF Cells
          <6>2. QED
            BY <1>3, <6>1
        <5>2. QED
          BY <4>1, <5>1
      <4>3. Chain(rows, c.ctx, n) = Chain(c.first, c.ctx, n)
        BY <2>2, <4>1, ChainSame
      <4>4. call'[q].edited[n] = 1 /\ cell[1] \in c.ctx
        BY <2>4, <3>1
      <4> HIDE DEF Meets, cell, counted
      <4>5. QED
        BY <1>7, <2>1, <2>2, <3>1, <4>1, <4>2, <4>3, <4>4 DEF Near, AtMostOne, RuledOut
    <3>2. CASE c.edited[n] # 0
      <4> HIDE DEF Meets, cell, counted
      <4>1. call'[q].edited[n] = 2
        BY <1>7, <2>1, <2>2, <2>4, <3>2
      <4>2. QED
        BY <4>1 DEF Near, AtMostOne
    <3>3. QED
      BY <3>1, <3>2
  <2>5. QED
    BY <1>7, <2>1, <2>3, <2>4
<1>10. QED
  BY <1>3, <1>4, <1>8, <1>9 DEF ResolutionInv

-----------------------------------------------------------------------------
\* What is not about properties answers no resolution and begins none.
LEMMA TriggerCalls ==
  ASSUME ResolutionInv, NEW r \in Requests, TriggerRequest(r)
  PROVE  \E x : /\ call' = [call EXCEPT ![r] = x]
               /\ "at" \in DOMAIN x /\ x.at \notin Asking \cup {"editing"}
<1> DEFINE Goal == \E x : /\ call' = [call EXCEPT ![r] = x]
                         /\ "at" \in DOMAIN x /\ x.at \notin Asking \cup {"editing"}
<1> USE DEF Asking
<1>1. Done.at = "done" /\ "at" \in DOMAIN Done
  BY DEF Done
<1>2. ASSUME Answer(r) PROVE Goal
  BY <1>1, <1>2 DEF Answer
<1> HIDE DEF Goal
<1>13. ASSUME NEW x, call' = [call EXCEPT ![r] = x], "at" \in DOMAIN x, x.at \in {"triggering", "committed", "failed", "queued", "started", "lost"}
       PROVE  Goal
  BY <1>13 DEF Goal
<1>4. "at" \in DOMAIN call[r]
  BY DEF ResolutionInv, Shaped
<1>3. ASSUME NEW s \in {"started", "lost"} PROVE LET x == [call[r] EXCEPT !.at = s] IN "at" \in DOMAIN x /\ x.at = s
  BY <1>4
<1> HIDE DEF Asking
<1>5. ASSUME NEW h, CreateWebhook(r) \/ StartThread(r) \/ UpdateWebhook(r, h) \/ DeleteWebhook(r, h)
      PROVE  Goal
  BY <1>2, <1>5 DEF CreateWebhook, StartThread, UpdateWebhook, DeleteWebhook
<1>6. ASSUME NEW h, Trigger(r, h) PROVE Goal
  <2> DEFINE x == [at |-> "triggering", hook |-> h]
  <2>1. "at" \in DOMAIN x /\ x.at = "triggering"
    OBVIOUS
  <2>2. Answer(r) \/ call' = [call EXCEPT ![r] = x]
    BY <1>6 DEF Trigger
  <2> HIDE DEF x
  <2>3. QED
    BY <1>2, <1>13, <2>1, <2>2
<1>7. ASSUME CommitRun(r) PROVE Goal
  <2> DEFINE x == [at |-> "committed", hook |-> call[r].hook, run |-> Len(runs) + 1]
  <2>1. "at" \in DOMAIN x /\ x.at = "committed"
    OBVIOUS
  <2>2. call' = [call EXCEPT ![r] = x]
    BY <1>7 DEF CommitRun
  <2> HIDE DEF x
  <2>3. QED
    BY <1>13, <2>1, <2>2
<1>8. ASSUME StartExecutor(r) PROVE Goal
  <2> DEFINE x == [call[r] EXCEPT !.at = "started"]
  <2>1. "at" \in DOMAIN x /\ x.at = "started"
    BY <1>3
  <2>2. call' = [call EXCEPT ![r] = x]
    BY <1>8 DEF StartExecutor
  <2> HIDE DEF x
  <2>3. QED
    BY <1>2, <1>13, <2>1, <2>2
<1>9. ASSUME StartFails(r) PROVE Goal
  <2> DEFINE x == [at |-> "failed", hook |-> call[r].hook, run |-> NoRun]
  <2>1. "at" \in DOMAIN x /\ x.at = "failed"
    OBVIOUS
  <2>2. call' = [call EXCEPT ![r] = x]
    BY <1>9 DEF StartFails
  <2> HIDE DEF x
  <2>3. QED
    BY <1>13, <2>1, <2>2
<1>10. ASSUME Deliver(r) PROVE Goal
  <2> DEFINE x == [call[r] EXCEPT !.at = "lost"]
  <2>1. "at" \in DOMAIN x /\ x.at = "lost"
    BY <1>3
  <2>2. Answer(r) \/ call' = [call EXCEPT ![r] = x]
    BY <1>10 DEF Deliver
  <2> HIDE DEF x
  <2>3. QED
    BY <1>2, <1>13, <2>1, <2>2
<1>11. ASSUME NEW k, RunTask(r, k) PROVE Goal
  <2> DEFINE x == [at |-> "queued", row |-> Len(taskRuns) + 1]
  <2>1. "at" \in DOMAIN x /\ x.at = "queued"
    OBVIOUS
  <2>2. call' = [call EXCEPT ![r] = x]
    BY <1>11 DEF RunTask
  <2> HIDE DEF x
  <2>3. QED
    BY <1>13, <2>1, <2>2
<1>12. QED
  BY <1>5, <1>6, <1>7, <1>8, <1>9, <1>10, <1>11 DEF TriggerRequest, Goal

LEMMA ResolutionStep == ResolutionInv /\ [Next]_vars => ResolutionInv'
<1> SUFFICES ASSUME ResolutionInv, [Next]_vars PROVE ResolutionInv'
  OBVIOUS
<1>1. ASSUME NEW r \in Requests, PropertyRequest(r) PROVE ResolutionInv'
  BY <1>1, BeginResolutionKept, GatherKept, GatheredKept, ReadLevelKept, AnswerResolutionKept, BeginEditKept, CommitEditKept
  DEF PropertyRequest
<1>2. ASSUME NEW r \in Requests, TriggerRequest(r), rows' = rows PROVE ResolutionInv'
  <2>1. PICK x : call' = [call EXCEPT ![r] = x] /\ "at" \in DOMAIN x /\ x.at \notin Asking \cup {"editing"}
    BY <1>2, TriggerCalls
  <2>2. call' = [q \in Requests |-> call'[q]] /\ \A q \in Requests : call'[q] = IF q = r THEN x ELSE call[q]
    BY <2>1 DEF ResolutionInv
  <2>3. QED
    BY <1>2, <2>1, <2>2, NoResolution
<1>3. ASSUME Die, rows' = rows PROVE ResolutionInv'
  <2>1. PICK R \in SUBSET Open : call' = [r \in Requests |-> IF r \in R THEN [at |-> "lost"] ELSE call[r]]
    BY <1>3 DEF Die
  <2>2. QED
    BY <1>3, <2>1, NoResolution DEF Asking
<1>4. CASE call' = call /\ rows' = rows
  BY <1>4, NoResolution DEF ResolutionInv
<1>5. Execution => call' = call
  BY DEF Execution, StartStage, StartTask, EndTask, EndStage, StageRaises, CancelStage, WorkerRuns, WorkerEnds
<1>6. QED
  BY <1>1, <1>2, <1>3, <1>4, <1>5 DEF Next, vars

LEMMA ResolutionInit == Init => ResolutionInv
<1> SUFFICES ASSUME Init PROVE ResolutionInv
  OBVIOUS
<1>1. call = [r \in Requests |-> New] /\ rows = [cell \in Cells |-> rows[cell]]
  BY DEF Init, PropertiesInit
<1>2. New.at = "new" /\ "at" \in DOMAIN New
  BY DEF New
<1>3. QED
  BY <1>1, <1>2 DEF ResolutionInv, Shaped, Asking

\* For any names, values and requests, and whatever rows there were before: as long as at most one
\* change to a name's rows overlaps it, a resolution answers what the whole chain gave before that
\* change or gives after it.
THEOREM ResolutionIsNear == Spec => []ResolvedNearby
<1>1. Spec => []ResolutionInv
  BY ResolutionInit, ResolutionStep, PTL DEF Spec
<1>2. ResolutionInv => ResolvedNearby
  BY DEF ResolutionInv, ResolvedNearby, Shaped, Near, Asking
<1>3. QED
  BY <1>1, <1>2, PTL
=============================================================================
