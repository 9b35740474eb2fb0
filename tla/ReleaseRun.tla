------------------------------ MODULE ReleaseRun ------------------------------
(***************************************************************************)
(* A release run: the request that creates it, the thread that starts the  *)
(* pipelines of its application groups and waits for them by polling, and  *)
(* the requests that rewrite statuses meanwhile (start_release_run,        *)
(* _execute_release_async, _wait_for_pipeline_runs in run_service.py).     *)
(*                                                                         *)
(* The pipeline runs it starts are seen from outside only, the way         *)
(* RunLifecycle describes them: a row, and whether an executor is at work. *)
(***************************************************************************)
EXTENDS Naturals, RunRow

CONSTANTS
  NGroups,          \* number of application groups, numbered in their order
  MaxPipelines,     \* the most pipelines a group has
  NPipelines,       \* NPipelines[g]: length of group g's list of pipeline ids
  GroupMode,        \* GroupMode[g]: its execution_mode
  Doubtful,         \* the slots whose pipeline id may turn out to name no pipeline
  Stageless,        \* the slots whose pipeline has no stages
  Verdicts,         \* how the executor of a pipeline run may conclude it
  PatchStatuses,    \* statuses a client may PATCH into a pipeline run
  ReleasePatches,   \* statuses a client may PATCH into the release run
  Faults            \* TRUE when threads may raise and the process may die

Group == 1..NGroups

\* A slot is a place in a group's list: the same pipeline may have several.
Slot == {p \in Group \X (1..MaxPipelines) : p[2] <= NPipelines[p[1]]}

\* Nothing is in the identity map of the polling session.
NotLoaded == "not loaded"

ASSUME GroupsAssumption ==
  /\ NGroups \in Nat /\ MaxPipelines \in Nat
  /\ NPipelines \in [Group -> 0..MaxPipelines]
  /\ GroupMode \in [Group -> {"sequential", "parallel"}]

ASSUME ReleaseScenarioAssumption ==
  /\ Doubtful \subseteq Slot /\ Stageless \subseteq Slot
  /\ Verdicts \subseteq Verdict
  /\ PatchStatuses \subseteq RunStatus /\ ReleasePatches \subseteq RunStatus
  /\ Faults \in BOOLEAN

VARIABLES
  rrun,      \* the release_runs row
  runs,      \* runs[p]: the pipeline_runs row started for slot p
  linked,    \* the slots whose row has release_run_id set
  live,      \* live[p]: the executor of that run is at work
  pc,        \* where the release thread is
  group,     \* the group it is at
  item,      \* the place in that group's list it is at
  at,        \* the next place its poll reads
  pending,   \* this round of polling has read an unfinished run
  loaded     \* the status last read, as long as the row stays in memory

rows    == <<rrun, runs, linked>>
control == <<pc, group, item, at, pending, loaded>>
vars    == <<rows, live, control>>

-----------------------------------------------------------------------------
TypeOK ==
  /\ rrun \in Row
  /\ runs \in [Slot -> Row]
  /\ linked \subseteq Slot
  /\ live \in [Slot -> BOOLEAN]
  /\ pc \in {"idle", "created", "group", "link", "poll", "done", "dead"}
  /\ group \in 1..(NGroups + 1)
  /\ item \in 1..(MaxPipelines + 1)
  /\ at \in 1..(MaxPipelines + 1)
  /\ pending \in BOOLEAN
  /\ loaded \in Status \cup {Absent, NotLoaded}

Init ==
  /\ rrun = NoRow
  /\ runs = [p \in Slot |-> NoRow]
  /\ linked = {}
  /\ live = [p \in Slot |-> FALSE]
  /\ pc = "idle" /\ group = 1 /\ item = 1 /\ at = 1
  /\ pending = FALSE /\ loaded = NotLoaded

-----------------------------------------------------------------------------
(* The request.                                                            *)

StartReleaseRun ==
  /\ pc = "idle"
  /\ rrun' = [status |-> "Running", finished |-> FALSE]
  /\ pc' = "created"
  /\ UNCHANGED <<runs, linked, live, group, item, at, pending, loaded>>

\* After the audit event: a thread when there are groups, and otherwise a
\* second commit that ends the run.
Spawn ==
  /\ pc = "created"
  /\ rrun' = IF NGroups > 0 THEN rrun ELSE [status |-> "Succeeded", finished |-> TRUE]
  /\ pc' = IF NGroups > 0 THEN "group" ELSE "done"
  /\ UNCHANGED <<runs, linked, live, group, item, at, pending, loaded>>

UpdateReleaseRun(new) ==
  /\ rrun.status # Absent
  /\ rrun' = Rewritten(rrun, new)
  /\ UNCHANGED <<runs, linked, live, control>>

-----------------------------------------------------------------------------
(* The release thread, _execute_release_async.                             *)

Here == <<group, item>>
Parallel == GroupMode[group] = "parallel"

\* (Mutant of First: the thread waits for the pipeline it started last.)
LastOnly == item

\* The first place of the list the thread waits for; the last one is item.
First == IF Parallel THEN 1 ELSE item

AtSlot == pc = "group" /\ group <= NGroups /\ item <= NPipelines[group]

\* start_pipeline_run, called in the release thread.
StartPipeline ==
  /\ AtSlot
  /\ runs' = [runs EXCEPT ![Here] = NewRow(Here \notin Stageless)]
  /\ live' = [live EXCEPT ![Here] = Here \notin Stageless]
  /\ pc' = "link"
  /\ UNCHANGED <<rrun, linked, group, item, at, pending, loaded>>

\* The ids in a group's list are not foreign keys.  get_or_404 raises for
\* one that names no pipeline, and nobody catches it here.
StartMissing ==
  /\ AtSlot /\ Here \in Doubtful
  /\ pc' = "dead"
  /\ UNCHANGED <<rows, live, group, item, at, pending, loaded>>

\* (Mutant of Link: only the loop over a parallel group ties its runs.)
LinkParallelOnly ==
  /\ pc = "link"
  /\ linked' = IF Parallel THEN linked \cup {Here} ELSE linked
  /\ IF Parallel /\ item < NPipelines[group]
     THEN pc' = "group" /\ item' = item + 1 /\ UNCHANGED at
     ELSE pc' = "poll" /\ at' = First /\ UNCHANGED item
  /\ UNCHANGED <<rrun, runs, live, group, pending, loaded>>

\* A commit of its own ties the pipeline run to the release run.  A parallel
\* group then starts its next pipeline; otherwise the wait begins.
Link ==
  /\ pc = "link"
  /\ linked' = linked \cup {Here}
  /\ IF Parallel /\ item < NPipelines[group]
     THEN pc' = "group" /\ item' = item + 1 /\ UNCHANGED at
     ELSE pc' = "poll" /\ at' = First /\ UNCHANGED item
  /\ UNCHANGED <<rrun, runs, live, group, pending, loaded>>

NextGroup ==
  /\ pc = "group" /\ group <= NGroups /\ item > NPipelines[group]
  /\ group' = group + 1 /\ item' = 1
  /\ UNCHANGED <<rows, live, pc, at, pending, loaded>>

\* The release run succeeds, whatever became of its pipelines and whatever
\* a client wrote into its row.
ConcludeRelease ==
  /\ pc = "group" /\ group > NGroups
  /\ rrun' = [status |-> "Succeeded", finished |-> TRUE]
  /\ pc' = "done"
  /\ UNCHANGED <<runs, linked, live, group, item, at, pending, loaded>>

-----------------------------------------------------------------------------
(* The wait, _wait_for_pipeline_runs: rounds of reads, one row at a time.  *)

\* session.get goes to the database unless the row is still in memory.  The
\* local variable keeps the row read last alive, so the only row of a list
\* of one is never read again.
StatusRead ==
  IF First = item /\ loaded # NotLoaded THEN loaded ELSE runs[<<group, at>>].status

Poll ==
  /\ pc = "poll" /\ at <= item
  /\ loaded' = StatusRead
  /\ pending' = (pending \/ StatusRead \notin TerminalStatuses)
  /\ at' = at + 1
  /\ UNCHANGED <<rows, live, pc, group, item>>

\* (Mutant of Sleep: the next round goes on where the last one stopped.)
SleepForgetsPlace ==
  /\ pc = "poll" /\ at > item /\ pending
  /\ pending' = FALSE
  /\ UNCHANGED <<rows, live, pc, group, item, at, loaded>>

\* (Mutant of Sleep: the list of unfinished runs outlives its round.)
SleepKeepsPending ==
  /\ pc = "poll" /\ at > item /\ pending
  /\ at' = First
  /\ UNCHANGED <<rows, live, pc, group, item, pending, loaded>>

Sleep ==
  /\ pc = "poll" /\ at > item /\ pending
  /\ at' = First /\ pending' = FALSE
  /\ UNCHANGED <<rows, live, pc, group, item, loaded>>

WaitOver ==
  /\ pc = "poll" /\ at > item /\ ~pending
  /\ pc' = "group" /\ item' = item + 1
  /\ at' = 1 /\ loaded' = NotLoaded
  /\ UNCHANGED <<rows, live, group, pending>>

-----------------------------------------------------------------------------
(* The pipeline runs, seen from outside: see RunLifecycle.                 *)

\* A status the executor once loaded and a client wrote can be left as it is.
Kept(p) == IF PatchStatuses = {} THEN {} ELSE {runs[p].status}

PipelineEnds(p) ==
  /\ live[p]
  /\ \E st \in Verdicts \cup Kept(p) :
       runs' = [runs EXCEPT ![p] = [status |-> st, finished |-> TRUE]]
  /\ live' = [live EXCEPT ![p] = FALSE]
  /\ UNCHANGED <<rrun, linked, control>>

UpdatePipelineRun(p, new) ==
  /\ runs[p].status # Absent
  /\ runs' = [runs EXCEPT ![p] = Rewritten(@, new)]
  /\ UNCHANGED <<rrun, linked, live, control>>

-----------------------------------------------------------------------------
(* Faults.                                                                 *)

PipelineVanishes(p) ==
  /\ Faults /\ live[p]
  /\ live' = [live EXCEPT ![p] = FALSE]
  /\ UNCHANGED <<rows, control>>

\* An exception ends the release thread, or fails the request, and leaves
\* the executors it started alone.
ReleaseRaises ==
  /\ Faults /\ pc \notin {"idle", "done", "dead"}
  /\ pc' = "dead"
  /\ UNCHANGED <<rows, live, group, item, at, pending, loaded>>

\* The release thread and the executors it started share a process.
ProcessDies ==
  /\ Faults /\ pc \notin {"idle", "dead"}
  /\ pc' = "dead"
  /\ live' = [p \in Slot |-> FALSE]
  /\ UNCHANGED <<rows, group, item, at, pending, loaded>>

-----------------------------------------------------------------------------
ReleaseThread ==
  \/ Spawn \/ StartPipeline \/ StartMissing \/ Link \/ NextGroup
  \/ Poll \/ Sleep \/ WaitOver \/ ConcludeRelease

Next ==
  \/ StartReleaseRun
  \/ ReleaseThread
  \/ \E new \in ReleasePatches : UpdateReleaseRun(new)
  \/ \E p \in Slot : PipelineEnds(p)
  \/ \E p \in Slot, new \in PatchStatuses : UpdatePipelineRun(p, new)
  \/ \E p \in Slot : PipelineVanishes(p)
  \/ ReleaseRaises
  \/ ProcessDies

Spec == Init /\ [][Next]_vars

\* The release thread never blocks: it sleeps.  That every pipeline run ends
\* is the property Termination of PipelineRun.
Fairness == WF_vars(ReleaseThread) /\ \A p \in Slot : WF_vars(PipelineEnds(p))

FairSpec == Spec /\ Fairness

-----------------------------------------------------------------------------
(* What a release run promises.                                            *)

\* The pipelines the groups' order and modes put before p.
Precedes(q, p) ==
  \/ q[1] < p[1]
  \/ q[1] = p[1] /\ q[2] < p[2] /\ GroupMode[p[1]] = "sequential"

\* No pipeline is started before every pipeline ordered before it has a
\* finished run, as long as clients write only terminal statuses: the polls
\* may read old rows, one at a time, and still never let the thread past.
GroupOrder ==
  \A p, q \in Slot :
    Precedes(q, p) /\ runs[p].status # Absent => runs[q].status \in Final

\* A release run whose thread got to its end started every pipeline of every
\* group, tied each run to the release, and left none of them unfinished.
ReleaseCovers ==
  pc = "done" => \A p \in Slot : p \in linked /\ runs[p].status \in Final

\* A release run of which no thread died, of existing pipelines, ends.
ReleaseEnds == rrun.status = "Running" ~> pc = "done"

-----------------------------------------------------------------------------
(* The inductive invariant behind GroupOrder and ReleaseCovers.            *)

Ended(p) == p \in linked /\ runs[p].status \in Final

\* The thread has waited for slot p and gone on.
Past(p) == p[1] < group \/ (p[1] = group /\ ~Parallel /\ p[2] < item)

\* The thread has not started slot p.
Ahead(p) == \/ p[1] > group
            \/ p[1] = group /\ p[2] > item
            \/ p = Here /\ pc \in {"idle", "created", "group"}

SlotInv ==
  \A p \in Slot :
    /\ live[p] => runs[p].status # Absent
    /\ Ahead(p) => runs[p].status = Absent
    /\ p[1] <= group /\ Past(p) => Ended(p)
    /\ p[1] = group /\ (p[2] < item \/ (p = Here /\ pc = "poll")) => p \in linked

\* Where the thread can be, and what its polls have seen.
ThreadInv ==
  /\ pc \in {"link", "poll"} => group <= NGroups /\ item <= NPipelines[group]
  /\ pc = "poll" /\ Parallel => item = NPipelines[group]
  /\ pc \in {"idle", "created", "group", "link"} => ~pending /\ loaded = NotLoaded
  /\ pc \in {"idle", "created"} => group = 1 /\ item = 1
  /\ pc = "done" => group = NGroups + 1

PollInv ==
  pc = "poll" =>
    /\ First <= at /\ at <= item + 1
    /\ \A j \in First..item : j < at => pending \/ runs[<<group, j>>].status \in Final
    /\ First = item /\ loaded \in TerminalStatuses => runs[Here].status \in Final

\* At the end of a group's list, every run of the group has ended.
WaitedInv ==
  pc = "group" /\ group <= NGroups /\ item > NPipelines[group] =>
    \A p \in Slot : p[1] = group => Ended(p)

Inv == TypeOK /\ SlotInv /\ ThreadInv /\ PollInv /\ WaitedInv

=============================================================================
