--------------------------- MODULE ReleaseRunProofs ---------------------------
(***************************************************************************)
(* Inv is an invariant of every release run in which clients write only    *)
(* terminal statuses into its pipeline runs, and with it GroupOrder and    *)
(* ReleaseCovers: for every list of groups and every fault.                *)
(***************************************************************************)
EXTENDS ReleaseRun, TLAPS

\* What membership in Slot says, and how a slot is built.
LEMMA SlotShape ==
  /\ \A p \in Slot : /\ p = <<p[1], p[2]>> /\ p[1] \in Group
                     /\ p[2] \in 1..MaxPipelines /\ p[2] <= NPipelines[p[1]]
  /\ \A g \in Group, i \in Nat :
       1 <= i /\ i <= NPipelines[g] => <<g, i>> \in Slot /\ i <= MaxPipelines
BY GroupsAssumption DEF Slot, Group

\* A thread that starts, ties or awaits a pipeline is at a slot.
LEMMA HereIsSlot ==
  ASSUME TypeOK, ThreadInv, AtSlot \/ pc \in {"link", "poll"}
  PROVE  /\ Here \in Slot /\ group \in Group /\ item <= NPipelines[group]
         /\ Here[1] = group /\ Here[2] = item
BY SlotShape, GroupsAssumption DEF TypeOK, ThreadInv, AtSlot, Here, Group

\* What every step does to a pipeline run's row: a status that ends it stays
\* one that ends it, and only StartPipeline creates a row.
LEMMA RowStep ==
  ASSUME PatchStatuses \subseteq TerminalStatuses, Inv, [Next]_vars, NEW p \in Slot
  PROVE  /\ p \in linked => p \in linked'
         /\ runs[p].status \in Final => runs'[p].status \in Final \/ (AtSlot /\ p = Here)
         /\ runs[p].status # Absent => runs'[p].status # Absent \/ (AtSlot /\ p = Here)
         /\ runs[p].status = Absent => runs'[p].status = Absent \/ (StartPipeline /\ p = Here)
         /\ live'[p] => live[p] \/ (StartPipeline /\ p = Here)
<1> USE ReleaseScenarioAssumption DEF Inv, TypeOK
<1>1. CASE StartPipeline
  BY <1>1, HereIsSlot DEF StartPipeline
<1>2. ASSUME NEW q \in Slot, PipelineEnds(q)
      PROVE  /\ p \in linked => p \in linked'
             /\ runs[p].status \in Final => runs'[p].status \in Final
             /\ runs[p].status # Absent => runs'[p].status # Absent
             /\ runs[p].status = Absent => runs'[p].status = Absent
             /\ live'[p] => live[p]
  <2>1. runs[q].status # Absent /\ live' = [live EXCEPT ![q] = FALSE] /\ linked' = linked
    BY <1>2 DEF PipelineEnds, SlotInv
  <2>2. PICK st \in Verdicts \cup Kept(q) :
               runs' = [runs EXCEPT ![q] = [status |-> st, finished |-> TRUE]]
    BY <1>2 DEF PipelineEnds
  <2>3. st \in Final \/ st = runs[q].status
    BY <2>2 DEF Kept, Verdict, Final
  <2>4. st # Absent
    BY <2>1, <2>2 DEF Kept, Verdict, Absent
  <2>5. live'[p] => live[p]
    BY <2>1, Zenon
  <2>6. QED
    BY <2>1, <2>2, <2>3, <2>4, <2>5
<1>3. ASSUME NEW q \in Slot, NEW new \in PatchStatuses, UpdatePipelineRun(q, new)
      PROVE  /\ p \in linked => p \in linked'
             /\ runs[p].status \in Final => runs'[p].status \in Final
             /\ runs[p].status # Absent => runs'[p].status # Absent
             /\ runs[p].status = Absent => runs'[p].status = Absent
             /\ live'[p] => live[p]
  <2>1. new \in TerminalStatuses /\ new \in Final
    BY <1>3 DEF TerminalStatuses, Final
  <2>2. QED
    BY <1>3, <2>1 DEF UpdatePipelineRun, Rewritten, Absent, TerminalStatuses, Final
<1>4. ASSUME NEW q \in Slot, PipelineVanishes(q)
      PROVE  live'[p] => live[p]
  BY <1>4, Zenon DEF PipelineVanishes
<1>5. CASE ProcessDies
  BY <1>5 DEF ProcessDies, rows
<1>6. QED
  BY <1>1, <1>2, <1>3, <1>4, <1>5 DEF Next, ReleaseThread, vars, rows, control, StartReleaseRun,
     Spawn, UpdateReleaseRun, StartMissing, Link, NextGroup, ConcludeRelease, Poll, Sleep,
     WaitOver, PipelineVanishes, ReleaseRaises

-----------------------------------------------------------------------------
LEMMA TypeStep ==
  ASSUME Inv, [Next]_vars
  PROVE  TypeOK'
<1> USE ReleaseScenarioAssumption, GroupsAssumption DEF Inv, TypeOK
<1>1. rrun' \in Row
  <2>1. \A st \in Status, b \in BOOLEAN : [status |-> st, finished |-> b] \in Row
    BY DEF Row
  <2>2. \A new \in ReleasePatches : UpdateReleaseRun(new) => rrun' \in Row
    BY <2>1 DEF UpdateReleaseRun, Rewritten, Row, Status
  <2>3. StartReleaseRun \/ Spawn \/ ConcludeRelease => rrun' \in Row
    BY <2>1 DEF StartReleaseRun, Spawn, ConcludeRelease, Status, RunStatus
  <2>4. QED
    BY <2>2, <2>3 DEF Next, ReleaseThread, vars, rows, control, StartPipeline,
     StartMissing, Link, NextGroup, Poll, Sleep, WaitOver, PipelineEnds, UpdatePipelineRun,
     PipelineVanishes, ReleaseRaises, ProcessDies
<1>2. runs' \in [Slot -> Row]
  <2>1. \A st \in Status, b \in BOOLEAN : [status |-> st, finished |-> b] \in Row
    BY DEF Row
  <2>2. \A q \in Slot : PipelineEnds(q) => runs' \in [Slot -> Row]
    <3> SUFFICES ASSUME NEW q \in Slot, PipelineEnds(q) PROVE runs' \in [Slot -> Row]
      OBVIOUS
    <3>1. PICK st \in Verdicts \cup Kept(q) :
                 runs' = [runs EXCEPT ![q] = [status |-> st, finished |-> TRUE]]
      BY DEF PipelineEnds
    <3>2. runs[q].status \in Status
      BY DEF PipelineEnds, SlotInv, Row
    <3>3. QED
      BY <3>1, <3>2, <2>1 DEF Kept, Verdict, Status, RunStatus
  <2>3. StartPipeline => runs' \in [Slot -> Row]
    <3>1. \A b \in BOOLEAN : NewRow(b) \in Row
      BY <2>1 DEF NewRow, Status, RunStatus
    <3>2. QED
      BY <3>1 DEF StartPipeline
  <2>4. \A q \in Slot, new \in PatchStatuses : UpdatePipelineRun(q, new) => runs' \in [Slot -> Row]
    BY <2>1 DEF UpdatePipelineRun, Rewritten, Row, Status
  <2>5. QED
    BY <2>2, <2>3, <2>4 DEF Next, ReleaseThread, vars, rows, control, StartReleaseRun,
     Spawn, UpdateReleaseRun, StartMissing, Link, NextGroup, ConcludeRelease, Poll, Sleep,
     WaitOver, PipelineVanishes, ReleaseRaises, ProcessDies
<1>3. linked' \subseteq Slot
  <2>1. Link => linked' \subseteq Slot
    BY HereIsSlot DEF Link
  <2>2. QED
    BY <2>1 DEF Next, ReleaseThread, vars, rows, control, StartReleaseRun, StartPipeline,
     Spawn, UpdateReleaseRun, StartMissing, NextGroup, ConcludeRelease, Poll, Sleep,
     WaitOver, PipelineEnds, UpdatePipelineRun, PipelineVanishes, ReleaseRaises, ProcessDies
<1>4. live' \in [Slot -> BOOLEAN]
  BY Zenon DEF Next, ReleaseThread, vars, rows, control, StartReleaseRun, StartPipeline,
     Spawn, UpdateReleaseRun, StartMissing, Link, NextGroup, ConcludeRelease, Poll, Sleep,
     WaitOver, PipelineEnds, UpdatePipelineRun, PipelineVanishes, ReleaseRaises, ProcessDies
<1>5. StatusRead \in Status \cup {Absent, NotLoaded} \/ pc # "poll" \/ at > item
  <2> SUFFICES ASSUME pc = "poll", at <= item PROVE StatusRead \in Status \cup {Absent, NotLoaded}
    OBVIOUS
  <2>1. <<group, at>> \in Slot
    BY HereIsSlot, SlotShape DEF Here, PollInv
  <2>2. QED
    BY <2>1 DEF StatusRead, Row
<1>6. /\ pc' \in {"idle", "created", "group", "link", "poll", "done", "dead"}
      /\ group' \in 1..(NGroups + 1)
      /\ item' \in 1..(MaxPipelines + 1)
      /\ at' \in 1..(MaxPipelines + 1)
      /\ pending' \in BOOLEAN
      /\ loaded' \in Status \cup {Absent, NotLoaded}
  <2>1. pc \in {"link", "poll"} => item <= MaxPipelines /\ First \in 1..MaxPipelines
    BY HereIsSlot, SlotShape DEF Here, First
  <2>2. CASE Poll
    BY <2>1, <2>2, <1>5 DEF Poll, rows
  <2>3. CASE Link
    BY <2>1, <2>3 DEF Link
  <2>4. CASE Sleep
    <3>1. First \in 1..(MaxPipelines + 1)
      BY <2>1, <2>4 DEF Sleep
    <3>2. QED
      BY <3>1, <2>4 DEF Sleep, rows
  <2>5. CASE WaitOver
    <3>1. item + 1 \in 1..(MaxPipelines + 1)
      BY <2>1, <2>5 DEF WaitOver
    <3>2. QED
      BY <3>1, <2>5 DEF WaitOver, rows
  <2>6. CASE NextGroup
    BY <2>6 DEF NextGroup, rows
  <2>7. QED
    BY <2>2, <2>3, <2>4, <2>5, <2>6 DEF Next, ReleaseThread, vars, rows, control, StartReleaseRun, StartPipeline,
     Spawn, UpdateReleaseRun, StartMissing, ConcludeRelease,
     PipelineEnds, UpdatePipelineRun, PipelineVanishes, ReleaseRaises, ProcessDies
<1>7. QED
  BY <1>1, <1>2, <1>3, <1>4, <1>6

-----------------------------------------------------------------------------
\* Every step that moves the release thread or adds a row, one disjunct per
\* action; the others leave both alone.
LEMMA Steps ==
  ASSUME [Next]_vars
  PROVE  \/ StartReleaseRun \/ Spawn \/ StartPipeline \/ StartMissing \/ Link
         \/ NextGroup \/ Poll \/ Sleep \/ WaitOver \/ ConcludeRelease
         \/ ReleaseRaises \/ ProcessDies
         \/ UNCHANGED <<control, linked>>
BY DEF Next, ReleaseThread, vars, rows, UpdateReleaseRun, PipelineEnds, UpdatePipelineRun,
   PipelineVanishes

LEMMA ThreadStep ==
  ASSUME Inv, [Next]_vars
  PROVE  ThreadInv'
<1> USE GroupsAssumption DEF Inv, TypeOK, ThreadInv, Parallel
<1>1. CASE StartReleaseRun \/ Spawn \/ StartMissing \/ ConcludeRelease \/ ReleaseRaises \/ ProcessDies
  BY <1>1 DEF StartReleaseRun, Spawn, StartMissing, ConcludeRelease, ReleaseRaises, ProcessDies,
     AtSlot, rows
<1>2. CASE StartPipeline
  BY <1>2 DEF StartPipeline, AtSlot
<1>3. CASE Link
  BY <1>3 DEF Link, Parallel, Group
<1>4. CASE NextGroup
  BY <1>4 DEF NextGroup, rows
<1>5. CASE Poll \/ Sleep
  BY <1>5 DEF Poll, Sleep, rows
<1>6. CASE WaitOver
  BY <1>6 DEF WaitOver, rows
<1>7. CASE UNCHANGED <<control, linked>>
  BY <1>7 DEF control
<1>8. QED
  BY <1>1, <1>2, <1>3, <1>4, <1>5, <1>6, <1>7, Steps

LEMMA SlotStep ==
  ASSUME PatchStatuses \subseteq TerminalStatuses, Inv, [Next]_vars
  PROVE  SlotInv'
<1> SUFFICES ASSUME NEW p \in Slot
             PROVE  /\ live'[p] => runs'[p].status # Absent
                    /\ Ahead(p)' => runs'[p].status = Absent
                    /\ p[1] <= group' /\ Past(p)' => Ended(p)'
                    /\ p[1] = group' /\ (p[2] < item' \/ (p = Here' /\ pc' = "poll")) => p \in linked'
  BY DEF SlotInv
<1> USE GroupsAssumption
<1>0. /\ p = <<p[1], p[2]>> /\ p[1] \in Nat /\ p[2] \in Nat /\ p[2] <= NPipelines[p[1]]
      /\ group \in Nat /\ item \in Nat /\ 1 <= item /\ NPipelines[p[1]] \in Nat
      /\ Here = <<group, item>> /\ Here' = <<group', item'>>
  BY SlotShape DEF Inv, TypeOK, Here, Group
<1>1. /\ p \in linked => p \in linked'
      /\ runs[p].status \in Final => runs'[p].status \in Final \/ (AtSlot /\ p = Here)
      /\ runs[p].status # Absent => runs'[p].status # Absent \/ (AtSlot /\ p = Here)
      /\ runs[p].status = Absent => runs'[p].status = Absent \/ (StartPipeline /\ p = Here)
      /\ live'[p] => live[p] \/ (StartPipeline /\ p = Here)
  BY RowStep
<1>2. /\ live[p] => runs[p].status # Absent
      /\ Ahead(p) => runs[p].status = Absent
      /\ Past(p) => Ended(p)
      /\ p[1] = group /\ (p[2] < item \/ (p = Here /\ pc = "poll")) => p \in linked
      /\ Absent \notin Final
  BY <1>0 DEF Inv, SlotInv, Past, Final, Absent
<1> USE DEF Ahead, Past, Ended, Parallel
<1>3. CASE StartPipeline /\ p = Here
  <2>1. runs'[p] = NewRow(p \notin Stageless)
    BY <1>3, HereIsSlot DEF StartPipeline, Inv, TypeOK
  <2>2. runs'[p].status # Absent
    BY <2>1 DEF NewRow, Absent
  <2>3. pc' = "link" /\ group' = group /\ item' = item
    BY <1>3 DEF StartPipeline
  <2>4. QED
    BY <1>3, <2>2, <2>3, <1>0
<1>4. CASE StartPipeline /\ p # Here
  <2>1. pc' = "link" /\ group' = group /\ item' = item
    BY <1>4 DEF StartPipeline
  <2>2. QED
    BY <1>4, <2>1, <1>0, <1>1, <1>2
<1>5. CASE Link
  <2>1. pc = "link" /\ group' = group /\ group \in Group /\ item <= NPipelines[group]
    BY <1>5, HereIsSlot DEF Link, Inv
  <2>2. CASE pc' = "group" /\ item' = item + 1 /\ Parallel /\ item < NPipelines[group]
    BY <1>0, <1>1, <1>2, <1>5, <2>1, <2>2 DEF Link, AtSlot, StartPipeline
  <2>3. CASE pc' = "poll" /\ item' = item
    BY <1>0, <1>1, <1>2, <1>5, <2>1, <2>3 DEF Link, AtSlot, StartPipeline
  <2>4. QED
    BY <1>5, <2>2, <2>3 DEF Link
<1>6. CASE NextGroup
  <2>1. /\ pc = "group" /\ pc' = "group" /\ group' = group + 1 /\ item' = 1
        /\ group \in Group /\ item > NPipelines[group]
    BY <1>6 DEF NextGroup, Inv, TypeOK, Group
  <2>2. p[1] = group => Ended(p)
    BY <2>1 DEF Inv, WaitedInv, Group
  <2>3. runs' = runs /\ live' = live /\ linked' = linked
    BY <1>6 DEF NextGroup, rows
  <2>4. QED
    BY <1>0, <1>2, <2>1, <2>2, <2>3, SlotShape
<1>7. CASE WaitOver
  <2>1. /\ pc = "poll" /\ pc' = "group" /\ group' = group /\ item' = item + 1
        /\ group \in Group /\ item <= NPipelines[group] /\ at > item /\ ~pending
        /\ Parallel => item = NPipelines[group]
    BY <1>7, HereIsSlot DEF WaitOver, Inv, ThreadInv
  <2>2. p = Here => Ended(p)
    BY <1>0, <1>2, <2>1 DEF Inv, PollInv, First
  <2>3. runs' = runs /\ live' = live /\ linked' = linked
    BY <1>7 DEF WaitOver, rows
  <2>4. QED
    BY <1>0, <1>2, <2>1, <2>2, <2>3
<1>8. CASE /\ group' = group /\ item' = item
           /\ pc' \in {"idle", "created", "group"} => pc \in {"idle", "created", "group"}
           /\ pc' = "poll" => pc = "poll"
           /\ ~StartPipeline
  <2>1. runs[p].status \in Final => runs'[p].status \in Final
    BY <1>0, <1>1, <1>2, <1>8 DEF AtSlot, Absent
  <2>2. runs[p].status # Absent => runs'[p].status # Absent
    BY <1>0, <1>1, <1>2, <1>8 DEF AtSlot
  <2>3. QED
    BY <1>0, <1>1, <1>2, <1>8, <2>1, <2>2
<1>9. CASE StartReleaseRun \/ Spawn \/ StartMissing \/ ConcludeRelease \/ ReleaseRaises
             \/ ProcessDies \/ Poll \/ Sleep \/ UNCHANGED <<control, linked>>
  <2>1. /\ group' = group /\ item' = item
        /\ pc' \in {"idle", "created", "group"} => pc \in {"idle", "created", "group"}
        /\ pc' = "poll" => pc = "poll"
    BY <1>9 DEF StartReleaseRun, Spawn, StartMissing, ConcludeRelease, ReleaseRaises, ProcessDies,
       AtSlot, Poll, Sleep, control
  <2>2. ~StartPipeline
    BY <1>9 DEF StartReleaseRun, Spawn, StartMissing, ConcludeRelease, ReleaseRaises, ProcessDies,
       AtSlot, Poll, Sleep, control, StartPipeline
  <2>3. QED
    BY <1>8, <2>1, <2>2
<1>10. QED
  BY <1>3, <1>4, <1>5, <1>6, <1>7, <1>9, Steps

\* What the thread has read of the run at place j, or was told it was.
LEMMA ReadIsFinal ==
  ASSUME Inv, Poll, StatusRead \in TerminalStatuses
  PROVE  runs[<<group, at>>].status \in Final
<1>1. First <= at /\ at <= item /\ at \in Nat /\ item \in Nat
  BY HereIsSlot DEF Inv, TypeOK, PollInv, Poll
<1>2. CASE First = item /\ loaded # NotLoaded
  <2>1. at = item
    BY <1>1, <1>2
  <2>2. loaded \in TerminalStatuses /\ Here = <<group, at>>
    BY <1>2, <2>1 DEF StatusRead, Here
  <2>3. QED
    BY <1>2, <2>2 DEF Inv, PollInv, Poll
<1>3. CASE ~(First = item /\ loaded # NotLoaded)
  BY <1>3 DEF StatusRead, TerminalStatuses, Final
<1>4. QED
  BY <1>2, <1>3

LEMMA PollStep ==
  ASSUME PatchStatuses \subseteq TerminalStatuses, Inv, [Next]_vars
  PROVE  PollInv'
<1> SUFFICES ASSUME pc' = "poll"
             PROVE  /\ (First <= at /\ at <= item + 1)'
                    /\ \A j \in (First..item)' :
                         j < at' => pending' \/ runs'[<<group', j>>].status \in Final
                    /\ (First = item)' /\ loaded' \in TerminalStatuses => runs'[Here'].status \in Final
  BY DEF PollInv
<1> USE GroupsAssumption
<1>0. NotLoaded \notin TerminalStatuses
  BY DEF NotLoaded, TerminalStatuses
<1>1. CASE Link
  <2>1. /\ group' = group /\ item' = item /\ at' = First /\ loaded' = NotLoaded
        /\ First' = First /\ First \in Nat /\ item \in Nat /\ First <= item
    <3>1. item' = item /\ at' = First /\ group' = group /\ loaded' = loaded /\ pc = "link"
      BY <1>1 DEF Link
    <3>2. item \in Nat /\ 1 <= item /\ loaded = NotLoaded
      BY <3>1 DEF Inv, TypeOK, ThreadInv
    <3>3. QED
      BY <3>1, <3>2 DEF First, Parallel
  <2>2. QED
    BY <1>0, <2>1
<1>2. CASE pc = "poll" /\ group' = group /\ item' = item
  <2>1. /\ Here' = Here /\ First' = First /\ First \in 1..item /\ item \in Nat /\ at \in Nat
        /\ \A j \in First..item : <<group, j>> \in Slot
        /\ Here \in Slot /\ Here = <<group, item>>
    BY <1>2, HereIsSlot, SlotShape DEF First, Parallel, Here, Inv, TypeOK
  <2>2. \A p \in Slot : runs[p].status \in Final => runs'[p].status \in Final
    BY <1>2, RowStep DEF AtSlot
  <2>3. CASE Poll
    <3>1. /\ at' = at + 1 /\ at <= item /\ loaded' = StatusRead
          /\ pending' = (pending \/ StatusRead \notin TerminalStatuses)
      BY <2>3 DEF Poll
    <3>2. ASSUME NEW j \in First..item, j < at'
          PROVE  pending' \/ runs'[<<group, j>>].status \in Final
      <4>1. CASE j = at
        BY <4>1, <3>1, <2>1, <2>2, <2>3, ReadIsFinal
      <4>2. CASE j < at
        BY <4>2, <3>1, <2>1, <2>2, <1>2 DEF Inv, PollInv
      <4>3. QED
        BY <3>1, <3>2, <4>1, <4>2, <2>1
    <3>3. First = item => at = item
      BY <3>1, <2>1, <1>2 DEF Inv, PollInv
    <3>4. (First = item)' /\ loaded' \in TerminalStatuses => runs'[Here'].status \in Final
      BY <3>1, <3>3, <2>1, <2>2, <2>3, <1>2, ReadIsFinal
    <3>5. (First <= at /\ at <= item + 1)'
      BY <3>1, <2>1, <1>2 DEF Inv, PollInv
    <3>6. QED
      BY <3>2, <3>4, <3>5, <2>1, <1>2
  <2>4. CASE Sleep
    BY <2>4, <2>1, <2>2, <1>2 DEF Sleep, Inv, PollInv
  <2>5. CASE UNCHANGED <<control, linked>>
    BY <2>5, <2>1, <2>2, <1>2 DEF control, Inv, PollInv
  <2>6. QED
    BY <2>3, <2>4, <2>5, <1>2, Steps DEF StartReleaseRun, Spawn, StartPipeline, StartMissing,
       Link, NextGroup, WaitOver, ConcludeRelease, ReleaseRaises, ProcessDies, AtSlot
<1>3. QED
  BY <1>1, <1>2, Steps DEF StartReleaseRun, Spawn, StartPipeline, StartMissing, Poll, Sleep,
     NextGroup, WaitOver, ConcludeRelease, ReleaseRaises, ProcessDies, control

LEMMA WaitedStep ==
  ASSUME PatchStatuses \subseteq TerminalStatuses, Inv, [Next]_vars
  PROVE  WaitedInv'
<1> SUFFICES ASSUME pc' = "group", group' <= NGroups, item' > NPipelines[group'],
                    NEW p \in Slot, p[1] = group'
             PROVE  Ended(p)'
  BY DEF WaitedInv
<1> USE GroupsAssumption
<1>0. /\ p = <<p[1], p[2]>> /\ p[1] \in Group /\ p[2] \in 1..MaxPipelines
      /\ p[2] <= NPipelines[p[1]] /\ NPipelines[p[1]] \in Nat
      /\ group \in Nat /\ item \in Nat /\ 1 <= item
  BY SlotShape DEF Inv, TypeOK
<1>1. item' # 1
  BY <1>0
<1>2. CASE WaitOver
  <2>1. /\ pc = "poll" /\ group' = group /\ item' = item + 1 /\ at > item /\ ~pending
        /\ at \in Nat /\ group \in Group /\ item <= NPipelines[group]
    BY <1>2, HereIsSlot DEF WaitOver, Inv, TypeOK
  <2>2. item = NPipelines[group] /\ p[2] <= item
    BY <2>1, <1>0
  <2>3. Ended(p)
    <3>1. CASE Parallel
      BY <3>1, <2>1, <2>2, <1>0 DEF Inv, PollInv, SlotInv, First, Ended, Here
    <3>2. CASE ~Parallel /\ p[2] < item
      BY <3>2, <2>1, <1>0 DEF Inv, SlotInv, Past
    <3>3. CASE ~Parallel /\ p[2] = item
      BY <3>3, <2>1, <1>0 DEF Inv, PollInv, SlotInv, First, Ended, Here
    <3>4. QED
      BY <3>1, <3>2, <3>3, <2>2, <1>0
  <2>4. QED
    BY <2>3, <1>2 DEF WaitOver, rows, Ended
<1>3. CASE pc = "group" /\ group' = group /\ item' = item
  <2>1. Ended(p) /\ ~AtSlot
    BY <1>3, <1>0 DEF Inv, WaitedInv, AtSlot
  <2>2. QED
    BY <2>1, RowStep DEF Ended
<1>4. ~Link
  <2> SUFFICES ASSUME Link PROVE FALSE
    OBVIOUS
  <2>1. item' = item + 1 /\ item < NPipelines[group] /\ group' = group
    BY DEF Link
  <2>2. QED
    BY <2>1, <1>0
<1>5. Spawn \/ NextGroup => item' = 1
  BY DEF Spawn, NextGroup, Inv, ThreadInv
<1>6. QED
  BY <1>1, <1>2, <1>3, <1>4, <1>5, Steps DEF StartReleaseRun, StartPipeline, StartMissing, Poll,
     Sleep, ConcludeRelease, ReleaseRaises, ProcessDies, control, Inv, ThreadInv

-----------------------------------------------------------------------------
LEMMA InvInit == Init => Inv
<1> SUFFICES ASSUME Init PROVE Inv
  OBVIOUS
<1> USE GroupsAssumption DEF Init
<1>1. TypeOK
  <2>1. NoRow \in Row
    BY DEF NoRow, Row
  <2>2. 1 \in 1..(NGroups + 1) /\ 1 \in 1..(MaxPipelines + 1)
    OBVIOUS
  <2>3. live \in [Slot -> BOOLEAN] /\ runs \in [Slot -> Row]
    BY <2>1
  <2>4. QED
    BY <2>1, <2>2, <2>3 DEF TypeOK
<1>2. SlotInv
  BY SlotShape DEF SlotInv, Past, Ahead, NoRow, Group
<1>3. ThreadInv /\ PollInv /\ WaitedInv
  BY DEF ThreadInv, PollInv, WaitedInv
<1>4. QED
  BY <1>1, <1>2, <1>3 DEF Inv

\* The release thread's place, its polls and the rows agree in every state.
THEOREM ReleaseInvariance ==
  ASSUME PatchStatuses \subseteq TerminalStatuses
  PROVE  Spec => []Inv
<1>1. Inv /\ [Next]_vars => Inv'
  BY TypeStep, SlotStep, ThreadStep, PollStep, WaitedStep DEF Inv
<1>2. QED
  BY InvInit, <1>1, PTL DEF Spec

\* No pipeline is started before those ordered before it have finished
\* (_execute_release_async), although every poll reads one row at a time.
THEOREM GroupOrderHolds ==
  ASSUME PatchStatuses \subseteq TerminalStatuses
  PROVE  Spec => []GroupOrder
<1>1. Inv => GroupOrder
  <2> SUFFICES ASSUME Inv, NEW p \in Slot, NEW q \in Slot,
                      Precedes(q, p), runs[p].status # Absent
               PROVE  runs[q].status \in Final
    BY DEF GroupOrder
  <2>1. /\ p[1] \in Nat /\ p[2] \in Nat /\ q[1] \in Nat /\ q[2] \in Nat
        /\ group \in Nat /\ item \in Nat
    BY SlotShape DEF Inv, TypeOK, Group
  <2>2. p[1] < group \/ (p[1] = group /\ p[2] <= item)
    BY <2>1 DEF Inv, SlotInv, Ahead
  <2>3. Past(q) /\ q[1] <= group
    BY <2>1, <2>2 DEF Precedes, Past, Parallel
  <2>4. QED
    BY <2>3 DEF Inv, SlotInv, Ended
<1>2. QED
  BY <1>1, ReleaseInvariance, PTL

\* A release whose thread reached its end started, tied and outlived every
\* pipeline of every group.
THEOREM ReleaseCoversHolds ==
  ASSUME PatchStatuses \subseteq TerminalStatuses
  PROVE  Spec => []ReleaseCovers
<1>1. Inv => ReleaseCovers
  <2> SUFFICES ASSUME Inv, pc = "done", NEW p \in Slot PROVE Ended(p)
    BY DEF ReleaseCovers, Ended
  <2>1. p[1] \in 1..NGroups /\ group = NGroups + 1
    BY SlotShape DEF Inv, ThreadInv, Group
  <2>2. QED
    BY <2>1, GroupsAssumption DEF Inv, SlotInv, Past
<1>2. QED
  BY <1>1, ReleaseInvariance, PTL

=============================================================================
