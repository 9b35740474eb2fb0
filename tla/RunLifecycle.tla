----------------------------- MODULE RunLifecycle -----------------------------
(***************************************************************************)
(* What a pipeline run looks like from outside: a row, and whether an      *)
(* executor still works on it.  The executor writes the row once, at its   *)
(* end; every other change is a client's.  PipelineRun implements this,    *)
(* and ReleaseRun relies on nothing else.                                  *)
(***************************************************************************)
EXTENDS RunRow

VARIABLES
  row,    \* the pipeline_runs row
  live    \* TRUE while the executor may still conclude the run

Init == row = NoRow /\ live = FALSE

\* A run is created Running, with an executor when its pipeline has stages;
\* or it is created as Succeeded, and no executor ever sees it.
Create ==
  /\ row.status = Absent
  /\ \E st \in {"Running", "Succeeded"} : row' = [status |-> st, finished |-> FALSE]
  /\ live' \in BOOLEAN
  /\ live' => row'.status = "Running"

\* A client writes the row; the executor is not told.
Patch(new) ==
  /\ row.status # Absent
  /\ row' = Rewritten(row, new)
  /\ UNCHANGED live

\* The executor's only write.  It may leave the status a client wrote.
Conclude ==
  /\ live /\ ~live'
  /\ \E st \in Verdict \cup {row.status} : row' = [status |-> st, finished |-> TRUE]

\* The executor's thread ends without a word.
Vanish == live /\ ~live' /\ UNCHANGED row

Next == Create \/ (\E new \in RunStatus : Patch(new)) \/ Conclude \/ Vanish

Spec == Init /\ [][Next]_<<row, live>>

=============================================================================
