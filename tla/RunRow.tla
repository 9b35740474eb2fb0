-------------------------------- MODULE RunRow --------------------------------
(***************************************************************************)
(* The columns status and finished_at of a pipeline_runs or release_runs   *)
(* row, and what the code writes into them (app/domain/enums.py,           *)
(* app/services/run_service.py).                                           *)
(***************************************************************************)

\* domain/enums.py: the statuses a client may write.
RunStatus == {"Pending", "Running", "InProgress", "Succeeded", "Failed", "Cancelled"}

\* The executor also writes "Warning", which is not a member of the enum.
Status == RunStatus \cup {"Warning"}

\* A row that has not been inserted yet.
Absent == "absent"

\* The statuses update_run_status and the wait of a release compare with;
\* "Warning" is not among them.
TerminalStatuses == {"Succeeded", "Failed", "Cancelled"}

\* The statuses that end a run, a stage run or a task run in the executor.
Final == {"Succeeded", "Failed", "Warning", "Cancelled"}

\* What an executor writes over the status of the run it has finished.
Verdict == {"Succeeded", "Warning", "Failed"}

Row == [status : Status \cup {Absent}, finished : BOOLEAN]

NoRow == [status |-> Absent, finished |-> FALSE]

\* The row start_pipeline_run inserts: a pipeline without stages has already
\* succeeded, though the time it finished is left out.
NewRow(hasStages) ==
  [status |-> IF hasStages THEN "Running" ELSE "Succeeded", finished |-> FALSE]

\* The row after update_run_status: any status may follow any other.
Rewritten(row, new) ==
  [status |-> new, finished |-> row.finished \/ new \in TerminalStatuses]

=============================================================================
