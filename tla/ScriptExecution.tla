--------------------------- MODULE ScriptExecution ---------------------------
(***************************************************************************)
(* How one task script ends, and the status that end is recorded under     *)
(* (app/services/execution_service.py).  The script itself is abstracted   *)
(* to the way it ends; what its output says plays no part in the status.   *)
(***************************************************************************)
EXTENDS Naturals

\* The ways a script can end.  "no_interpreter" and "launch_error" are ends
\* of the launcher: the script never ran.
Exit == {"ok", "exit1", "exit2", "timeout", "no_interpreter", "launch_error"}

\* What to do about a failed task: the values of the column Task.on_error.
ErrorPolicy == {"fail", "warn", "continue"}

\* Return code of a script run as a child process of the web worker.
SubprocessCode ==
  [ok |-> 0, exit1 |-> 1, exit2 |-> 2, timeout |-> 124,
   no_interpreter |-> 127, launch_error |-> 1]

\* Return code of a script run as a Kubernetes Job.  The Job's status says
\* only that its pod succeeded or failed, so every failing exit reads 2.
ClusterCode ==
  [ok |-> 0, exit1 |-> 2, exit2 |-> 2, timeout |-> 124,
   no_interpreter |-> 2, launch_error |-> 1]

ReturnCode(inCluster, x) ==
  IF inCluster THEN ClusterCode[x] ELSE SubprocessCode[x]

StatusFromCode(rc, onError) ==
  CASE rc = 0                      -> "Succeeded"
    [] rc = 1 /\ onError = "warn"  -> "Warning"
    [] OTHER                       -> "Failed"

=============================================================================
