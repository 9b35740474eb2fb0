----------------------------- MODULE MCRunProgress -----------------------------
(***************************************************************************)
(* A polled pipeline small enough for TLC.                                 *)
(***************************************************************************)
EXTENDS RunProgress, TLC

\* A parallel batch of two, one of them without tasks, then a sequential stage.
PolledModes == <<"parallel", "parallel", "sequential">>
PolledTasks == <<2, 0, 1>>
PolledOrder == <<0, 1, 2>>
PolledPolicies ==
  (<<1, 1>> :> "continue") @@ (<<1, 2>> :> "fail") @@ (<<3, 1>> :> "fail")
PolledCode == (<<1, 1>> :> 3) @@ (<<1, 2>> :> 0) @@ (<<3, 1>> :> 5)

=============================================================================
