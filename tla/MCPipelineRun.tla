---------------------------- MODULE MCPipelineRun ----------------------------
(***************************************************************************)
(* Pipelines small enough for TLC: the values of PipelineRun's constants.  *)
(***************************************************************************)
EXTENDS PipelineRun, TLC

\* A sequential stage, a parallel batch of two, a sequential stage.
FourModes == <<"sequential", "parallel", "parallel", "sequential">>
FourTasks == <<1, 2, 1, 2>>
FourOrder == <<0, 1, 1, 2>>
FourPolicies ==
  (<<1, 1>> :> "warn") @@ (<<2, 1>> :> "fail") @@ (<<2, 2>> :> "continue")
    @@ (<<3, 1>> :> "warn") @@ (<<4, 1>> :> "continue") @@ (<<4, 2>> :> "fail")

=============================================================================
