----------------------------- MODULE MCReleaseRun -----------------------------
(***************************************************************************)
(* Releases small enough for TLC: the values of ReleaseRun's constants.    *)
(***************************************************************************)
EXTENDS ReleaseRun

\* A parallel group of two, a sequential group of two, an empty group, and a
\* parallel group of one.
MixedModes == <<"parallel", "sequential", "sequential", "parallel">>
MixedSizes == <<2, 2, 0, 1>>
MixedDoubtful == {<<2, 2>>}

\* Groups whose waits end: lists of two, and a pipeline without stages.
EndingModes == <<"parallel", "sequential", "parallel">>
EndingSizes == <<2, 1, 2>>
EndingStageless == {<<2, 1>>}

\* One parallel group of two.
TwoSize == <<2>>
ParallelMode == <<"parallel">>

-----------------------------------------------------------------------------
(* What the code says of itself and does not do; see the README.           *)

\* completion_percentage counts "Succeeded / Warning" among the "Terminal run
\* outcomes": a run that ended with a warning ends the wait like any other.
WarningEndsWait ==
  (pc = "poll" /\ \A j \in First..item : runs[<<group, j>>].status \in Final)
    ~> pc # "poll"

=============================================================================
