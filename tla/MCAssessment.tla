---- MODULE MCAssessment ----
(***************************************************************************)
(* Values of Assessment's constants that TLC can check.                    *)
(***************************************************************************)
EXTENDS Assessment, TLC

CONSTANTS ci, cd, probe, gate, deploy, own, x, y, e, f

Plain == [tags |-> {}, text |-> {"sast"}, named |-> {}, slow |-> FALSE,
          required |-> FALSE, failFast |-> TRUE, sbom |-> FALSE]

\* A keyword; a name; a tag in a required task; a tag for deployments, which no ci pipeline is
\* asked for; a bill of materials.
Named == [Plain EXCEPT !.named = {"sast"}, !.slow = TRUE]
Enforced == [Named EXCEPT !.tags = {"sast", "dast", "sca", "vuln-management"}, !.required = TRUE]
Deploys == [Plain EXCEPT !.tags = {"deploy"}, !.text = {}]
Materials == [Plain EXCEPT !.text = {"sast", "supply_chain"}, !.sbom = TRUE]

SomeLooks == {Plain, Named, Enforced, Deploys, Materials}
SomePipelines ==
  (ci :> [kind |-> "ci", app |-> x, tasks |-> (probe :> Plain) @@ (gate :> Plain)]) @@
  (cd :> [kind |-> "cd", app |-> y, tasks |-> (deploy :> Deploys)])
SomeEnvironments == (e :> "prod") @@ (f :> "dev")
SomeControls == {"CC7.1", "ACF-GOV-2", own}
====
