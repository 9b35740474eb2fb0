------------------------------ MODULE Iso27001 ------------------------------
(***************************************************************************)
(* The ISO 27001 report of services/iso27001_service.py: the catalogue of  *)
(* Annex A, the automatic checks, and the score.  A control is its number. *)
(***************************************************************************)
EXTENDS Maturity

Organisational == {<<5, n>> : n \in 1..37}
People         == {<<6, n>> : n \in 1..8}
Physical       == {<<7, n>> : n \in 1..14}
Technological  == {<<8, n>> : n \in 1..34}

Catalogue == Organisational \cup People \cup Physical \cup Technological

\* What _build_context collects.  environments holds of a name whether it says
\* "prod", or "dev" or "staging"; scan: a pipeline's name says "security" or "scan";
\* sbom: a task's name or script says "sbom"; rated: pipelines with a score above 0.
Context ==
  [users : Nat, roles : Nat, bindings : Nat, secrets : Nat, events : Nat, rules : Nat,
   runs : Nat, webhooks : Nat, pipelines : Nat, rated : Nat, scan : BOOLEAN, sbom : BOOLEAN,
   environments : SUBSET {"prod", "dev", "other"}, environmentCount : Nat]

PassIf(yes, otherwise) == IF yes THEN "pass" ELSE otherwise

CheckRbac(c) == PassIf(c.users > 0 /\ c.roles > 0 /\ c.bindings > 0, "fail")

CheckAuth(c) == "pass"

CheckSecrets(c) == PassIf(c.secrets > 0, "manual")

CheckAuditLog(c) == PassIf(c.events > 0, "fail")

\* (Mutant of CheckSegregation: every name has to say one of the two.)
CheckEveryName(c) ==
  PassIf(c.environmentCount >= 2 /\ {"prod", "dev"} = c.environments,
         IF c.environmentCount >= 1 THEN "manual" ELSE "fail")

CheckSegregation(c) ==
  PassIf(c.environmentCount >= 2 /\ {"prod", "dev"} \subseteq c.environments,
         IF c.environmentCount >= 1 THEN "manual" ELSE "fail")

CheckPipelineCompliance(c) ==
  PassIf(c.rules > 0 /\ c.rated > 0, IF c.pipelines > 0 THEN "fail" ELSE "manual")

CheckChangeManagement(c) == PassIf(c.runs > 0, "manual")

CheckVulnerabilityScanning(c) == PassIf(c.scan, "fail")

CheckSbom(c) == PassIf(c.sbom, "manual")

\* Which controls are checked automatically; _check_webhook_auth is for none.
Status(id, c) ==
  CASE id \in {<<5, 15>>, <<5, 16>>, <<5, 18>>, <<8, 2>>, <<8, 3>>} -> CheckRbac(c)
    [] id \in {<<5, 17>>, <<8, 5>>}                                 -> CheckAuth(c)
    [] id = <<5, 21>>                                               -> CheckSbom(c)
    [] id \in {<<5, 28>>, <<5, 33>>, <<8, 15>>, <<8, 16>>}          -> CheckAuditLog(c)
    [] id \in {<<5, 36>>, <<8, 25>>}                                -> CheckPipelineCompliance(c)
    [] id \in {<<8, 8>>, <<8, 29>>}                                 -> CheckVulnerabilityScanning(c)
    [] id = <<8, 24>>                                               -> CheckSecrets(c)
    [] id = <<8, 31>>                                               -> CheckSegregation(c)
    [] id = <<8, 32>>                                               -> CheckChangeManagement(c)
    [] OTHER                                                        -> "manual"

With(status, c) == {id \in Catalogue : Status(id, c) = status}

\* The score, in tenths: what passed of what passed or failed.  CheckAuth always passes.
AutoScore(c) ==
  LET passed == Cardinality(With("pass", c))
  IN  Nearest(1000 * passed, passed + Cardinality(With("fail", c)))
=============================================================================
