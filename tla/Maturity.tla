------------------------------ MODULE Maturity ------------------------------
(***************************************************************************)
(* The maturity score of services/maturity_service.py, without its rows.   *)
(* A task is what its matching sees of it: the tags in task_type, and the  *)
(* dimensions that have a keyword in its name, description or script       *)
(* (text), or in a name of more than five letters (named).  Scores are in  *)
(* tenths of a point.  (sbom is for the ISO report.)                       *)
(***************************************************************************)
EXTENDS FiniteSetsExt, Functions

\* f, and g where f has no value.
Over(f, g) == [x \in DOMAIN f \cup DOMAIN g |-> IF x \in DOMAIN f THEN f[x] ELSE g[x]]

\* The function f with y for x.
Put(f, x, y) == Over([z \in {x} |-> y], f)

\* Any kind that is not in the registry is treated alike.
Kinds == {"ci", "cd", "release", "build", "other"}

Deployed == {"cd", "release"}
Built    == {"ci", "build", "release"}
Shipped  == {"ci", "cd", "build", "release"}
Tested   == {"ci", "cd", "release"}

Row(weight, kinds, tags) == [weight |-> weight, kinds |-> kinds, tags |-> tags]

TestingDimensions ==
  [sast                |-> Row(4, Kinds, {"sast"}),
   sca                 |-> Row(4, Kinds, {"sca"}),
   dast                |-> Row(3, Deployed, {"dast"}),
   unit_testing        |-> Row(3, Built, {"unit-test"}),
   integration_testing |-> Row(3, Tested, {"integration-test"}),
   code_coverage       |-> Row(2, Built, {"code-coverage"}),
   smoke_testing       |-> Row(2, Deployed, {"smoke-test"})]

DeliveryDimensions ==
  [release_practices     |-> Row(3, Kinds, {"release"}),
   environment_promotion |-> Row(3, Deployed, {"deploy"}),
   security_gates        |-> Row(4, Kinds, {"security-gate"}),
   container_security    |-> Row(3, Shipped, {"container-scan"}),
   secret_scanning       |-> Row(2, Kinds, {"secret-scan"}),
   iac_security          |-> Row(3, Deployed, {"iac-scan", "iac-security"}),
   api_security          |-> Row(3, Kinds, {"api-security", "api-test"})]

OperationDimensions ==
  [supply_chain             |-> Row(3, Shipped, {"supply-chain", "sbom", "provenance"}),
   observability            |-> Row(2, Deployed, {"observability", "monitoring"}),
   performance_testing      |-> Row(2, Tested, {"perf-test", "load-test", "performance-test"}),
   artifact_management      |-> Row(2, Shipped, {"artifact", "publish", "artifact-management"}),
   compliance_as_code       |-> Row(3, Kinds, {"compliance-check", "policy-as-code"}),
   vulnerability_management |-> Row(3, Kinds, {"vuln-management", "cve-check"})]

DimensionRows == Over(TestingDimensions, Over(DeliveryDimensions, OperationDimensions))

Dimensions == DOMAIN DimensionRows

Tasks ==
  [tags : SUBSET STRING, text : SUBSET Dimensions, named : SUBSET Dimensions,
   slow : BOOLEAN, required : BOOLEAN, failFast : BOOLEAN, sbom : BOOLEAN]

Applicable(kind) == {d \in Dimensions : kind \in DimensionRows[d].kinds}

Tagged(t, d) == t.tags \cap DimensionRows[d].tags # {}

\* 1 for a keyword; 2 for a tag, a name that says it or a timeout that was set; 3 for
\* one of those in a required task that fails the stage.
TaskScore(t, d) ==
  LET configured == Tagged(t, d) \/ d \in t.named \/ (d \in t.text /\ t.slow)
  IN  CASE configured /\ t.required /\ t.failFast -> 3
        [] configured /\ ~(t.required /\ t.failFast) -> 2
        [] ~configured /\ d \in t.text -> 1
        [] OTHER -> 0

\* (Mutant of DimensionScore: the weakest task counts.)
WeakestTask(kind, tasks, d) ==
  IF d \in Applicable(kind) /\ tasks # {} THEN Min({TaskScore(t, d) : t \in tasks}) ELSE 0

\* The best task; dimensions that do not apply stay at 0.
DimensionScore(kind, tasks, d) ==
  IF d \in Applicable(kind) THEN Max({0} \cup {TaskScore(t, d) : t \in tasks}) ELSE 0

Earned(kind, tasks) ==
  SumFunction([d \in Applicable(kind) |-> DimensionScore(kind, tasks, d) * DimensionRows[d].weight])

Possible(kind) == SumFunction([d \in Applicable(kind) |-> 3 * DimensionRows[d].weight])

\* n / d to the nearest integer, either one at a tie, which the floating point decides.
Nearest(n, d) == {m \in {n \div d, n \div d + 1} : 2 * (m * d - n) \in -d .. d}

\* No kind has a tie: the score of a pipeline is one value.
PipelineScore(kind, tasks) ==
  CHOOSE s \in Nearest(1000 * Earned(kind, tasks), Possible(kind)) : TRUE

\* What the mean of the values of a function, rounded to one digit, may be: 0 when it has none.
Mean(f) ==
  IF DOMAIN f = {} THEN {0} ELSE Nearest(SumFunction(f), Cardinality(DOMAIN f))

GradeBands == <<0, 200, 400, 600, 800>>
Grade(score) == Max({g \in DOMAIN GradeBands : score >= GradeBands[g]})

\* The others take the scores of all dimensions, [Dimensions -> 0..3].
Badges(scores) == {d \in Dimensions : scores[d] >= 2}

Heaviest(S) == {d \in S : \A e \in S : DimensionRows[e].weight <= DimensionRows[d].weight}

\* The dimensions of which _next_milestone names one: the heaviest of those begun, or
\* else of those absent.
Suggested(kind, scores) ==
  LET Scored(S) == {d \in Applicable(kind) : scores[d] \in S}
  IN  Heaviest(IF Scored({1, 2}) # {} THEN Scored({1, 2}) ELSE Scored({0}))

\* The points to the next band, 0 in the last one.
PointsNeeded(score) ==
  LET above == {GradeBands[g] : g \in {x \in DOMAIN GradeBands : GradeBands[x] > score}}
  IN  IF above = {} THEN 0 ELSE Min(above) - score

\* t may be hardened into u: nothing that counts is taken away.
HardenedInto(t, u) ==
  /\ t.tags \subseteq u.tags /\ t.text \subseteq u.text /\ t.named \subseteq u.named
  /\ (t.slow => u.slow)
  /\ (t.required => u.required) /\ (t.failFast => u.failFast) /\ (t.sbom => u.sbom)
=============================================================================
