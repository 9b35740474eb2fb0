--------------------------- MODULE FrameworkAudit ---------------------------
(***************************************************************************)
(* The ISAE 3000 and ACF controls of services/framework_audit_service.py:  *)
(* the built-in tables, the rows that override them, and the confidence    *)
(* that a run's evidence gives.  Of a control the tags and the dimensions  *)
(* it looks for are kept, whether it looks for keywords, and the heading   *)
(* it is filed under: category in one framework, domain in the other.      *)
(***************************************************************************)
EXTENDS Maturity

CONSTANT Unset    \* NULL in a row

Control(id, types, dims) ==
  [id |-> id, control |-> [types |-> types, dims |-> dims, keywords |-> TRUE]]

ControlEnvironment ==
  {Control("CC1.1", {"security-gate"}, {"security_gates", "compliance_as_code"}),
   Control("CC1.2", {"security-gate", "compliance-check"}, {"security_gates"}),
   Control("CC1.3", {}, {}),
   Control("CC2.1", {"supply-chain"}, {"supply_chain", "artifact_management"}),
   Control("CC2.2", {"notify", "observability"}, {"observability"}),
   Control("CC3.2", {"sast", "sca", "dast", "secret-scan"}, {"sast", "sca", "dast", "secret_scanning"}),
   Control("CC3.3", {"secret-scan", "supply-chain"}, {"secret_scanning", "supply_chain"})}

ControlActivities ==
  {Control("CC4.1", {"unit-test", "integration-test", "code-coverage"},
           {"unit_testing", "integration_testing", "code_coverage"}),
   Control("CC4.2", {"notify"}, {"observability"}),
   Control("CC5.1", {"security-gate", "compliance-check"}, {"security_gates", "compliance_as_code"}),
   Control("CC5.2", {"iac-scan", "container-scan", "supply-chain"},
           {"iac_security", "container_security", "supply_chain"}),
   Control("CC5.3", {"build", "release"}, {"release_practices", "artifact_management"}),
   Control("CC6.1", {"secret-scan"}, {"secret_scanning"}),
   Control("CC6.3", {}, {"security_gates"})}

SystemOperations ==
  {Control("CC7.1", {"dast", "sca", "vuln-management"}, {"dast", "sca", "vulnerability_management"}),
   Control("CC7.2", {"observability"}, {"observability"}),
   Control("CC7.4", {"notify"}, {"observability"}),
   Control("CC8.1", {"unit-test", "integration-test", "security-gate", "deploy"},
           {"unit_testing", "integration_testing", "security_gates", "environment_promotion"}),
   Control("CC9.1", {"smoke-test", "deploy"}, {"smoke_testing", "environment_promotion"}),
   Control("CC9.2", {"sca", "supply-chain"}, {"sca", "supply_chain"})}

GovernanceDomains ==
  {Control("ACF-GOV-1", {"security-gate", "compliance-check"}, {"security_gates", "compliance_as_code"}),
   Control("ACF-GOV-2", {"sast", "sca", "dast", "vuln-management"},
           {"sast", "sca", "dast", "vulnerability_management"}),
   Control("ACF-PROC-1", {"unit-test", "integration-test", "deploy"},
           {"unit_testing", "integration_testing", "environment_promotion"}),
   Control("ACF-PROC-2", {"sca", "container-scan", "vuln-management"},
           {"sca", "container_security", "vulnerability_management"}),
   Control("ACF-PROC-3", {"notify", "observability"}, {"observability"})}

TechnologyDomains ==
  {Control("ACF-TECH-1", {"sast", "unit-test", "code-coverage", "lint"},
           {"sast", "unit_testing", "code_coverage"}),
   Control("ACF-TECH-2", {"iac-scan", "container-scan", "compliance-check"},
           {"iac_security", "container_security", "compliance_as_code"}),
   Control("ACF-INFO-1", {"secret-scan"}, {"secret_scanning"}),
   Control("ACF-INFO-2", {"observability"}, {"observability"}),
   Control("ACF-SUPPLY-1", {"sca", "supply-chain"}, {"sca", "supply_chain"}),
   Control("ACF-SUPPLY-2", {"supply-chain", "artifact"}, {"supply_chain", "artifact_management"}),
   Control("ACF-PERF-1", {"perf-test"}, {"performance_testing"}),
   Control("ACF-PERF-2", {"smoke-test"}, {"smoke_testing"}),
   Control("ACF-API-1", {"api-security"}, {"api_security"})}

Frameworks == {"isae", "acf"}

\* A table of controls as a function of their ids.
ById(table) == [id \in {r.id : r \in table} |-> (CHOOSE r \in table : r.id = id).control]

Builtin ==
  [isae |-> ById(ControlEnvironment \cup ControlActivities \cup SystemOperations),
   acf  |-> ById(GovernanceDomains \cup TechnologyDomains)]

-----------------------------------------------------------------------------
(* The rows: a partial function from ids.  The id alone is the primary     *)
(* key, so an id has a row in one framework at most.                       *)

OverrideRow ==
  [framework : Frameworks, enabled : BOOLEAN,
   types : {Unset} \cup SUBSET STRING, dims : {Unset} \cup SUBSET Dimensions,
   keywords : {Unset} \cup BOOLEAN]

RowsOf(rows, fw) == {id \in DOMAIN rows : rows[id].framework = fw}

Or(value, default) == IF value = Unset THEN default ELSE value

\* A row over the built-in control of its id, or over nothing.
MergedControl(row, base) ==
  [types |-> Or(row.types, base.types), dims |-> Or(row.dims, base.dims),
   keywords |-> Or(row.keywords, base.keywords)]

NoControl == [types |-> {}, dims |-> {}, keywords |-> FALSE]

Base(fw, id) == IF id \in DOMAIN Builtin[fw] THEN Builtin[fw][id] ELSE NoControl

Enabled(rows, fw, id) == id \in RowsOf(rows, fw) => rows[id].enabled

\* _get_active_controls.
Active(rows, fw) ==
  [id \in {x \in DOMAIN Builtin[fw] \cup RowsOf(rows, fw) : Enabled(rows, fw, x)} |->
     IF id \in RowsOf(rows, fw) THEN MergedControl(rows[id], Base(fw, id)) ELSE Builtin[fw][id]]

\* list_controls: all of them, with the flag.
Listed(rows, fw) ==
  [id \in DOMAIN Builtin[fw] \cup RowsOf(rows, fw) |->
     IF id \in DOMAIN Builtin[fw] /\ id \notin RowsOf(rows, fw)
     THEN [control |-> Builtin[fw][id], enabled |-> TRUE]
     ELSE [control |-> MergedControl(rows[id], Base(fw, id)), enabled |-> rows[id].enabled]]

-----------------------------------------------------------------------------
\* Confidences, the best last.  "manual" stands aside: nothing to look for.
Confidences == <<"not_met", "partial", "confirmed">>

\* types: the tags of the run's tasks; said: a keyword of the control occurs in the
\* names, logs or output of the run; scores: of the dimensions of its pipeline.
Confidence(c, types, said, scores, status) ==
  LET tagged == c.types \cap types # {}
      score == Max({0} \cup {scores[d] : d \in c.dims})
  IN  IF tagged /\ score >= 2 /\ status # "Failed" THEN "confirmed"
      ELSE IF tagged \/ (c.keywords /\ said) THEN "partial"
      ELSE IF c.types = {} /\ ~c.keywords THEN "manual"
      ELSE "not_met"

Ratings == <<"Significant Gaps", "Needs Improvement", "Partially Effective", "Largely Effective">>

\* (Mutant of OverallRating: what is not met counts only if nothing is confirmed.)
RatingForgivesGaps(conf) ==
  LET n == Cardinality(DOMAIN conf)
      share(c) == 10 * Cardinality({id \in DOMAIN conf : conf[id] = c})
  IN  CASE n = 0 -> 0
        [] n # 0 /\ share("confirmed") = 0 -> 2
        [] n # 0 /\ share("confirmed") # 0 /\ share("not_met") > 3 * n -> 1
        [] OTHER -> 3

\* The place of the rating of a report with these confidences, 0 when it has none.
OverallRating(conf) ==
  LET n == Cardinality(DOMAIN conf)
      share(c) == 10 * Cardinality({id \in DOMAIN conf : conf[id] = c})
  IN  CASE n = 0 -> 0
        [] n # 0 /\ share("not_met") > 3 * n -> 1
        [] n # 0 /\ share("not_met") <= 3 * n /\ share("confirmed") >= 7 * n -> 4
        [] n # 0 /\ share("not_met") <= 3 * n /\ share("confirmed") \in 4 * n .. 7 * n - 1 -> 3
        [] OTHER -> 2
=============================================================================
