---- MODULE Admission ----
(***************************************************************************)
(* Releases admit pipelines by their compliance rating.  Requests run in   *)
(* parallel worker threads, each in a session of its own that reads what   *)
(* is committed at the moment of each query: a request that attaches a     *)
(* pipeline loads it, then the rules, then the members, then inserts, then *)
(* records the event, and score updates, rule changes, detaches and other  *)
(* attaches fall in between.                                               *)
(***************************************************************************)
EXTENDS Compliance, FiniteSets

CONSTANTS
  Pipelines, Releases, Products,
  ProductOf,      \* [Releases -> Products]
  Organization,   \* the scope "organization"
  Rules,          \* ids of the compliance rules that may be created
  Minimums,       \* the ratings they may ask for
  Requests,       \* attach requests, each made at most once
  Updaters,       \* sessions that update scores
  Inputs,         \* what the updates are given as percentages, which nobody checks
  None

ASSUME ProductsAssumption == ProductOf \in [Releases -> Products]
ASSUME MinimumsAssumption == Minimums \subseteq Rating
ASSUME InputsAssumption == Inputs \subseteq Percentages
ASSUME NoneAssumption == None \notin Requests \cup Pipelines \cup Releases

VARIABLES
  score, rating,  \* columns of pipelines
  update,         \* what each updater loaded
  torn,           \* history: pipelines whose last update found the row changed since it was loaded
  rules,          \* compliance_rules
  member,         \* release_pipelines: the request that inserted the row, or None
  request,        \* locals of the attach requests
  audit,          \* audit_events of admission
  best, held      \* history: the best rating of the pipeline, and the rules in
                  \* force all along, since a request that has not decided began

rowVars == <<score, rating, update, torn>>
attachVars == <<request, audit, best, held>>
vars == <<rowVars, rules, member, attachVars>>

Scopes == Products \cup {Organization}
Pairs == Releases \X Pipelines
Target(q) == <<request[q].release, request[q].pipeline>>

\* Where a request is.  "loaded": has the pipeline; "admitted": has found no
\* violation; "absent": has seen that the pipeline is no member; "joined": has
\* committed the row but not the event.
Open == {"loaded", "admitted", "absent"}
Places == {"new", "done", "failed", "dead", "joined"} \cup Open

Running(q) == request[q].at \in Open

Active(rel) ==
  {r \in Rules : rules[r].status = "active" /\ rules[r].scope \in {ProductOf[rel], Organization}}

Init ==
  /\ score = [p \in Pipelines |-> 0]
  /\ rating = [p \in Pipelines |-> NonCompliant]
  /\ update = [u \in Updaters |-> [pipeline |-> None, score |-> 0, rating |-> NonCompliant]]
  /\ torn = {}
  /\ rules = [r \in Rules |-> [status |-> "absent", scope |-> Organization, min |-> NonCompliant]]
  /\ member = [x \in Pairs |-> None]
  /\ request = [q \in Requests |->
       [at |-> "new", release |-> None, pipeline |-> None, rating |-> NonCompliant]]
  /\ audit = {}
  /\ best = [q \in Requests |-> NonCompliant]
  /\ held = [q \in Requests |-> {}]

-----------------------------------------------------------------------------
\* update_compliance_score: the row is loaded, and the UPDATE writes only the
\* columns whose new value differs from the loaded one.
LoadPipeline(u, p) ==
  /\ update[u].pipeline = None
  /\ update' = [update EXCEPT ![u] = [pipeline |-> p, score |-> score[p], rating |-> rating[p]]]
  /\ UNCHANGED <<score, rating, torn, rules, member, attachVars>>

Flushed(column, p, loaded, value) ==
  IF value = loaded THEN column ELSE [column EXCEPT ![p] = value]

Better(a, b) == IF a >= b THEN a ELSE b

StoreScore(u, pct) ==
  LET p == update[u].pipeline IN
  /\ p # None
  /\ \E new \in CalculatePipelineScore(pct) :
       /\ score' = Flushed(score, p, update[u].score, new.score)
       /\ rating' = Flushed(rating, p, update[u].rating, new.rating)
  /\ update' = [update EXCEPT ![u].pipeline = None]
  /\ torn' = IF score[p] = update[u].score /\ rating[p] = update[u].rating THEN torn \ {p} ELSE torn \cup {p}
  /\ best' = [q \in Requests |->
       IF Running(q) /\ request[q].pipeline = p THEN Better(best[q], rating'[p]) ELSE best[q]]
  /\ UNCHANGED <<rules, member, request, audit, held>>

\* (Mutant of CreateRule: an active rule is overwritten.)
CreateRuleUpserts(r, scope, min) ==
  /\ rules' = [rules EXCEPT ![r] = [status |-> "active", scope |-> scope, min |-> min]]
  /\ UNCHANGED <<rowVars, member, attachVars>>

\* Rules are created active and only ever disabled.
CreateRule(r, scope, min) ==
  /\ rules[r].status = "absent"
  /\ rules' = [rules EXCEPT ![r] = [status |-> "active", scope |-> scope, min |-> min]]
  /\ UNCHANGED <<rowVars, member, attachVars>>

DisableRule(r) ==
  /\ rules[r].status = "active"
  /\ rules' = [rules EXCEPT ![r].status = "disabled"]
  /\ held' = [q \in Requests |-> held[q] \ {r}]
  /\ UNCHANGED <<rowVars, member, request, audit, best>>

-----------------------------------------------------------------------------
Event(q, type) ==
  [by |-> q, type |-> type, release |-> request[q].release, pipeline |-> request[q].pipeline]

\* A request goes on to its next step; a request that has decided forgets.
Goes(q, place) ==
  /\ request' = [request EXCEPT ![q].at = place]
  /\ UNCHANGED <<best, held>>

Decides(q, place) ==
  /\ request' = [request EXCEPT ![q] =
       [at |-> place, release |-> @.release, pipeline |-> @.pipeline, rating |-> NonCompliant]]
  /\ best' = [best EXCEPT ![q] = NonCompliant]
  /\ held' = [held EXCEPT ![q] = {}]

\* Any pipeline may be asked for, whatever product it belongs to.
BeginAttach(q, rel, p) ==
  /\ request[q].at = "new"
  /\ request' = [request EXCEPT ![q] =
       [at |-> "loaded", release |-> rel, pipeline |-> p, rating |-> rating[p]]]
  /\ best' = [best EXCEPT ![q] = rating[p]]
  /\ held' = [held EXCEPT ![q] = Active(rel)]
  /\ UNCHANGED <<rowVars, rules, member, audit>>

\* (Mutant of Violations: rules of the organization alone are asked.)
ViolationsOfOrganization(q) ==
  {r \in Active(request[q].release) :
     rules[r].scope = Organization /\ ~ RatingMeetsMinimum(request[q].rating, rules[r].min)}

Violations(q) ==
  {r \in Active(request[q].release) : ~ RatingMeetsMinimum(request[q].rating, rules[r].min)}

Deny(q) ==
  /\ request[q].at = "loaded"
  /\ Violations(q) # {}
  /\ audit' = audit \cup {Event(q, "pipeline.admission.failed")}
  /\ Decides(q, "done")
  /\ UNCHANGED <<rowVars, rules, member>>

Admit(q) ==
  /\ request[q].at = "loaded"
  /\ Violations(q) = {}
  /\ Goes(q, "admitted")
  /\ UNCHANGED <<rowVars, rules, member, audit>>

\* A pipeline that is a member already is answered with 200 and no event.
ReadMembers(q) ==
  /\ request[q].at = "admitted"
  /\ IF member[Target(q)] = None THEN Goes(q, "absent") ELSE Decides(q, "done")
  /\ UNCHANGED <<rowVars, rules, member, audit>>

\* (Mutant of Join: the request ends with the row, the event is never written.)
JoinUnrecorded(q) ==
  /\ request[q].at = "absent"
  /\ member[Target(q)] = None
  /\ member' = [member EXCEPT ![Target(q)] = q]
  /\ Decides(q, "done")
  /\ UNCHANGED <<rowVars, rules, audit>>

Join(q) ==
  /\ request[q].at = "absent"
  /\ member[Target(q)] = None
  /\ member' = [member EXCEPT ![Target(q)] = q]
  /\ Decides(q, "joined")
  /\ UNCHANGED <<rowVars, rules, audit>>

\* The primary key of release_pipelines refuses a second row: 500.
JoinRefused(q) ==
  /\ request[q].at = "absent"
  /\ member[Target(q)] # None
  /\ Decides(q, "failed")
  /\ UNCHANGED <<rowVars, rules, member, audit>>

RecordAttached(q) ==
  /\ request[q].at = "joined"
  /\ audit' = audit \cup {Event(q, "pipeline.attached")}
  /\ Goes(q, "done")
  /\ UNCHANGED <<rowVars, rules, member>>

\* gunicorn kills a worker that is silent for too long, and its requests.
RequestDies(q) ==
  /\ request[q].at \in Open \cup {"joined"}
  /\ Decides(q, "dead")
  /\ UNCHANGED <<rowVars, rules, member, audit>>

Detach(x) ==
  /\ member[x] # None
  /\ member' = [member EXCEPT ![x] = None]
  /\ UNCHANGED <<rowVars, rules, attachVars>>

Attach(q) ==
  \/ \E rel \in Releases, p \in Pipelines : BeginAttach(q, rel, p)
  \/ Deny(q) \/ Admit(q) \/ ReadMembers(q) \/ Join(q) \/ JoinRefused(q) \/ RecordAttached(q)
  \/ RequestDies(q)

Next ==
  \/ \E u \in Updaters : \E p \in Pipelines : LoadPipeline(u, p)
  \/ \E u \in Updaters : \E pct \in Inputs : StoreScore(u, pct)
  \/ \E r \in Rules, scope \in Scopes, min \in Minimums : CreateRule(r, scope, min)
  \/ \E r \in Rules : DisableRule(r)
  \/ \E q \in Requests : Attach(q)
  \/ \E x \in Pairs : Detach(x)

Spec == Init /\ [][Next]_vars

-----------------------------------------------------------------------------
EventTypes == {"pipeline.admission.failed", "pipeline.attached"}

Locals == [at : Places, release : Releases \cup {None}, pipeline : Pipelines \cup {None},
           rating : Rating]

TypeOK ==
  /\ score \in [Pipelines -> Int]
  /\ rating \in [Pipelines -> Rating]
  /\ update \in [Updaters ->
       [pipeline : Pipelines \cup {None}, score : Int, rating : Rating]]
  /\ torn \subseteq Pipelines
  /\ rules \in [Rules ->
       [status : {"absent", "active", "disabled"}, scope : Scopes, min : Rating]]
  /\ member \in [Pairs -> Requests \cup {None}]
  /\ request \in [Requests -> Locals]
  /\ \A q \in Requests : request[q].at # "new" => Target(q) \in Pairs
  /\ audit \subseteq [by : Requests, type : EventTypes,
       release : Releases \cup {None}, pipeline : Pipelines \cup {None}]
  /\ best \in [Requests -> Rating]
  /\ held \in [Requests -> SUBSET Rules]

\* What a request knows bounds what was true while it ran: its copy of the
\* rating is no better than the best one since, and once admitted the copy meets
\* every rule in force all along.
KnowledgeInv ==
  \A q \in Requests : Running(q) =>
    /\ best[q] >= request[q].rating
    /\ held[q] \subseteq Active(request[q].release)
    /\ request[q].at # "loaded" => held[q] \cap Violations(q) = {}

\* Audit trail: every row of release_pipelines was inserted by an attach request
\* that was for this pair and that has recorded the attachment, is about to, or
\* died in between; no row is left by a request on record as denied, and every
\* event on record is of a request that has ended.
AuditTrail ==
  /\ \A x \in Pairs : member[x] # None =>
       LET q == member[x] IN
       /\ Target(q) = x
       /\ \/ request[q].at \in {"joined", "dead"}
          \/ /\ request[q].at = "done"
             /\ Event(q, "pipeline.attached") \in audit
             /\ Event(q, "pipeline.admission.failed") \notin audit
  /\ \A e \in audit : request[e.by].at = "done" /\ e = Event(e.by, e.type)

Inv == TypeOK /\ KnowledgeInv /\ AuditTrail

\* Admission: a pipeline joins a release only if the best rating it had while
\* the request ran meets every rule that was in force all that time, however the
\* loads of the request interleave with score updates and rule changes.
RegularAdmission ==
  [][\A q \in Requests : Join(q) =>
       \A r \in held[q] : RatingMeetsMinimum(best[q], rules[r].min)]_vars

\* The stored rating is that of the stored score, or of the next lower one when
\* rounding lifted the score onto the threshold; it may be another one only as
\* long as the last update of the pipeline is one that another overtook between
\* its load and its UPDATE, which then names fewer columns than it should.
RatingNearScore ==
  \A p \in Pipelines \ torn :
    rating[p] \in {ScoreToRating(100 * score[p]), ScoreToRating(100 * (score[p] - 1))}

====
