---- MODULE AdmissionProofs ----
(***************************************************************************)
(* Proofs about Admission, for every set of pipelines, releases, rules and *)
(* requests.                                                               *)
(***************************************************************************)
EXTENDS Admission, TLAPS

\* How far the stored rating may be from the stored score.
Near(s, r) == r \in {ScoreToRating(100 * s), ScoreToRating(100 * (s - 1))}

LEMMA PointValues ==
  /\ Points(90) = 900000 /\ Points(75) = 750000 /\ Points(60) = 600000
  /\ Points(40) = 400000
  BY SMT DEF Points

LEMMA RatingIsRating == \A x \in Int : ScoreToRating(x) \in Rating
  BY PointValues, SMT DEF ScoreToRating, Rating, NonCompliant, Bronze, Silver, Gold, Platinum

LEMMA WeightedBounds ==
  ASSUME NEW pct \in Percentages
  PROVE  WeightedScore(pct) \in Int
  BY SMT DEF Percentages, WeightedScore

\* Rounding to hundredths moves a score by half a hundredth at most.
LEMMA RoundedBounds ==
  ASSUME NEW x \in Int, NEW s \in Rounded(x)
  PROVE  s \in Int /\ 100 * s <= x + 50 /\ 100 * s >= x - 50
<1>1. s \in Int /\ 100 * s - x \in -50 .. 50
  BY SMT DEF Rounded
<1> QED BY <1>1, SMT

\* A higher score never has a lower rating, and half a hundredth of a point
\* crosses one threshold at most, upwards.
LEMMA RoundingKeepsRating ==
  ASSUME NEW x \in Int, NEW s \in Int, 100 * s <= x + 50, 100 * s >= x - 50
  PROVE  Near(s, ScoreToRating(x))
  BY PointValues, SMT DEF Near, ScoreToRating, NonCompliant, Bronze, Silver, Gold, Platinum

LEMMA CalculatedScore ==
  ASSUME NEW pct \in Percentages, NEW new \in CalculatePipelineScore(pct)
  PROVE  new.score \in Int /\ new.rating \in Rating /\ Near(new.score, new.rating)
<1> DEFINE x == WeightedScore(pct)
<1>1. x \in Int
  BY WeightedBounds
<1>2. PICK s \in Rounded(x) : new = [score |-> s, rating |-> ScoreToRating(x)]
  BY DEF CalculatePipelineScore
<1>3. s \in Int /\ 100 * s <= x + 50 /\ 100 * s >= x - 50
  BY <1>1, <1>2, RoundedBounds
<1>4. Near(s, ScoreToRating(x))
  BY <1>1, <1>3, RoundingKeepsRating
<1>5. ScoreToRating(x) \in Rating
  BY <1>1, RatingIsRating
<1> QED BY <1>2, <1>3, <1>4, <1>5
-----------------------------------------------------------------------------
LEMMA InitInv == Init => Inv
<1> SUFFICES ASSUME Init PROVE Inv
  OBVIOUS
<1>1. NonCompliant \in Rating /\ Organization \in Scopes
  BY SMT DEF NonCompliant, Rating, Platinum, Scopes
<1>2. TypeOK
  BY <1>1, SMT DEF Init, TypeOK, Pairs, Places, Locals
<1>3. KnowledgeInv
  BY SMT DEF Init, KnowledgeInv, Running, Open
<1>4. AuditTrail
  BY SMT DEF Init, AuditTrail
<1> QED BY <1>2, <1>3, <1>4 DEF Inv

\* A step of a request moves it and keeps what it is for.
LEMMA Moved ==
  ASSUME request \in [Requests -> Locals], NEW q \in Requests, NEW place \in Places,
         Goes(q, place) \/ Decides(q, place)
  PROVE  /\ request' \in [Requests -> Locals]
         /\ \A z \in Requests : Target(z)' = Target(z)
         /\ \A z \in Requests : request'[z].release = request[z].release
         /\ \A z \in Requests : request'[z].pipeline = request[z].pipeline
         /\ request'[q].at = place
         /\ \A z \in Requests \ {q} : request'[z] = request[z]
<1>1. CASE Goes(q, place)
  BY <1>1, SMT DEF Goes, Locals, Target
<1>2. CASE Decides(q, place)
  <2>1. NonCompliant \in Rating
    BY SMT DEF NonCompliant, Rating, Platinum
  <2>2. request' = [request EXCEPT ![q] = [at |-> place, release |-> request[q].release,
                      pipeline |-> request[q].pipeline, rating |-> NonCompliant]]
    BY <1>2, SMT DEF Decides
  <2> QED BY <2>1, <2>2, SMT DEF Locals, Target
<1> QED BY <1>1, <1>2

LEMMA TypeStep == TypeOK /\ [Next]_vars => TypeOK'
<1> SUFFICES ASSUME TypeOK, [Next]_vars PROVE TypeOK'
  OBVIOUS
<1> USE NoneAssumption DEF TypeOK
<1>0. NonCompliant \in Rating /\ \A a, b \in Rating : Better(a, b) \in Rating
  BY SMT DEF NonCompliant, Rating, Platinum, Better
<1>1. ASSUME NEW u \in Updaters, NEW p \in Pipelines, LoadPipeline(u, p) PROVE TypeOK'
  BY <1>1, SMT DEF LoadPipeline, attachVars, Target
<1>2. ASSUME NEW u \in Updaters, NEW pct \in Inputs, StoreScore(u, pct) PROVE TypeOK'
  <2> DEFINE p == update[u].pipeline
  <2>1. p \in Pipelines
    BY <1>2, SMT DEF StoreScore
  <2>2. PICK new \in CalculatePipelineScore(pct) :
          /\ score' = Flushed(score, p, update[u].score, new.score)
          /\ rating' = Flushed(rating, p, update[u].rating, new.rating)
    BY <1>2, SMT DEF StoreScore
  <2>3. pct \in Percentages
    BY InputsAssumption
  <2>4. new.score \in Int /\ new.rating \in Rating
    BY <2>3, CalculatedScore
  <2>5. score' \in [Pipelines -> Int] /\ rating' \in [Pipelines -> Rating]
    BY <2>1, <2>2, <2>4, SMT DEF Flushed
  <2>6. best' \in [Requests -> Rating]
    BY <1>0, <1>2, <2>1, <2>5, SMT DEF StoreScore
  <2>7. update' \in [Updaters -> [pipeline : Pipelines \cup {None}, score : Int, rating : Rating]]
    BY <1>2, SMT DEF StoreScore
  <2>8. UNCHANGED <<rules, member, request, audit, held>> /\ torn' \subseteq Pipelines
    BY <1>2, <2>1 DEF StoreScore
  <2> QED BY <2>5, <2>6, <2>7, <2>8, SMT DEF Target
<1>3. ASSUME NEW r \in Rules, NEW scope \in Scopes, NEW min \in Minimums, CreateRule(r, scope, min)
      PROVE  TypeOK'
  BY <1>3, MinimumsAssumption, SMT DEF CreateRule, rowVars, attachVars, Target
<1>4. ASSUME NEW r \in Rules, DisableRule(r) PROVE TypeOK'
  BY <1>4, SMT DEF DisableRule, rowVars, Target
<1>5. ASSUME NEW q \in Requests, Attach(q) PROVE TypeOK'
  <2>1. ASSUME NEW rel \in Releases, NEW p \in Pipelines, BeginAttach(q, rel, p) PROVE TypeOK'
    <3>1. request' = [request EXCEPT ![q] =
            [at |-> "loaded", release |-> rel, pipeline |-> p, rating |-> rating[p]]]
      BY <2>1 DEF BeginAttach
    <3>2. request' \in [Requests -> Locals]
      BY <3>1, SMT DEF Places, Open, Locals
    <3>3. \A z \in Requests : request'[z].at # "new" => Target(z)' \in Pairs
      BY <3>1, SMT DEF Target, Pairs
    <3>4. held' \in [Requests -> SUBSET Rules]
      BY <2>1, SMT DEF BeginAttach, Active
    <3> QED BY <2>1, <3>2, <3>3, <3>4, SMT DEF BeginAttach, rowVars
  <2>2. ASSUME NEW place \in Places, request[q].at # "new",
               Goes(q, place) \/ Decides(q, place)
        PROVE  /\ request' \in [Requests -> Locals]
               /\ \A z \in Requests : request'[z].at # "new" => Target(z)' \in Pairs
               /\ best' \in [Requests -> Rating] /\ held' \in [Requests -> SUBSET Rules]
    <3>1. /\ request' \in [Requests -> Locals] /\ request'[q].at = place
          /\ \A z \in Requests : Target(z)' = Target(z)
          /\ \A z \in Requests \ {q} : request'[z] = request[z]
      BY <2>2, Moved
    <3>4. \A z \in Requests : request'[z].at # "new" => Target(z)' \in Pairs
      BY <2>2, <3>1, Zenon
    <3>5. best' \in [Requests -> Rating] /\ held' \in [Requests -> SUBSET Rules]
      <4>1. CASE Goes(q, place)
        BY <4>1, SMT DEF Goes
      <4>2. CASE Decides(q, place)
        BY <1>0, <4>2, SMT DEF Decides
      <4> QED BY <2>2, <4>1, <4>2
    <3> QED BY <3>1, <3>4, <3>5
  <2> USE DEF rowVars
  <2>3. {"loaded", "admitted", "absent", "joined", "done", "failed", "dead"} \subseteq Places
    BY DEF Places, Open
  <2>4. \A t \in EventTypes : Event(q, t) \in [by : Requests, type : EventTypes,
          release : Releases \cup {None}, pipeline : Pipelines \cup {None}]
    BY SMT DEF Event, Locals
  <2>5. CASE Deny(q)
    BY <2>2, <2>3, <2>4, <2>5, SMT DEF Deny, EventTypes
  <2>6. CASE Admit(q)
    BY <2>2, <2>3, <2>6, SMT DEF Admit
  <2>7. CASE ReadMembers(q)
    BY <2>2, <2>3, <2>7, SMT DEF ReadMembers
  <2>8. CASE Join(q)
    <3>1. member' \in [Pairs -> Requests \cup {None}]
      BY <2>8, SMT DEF Join
    <3> QED BY <2>2, <2>3, <2>8, <3>1, SMT DEF Join
  <2>9. CASE JoinRefused(q)
    BY <2>2, <2>3, <2>9, SMT DEF JoinRefused
  <2>10. CASE RecordAttached(q)
    BY <2>2, <2>3, <2>4, <2>10, SMT DEF RecordAttached, EventTypes
  <2>11. CASE RequestDies(q)
    BY <2>2, <2>3, <2>11, SMT DEF RequestDies, Open
  <2> QED BY <1>5, <2>1, <2>5, <2>6, <2>7, <2>8, <2>9, <2>10, <2>11 DEF Attach
<1>6. ASSUME NEW x \in Pairs, Detach(x) PROVE TypeOK'
  BY <1>6, SMT DEF Detach, rowVars, attachVars, Target
<1>9. CASE UNCHANGED vars
  BY <1>9, SMT DEF vars, rowVars, attachVars, Target
<1> QED BY <1>1, <1>2, <1>3, <1>4, <1>5, <1>6, <1>9 DEF Next
-----------------------------------------------------------------------------
\* What a step does to the requests that did not take it, and to their view.
LEMMA KnowledgeStep == TypeOK /\ KnowledgeInv /\ [Next]_vars => KnowledgeInv'
<1> SUFFICES ASSUME TypeOK, KnowledgeInv, [Next]_vars PROVE KnowledgeInv'
  OBVIOUS
<1> USE NoneAssumption
<1>0. Rating \subseteq Int /\ \A a, b \in Rating : Better(a, b) >= a
  BY SMT DEF Rating, NonCompliant, Platinum, Better
<1>1. ASSUME NEW u \in Updaters, NEW p \in Pipelines, LoadPipeline(u, p) PROVE KnowledgeInv'
  BY <1>1, SMT DEF LoadPipeline, attachVars, KnowledgeInv, Running, Active, Violations
<1>2. ASSUME NEW u \in Updaters, NEW pct \in Inputs, StoreScore(u, pct) PROVE KnowledgeInv'
  <2>1. rating' \in [Pipelines -> Rating]
    BY <1>2, TypeStep, Zenon DEF TypeOK, Next
  <2>2. \A q \in Requests : best'[q] >= best[q]
    BY <1>0, <1>2, <2>1, SMT DEF StoreScore, TypeOK
  <2>3. best \in [Requests -> Rating] /\ best' \in [Requests -> Rating]
    BY <1>2, TypeStep, Zenon DEF TypeOK, Next
  <2>4. \A q \in Requests : request[q].rating \in Rating
    BY SMT DEF TypeOK, Locals
  <2>5. UNCHANGED <<request, rules, held>>
    BY <1>2 DEF StoreScore
  <2>6. \A q \in Requests : Running(q) => best'[q] >= request[q].rating
    <3> SUFFICES ASSUME NEW q \in Requests, Running(q) PROVE best'[q] >= request[q].rating
      OBVIOUS
    <3>1. best[q] >= request[q].rating
      BY DEF KnowledgeInv
    <3>2. best[q] \in Int /\ best'[q] \in Int /\ request[q].rating \in Int
      BY <1>0, <2>3, <2>4, Zenon
    <3> QED BY <2>2, <3>1, <3>2, SMT
  <2> QED BY <2>5, <2>6, Zenon DEF KnowledgeInv, Running, Active, Violations
<1>3. ASSUME NEW r \in Rules, NEW scope \in Scopes, NEW min \in Minimums, CreateRule(r, scope, min)
      PROVE  KnowledgeInv'
  <2>1. \A z \in Rules \ {r} : rules'[z] = rules[z]
    BY <1>3, SMT DEF CreateRule, TypeOK
  <2>2. UNCHANGED <<request, best, held>> /\ rules[r].status = "absent"
    BY <1>3 DEF CreateRule, attachVars
  <2>3. \A rel : r \notin Active(rel) /\ \A z \in Rules \ {r} : z \in Active(rel)' <=> z \in Active(rel)
    BY <2>1, <2>2, SMT DEF Active
  <2> QED BY <2>1, <2>2, <2>3, SMT DEF KnowledgeInv, Running, Violations, Active
<1>4. ASSUME NEW r \in Rules, DisableRule(r) PROVE KnowledgeInv'
  <2>1. \A z \in Rules \ {r} : rules'[z] = rules[z]
    BY <1>4, SMT DEF DisableRule, TypeOK
  <2>2. UNCHANGED <<request, best>> /\ \A q \in Requests : held'[q] = held[q] \ {r}
    BY <1>4, SMT DEF DisableRule
  <2> QED BY <2>1, <2>2, SMT DEF KnowledgeInv, Running, Violations, Active
<1>5. ASSUME NEW q \in Requests, Attach(q) PROVE KnowledgeInv'
  <2> USE DEF rowVars
  <2>1. ASSUME NEW rel \in Releases, NEW p \in Pipelines, BeginAttach(q, rel, p) PROVE KnowledgeInv'
    <3>1. /\ request'[q] = [at |-> "loaded", release |-> rel, pipeline |-> p, rating |-> rating[p]]
          /\ best'[q] = rating[p] /\ held'[q] = Active(rel) /\ rules' = rules
      BY <2>1, SMT DEF BeginAttach, TypeOK
    <3>2. \A z \in Requests \ {q} :
            request'[z] = request[z] /\ best'[z] = best[z] /\ held'[z] = held[z]
      BY <2>1, SMT DEF BeginAttach, TypeOK
    <3>3. rating[p] \in Rating /\ rating[p] >= rating[p]
      <4>1. rating[p] \in Rating /\ rating[p] \in Int
        BY <1>0, Zenon DEF TypeOK
      <4> QED BY <4>1, SMT
    <3> QED BY <3>1, <3>2, <3>3, SMT DEF KnowledgeInv, Running, Violations, Active
  <2>2. ASSUME NEW place \in Places, Decides(q, place), place \notin Open, rules' = rules
        PROVE  KnowledgeInv'
    <3>1. /\ request'[q].at = place /\ \A z \in Requests \ {q} : request'[z] = request[z]
      BY <2>2, Moved DEF TypeOK
    <3>2. \A z \in Requests \ {q} : best'[z] = best[z] /\ held'[z] = held[z]
      BY <2>2, SMT DEF Decides, TypeOK
    <3> QED BY <2>2, <3>1, <3>2, SMT DEF KnowledgeInv, Running, Violations, Active
  <2>3. ASSUME NEW place \in Places, Goes(q, place), rules' = rules,
               place \in Open => Running(q),
               place \in Open \ {"loaded"} => held[q] \cap Violations(q) = {}
        PROVE  KnowledgeInv'
    <3>1. request' = [request EXCEPT ![q].at = place] /\ UNCHANGED <<best, held>>
      BY <2>3 DEF Goes
    <3>2. /\ request'[q].at = place /\ request'[q].rating = request[q].rating
          /\ request'[q].release = request[q].release
          /\ \A z \in Requests \ {q} : request'[z] = request[z]
      BY <3>1, SMT DEF TypeOK, Locals
    <3> QED BY <2>3, <3>1, <3>2, SMT DEF KnowledgeInv, Running, Violations, Active
  <2>4. CASE Deny(q)
    BY <2>2, <2>4, SMT DEF Deny, Places, Open
  <2>5. CASE Admit(q)
    BY <2>3, <2>5, SMT DEF Admit, Places, Open, Running
  <2>6. CASE ReadMembers(q)
    <3>1. Running(q) /\ held[q] \cap Violations(q) = {}
      BY <2>6, SMT DEF ReadMembers, KnowledgeInv, Running, Open
    <3> QED BY <2>2, <2>3, <2>6, <3>1, SMT DEF ReadMembers, Places, Open
  <2>7. CASE Join(q)
    BY <2>2, <2>7, SMT DEF Join, Places, Open
  <2>8. CASE JoinRefused(q)
    BY <2>2, <2>8, SMT DEF JoinRefused, Places, Open
  <2>9. CASE RecordAttached(q)
    BY <2>3, <2>9, SMT DEF RecordAttached, Places, Open
  <2>10. CASE RequestDies(q)
    BY <2>2, <2>10, SMT DEF RequestDies, Places, Open
  <2> QED BY <1>5, <2>1, <2>4, <2>5, <2>6, <2>7, <2>8, <2>9, <2>10 DEF Attach
<1>6. ASSUME NEW x \in Pairs, Detach(x) PROVE KnowledgeInv'
  BY <1>6, SMT DEF Detach, rowVars, attachVars, KnowledgeInv, Running, Active, Violations
<1>9. CASE UNCHANGED vars
  BY <1>9, SMT DEF vars, attachVars, KnowledgeInv, Running, Active, Violations
<1> QED BY <1>1, <1>2, <1>3, <1>4, <1>5, <1>6, <1>9 DEF Next
-----------------------------------------------------------------------------
\* A request that has not joined owns no row, one that has not ended no event.
LEMMA Ownership ==
  ASSUME TypeOK, AuditTrail, NEW q \in Requests
  PROVE  /\ request[q].at \notin {"joined", "dead", "done"} => \A x \in Pairs : member[x] # q
         /\ request[q].at # "done" => \A e \in audit : e.by # q
  BY NoneAssumption, SMT DEF AuditTrail

\* The events of the requests that did not move stay what they were.
LEMMA EventKept ==
  ASSUME NEW z, request'[z].release = request[z].release,
         request'[z].pipeline = request[z].pipeline
  PROVE  \A t : Event(z, t)' = Event(z, t)
  BY DEF Event

\* Audit trail, when the step of a request moves it and writes no event.
LEMMA SilentMove ==
  ASSUME TypeOK, AuditTrail, NEW q \in Requests, NEW place \in Places,
         Goes(q, place) \/ Decides(q, place), audit' = audit, member' = member,
         request[q].at # "done", place = "dead" \/ request[q].at \in Open
  PROVE  AuditTrail'
<1>1. /\ \A z \in Requests : Target(z)' = Target(z)
      /\ \A z \in Requests : \A t : Event(z, t)' = Event(z, t)
      /\ request'[q].at = place
      /\ \A z \in Requests \ {q} : request'[z] = request[z]
  BY Moved, EventKept, Zenon DEF TypeOK
<1>2. \A x \in Pairs : member[x] = q => place = "dead"
  BY Ownership, SMT DEF Open
<1>3. \A e \in audit : e.by # q /\ e.by \in Requests
  BY Ownership, SMT DEF TypeOK
<1>4. \A x \in Pairs : member[x] \in Requests \cup {None}
  BY DEF TypeOK
<1> QED BY <1>1, <1>2, <1>3, <1>4, SMT DEF AuditTrail

LEMMA AuditStep == TypeOK /\ AuditTrail /\ [Next]_vars => AuditTrail'
<1> SUFFICES ASSUME TypeOK, AuditTrail, [Next]_vars PROVE AuditTrail'
  OBVIOUS
<1> USE NoneAssumption
<1>1. ASSUME UNCHANGED <<request, audit, member>> PROVE AuditTrail'
  BY <1>1, SMT DEF AuditTrail, Target, Event
<1>2. ASSUME NEW x \in Pairs, Detach(x) PROVE AuditTrail'
  <2>1. /\ UNCHANGED <<request, audit>>
        /\ \A y \in Pairs : member'[y] \in {member[y], None}
    BY <1>2, SMT DEF Detach, attachVars, TypeOK
  <2> QED BY <2>1, SMT DEF AuditTrail, Target, Event
<1>3. ASSUME NEW q \in Requests, Attach(q) PROVE AuditTrail'
  <2> USE DEF rowVars
  <2>1. ASSUME NEW rel \in Releases, NEW p \in Pipelines, BeginAttach(q, rel, p) PROVE AuditTrail'
    <3>1. UNCHANGED <<audit, member>> /\ \A z \in Requests \ {q} : request'[z] = request[z]
      BY <2>1, SMT DEF BeginAttach, TypeOK
    <3>2. /\ \A x \in Pairs : member[x] # q /\ member[x] \in Requests \cup {None}
          /\ \A e \in audit : e.by # q /\ e.by \in Requests
      BY <2>1, Ownership, SMT DEF BeginAttach, TypeOK
    <3>3. \A z \in Requests \ {q} : Target(z)' = Target(z) /\ \A t : Event(z, t)' = Event(z, t)
      BY <3>1, EventKept, Zenon DEF Target
    <3> QED BY <3>1, <3>2, <3>3, SMT DEF AuditTrail
  <2>2. CASE Deny(q) \/ RecordAttached(q)
    <3>1. PICK t \in EventTypes :
            /\ audit' = audit \cup {Event(q, t)}
            /\ Goes(q, "done") \/ Decides(q, "done")
            /\ member' = member
            /\ t = "pipeline.admission.failed" => request[q].at = "loaded"
            /\ request[q].at \in {"loaded", "joined"}
      BY <2>2, SMT DEF Deny, RecordAttached, EventTypes
    <3>2. /\ \A z \in Requests : Target(z)' = Target(z)
          /\ \A z \in Requests : \A s : Event(z, s)' = Event(z, s)
          /\ request'[q].at = "done"
          /\ \A z \in Requests \ {q} : request'[z] = request[z]
      BY <3>1, Moved, EventKept, Zenon DEF TypeOK, Places
    <3>3. /\ t = "pipeline.admission.failed" => \A x \in Pairs : member[x] # q
          /\ \A e \in audit : e.by # q /\ e.by \in Requests
          /\ \A x \in Pairs : member[x] \in Requests \cup {None}
      BY <3>1, Ownership, SMT DEF TypeOK
    <3>4. /\ \A z, s : Event(z, s).by = z /\ Event(z, s).type = s
      BY DEF Event
    <3>5. \A x \in Pairs : member[x] # None =>
            /\ Target(member[x]) = x
            /\ member[x] # q => (request'[member[x]].at \in {"joined", "dead"}
                 \/ /\ request'[member[x]].at = "done"
                    /\ Event(member[x], "pipeline.attached") \in audit
                    /\ Event(member[x], "pipeline.admission.failed") \notin audit)
      BY <3>2, <3>3, SMT DEF AuditTrail
    <3>6. \A x \in Pairs : member[x] # None =>
            /\ Target(member[x]) = x
            /\ \/ request'[member[x]].at \in {"joined", "dead"}
               \/ /\ request'[member[x]].at = "done"
                  /\ Event(member[x], "pipeline.attached") \in audit'
                  /\ Event(member[x], "pipeline.admission.failed") \notin audit'
      BY <3>1, <3>2, <3>3, <3>4, <3>5, SMT DEF EventTypes
    <3>7. \A e \in audit' : request'[e.by].at = "done" /\ e = Event(e.by, e.type)
      BY <3>1, <3>2, <3>3, <3>4, SMT DEF AuditTrail
    <3>8. \A e \in audit' : e.by \in Requests
      BY <3>1, <3>3, <3>4, SMT
    <3> QED BY <3>1, <3>2, <3>3, <3>6, <3>7, <3>8, SMT DEF AuditTrail
  <2>3. CASE Join(q)
    <3>1. /\ Decides(q, "joined") /\ audit' = audit /\ request[q].at = "absent"
          /\ member' = [member EXCEPT ![Target(q)] = q]
      BY <2>3 DEF Join
    <3>2. /\ \A z \in Requests : Target(z)' = Target(z)
          /\ \A z \in Requests : \A s : Event(z, s)' = Event(z, s)
          /\ request'[q].at = "joined"
          /\ \A z \in Requests \ {q} : request'[z] = request[z]
      BY <3>1, Moved, EventKept, Zenon DEF TypeOK, Places
    <3>3. /\ \A x \in Pairs : member[x] # q /\ member[x] \in Requests \cup {None}
          /\ \A e \in audit : e.by # q /\ e.by \in Requests
      BY <3>1, Ownership, SMT DEF TypeOK
    <3>4. \A x \in Pairs : member'[x] = IF x = Target(q) THEN q ELSE member[x]
      BY <3>1, SMT DEF TypeOK
    <3> QED BY <3>1, <3>2, <3>3, <3>4, SMT DEF AuditTrail
  <2>4. CASE Admit(q)
    BY <2>4, SilentMove, SMT DEF Admit, Places, Open
  <2>5. CASE ReadMembers(q)
    BY <2>5, SilentMove, SMT DEF ReadMembers, Places, Open
  <2>6. CASE JoinRefused(q)
    BY <2>6, SilentMove, SMT DEF JoinRefused, Places, Open
  <2>7. CASE RequestDies(q)
    BY <2>7, SilentMove, SMT DEF RequestDies, Places, Open
  <2> QED BY <1>3, <2>1, <2>2, <2>3, <2>4, <2>5, <2>6, <2>7 DEF Attach
<1>4. CASE \E u \in Updaters : \E p \in Pipelines : LoadPipeline(u, p)
  BY <1>1, <1>4 DEF LoadPipeline, attachVars
<1>5. CASE \E u \in Updaters : \E pct \in Inputs : StoreScore(u, pct)
  BY <1>1, <1>5 DEF StoreScore
<1>6. CASE \E r \in Rules, scope \in Scopes, min \in Minimums : CreateRule(r, scope, min)
  BY <1>1, <1>6 DEF CreateRule, attachVars
<1>7. CASE \E r \in Rules : DisableRule(r)
  BY <1>1, <1>7 DEF DisableRule
<1>10. CASE UNCHANGED vars
  BY <1>1, <1>10 DEF vars, attachVars
<1> QED BY <1>2, <1>3, <1>4, <1>5, <1>6, <1>7, <1>10 DEF Next
-----------------------------------------------------------------------------
LEMMA InvStep == Inv /\ [Next]_vars => Inv'
  BY TypeStep, KnowledgeStep, AuditStep DEF Inv

\* Admission keeps its inductive invariant: rows, locals and audit events of all
\* attach requests agree, for every number of requests, updaters and rules.
THEOREM AdmissionInvariance == Spec => []Inv
<1>1. Init => Inv
  BY InitInv
<1>2. Inv /\ [Next]_vars => Inv'
  BY InvStep
<1> QED BY <1>1, <1>2, PTL DEF Spec

\* attach_pipeline_to_release leaves no row without its event, unless the request
\* is about to write it or died, and no row of a denied request.
THEOREM AuditTrailHolds == Spec => []AuditTrail
<1>1. Inv => AuditTrail
  BY DEF Inv
<1> QED BY <1>1, AdmissionInvariance, PTL

\* What check_release_admission promises when the rating and the rules change
\* under it: no rule in force all along is unmet by the best rating of that time.
THEOREM RegularAdmissionHolds == Spec => RegularAdmission
<1> DEFINE Admitted == \A q \in Requests : Join(q) =>
             \A r \in held[q] : RatingMeetsMinimum(best[q], rules[r].min)
<1>1. Inv => Admitted
  <2> SUFFICES ASSUME Inv, NEW q \in Requests, Join(q), NEW r \in held[q]
               PROVE  RatingMeetsMinimum(best[q], rules[r].min)
    OBVIOUS
  <2>1. Running(q) /\ request[q].at # "loaded"
    BY SMT DEF Join, Running, Open
  <2>2. r \in Active(request[q].release) /\ r \notin Violations(q) /\ best[q] >= request[q].rating
    BY <2>1, Zenon DEF Inv, KnowledgeInv
  <2>3. request[q].rating >= rules[r].min
    BY <2>2 DEF Violations, RatingMeetsMinimum
  <2>4. best[q] \in Rating /\ request[q].rating \in Rating /\ rules[r].min \in Rating
    BY <2>2, SMT DEF Inv, TypeOK, Locals, Active
  <2> QED BY <2>2, <2>3, <2>4, SMT DEF RatingMeetsMinimum, Rating, NonCompliant, Platinum
<1>2. Inv /\ [Next]_vars => [Admitted]_vars
  BY <1>1
<1> QED BY <1>2, AdmissionInvariance, PTL DEF Spec, RegularAdmission

-----------------------------------------------------------------------------
LEMMA ScoreStep == TypeOK /\ RatingNearScore /\ [Next]_vars => RatingNearScore'
<1> SUFFICES ASSUME TypeOK, RatingNearScore, [Next]_vars PROVE RatingNearScore'
  OBVIOUS
<1> USE NoneAssumption
<1>1. ASSUME UNCHANGED <<score, rating, torn>> PROVE RatingNearScore'
  BY <1>1 DEF RatingNearScore
<1>2. CASE \E u \in Updaters : \E p \in Pipelines : LoadPipeline(u, p)
  BY <1>1, <1>2 DEF LoadPipeline
<1>3. ASSUME NEW u \in Updaters, NEW pct \in Inputs, StoreScore(u, pct)
      PROVE  RatingNearScore'
  <2> DEFINE p == update[u].pipeline
  <2>1. p \in Pipelines
    BY <1>3, SMT DEF StoreScore, TypeOK
  <2>2. PICK new \in CalculatePipelineScore(pct) :
          /\ score' = Flushed(score, p, update[u].score, new.score)
          /\ rating' = Flushed(rating, p, update[u].rating, new.rating)
    BY <1>3, SMT DEF StoreScore
  <2>3. \A z \in Pipelines \ {p} : score'[z] = score[z] /\ rating'[z] = rating[z]
    BY <2>1, <2>2, SMT DEF Flushed, TypeOK
  <2>4. \A z \in Pipelines \ {p} : z \in torn' <=> z \in torn
    BY <1>3 DEF StoreScore
  <2>5. p \notin torn' => score'[p] = new.score /\ rating'[p] = new.rating
    <3> SUFFICES ASSUME p \notin torn' PROVE score'[p] = new.score /\ rating'[p] = new.rating
      OBVIOUS
    <3>1. update[u].score = score[p] /\ update[u].rating = rating[p]
      BY <1>3 DEF StoreScore
    <3> QED BY <2>1, <2>2, <3>1, SMT DEF Flushed, TypeOK
  <2>6. Near(new.score, new.rating)
    BY InputsAssumption, CalculatedScore
  <2> QED BY <2>1, <2>3, <2>4, <2>5, <2>6, Zenon DEF RatingNearScore, Near
<1>4. CASE \E r \in Rules, scope \in Scopes, min \in Minimums : CreateRule(r, scope, min)
  BY <1>1, <1>4 DEF CreateRule, rowVars
<1>5. CASE \E r \in Rules : DisableRule(r)
  BY <1>1, <1>5 DEF DisableRule, rowVars
<1>6. ASSUME NEW q \in Requests, Attach(q) PROVE RatingNearScore'
  BY <1>1, <1>6, Zenon DEF Attach, BeginAttach, Deny, Admit, ReadMembers, Join, JoinRefused,
    RecordAttached, RequestDies, rowVars
<1>7. CASE \E x \in Pairs : Detach(x)
  BY <1>1, <1>7 DEF Detach, rowVars
<1>8. CASE UNCHANGED vars
  BY <1>1, <1>8 DEF vars, rowVars
<1> QED BY <1>2, <1>3, <1>4, <1>5, <1>6, <1>7, <1>8 DEF Next

\* For any number of overlapping updates, update_compliance_score leaves a rating that is the one of
\* the stored score, up to rounding at a threshold, unless the pipeline's last update was overtaken.
THEOREM RatingNearScoreHolds == Spec => []RatingNearScore
<1>1. Init => RatingNearScore
  <2>1. ScoreToRating(100 * 0) = NonCompliant
    BY PointValues, SMT DEF ScoreToRating
  <2> QED BY <2>1, SMT DEF Init, RatingNearScore
<1>2. Inv /\ RatingNearScore /\ [Next]_vars => RatingNearScore'
  BY ScoreStep DEF Inv
<1> QED BY <1>1, <1>2, AdmissionInvariance, PTL DEF Spec
====
