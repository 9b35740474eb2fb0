----------------------------- MODULE Assessment -----------------------------
(***************************************************************************)
(* The reports over the rows they read: the maturity overview              *)
(* (maturity_service.get_overview), the framework reports of a run         *)
(* (build_isae_report, build_acf_report) and the ISO 27001 report          *)
(* (evaluate_iso27001).  Each query of a report reads what is committed at *)
(* that moment, and pipelines, tasks, controls and the other tables change *)
(* between the queries.  There is one product.                             *)
(***************************************************************************)
EXTENDS FrameworkAudit, Iso27001

CONSTANTS
  Pipelines, Applications, TaskIds, Users, Roles, Environments,
  Looks,         \* what tasks look like
  Start,         \* the pipelines at the beginning
  StartEnvironments,
  EditedKinds,   \* kinds that pipelines get
  Ran,           \* the pipeline of the one run
  ControlIds,    \* the controls that are edited, some in no table
  MaxEdits       \* bound on the edits

PipelineRow ==
  [kind : Kinds, app : Applications, tasks : UNION {[T -> Looks] : T \in SUBSET TaskIds}]

ASSUME StartAssumption ==
  /\ Ran \in Pipelines
  /\ Start \in [Pipelines -> PipelineRow]
  /\ DOMAIN StartEnvironments \subseteq Environments
  /\ Looks \subseteq Tasks /\ EditedKinds \subseteq Kinds
  /\ \A S \in {Pipelines, Applications, TaskIds, Users, Roles, Environments, ControlIds} : IsFiniteSet(S)

Tables == {"secrets", "events", "rules", "runs", "webhooks"}

VARIABLES
  pipe,       \* pipe[p]: kind, application and tasks of a pipeline
  run,        \* the run: its status, which tasks have a row, which controls the output of a row
              \* speaks of, and of which only the outputs of several, joined, do
  rows,       \* framework_controls
  users, roles, bindings,
  filled,     \* which other tables have rows that count
  envs,       \* environments, with what their name says
  rated, scan,\* pipelines with a compliance score, with a name that says "scan"
  report, overview, iso,  \* the locals of the report requests, of which one is made
  moved,      \* history: the pipelines that changed their application since it began
  grown,      \* history: rows have only been added since an ISO report began
  edits

definition == <<pipe, run, moved>>
estate == <<users, roles, bindings, filled, envs, rated, scan>>
requests == <<report, overview, iso>>
vars == <<definition, rows, estate, requests, grown, edits>>

-----------------------------------------------------------------------------
TasksOf(p) == {pipe[p].tasks[t] : t \in DOMAIN pipe[p].tasks}

\* The results for all sets of looks, so that TLC computes each once.
ScoreTable == [kind \in Kinds |-> [tasks \in SUBSET Looks |-> PipelineScore(kind, tasks)]]

DimensionTable ==
  [kind \in Kinds |->
    [tasks \in SUBSET Looks |-> [d \in Dimensions |-> DimensionScore(kind, tasks, d)]]]

Score(p) == ScoreTable[pipe[p].kind][TasksOf(p)]

Scores(p) == DimensionTable[pipe[p].kind][TasksOf(p)]

\* The tags of the tasks of the run, by the definition as it is when the report is made.
Tags(tasks) == UNION {tasks[t].tags : t \in run.has \cap DOMAIN tasks}

\* Keywords are looked for in all the output joined: one may begin in a task's and end in the next's.
Spreads(has) == IF Cardinality(has) < 2 THEN {{}} ELSE SUBSET ControlIds

Said(id) == id \in run.spread \/ \E t \in run.has : id \in run.said[t]

\* _score_control for every active control.
Findings(fw, tasks, scores, status) ==
  LET active == Active(rows, fw)
      tags == Tags(tasks)
  IN  [id \in DOMAIN active |-> Confidence(active[id], tags, Said(id), scores, status)]

\* The task runs a report shows for a control: each is looked at by itself.
Artifacts(c, id, tasks) ==
  {t \in run.has : \/ t \in DOMAIN tasks /\ tasks[t].tags \cap c.types # {}
                   \/ c.keywords /\ id \in run.said[t]}

Shown(fw, tasks) ==
  LET active == Active(rows, fw)
  IN  {id \in DOMAIN active : Artifacts(active[id], id, tasks) # {}}

FindingsNow(fw) == Findings(fw, pipe[Ran].tasks, Scores(Ran), run.status)

One(yes) == IF yes THEN 1 ELSE 0

ContextNow ==
  [users |-> Cardinality(users), roles |-> Cardinality(roles), bindings |-> Cardinality(bindings),
   secrets |-> One("secrets" \in filled), events |-> One("events" \in filled),
   rules |-> One("rules" \in filled), runs |-> One("runs" \in filled),
   webhooks |-> One("webhooks" \in filled),
   pipelines |-> Cardinality(Pipelines), rated |-> Cardinality(rated), scan |-> scan # {},
   sbom |-> \E p \in Pipelines : \E look \in TasksOf(p) : look.sbom,
   environments |-> {envs[e] : e \in DOMAIN envs}, environmentCount |-> Cardinality(DOMAIN envs)]

-----------------------------------------------------------------------------
NoReport == [at |-> "idle", framework |-> Unset, status |-> Unset, tasks |-> <<>>, scores |-> <<>>,
             result |-> <<>>, shown |-> {}, spread |-> {}]

NoOverview == [at |-> "idle", apps |-> {}, app |-> Unset, listed |-> <<>>, scored |-> {}]

Init ==
  /\ pipe = Start
  /\ run = [status |-> "Running", has |-> DOMAIN Start[Ran].tasks, said |-> [t \in TaskIds |-> {}], spread |-> {}]
  /\ rows = <<>>
  /\ users = Users /\ roles = Roles /\ bindings = Users \X Roles
  /\ filled = {} /\ envs = StartEnvironments /\ rated = {} /\ scan = {}
  /\ report = NoReport /\ overview = NoOverview
  /\ iso = [at |-> "idle", context |-> <<>>, passed |-> {}]
  /\ moved = {} /\ grown = TRUE
  /\ edits = 0

\* Pipelines and their tasks.
SetTasks(p, tasks) ==
  /\ pipe' = [pipe EXCEPT ![p].tasks = tasks]
  /\ LET has == run.has \cap DOMAIN tasks
     IN  IF p = Ran /\ has # run.has
         THEN \E spread \in Spreads(has) : run' = [run EXCEPT !.has = has, !.spread = spread]
         ELSE run' = run
  /\ UNCHANGED <<moved, rows, estate, requests>>

SaveTask(p, t, look) == SetTasks(p, Put(pipe[p].tasks, t, look))

DeleteTask(p, t) ==
  /\ t \in DOMAIN pipe[p].tasks
  /\ SetTasks(p, [u \in DOMAIN pipe[p].tasks \ {t} |-> pipe[p].tasks[u]])

UpdatePipeline(p, kind, app) ==
  /\ pipe' = [pipe EXCEPT ![p].kind = kind, ![p].app = app]
  /\ moved' = IF app = pipe[p].app THEN moved ELSE moved \cup {p}
  /\ UNCHANGED <<run, rows, estate, requests>>

\* The run: output that speaks of some controls, and its end.  Where outputs meet, words come
\* together and apart.
WriteLogs(t, ids) ==
  /\ run.status = "Running" /\ t \in run.has
  /\ \E spread \in Spreads(run.has) : run' = [run EXCEPT !.said[t] = @ \cup ids, !.spread = spread]
  /\ UNCHANGED <<pipe, moved, rows, estate, requests>>

EndRun(status) ==
  /\ run.status = "Running"
  /\ run' = [run EXCEPT !.status = status]
  /\ UNCHANGED <<pipe, moved, rows, estate, requests>>

-----------------------------------------------------------------------------
(* routes/framework_controls.py                                            *)

Fields == [types : {Unset, {}}, dims : {Unset}, keywords : {Unset, FALSE}]

SaveControl(fw, id, enabled, fields) ==
  /\ rows' = Put(rows, id, [framework |-> fw, enabled |-> enabled, types |-> fields.types,
                            dims |-> fields.dims, keywords |-> fields.keywords])
  /\ UNCHANGED <<definition, estate, requests>>

\* A row of the other framework has the id: the insert fails.
UpdateControl(fw, id, enabled, fields) ==
  /\ id \in DOMAIN rows => rows[id].framework = fw
  /\ SaveControl(fw, id, enabled, fields)

\* Empty lists are stored as NULL.
AddCustomControl(fw, id) ==
  /\ id \notin DOMAIN rows
  /\ \E words \in {Unset, TRUE} :
       SaveControl(fw, id, TRUE, [types |-> Unset, dims |-> Unset, keywords |-> words])

KeepRows(ids) ==
  /\ ids # DOMAIN rows
  /\ rows' = [id \in ids |-> rows[id]]
  /\ UNCHANGED <<definition, estate, requests>>

DeleteControl(fw, id) == id \notin DOMAIN Builtin[fw] /\ KeepRows(DOMAIN rows \ ({id} \cap RowsOf(rows, fw)))

ResetControls(fw) == KeepRows(DOMAIN rows \ RowsOf(rows, fw))

-----------------------------------------------------------------------------
(* The tables of the ISO report.                                           *)

Access == <<users, roles, bindings>>
Rest   == <<filled, envs, rated, scan>>

\* The bindings of a user or of a role go with it.
SetAccess(us, rs, bs) ==
  /\ users' = us /\ roles' = rs /\ bindings' = bs \cap (us \X rs)
  /\ UNCHANGED <<definition, rows, Rest, requests>>

\* (Mutant of EditAccess: a role leaves its bindings behind.)
EditAccessLeaving ==
  \E u \in Users, r \in Roles :
    \/ SetAccess(users \cup {u}, roles, bindings)
    \/ SetAccess(users \ {u}, roles, bindings)
    \/ /\ roles' = roles \ {r}
       /\ UNCHANGED <<users, bindings, definition, rows, Rest, requests>>
    \/ SetAccess(users, roles, bindings \cup ({<<u, r>>} \cap (users \X roles)))

EditAccess ==
  \E u \in Users, r \in Roles :
    \/ SetAccess(users \cup {u}, roles, bindings)
    \/ SetAccess(users \ {u}, roles, bindings)
    \/ SetAccess(users, roles \cup {r}, bindings)
    \/ SetAccess(users, roles \ {r}, bindings)
    \/ SetAccess(users, roles, bindings \cup ({<<u, r>>} \cap (users \X roles)))
    \/ SetAccess(users, roles, bindings \ {<<u, r>>})

SetRest(tables, es, ps, qs) ==
  /\ filled' = tables /\ envs' = es /\ rated' = ps /\ scan' = qs
  /\ UNCHANGED <<definition, rows, Access, requests>>

EditRest ==
  \/ \E x \in Tables : SetRest(filled \cup {x}, envs, rated, scan) \/ SetRest(filled \ {x}, envs, rated, scan)
  \/ \E e \in Environments :
       \/ \E name \in {"prod", "dev", "other"} : SetRest(filled, Put(envs, e, name), rated, scan)
       \/ SetRest(filled, [x \in DOMAIN envs \ {e} |-> envs[x]], rated, scan)
  \/ \E p \in Pipelines, on \in BOOLEAN :
       \/ SetRest(filled, envs, IF on THEN rated \cup {p} ELSE rated \ {p}, scan)
       \/ SetRest(filled, envs, rated, IF on THEN scan \cup {p} ELSE scan \ {p})

-----------------------------------------------------------------------------
(* The report of a framework about the run.                                *)

Idle == {report.at, overview.at, iso.at} = {"idle"}

ReportStep(new) == report' = new /\ UNCHANGED <<definition, rows, estate, overview, iso>>

\* The row of the run is loaded.
BeginReport(fw) ==
  /\ Idle
  /\ ReportStep([report EXCEPT !.at = "run", !.framework = fw, !.status = run.status])

\* Its pipeline with the tasks: their tags, and the scores of the dimensions.
ReadDefinition ==
  /\ report.at = "run"
  /\ ReportStep([report EXCEPT !.at = "definition", !.tasks = pipe[Ran].tasks, !.scores = Scores(Ran)])

\* The controls, and the task runs.  An active control of the ACF without a domain, one that is
\* in no table, raises.
ReadControls ==
  /\ report.at = "definition"
  /\ IF report.framework = "acf" /\ ~(DOMAIN Active(rows, "acf") \subseteq DOMAIN Builtin.acf)
     THEN ReportStep([NoReport EXCEPT !.at = "raised"])
     ELSE ReportStep([report EXCEPT !.at = "answered", !.scores = <<>>, !.tasks = <<>>,
            !.spread = run.spread, !.shown = Shown(report.framework, report.tasks),
            !.result = Findings(report.framework, report.tasks, report.scores, report.status)])

-----------------------------------------------------------------------------
(* The maturity overview.                                                  *)

OverviewStep(new) == overview' = new /\ UNCHANGED <<pipe, run, rows, estate, report, iso>>

\* score_product: the applications.
BeginOverview ==
  /\ Idle
  /\ OverviewStep([overview EXCEPT !.at = "reading", !.apps = Applications])
  /\ moved' = {}

\* (Mutant of ListApplication: the pipelines of the product.)
ListProduct(a) ==
  /\ overview.at = "reading" /\ a \in overview.apps /\ DOMAIN overview.listed = {}
  /\ OverviewStep([overview EXCEPT !.apps = @ \ {a}, !.app = a,
                    !.listed = [p \in Pipelines |-> pipe[p].kind]])
  /\ UNCHANGED moved

\* score_application: its pipelines, which come with their kinds.
ListApplication(a) ==
  /\ overview.at = "reading" /\ a \in overview.apps /\ DOMAIN overview.listed = {}
  /\ LET found == {p \in Pipelines : pipe[p].app = a}
     IN  OverviewStep([overview EXCEPT !.apps = @ \ {a}, !.app = a,
                        !.listed = [p \in found |-> pipe[p].kind]])
  /\ UNCHANGED moved

\* score_pipeline: the tasks of one of them.  What an earlier application's turn has loaded
\* of it may still be in the session, and is then not loaded again.
ScoreNext(p) ==
  /\ overview.at = "reading" /\ p \in DOMAIN overview.listed
  /\ \E tasks \in {TasksOf(p)} \cup {x.tasks : x \in {y \in overview.scored : y.pipeline = p}} :
       OverviewStep([overview EXCEPT
         !.listed = [q \in DOMAIN @ \ {p} |-> @[q]],
         !.scored = @ \cup {[app |-> overview.app, pipeline |-> p, tasks |-> tasks,
                             score |-> ScoreTable[overview.listed[p]][tasks]]}])
  /\ UNCHANGED moved

\* The mean over the applications of the means over their pipelines.
AnswerOverview ==
  /\ overview.at = "reading" /\ overview.apps = {} /\ DOMAIN overview.listed = {}
  /\ OverviewStep([overview EXCEPT !.at = "answered"])
  /\ UNCHANGED moved

ApplicationScores(scored, a) == Mean([x \in {y \in scored : y.app = a} |-> x.score])

ProductScores(scored) ==
  UNION {Mean(f) : f \in {g \in [Applications -> UNION {ApplicationScores(scored, a) : a \in Applications}] :
                            \A a \in Applications : g[a] \in ApplicationScores(scored, a)}}

-----------------------------------------------------------------------------
(* The ISO 27001 report.                                                   *)

\* Tasks are only added or hardened, nothing is renamed, moved or taken away.
Hardened(p) ==
  /\ pipe'[p].kind = pipe[p].kind /\ pipe'[p].app = pipe[p].app
  /\ DOMAIN pipe[p].tasks \subseteq DOMAIN pipe'[p].tasks
  /\ \A t \in DOMAIN pipe[p].tasks : HardenedInto(pipe[p].tasks[t], pipe'[p].tasks[t])

RowsAdded ==
  /\ users \subseteq users' /\ roles \subseteq roles' /\ bindings \subseteq bindings'
  /\ filled \subseteq filled' /\ rated \subseteq rated' /\ scan \subseteq scan'
  /\ \A e \in DOMAIN envs : e \in DOMAIN envs' /\ envs'[e] = envs[e]
  /\ \A p \in Pipelines : Hardened(p)

IsoStep(new) == iso' = new /\ UNCHANGED <<definition, rows, Access, Rest, report, overview>>

\* _build_context: environments and pipelines with their tasks; users; roles; bindings; the rest.
\* ("passed" is history: what a report of this one moment would pass.)
BeginIso ==
  /\ Idle
  /\ IsoStep([at |-> "pipelines", context |-> ContextNow, passed |-> With("pass", ContextNow)])

Counting == [pipelines |-> {"users"}, users |-> {"roles"}, roles |-> {"bindings"},
             bindings |-> {"secrets", "events", "rules", "runs", "webhooks"}]

\* The counts that come next are those of now, the others as they were.
CountNext ==
  /\ iso.at \in DOMAIN Counting
  /\ LET next == CHOOSE x \in Counting[iso.at] : iso.at = "bindings" \/ Counting[iso.at] = {x}
     IN  IsoStep([iso EXCEPT
           !.at = IF iso.at = "bindings" THEN "answered" ELSE next,
           !.context = [k \in DOMAIN iso.context |->
             IF k \in Counting[iso.at] THEN ContextNow[k] ELSE iso.context[k]]])

-----------------------------------------------------------------------------
EditDefinition ==
  \E p \in Pipelines :
    \/ \E t \in TaskIds : DeleteTask(p, t) \/ \E look \in Looks : SaveTask(p, t, look)
    \/ \E kind \in EditedKinds, app \in Applications : UpdatePipeline(p, kind, app)

EditRun ==
  \/ \E t \in TaskIds, ids \in {{}} \cup {{id} : id \in ControlIds} : WriteLogs(t, ids)
  \/ \E status \in {"Succeeded", "Failed"} : EndRun(status)

EditControls ==
  \E fw \in Frameworks :
    \/ \E id \in ControlIds, enabled \in BOOLEAN, fields \in Fields : UpdateControl(fw, id, enabled, fields)
    \/ \E id \in ControlIds : AddCustomControl(fw, id) \/ DeleteControl(fw, id)
    \/ ResetControls(fw)

Edit == EditDefinition \/ EditRun \/ EditControls \/ EditAccess \/ EditRest

Framework == (\E fw \in Frameworks : BeginReport(fw)) \/ ReadDefinition \/ ReadControls

Overview ==
  \/ BeginOverview \/ AnswerOverview
  \/ \E a \in Applications : ListApplication(a)
  \/ \E p \in Pipelines : ScoreNext(p)

Next ==
  \/ /\ edits < MaxEdits /\ edits' = edits + 1 /\ Edit
     /\ grown' = (iso.at = "idle" \/ (grown /\ RowsAdded))
  \/ UNCHANGED <<grown, edits>> /\ (Framework \/ Overview \/ BeginIso \/ CountNext)

Spec == Init /\ [][Next]_vars

-----------------------------------------------------------------------------
AssessmentTypeOK ==
  /\ pipe \in [Pipelines -> PipelineRow]
  /\ run.has \subseteq DOMAIN pipe[Ran].tasks
  /\ \A id \in DOMAIN rows : rows[id] \in OverrideRow
  /\ bindings \subseteq users \X roles

\* (Open requests change none of the rows: it is enough to look at steps without one.)
AllHardened == Idle /\ pipe' # pipe /\ \A p \in Pipelines : Hardened(p)

\* Hardening a pipeline never costs it points, a badge or its grade, and as long as it has not
\* all the points something is suggested (maturity_service.py: the best task counts, what does
\* not apply is not counted).
HardeningHelps ==
  [][AllHardened => \A p \in Pipelines :
       /\ Score(p) <= Score(p)' /\ Score(p)' \in 0..1000 /\ Grade(Score(p)) <= Grade(Score(p)')
       /\ Badges(Scores(p)) \subseteq Badges(Scores(p)')
       /\ (Score(p)' = 1000) <=> (Suggested(pipe'[p].kind, Scores(p)') = {})
       /\ PointsNeeded(Score(p)') = 0 <=> Grade(Score(p)') = 5]_vars

Place(confidence) == CHOOSE i \in DOMAIN Confidences : Confidences[i] = confidence

MoreEvidence ==
  /\ Idle
  /\ run'.status = run.status /\ run.has \subseteq run'.has
  /\ run.spread \subseteq run'.spread /\ \A t \in TaskIds : run.said[t] \subseteq run'.said[t]
  /\ Hardened(Ran) /\ <<pipe, run>>' # <<pipe, run>> /\ UNCHANGED rows

\* More output of the run that parts no words, or harder tasks, make no control of a framework
\* report worse, nor the rating over them (framework_audit_service._score_control, _overall_rating).
EvidenceHelps ==
  [][MoreEvidence => \A fw \in Frameworks :
       LET before == FindingsNow(fw)
           after == FindingsNow(fw)'
       IN  /\ \A id \in DOMAIN before :
                \/ before[id] = after[id]
                \/ before[id] # "manual" /\ Place(before[id]) < Place(after[id])
           /\ OverallRating(before) <= OverallRating(after)]_vars

MoreRows == RowsAdded /\ <<estate, pipe>>' # <<estate, pipe>>

\* What a control has passed it still passes when rows are only added.
PassStays == [][MoreRows => With("pass", ContextNow) \subseteq With("pass", ContextNow')]_vars

\* An overview counts each pipeline once, unless it went to another application meanwhile.
CountedOnce ==
  overview.at = "answered" =>
    /\ \A p \in Pipelines \ moved : Cardinality({x \in overview.scored : x.pipeline = p}) = 1
    /\ \A s \in ProductScores(overview.scored) : s \in 0..1000

\* The counts are of several moments, and a report may pass what passed at none of them.  As long as
\* rows are only added it passes all that passed when it began, and nothing that does not pass now.
PassesOfItsTime ==
  iso.at = "answered" /\ grown =>
    iso.passed \subseteq With("pass", iso.context) /\ With("pass", iso.context) \subseteq With("pass", ContextNow)

\* Nothing is confirmed for a run that had failed when the report began.
FailedIndicatesOnly ==
  report.at = "answered" /\ report.status = "Failed" =>
    \A id \in DOMAIN report.result : report.result[id] # "confirmed"

\* Whatever is shown with a task run counts as met, wholly or in part, and whatever counts as met is
\* shown with a task run that says so, or was said only by the outputs of several, joined.
ClaimsAreShown ==
  report.at = "answered" =>
    \A id \in DOMAIN report.result :
      LET claimed == report.result[id] \in {"partial", "confirmed"}
      IN  (id \in report.shown => claimed) /\ (claimed => id \in report.shown \cup report.spread)

\* The reports made while rows change: what they claim is shown, nothing is counted twice or left
\* out, controls pass by rows of the time of the report, and a failed run confirms nothing.
ReportsSound == ClaimsAreShown /\ CountedOnce /\ PassesOfItsTime /\ FailedIndicatesOnly
=============================================================================
