# Conduit: TLA+ models, checks and proofs

Conduit (the repository `release-wizard`) is a Flask and SQLAlchemy service that
orchestrates CI/CD: products own pipelines and releases, a pipeline is an ordered
list of stages of tasks, a task is a script, a release groups pipelines, and around
that sit compliance admission, audit, RBAC, a vault, a cache and a few dashboards.
It runs under gunicorn (`gunicorn.conf.py`): up to four worker processes of four
threads, recycled after `max_requests`. A run executes in daemon threads of the
worker process that received the request; the only shared state is the database
(and Redis, for the cache). The tests in `tests/` are sequential and stub nothing
concurrent, so what the threads do to each other is exactly what no test reaches.

This directory holds TLA+ modules for the parts whose correctness depends on the
order of steps, TLC configurations that check them, and TLAPS proofs.

## 1. Inventory

| Part | Source | State | Operations | What makes it hard | What makes it correct |
|---|---|---|---|---|---|
| Pipeline run execution | `services/run_service.py`, `models/run.py`, `routes/runs.py` | rows `pipeline_runs`, `stage_runs`, `task_runs`; locals of the executor and stage threads | start, rerun, restart from a stage, PATCH status, execute batches, execute a stage | parallel stage threads; several commits per outcome; client writes during execution; no recovery after a crash | stages and tasks in order, nothing after a failure, the verdict is what the rows say, every run ends |
| Script execution | `services/execution_service.py` | return code, logs, status of a `task_runs` row | subprocess, container, Kubernetes Job; ad-hoc runs | timeouts, a launcher that fails, three runners that must agree on one contract | the documented exit-code contract, every script ends |
| Release run | `run_service.py` (`start_release_run` and below) | `release_runs` row, link on `pipeline_runs` | start, run groups, wait by polling, PATCH | polling a row another thread writes, through an ORM identity map | groups in order, waits end, the release ends after its pipelines |
| Compliance and admission | `services/compliance_service.py`, `pipeline_service.py`, `release_service.py` | pipeline score and rating, rules, attachments | update scores, add and disable rules, attach and detach, check | check-then-act over several commits; rounding at rating bounds | nothing is attached that the rules denied; stored score and rating agree unless updates overlapped |
| Audit | `services/audit_service.py` | append-only `audit_events` | record | the event is a second commit | every decision has its event |
| Users, roles, authorization | `services/user_service.py`, `authz_service.py`, `routes/users.py`, `models/auth.py` | users, groups, roles, bindings | create, persona change, bind, delete, group membership, check | read, delete and insert of bindings in two requests at once, next to deletions of what they refer to | a user has the one binding of its persona; permissions are what persona and bindings say |
| Login | `routes/auth.py` | JWT | local and LDAP login | external directory | a token only for an active user |
| Pipeline definition, templates | `routes/pipelines.py`, `templates.py`, `yaml_io.py`, `services/git_service.py` | stages and tasks, a template's document, a Git branch, `definition_sha` | create, edit, copy, expand, import, export, pull, push, delete | upsert by name, then delete the rest, under rows that runs refer to; a clone and a push with others between | what was exported imports as itself once names are clean; a run keeps its stages |
| Maturity overview | `services/maturity_service.py`, `routes/maturity.py` | none of its own | score a task, pipeline, application, product, all | pipelines are listed and then loaded again one by one | nothing counted twice; hardening never costs points |
| Framework reports | `services/framework_audit_service.py`, `routes/framework_controls.py` | rows that override, disable or add controls | report on a run, edit a control, reset | definition, controls and task runs are read at different moments | what counts as met is shown, or said by joined outputs; more evidence never lowers a rating |
| ISO 27001 report | `services/iso27001_service.py` | none of its own | evaluate | counts queried one by one | what passes passed at some moment of the report, while rows are only added; an added row fails nothing |
| Products, environments, pools, plugins and their cached lists | `services/cache_service.py`, `routes/products.py`, `environments.py`, `agents.py`, `plugins.py` | rows; Redis keys with a TTL | create, update, delete, attach, seed, list | read-then-set against write-then-delete; silent Redis failures; seeding in several workers | a list is its table (of products, the first page), or behind for no longer than the TTL |
| Vault | `services/vault_service.py`, `routes/vault.py` | secrets, a key per process | create, update, reveal, delete | the fallback key differs per process and is made up at its first use | what was stored can be read back |
| Settings | `routes/settings.py`, `models/setting.py`, `app/__init__.py` | rows, a copy in each process | set, clear, load at start | the copies | a cleared key is not used |
| Properties | `services/property_service.py`, `routes/properties.py` | properties and overrides per level | set, delete, resolve one, resolve all | one query per level and name; look-up and insert; a session that keeps old rows | the most specific level wins |
| Webhooks | `routes/webhook.py`, `models/webhook.py` | webhook, delivery log | create, edit, delete, trigger | run and delivery are two commits; callers retry | every run has its delivery, but for the named ends of a call |
| Ad-hoc task runs | `routes/agents.py`, `services/execution_service.py` | `task_runs` with threads of their own | run a task | a row may join a stage that executes it too | a script runs once, its result stays unless its stage is cancelled |
| Events | `services/event_service.py` | none | publish to Kafka or NATS | fire and forget | – |
| Metrics, PDF, chat, applications, frontend, seeds, deployment | `routes/…`, `services/…`, `static/js`, `scripts`, `helm`, `k8s`, `terraform` | single rows or none | CRUD, rendering | – | – |

Interactions: a webhook, a chat tool, a route or a release run calls
`start_pipeline_run`; the executor calls the script runner, the property resolver
and the event publisher; releases call admission, which reads what the pipeline
definition and the rules hold at that moment and writes audit events; product,
environment, pool and plugin routes write the database and drop cache keys.

## 2. The modules

```
 ScriptExecution   RunRow ─── RunLifecycle ◄─ implements ─┐
        └────┬───────┘ └────────────── ReleaseRun         │
        PipelineRun ───────────────────────┼──────────────┘
         │                                 └─ ReleaseRunProofs
     RunProgress ── PipelineRunProofs
 Compliance ── Admission ── AdmissionProofs        Accounts ── AccountsProofs
 Definition ── DefinitionProofs                    Catalog ── Workers ── WorkersProofs
 Maturity, FrameworkAudit, Iso27001 ── Assessment ── AssessmentProofs
 Properties, ScriptExecution ── Triggers ── TriggersProofs
```

`MC…` modules hold values of constants for TLC and statements of the repository that
the code does not keep.

A commit of the code is one assignment to the row variables in one action; what
happens between two commits in one thread is one action with the later of them.
That is as fine as the interleaving has to be, because threads share nothing but
the database. Every action is the whole handler up to its next commit, and the
variables that are not rows are the locals of threads, which a crash loses.

### PipelineRun, with ScriptExecution and RunRow

`run`, `stage` and `task` are the rows of one pipeline run; `skipped` remembers what a
restart seeded. `pc`, `cur`, `warning` and `seen` are the executor's
(`_execute_pipeline_async`); `worker[s]`, `nxt[s]`, `failed[s]`, `warned[s]` belong to the
call `_execute_stage(s)`, inline or in a thread of its own.

| Action | Code (`run_service.py`) |
|---|---|
| `StartPipelineRun`, `RestartFromStage`, `UpdateRunStatus` | `start_pipeline_run`, `restart_from_stage`, `update_run_status` |
| `StartBatch` | 303–327: mark the batch Running, call or fan out |
| `JoinPassed`, `CancelRemaining` | 328–347: join, combine the results, cancel the rest |
| `ConcludeFailed`, `ConcludePassed`, `Announce` | 348–352, 357–360 |
| `StartTask`, `ScriptEnds`, `CancelRestOfStage`, `CloseStage`, `ReturnResults` | the loop of `_execute_stage` and what follows it |
| `StageRaises`, `ProcessDies` | an exception out of `_execute_stage`; a worker killed or recycled (`gunicorn.conf.py:36`) |

Two details decide what can be seen. The executor's last write is an UPDATE of the
columns that changed against what its session holds: `seen` is that status, and a
final status equal to it leaves the status a client wrote meanwhile (`Conclude`).
And a stage thread that raised leaves no entry in `results`, so the batch counts it
as one that neither failed nor warned (`Results`).

`ScriptExecution` maps how a script ends to a return code, for each launcher, and a
return code and `on_error` to a status.

### RunLifecycle

The abstract specification: a row, created once, written once by its executor while
that is alive, changed otherwise only by clients, and an executor that may vanish.
`PipelineRun` implements it (`row <- run`, `live <- pc in {batch, join, fail}`). `ReleaseRun` sees its pipeline
runs only as this.

### ReleaseRun

`pc`, `group`, `item` say where the release thread is, `at`, `pending` and `loaded` are its poll:
`_wait_for_pipeline_runs` reads one row after another through one SQLAlchemy session that
never commits, and the identity map of that session answers for as long as something
holds the row. With a list of one the local `pr` holds it for ever (`StatusRead`).
`StartMissing` is an id in a group that names no pipeline: `get_or_404` raises in the
thread. Deleting or replacing groups while the thread runs is left out; the thread
reads them when it begins.

### RunProgress

`completion_percentage` as a client sees it: the run, the stage runs and each stage's
task runs are loaded by queries of their own (`LoadRun`, `LoadStages`, `LoadTasks`), between
which `PipelineRun` takes steps. Weights are the lengths of the scripts; the arithmetic is
exact, with Python's rounding to even. `shown` is the last answer, so that `NeverBack` compares one
with the next; its exception, `CancelledAfterRaise`, is in section 5.

### Compliance and Admission

`Compliance` has the weighted score, the thresholds and the comparison of ratings, in
exact hundredths. `Rounded` allows either neighbour at a tie, since the code's sum is a
float. `Admission` has the attach request, step by step as it loads (`BeginAttach`, then
`Deny` or `Admit`, `ReadMembers`, `Join` or `JoinRefused`, `RecordAttached`), score updates in two steps
(`LoadPipeline`, `StoreScore`, again with an UPDATE of the changed columns), rules and `Detach`.
Percentages are any integers, since the route converts what it is sent and checks no
range (`routes/pipelines.py:152-155`). `best`, `held` and `torn` are history: the best rating a pipeline had and the
rules in force all along, since a request began, and the pipelines whose last update found the row
changed since it had loaded it. A request attaches one pair and is made once; another attempt is another
request. Reads are those of READ COMMITTED. A release has one application here.

### Accounts

`users`, `groups`, `members`, `roles`, `perms` and `binding` are the tables; `bare` is history: who has no
binding of its persona, because nobody made one or an administrator took it away. Most requests
of `routes/users.py` are one action each, with the cascades of the relationships. A change
of persona is a transaction of several statements:

| Action | Code |
|---|---|
| `BeginChange` | `get_or_404` of `update_user` (`routes/users.py:80`), the assignments that follow only mark the row |
| `FlushActive`, `GetRole`, `InsertRole` | `_ensure_persona_role` (`user_service.py:107-117`): the query flushes a changed `is_active`, then finds the role or inserts it |
| `ReadBindings` | the query at `:174`, whose flush writes the persona first and so locks the user's row |
| `CommitChange`, `Fails`, `RequestDies` | `:175-185`: deletes what was read, inserts one binding; a statement that raises; the worker's death, or PostgreSQL ending a cycle of waits |

`Writes` is what decides: an assignment of the value that the row already has is no UPDATE,
hence no lock. The model has PostgreSQL's row locks under READ COMMITTED (what an open transaction has written is
seen by no other until it commits). A binding is named after the request that inserts it,
so two of them can be told apart without inventing identifiers.
`PermissionsFor` is `authz_service.get_permissions_for_user`.

### Definition

`def[p]` is the list of a pipeline's stages, each a name, a mode, a language and its tasks, with what runs refer
to; a document (`doc`) is the same without rows, as an export, a template or a file of the Git
branch has it. Names are as they are stored: creating a stage strips them and so does every import (`Read`), while a PUT, a copy
and a template store what they get (`Stripped` maps a name to what `strip()` leaves, `Blank` is the empty one, which an import
skips). An export writes no stage language, and an import without one makes it bash (`LanguageOf`).
`Merged` is `import_pipeline`: stages and tasks are found by name (`Found`: of two
rows with one name, either may be the one in the dictionary), updated or created, and what the document does
not name is deleted. `Refused` is where a foreign key or a cascade stands against it. Pull and push are two
steps each, clone and commit, or clone and push: others push and edit between them
(`OutsiderPushes`, `BeginPull`, `FinishPull`, `BeginPush`, `FinishPush`).

### Maturity, FrameworkAudit, Iso27001 and Assessment

The first three hold the tables (dimensions, controls, automatic checks) and the
scoring of the three services as operators over what a task or run *says*: a keyword in its
text, a tag, a name. Which words are keywords is abstracted. A framework report looks for them in the output of all task runs
joined, and shows the task runs whose own output has them: `said[t]` is what the output of one says, `spread` what
only the outputs of several do, where one ends and the next begins. Points are tenths, and where the code's floating
point decides a tie either neighbour is possible (`Nearest`). `Assessment` has the rows these read and
the requests that change them, and three reports whose queries other requests come between:

| Actions | Code |
|---|---|
| `BeginOverview`, `ListApplication`, `ScoreNext`, `AnswerOverview` | `get_overview`, `score_product`, `score_application`, `score_pipeline` |
| `BeginReport`, `ReadDefinition`, `ReadControls` | `build_isae_report`, `build_acf_report` |
| `BeginIso`, `CountNext` | `_build_context`, `evaluate_iso27001`; `passed` and `grown` are history: what passed when the report began, and whether rows have only been added since |
| `EditDefinition`, `EditRun`, `EditControls`, `EditAccess`, `EditRest` | the routes that write those tables |

### Catalog and Workers

`Catalog` has four tables in one form, with `attached` between two of them, `cache` and `redis`. A list
request is `LookUp`, `Load` (with the rows it seeds) and `Store`; a writer is a commit and `Invalidate`; between
them come others, Redis failing and returning, and `Tick`. The list of products is the first page, by name (`OnPage`; `PageSize`
is 50 in the code), the others are whole. `lapse` is history: the list in the
cache may be behind (it was read before a commit, or an invalidation did not arrive).

`Workers` adds the processes: `fernet[w]` and `config[w]` are module and application state of the process,
shared by its threads. `GetFernet` and `SetKey` are the two halves of `_get_fernet`, between which a second thread
sees no key. `Recycle` is `max_requests` of gunicorn: key, configuration and open requests go. `raced` and `wiped` are history.

### Properties and Triggers

`Properties` has the rows of seven levels, their edits in two steps (`BeginEdit` looks up, `CommitEdit` inserts,
updates the columns that differ, or deletes; a statement that hits no row or an existing key fails) and
`resolve_all` query by query: `Gather` once per level, then `ReadLevel` once per level and name. `held` are the rows
that a loop variable still holds, which the session therefore gives back with their old values (`Queried`).

`Triggers` has a webhook call as it loads (`Trigger`), commits the run (`CommitRun`), starts its
executor (`StartExecutor`, `StartFails`) and records the delivery (`Deliver`), next to edits of the webhook; task
runs on demand with their threads (`RunTask`, `StartThread`, `WorkerRuns`, `WorkerEnds`); and as much of
`_execute_stage` as concerns task runs: the rows it takes are those of the moment the stage starts. `Die` takes any
part of what is open with it. A run stands for one of its stages; what the others do to it is that its call raises
(`StageRaises`: the stage stays Running) and that the executor, after another batch failed, cancels its rows, those of a
raised stage too and whatever they hold (`CancelStage`, `run_service.py:334-347`). A retry of the caller is another request.

## 3. What the runs check

| Run | Checks | What it shows |
|---|---|---|
| `pipeline_run` | `VerdictFromTasks`, `QuietWhenFinished`, `RowsSettle`, `Termination` | With no client writes and no faults, the verdict through all the local flags is the one of the task rows, nothing is left open, no outcome is rewritten, and the run ends |
| `pipeline_run_disturbed` | `Inv`, `BatchOrder`, `TaskOrder`, `StageFailure`, `ImplementsLifecycle` | Order of stages and tasks, and the outside view, under restarts, PATCHes, raising threads and dying processes |
| `release_run_disturbed` | `Inv`, `GroupOrder`, `ReleaseCovers` | Reading old rows one at a time never lets the thread past a running pipeline; a release that gets to its end has started, tied and outlived everything |
| `release_run_ends` | `ReleaseEnds` | Where the two waits that hang are avoided, a release ends |
| `run_progress` | `ProgressTypeOK`, `HundredMeansFinal`, `NeverBack` | Answers mixed of several moments go back in one case only, and 100 is never shown early |
| `admission` | `Inv`, `AuditTrail`, `RegularAdmission`, `RatingNearScore` | No rule in force all along is passed over; every row has its event or a dead request; rating fits score unless the last update was overtaken |
| `accounts` | `Inv`, `PersonaBound`, `RightsAsEntitled`, `ScopedKept` | Two overlapping changes of a persona, with everything else between their steps, leave one binding, that of the persona in the column; permissions follow; no row refers to a deleted one |
| `definition` | `TypeOK`, `RoundTrip`, `RunsKeepStages`, `PullReplaces` | Importing what was exported changes nothing but a missing language once names are clean, and makes them so; no request takes a stage from under a run; a pull replaces even what was edited after the clone |
| `assessment` | `AssessmentTypeOK`, `ReportsSound`, `HardeningHelps`, `EvidenceHelps`, `PassStays` | Reports mixed of several moments count nothing twice, claim nothing that is neither shown nor said by joined outputs, and pass nothing that did not pass in their time while rows are only added; no score, confidence, rating or check gets worse by doing more |
| `workers` | `WorkersTypeOK`, `CacheCoherent`, `SecretKept`, `ClearForgets`, `StaleEnds` | When exactly a cached list may be behind, and that it does not stay so; which secrets are readable where; what a cleared key leaves |
| `triggers` | `ResolvedNearby`, `StartsTold` | A resolution overlapped by one change of a name gives the value before or after it; runs have their deliveries, scripts run once and keep their status, but for the named cases |
| `release_warning_wait` (violation) | `WarningEndsWait` | `models/run.py:115` has Warning a terminal outcome; a run that ended with a warning is waited for without end |

**Bounds.** Four stages of up to two tasks hold a sequential stage before and after a
parallel batch of two, a stage of two tasks in the batch and after it, and all three
error policies; with two stages in the batch every order of ends is there, and
`SameBatch`, `CancelRemaining` and the joins treat a third one no differently. The releases have a parallel
group of two, a sequential one of two, an empty one and one of one. PATCH is limited
to two statuses, one terminal, one not; there is no bound on how often. The polled
pipeline has an empty stage, an empty script and two stages that may stop, one of them in the batch, so that a
stage that raised is cancelled after a failure behind it. Admission has
two requests for one pair (the race for the row), two updaters that may overlap, two rules of one
minimum over three scopes, and inputs on a threshold, negative and beyond 100; requests, updaters and rules are
symmetric. The accounts have one user, two changes of its persona, two personas, a custom role, a group,
a product and one binding made by hand, in a database where deleted users have left the roles of both
personas behind (otherwise the second change would only race for the role's row), which is every kind of row a second time where two matter; a
second user adds no conflict but a cycle of waits, whose end is `RequestDies` already, and the proofs have any number. Nothing is cut off by a
constraint: the counters of these models
are bounded by the code's own loops.

The newer modules number their requests, and `MaxRequests`, `MaxEdits`, `MaxStages`, `MaxTasks` and `MaxCommits` bound them by
guards. Three requests on two pipelines of up to two stages, besides those for Git, give a stage of the same name twice, with
and without a blank at its end, a run between two edits, and
a pull around an edit; a page of one product leaves the second off the list. Two edits around a report are the least that can move a row from what was
read to what is to be
read; tasks are of five looks, one for each way a task is recognised, the run's pipeline has two tasks, so that outputs are joined, and the controls
are one of each table and one of neither. Three requests
are the least with a reader, a writer and a second list (a stale list), two secrets' worth of keys in one process, and a
webhook that is created, called and edited or joined by a task run; two rows of a name may
be there from before, since a resolution over one row is decided by it. Two workers are enough for each to hold what the other has replaced. Deadlock
checking is off because all of these
systems stop when their requests are done.

**Fairness.** `PipelineRun` assumes weak fairness of the executor and of each stage call:
the threads block only on `join` and on a script, and each launcher ends its script by a
timeout. `ReleaseRun` assumes it of the release thread, which sleeps but never blocks, and
of the end of its pipeline runs, which is `Termination` of `PipelineRun`. Nobody is assumed to send
a request, and no property about liveness is checked with faults: the code has no
recovery. `Workers` assumes it of `Tick` alone: time passes, and a list with a TTL expires in a Redis that is out of
reach as well. The other modules have no fairness and no liveness: a request may stop anywhere.

## 4. What is proved

TLAPS checks, for all values of the constants under the named assumptions:

| Theorem | Says |
|---|---|
| `PipelineRunProofs!Invariance` | `Inv` for every shape, restart, PATCH and fault |
| `BatchOrderHolds`, `TaskOrderHolds`, `StageFailureHolds` | the three order properties |
| `LifecycleImplemented` | `Spec => Lifecycle!Spec`: initial states to initial states, every step to a step or a stutter |
| `VerdictHolds` | `VerdictFromTasks`, restarts included, when nothing raises or dies and no client writes a status |
| `QuietHolds` | `QuietWhenFinished`, with any PATCHes and restarts, when nothing raises or dies |
| `RowsSettleHolds` | `RowsSettle`, with any PATCHes, when nothing raises or dies and the run is no restart |
| `ProgressTypeCorrect` | a percentage is one, for any weights and whatever happens to the run |
| `HundredHolds` | `HundredMeansFinal`, with faults and restarts, when no client writes a status |
| `NeverGoesBack` | `NeverBack`, with faults, when no client writes a status or restarts |
| `ReleaseRunProofs!ReleaseInvariance` | `Inv`, when PATCHes of pipeline runs are terminal |
| `GroupOrderHolds`, `ReleaseCoversHolds` | the release's order and completeness |
| `AdmissionProofs!AdmissionInvariance` | `Inv` for any number of requests, rules, updaters |
| `AuditTrailHolds`, `RegularAdmissionHolds` | audit and admission |
| `RatingNearScoreHolds` | rating and score, for any number of overlapping updates of any percentages, of each pipeline whose last update was not overtaken |
| `AccountsProofs!AccountsInvariance` | `Inv`: references and locks, for any number of everything |
| `ScopedKeptHolds` | a late commit takes only its own user's organization bindings |
| `PersonaBoundHolds`, `RightsAsEntitledHolds` | one binding per persona, and the permissions, when no client sends the persona a user has |
| `WorkersProofs!WorkersTypeCorrect`, `CacheIsCoherent` | tables and lists, for any number of processes and requests |
| `SecretsAreKept`, `ClearingForgets` | which secrets stay readable, and that a cleared key is forgotten where it was cleared |
| `TriggersProofs!StartsAreTold` | `StartsTold`, for any number of webhooks, calls, runs and task runs, whatever dies, raises or is cancelled |
| `ResolutionIsNear` | `ResolvedNearby`, for any names and values and any rows from before |
| `DefinitionProofs!DefinitionTypeCorrect` | definitions, documents and commits of any length stay well-formed |
| `RoundTrips` | `RoundTrip`, for any names: a round changes nothing but a missing language and is not refused once names are clean, and they are clean after one |
| `RunsKeepTheirStages`, `PullLeavesTheDocument` | no request takes a stage from under a run; a pull leaves what its commit says |
| `AssessmentProofs!AssessmentTypeCorrect` | rows of runs, overrides and bindings, for any pipelines, tasks, users and edits |
| `ReportsAreSound` | `ReportsSound`: reports whose rows change while they are made |
| `HardeningNeverHurts` | points, badges, grade and suggestions of hardened pipelines |
| `EvidenceNeverHurts`, `PassesStay` | confidences, effectiveness and rating of both frameworks; the ISO report's passes |

None of the properties is inductive alone. `BatchOrder` needs to know that the stages of
the batches already joined ended well or raised, and that those ahead are untouched;
`TaskOrder` and `StageFailure` need what `worker[s]` and `nxt[s]` say about each task row. These facts are
the parts of `Inv` in `PipelineRun`. `VerdictFromTasks` adds that `failed[s]` and `warned[s]` are what the task rows of `s` say
(`Flags`), `warning` what the stages before `cur` say (`Heard`), and that the last commit finds the row Running
and so writes both columns (`Concludes`). `QuietWhenFinished` needs of these the flags alone, since an executor never looks at
the status of the row. The verdict's conditions are those without which it is false: a PATCH overwrites a
verdict, and a thread that raised counts as one that passed. `HundredMeansFinal` needs only
that what a poll has loaded of the row is not ahead of it. `GroupOrder` follows from `SlotInv`, which divides the slots into
those the thread is past, at and ahead of, and `PollInv`, which says what an old reading
is still worth: a row once read as terminal is still final, provided that clients
write nothing but terminal statuses into pipeline runs. Without that provision the
property is false, so the theorem carries it as an assumption on `PatchStatuses`.
`RegularAdmission` follows from `KnowledgeInv`: a request's copy of the rating is no better than the best
one since it began, and no rule of `held` is violated once it is admitted. `RatingNearScore` has
no condition on who updates: an update that finds the row as it had loaded it leaves both columns as it computed them, for a column it does
not name has that value already, and one that does not makes its pipeline `torn`. What overlapping updates can leave in one is in section 5.
`PersonaBound` follows from `Seen`: a request about to commit has an UPDATE, hence its user's lock since before
it read the bindings, hence no other change of that user has committed in between and
what it deletes is all there is of the kind; `Used` has each binding inserted once. The
argument needs the UPDATE, so the theorem assumes `~Resend`: without it the property is
false (section 5). `RightsAsEntitled` is then set algebra over `Matching`.

`CacheCoherent` follows from `Listed`: a list about to be stored, unless a change of its table was committed since it was
read, is the table. `SecretKept` needs `Vaulted`: a value about to be committed is encrypted with its process's
key, and in a process whose first uses did not race at most one request holds a key that nobody has
yet. `ClearForgets` needs that a process without overlap that has cleared its key commits only clears.
`StartsTold` follows from facts about rows and requests: a request knows the run it made and makes no second (`OwnRun`);
a delivery is the last step of its request, so that a started run has none yet and gets one (`Recorded`); what a
stage still has to do is a row of its own run that was there when it started (`Taken`), and a row of a stage that is under way is either that, or
final (`Staged`); the rows of a cancelled run that were there when it was cancelled are final or in the hands of a thread of their own; a task run
waits for one request alone (`Waited`).

*Progress.* A poll adds up what it has loaded of the stages before `atStage`, so `ProgressInv` bounds the sum
by the weights of those stages (`Span`); `NeverGoesBack` needs a bound from below too. `Tracks` says that what a poll has
counted is no more than the same rows count for now, and that with the stages still to be read it comes to no less than was shown last;
`Unreached` and `RowAhead` supply that rows do not lose work and that the run's row is Running while its executor lives.
What remains is a cancelled stage with work in it, which is
`CancelledAfterRaise`. The conditions are those without which it is false: a restart has its own
rows, and a PATCH may take a run out of a final status.

*Resolution.* `ResolutionInv` keeps, as history, the table as it was when the resolution began (`first`). `Near` says per name
that the table differs from it by one change at most; that what was read and is held is of one of the
two; and that the levels already read had, in one of the two tables, no row that decides. An answer is then the chain of one of them.

*Definitions.* Stages and tasks of a merge come in the document's order, each the row found by name or a new one. A pull is a merge of what the commit holds,
so `PullReplaces` is about `Merged` alone, whatever the edits between clone and commit did; `RunsKeepStages` needs that
`Refused` has looked at the rows the merge would delete. `RoundTrip` has to show that in a definition with clean names each stage is found by
its own name, so that the merge has every row in the place it had; and that any merge of what was read has clean names, since a
row enters it only under a name that was stripped, is not blank and was taken out before.

*Reports.* `RowsInv` gives types and the domains of the tables. `ClaimsInv` has a framework report count what it
shows or what joined outputs say; the last query reads both at once, so that it holds whatever was edited before it. `IsoInv` has the counts of an ISO report, while rows
are only added, be no more than those of now (`Grown`) and pass what passed when it began (`passed`); that more rows take no pass away then gives both
halves of `PassesOfItsTime`. `OverviewInv` has the overview's
locals typed (`Held`), and `Turns`: a pipeline nobody moved is counted once if its application's turn has come
and it is no longer listed, and not at all otherwise. `HardeningNeverHurts` rests on `ScoreGrows`. At most 240 points are possible,
so that a point is at least four tenths: rounding never reverses two scores, and only all points are rounded to
1000. `EvidenceNeverHurts` compares confidences control by control
(`Better`) and then their sums, `PassesStay` compares the two contexts count by count (`Grown`).

*Sums and least elements.* `NeverBack`, `HardeningHelps`, `EvidenceHelps` and the overview are about sums over sets of any size.
The library's induction theorems take an operator as parameter, which none of the provers can instantiate; the induction
is made by hand instead: a property of all finite sets (or of all indices) that fails has a least counterexample, by the
well-foundedness of strict inclusion (or of `<`), and that counterexample less one element is smaller. Recursive functions and
`FoldFunction` of the community modules are unfolded once in that step. `PipelineRunProofs` and `AssessmentProofs` each have the lemmas
they need of sums: two components cannot be extended by one module, as both name their parts `Init`, `Next` and `Spec`.

The constants' assumptions (`ShapeAssumption`, `ScenarioAssumption`, `GroupsAssumption`, `StartAssumption`, …) are the types of
the columns, that stages are numbered in the order the code sorts them, and that the sets of a database (pipelines, tasks,
users, controls) are finite.

Every property that a passing run checks has a theorem, but for the three of liveness, `Termination`, `ReleaseEnds` and
`StaleEnds`: fairness and ENABLED are out of this prover's reach, and they are only model-checked. The theorems with conditions
(`VerdictHolds`, `QuietHolds`, `RowsSettleHolds`, `HundredHolds`, `NeverGoesBack`, `ReleaseInvariance`, `PersonaBoundHolds`) are false
without them, and TLC gives the counterexample.

## 5. Seen on the way, without a run

*Runs, releases and accounts* (the first six by TLC, under configurations no longer kept):

- `run_service.py:369`: "re-executes from the given stage onwards"; the stages before it, seeded as Succeeded, run again. The stage run to
  restart from is not checked to belong to the run (:376).
- `run_service.py:335`: "Cancel all remaining stage-runs not yet started". A stage whose call raised stays Running, and is cancelled when a
  later batch fails, with all its tasks, those that succeeded too; "Cancelled" is "never ran" for the percentage
  (`models/run.py:112`), which goes back (`CancelledAfterRaise`).
- `run_service.py:564`: "Block until all given pipeline runs reach a terminal status"; the wait for one run that was still running at
  the first poll never ends, because the session holds its row.
- `compliance_service.py:46` has score and rating as one result; two overlapping updates leave 50 points rated Gold (`torn`).
- `routes/pipelines.py:152-155` takes any float for a percentage; NaN, which `float("nan")` accepts, compares as below every threshold.
- `user_service.py:165`: "Change a user's persona and replace their organisation-scope binding"; a change overlapped by a request that
  sends the old persona again leaves the bindings of both.
- `git_service.py:133` ignores the result of the push: when somebody pushed since the clone, the remote rejects it, and
  `definition_sha`, "last synced Git commit" (`models/pipeline.py:88`), names a commit that no repository has.
- A release run is Succeeded whatever its pipeline runs ended with (`run_service.py:557`), over a status PATCHed meanwhile.
- `run_service.py:32` says terminal statuses trigger `finished_at`; a run of a pipeline without
  stages is created Succeeded without it (:52), and an executor's Warning sets it.
- `remove_application_group` (`routes/releases.py:185`) names its parameter `_product_id`; the route passes `product_id`, so every call
  is a TypeError and groups can only be replaced.
- The comment "run each pipeline one at a time" (`run_service.py:546`) ceases to hold once a client PATCHes
  Cancelled into a running pipeline run: its executor goes on, the release starts the next.
- `completion_percentage` may give 100 for a Failed run whose last task has weight 1 of many (:172).
- A Kubernetes Job that exits 1 is recorded with code 2 (`execution_service.py:128`), so `on_error = warn` never
  gives a Warning there, as the contract at the head of that file has it.
- `docs/technical-documentation.md:90` has mutations emit audit events; detaching, rules and score updates do not.
- Release groups accept pipelines of other products, and so does attaching. `add_application_group` asks no admission
  rule, and a release run executes exactly the groups, never the pipelines attached to it; line 45 of the technical
  documentation has releases "gate promotion via compliance admission rules".
- `is_required`, documented as "Fail stage on task failure" (`docs/technical-documentation.md:315`), is read by the scores
  and by no execution.
- `authz_service.py:39` compares `expires_at`, which its column returns without a zone, with an aware time: a TypeError
  for every binding with an expiry, past or future (`Raises`).
- `authz_service.py:12` names a hierarchy organization > product > environment; `_expand_scope` adds the organization and nothing between.
- `delete_role` says "Fails if active bindings reference it" (`routes/users.py:398`); the relationship cascades, the
  bindings go.
- `models/auth.py:27` has the persona assign "a default role template applied at creation"; the seeded administrator
  and the users a directory login makes get a persona and no binding.
- Personas are not validated and their role's id is lower-cased: two spellings share an id and the permissions of whichever came first; the
  import form's example persona "Developer" is not one of the list and gets `product.view` alone.
- `bulk_import_users` goes on after an exception without a rollback (`routes/users.py:198`).

*Definitions:*

- `copy_pipeline` and the expansion of a template hand over tasks and modes that `create_pipeline` drops; the docstring says "with all its
  stages and tasks" (`routes/pipelines.py:89`).
- An import says that stages and tasks not listed "are deleted" (`yaml_io.py:232`); PostgreSQL refuses the whole import when one of them has run, and
  SQLite, which does not enforce the keys, leaves rows that refer to nothing: the executor then raises on `.order` (`run_service.py:286`).
- A PUT of a stage or a task stores its name unstripped (`routes/pipelines.py:202-204`, `:285-287`), as do `create_pipeline`, copies and templates; the
  import looks for the stripped one. A stage called `build ` and a blank is therefore another row after it was exported and imported: the old one is
  deleted, or the whole import refused when it has tasks or has run. A blank name of a task is stored too, and dropped by an import. An export writes no
  stage language, and an import makes a missing one bash.
- Two stages of one name fold into one at an import, and two overlapping imports may make them (`Definition` has an import as one step).
- A pipeline with a webhook cannot be deleted: the relationship nulls `pipeline_id`, which may not be null.

*Reports:*

- An enabled custom control of the ACF framework makes every ACF report raise KeyError (`framework_audit_service.py:938`: a custom control has no
  `domain`), against `routes/framework_controls.py:5`. TLC finds it as the outcome `raised` of `ReadControls`.
- The same control id in both frameworks is an IntegrityError, since the id alone is the key.
- `top_gaps` of the maturity score counts dimensions that do not apply as 0, against the head of the file (:18-22); the head's "always grant at least
  score=1" is 2 in the code; the next milestone prefers a begun dimension to a heavier one that is absent.
- A report on a past run judges it by the pipeline's present definition; a tag confirms a control whatever became of its task; only
  Failed runs are capped, Cancelled and Running ones are not. Weights play no part in the overall rating.
- Keywords are looked for in all the outputs joined (`framework_audit_service.py:486-494`): one that begins at the end of an output and ends at the
  beginning of the next confirms a control for which no task run is shown.
- The ISO report's counts are of several moments: when rows are taken away and others added meanwhile, a control may pass that passed at none of them.
- `_check_webhook_auth` is mapped to no control; `_check_pipeline_compliance` is said to be for 8.25 and 8.29 and mapped to 5.36 and 8.25; "security scan
  pipeline or task" looks at names of pipelines alone. The ISO score is not monotone: what is no longer manual may fail.

*Lists, processes and triggers:*

- The cached answer of `GET /products` is a bare list, the other one has `items` and `meta` with at most 50 (`routes/products.py:24-44`). The cached
  one is that page too, so products beyond it are on no list without parameters.
- The chat tool `create_product` (`chat_service.py:571-586`) passes `slug`, which `models/product.py` does not have: the constructor raises a TypeError, and
  nothing is written. Were the column added, its write would not drop the list of products.
- Imports of environments and pools and the configurations of plugins do not drop the lists, against `cache_service.py:12-13`.
- Product names "must be unique" (`product_service.py:19`) and are not; pools may be seeded twice, plugins not, so their second seeding is a 500.
- `vault_service.py:6-7` has secrets lost at a restart without VAULT_KEY: with several workers they are unreadable at once in all but one,
  and two first uses in one worker make two keys of which one is lost with what it encrypted.
- Clearing the API key leaves it in the configuration of the other workers; it does nothing without a row.
- Two overlapping edits of a property may leave a value of the one with the type of the other, and an edit that sends what it had looked up
  writes nothing over a change made meanwhile. With two changes during a resolution, it may give a value that the chain never had. A property without a
  value hides the levels behind it.
- A webhook call that fails after the run was committed, or whose process dies, leaves a run that no delivery names; a message longer than
  the status column makes the delivery fail on PostgreSQL.
- A task run put into a parallel stage whose thread raised succeeds and is overwritten with Cancelled when a later batch fails (`run_service.py:334-347`): the
  stage is still Running and all its rows are cancelled, whatever they hold.
- A webhook call has nothing by which a retry could be known again: a caller that asks twice starts two runs.
- A task run that names a stage run that has not started is executed twice, and cancelled with the stage while its own thread goes on.

## 6. What is left out

Data that no property tells apart: logs, scripts, time stamps other than whether
`finished_at` is set, the context variables, event payloads, the wording of reports, access lists of secrets.
Definitions are fixed while a run executes in `PipelineRun`: the code reads `on_error`, script and time-out when it gets to a
task; `Definition` has the edits, and keeps of runs only what they refer to. Commits are atomic and serialised
by the database. Percentages that are not finite are left out of `Admission`, and so are application groups, which no
admission rule looks at; `ReleaseRun` executes them. Execution modes of a stage other than the two are left out of `Definition`. Tasks are not deleted
in `Triggers`, so that its threads always find their row.

Not modelled: metrics, PDF and the frontend only read and render; the chat agent is a loop around an external language
model whose tools call services that are modelled; seeds and scripts run once on an empty database; Swagger, pages and health
are constant documents; deployment files only say how many workers share the database. The size of the connection pool
(`config.py:27`) would need a model of threads that hold one connection and ask for another. The components
table of `PROJECT.json` says the same part by part.

## 7. Plan

Done: run execution, the release above it, its progress, admission, accounts, definitions, reports, lists, vault, settings,
properties, webhooks and task runs on demand, with a theorem for each property that is not about liveness. Next:

1. **Weaker conditions**: `NeverGoesBack` for a run that is a restart, and `RowsSettleHolds` with raising threads and the exception
   named, as `NeverBack` has it.
2. **Refinement**: what a release sees of a pipeline run is `RunLifecycle`; a theorem that the pair of them, composed, keeps
   `ReleaseCovers`.
3. **ConnectionPool**: threads that hold a connection while they wait for others that need one.
