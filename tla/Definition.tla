------------------------------ MODULE Definition ------------------------------
(***************************************************************************)
(* Pipeline definitions: stages and their tasks, as they are edited,       *)
(* copied, saved as templates, exported, imported and synchronised with a  *)
(* Git repository (routes/pipelines.py, templates.py, yaml_io.py and       *)
(* services/git_service.py), next to the runs whose rows refer to them.    *)
(*                                                                         *)
(* A definition is a sequence of stages, each with its sequence of tasks:  *)
(* the order numbers are the positions.  The database is PostgreSQL: a     *)
(* statement that would leave a row referring to a deleted one raises, the *)
(* request rolls back, and nothing happens.                                *)
(***************************************************************************)
EXTENDS Integers, SequencesExt

CONSTANTS
  Pipelines,
  Edited,        \* bound: the pipelines that are edited, imported, synchronised and run
  Names,         \* names of stages, as clients send them
  TaskNames,
  Stripped,      \* name.strip()
  Blank,         \* the empty name
  Languages,     \* of the scripts of stages
  Null,
  Documents,     \* what clients and other users of the repository write
  MaxRequests,   \* bound on the requests of clients other than for Git
  MaxStages,     \* bound on the stages of a pipeline made by single requests
  MaxTasks,      \* bound on the tasks of such a stage
  MaxCommits,    \* bound on the commits of the Git branch
  Syncs,         \* git pull and git push requests, each made at most once
  Unset          \* a key that a document does not have

Modes == {"sequential", "parallel"}

\* "extra" stands for what no YAML file carries: whether a task is required, its
\* type, its description.  "ran": a row of some run refers to this one.
Task  == [name : TaskNames, extra : BOOLEAN, ran : BOOLEAN]
Stage == [name : Names, mode : Modes, language : Languages \cup {Null}, ran : BOOLEAN, tasks : Seq(Task)]

\* In a document a stage is a record with mode and language possibly unset and
\* tasks with a name and extra.
TaskSpec  == [name : TaskNames, extra : BOOLEAN]
StageSpec == [name : Names, mode : Modes \cup {Unset}, language : Languages \cup {Null, Unset}, tasks : Seq(TaskSpec)]

ASSUME DefinitionAssumption ==
  /\ Edited \subseteq Pipelines
  /\ Unset \notin Modes /\ Unset \notin Languages \cup {Null} /\ "bash" \in Languages
  /\ \A n \in Names : Stripped[n] \in Names /\ Stripped[Stripped[n]] = Stripped[n]
  /\ \A n \in TaskNames : Stripped[n] \in TaskNames /\ Stripped[Stripped[n]] = Stripped[n]
  /\ Documents \subseteq Seq(StageSpec)
  /\ MaxStages \in Nat /\ MaxTasks \in Nat /\ MaxCommits \in Nat /\ MaxRequests \in Nat

VARIABLES
  status,     \* status[p] \in {"absent", "present", "deleted"}
  def,        \* def[p]: the stages of p
  sha,        \* sha[p]: definition_sha, a commit made by now, 0 when there is none
  template,   \* definition_json of the one template, Unset when there is none
  commits,    \* the documents of all commits ever made, rejected ones included
  branch,     \* the commits that are in the branch of the repository
  sync,       \* the locals of git requests
  requests    \* bound counter: requests made

pipelines == <<status, def, sha>>
git       == <<commits, branch>>
vars      == <<pipelines, template, git, sync, requests>>

-----------------------------------------------------------------------------
(* Documents.                                                              *)

Named(rows, n) == {i \in DOMAIN rows : rows[i].name = n}

\* query.first() has no ORDER BY: the row may be any, here the lowest or the
\* highest.  Within one import it is the same one for the same name.
Found(rows, n, last) ==
  LET S == Named(rows, n) IN IF last THEN Max(S) ELSE Min(S)

\* sorted(stages) with all the keys of the template and of the copy: the mode is not one.
Saved(d) ==
  [i \in DOMAIN d |->
    [name |-> d[i].name, mode |-> Unset, language |-> d[i].language,
     tasks |-> [k \in DOMAIN d[i].tasks |->
                 [name |-> d[i].tasks[k].name, extra |-> d[i].tasks[k].extra]]]]

\* export_pipeline writes no mode and no language, git_push_pipeline does; neither writes extra.
Written(d, modes) ==
  [i \in DOMAIN d |->
    [name |-> d[i].name, mode |-> IF modes THEN d[i].mode ELSE Unset, language |-> IF modes THEN d[i].language ELSE Unset,
     tasks |-> [k \in DOMAIN d[i].tasks |-> [name |-> d[i].tasks[k].name, extra |-> FALSE]]]]

\* What an import or a pull reads: names are stripped (a blank one is skipped below).
ReadTasks(specs) == [k \in DOMAIN specs |-> [specs[k] EXCEPT !.name = Stripped[specs[k].name]]]

Read(doc) ==
  [i \in DOMAIN doc |->
    [doc[i] EXCEPT !.name = Stripped[doc[i].name], !.tasks = ReadTasks(doc[i].tasks)]]

\* create_pipeline: the stages of the document, their names as they are; its tasks are dropped.
Created(doc) ==
  [i \in DOMAIN doc |->
    [name |-> doc[i].name, mode |-> IF doc[i].mode = Unset THEN "sequential" ELSE doc[i].mode,
     language |-> IF doc[i].language = Unset THEN Null ELSE doc[i].language,
     ran |-> FALSE, tasks |-> <<>>]]

Without(rows, n) == IF Named(rows, n) = {} THEN rows ELSE RemoveAt(rows, Max(Named(rows, n)))

\* A task of a document updates the task of its name or makes one.
WithTask(kept, old, s, last) ==
  LET row == CASE Named(kept, s.name) # {} -> kept[Found(kept, s.name, last)]
               [] Named(kept, s.name) = {} /\ Named(old, s.name) # {} -> old[Found(old, s.name, last)]
               [] OTHER -> [name |-> s.name, extra |-> FALSE, ran |-> FALSE]
  IN  IF s.name = Blank THEN kept ELSE Append(Without(kept, s.name), row)

\* Tasks of a document into the tasks of a stage, one after the other; the others are deleted.
MergedTasks(old, specs, last) ==
  LET kept[i \in 0..Len(specs)] == IF i = 0 THEN <<>> ELSE WithTask(kept[i - 1], old, specs[i], last)
  IN  kept[Len(specs)]

\* (Mutant of ModeOf: an absent key resets the mode.)
ModeReset(old, spec) == IF spec.mode = Unset THEN "sequential" ELSE spec.mode

ModeOf(old, spec) == IF spec.mode = Unset THEN old.mode ELSE spec.mode

\* An absent key keeps the language; where there was none the script is bash.
LanguageOf(old, spec) ==
  IF spec.language # Unset THEN spec.language
  ELSE IF old.language = Null THEN "bash" ELSE old.language

\* The same for the stages of a pipeline.
WithStage(kept, d, s, last) ==
  LET old == CASE Named(kept, s.name) # {} -> kept[Found(kept, s.name, last)]
               [] Named(kept, s.name) = {} /\ Named(d, s.name) # {} -> d[Found(d, s.name, last)]
               [] OTHER -> [name |-> s.name, mode |-> "sequential", language |-> Null, ran |-> FALSE, tasks |-> <<>>]
  IN  IF s.name = Blank THEN kept
      ELSE Append(Without(kept, s.name),
             [old EXCEPT !.mode = ModeOf(old, s), !.language = LanguageOf(old, s),
                         !.tasks = MergedTasks(old.tasks, s.tasks, last)])

\* (Mutant of Merged: the stages that the document lacks stay.)
MergedKeepingOthers(d, doc, last) == FoldLeft(LAMBDA kept, s : WithStage(kept, kept, s, last), d, doc)

\* doc has been read.
Merged(d, doc, last) ==
  LET kept[i \in 0..Len(doc)] == IF i = 0 THEN <<>> ELSE WithStage(kept[i - 1], d, doc[i], last)
  IN  kept[Len(doc)]

RanTasks(stage) == Cardinality({k \in DOMAIN stage.tasks : stage.tasks[k].ran})

\* The bulk deletes of an import bypass the cascades: they raise when a run
\* refers to a task or a stage, or a task to its stage.
Refused(d, doc, last) ==
  LET new == Merged(d, doc, last)
      kept == {Found(d, d[i].name, last) : i \in {j \in DOMAIN d : Named(new, d[j].name) # {}}}
  IN  \E i \in DOMAIN d :
        IF i \in kept THEN RanTasks(new[Found(new, d[i].name, last)]) < RanTasks(d[i])
        ELSE d[i].ran \/ d[i].tasks # <<>>

-----------------------------------------------------------------------------
NoSync == [at |-> "idle", pipeline |-> Unset, doc |-> <<>>, head |-> 0]

Init ==
  /\ status = [p \in Pipelines |-> "absent"]
  /\ def = [p \in Pipelines |-> <<>>]
  /\ sha = [p \in Pipelines |-> 0]
  /\ template = Unset
  /\ commits = <<>> /\ branch = {}
  /\ sync = [q \in Syncs |-> NoSync]
  /\ requests = 0

Present(p) == status[p] = "present"

Create(p, doc) ==
  /\ status[p] = "absent"
  /\ status' = [status EXCEPT ![p] = "present"]
  /\ def' = [def EXCEPT ![p] = Created(doc)]
  /\ UNCHANGED <<sha, template, git, sync>>

CreatePipeline(p) == \E doc \in Documents : Create(p, doc)

\* The copy has the stages' names and languages; tasks and modes are lost on the way.
CopyPipeline(src, p) == Present(src) /\ Create(p, Saved(def[src]))

CreatePipelineFromTemplate(p) == template # Unset /\ Create(p, template)

\* (Mutant of DeletePipeline: the stages stay.)
DeletePipelineOnly(p) ==
  /\ Present(p)
  /\ status' = [status EXCEPT ![p] = "deleted"]
  /\ UNCHANGED <<def, sha, template, git, sync>>

\* The stages, the runs and their rows go with it.
DeletePipeline(p) ==
  /\ Present(p)
  /\ status' = [status EXCEPT ![p] = "deleted"]
  /\ def' = [def EXCEPT ![p] = <<>>]
  /\ sha' = [sha EXCEPT ![p] = 0]
  /\ UNCHANGED <<template, git, sync>>

\* Every field may be sent, definition_sha among them: here a commit of the branch.
UpdatePipeline(p) ==
  /\ Present(p)
  /\ \E c \in branch \cup {0} : sha' = [sha EXCEPT ![p] = c]
  /\ UNCHANGED <<status, def, template, git, sync>>

\* create_template, update_template and import_template_yaml store what they get.
StoreTemplate(doc) ==
  /\ template' = doc
  /\ UNCHANGED <<pipelines, git, sync>>

TemplateFromPipeline(p) == Present(p) /\ StoreTemplate(Saved(def[p]))

DeleteTemplate == template # Unset /\ StoreTemplate(Unset)

-----------------------------------------------------------------------------
(* Single edits.                                                           *)

Store(p, d) ==
  /\ Present(p)
  /\ def' = [def EXCEPT ![p] = d]
  /\ UNCHANGED <<status, sha, template, git, sync>>

\* The name is stripped, and refused if nothing is left.
CreateStage(p, n, mode, language, i) ==
  /\ Len(def[p]) < MaxStages /\ i \in 1..(Len(def[p]) + 1) /\ Stripped[n] # Blank
  /\ Store(p, InsertAt(def[p], i,
       [name |-> Stripped[n], mode |-> mode, language |-> language, ran |-> FALSE, tasks |-> <<>>]))

\* A new name, mode, language or place.  The name is stored as it is; an empty one is NULL, which
\* the table refuses.
UpdateStage(p, i, n, mode, language, j) ==
  /\ {i, j} \subseteq DOMAIN def[p] /\ n # Blank
  /\ Store(p, InsertAt(RemoveAt(def[p], i), j,
       [def[p][i] EXCEPT !.name = n, !.mode = mode, !.language = language]))

\* (Mutant of DeleteStage: the reference of the stage run is not checked.)
DeleteStageAnyway(p, i) ==
  /\ i \in DOMAIN def[p]
  /\ Store(p, RemoveAt(def[p], i))

\* The tasks and their task runs go with the stage; a stage run that refers to
\* it is in no cascade.
DeleteStage(p, i) ==
  /\ i \in DOMAIN def[p]
  /\ ~def[p][i].ran
  /\ Store(p, RemoveAt(def[p], i))

CreateTask(p, i, n, extra, k) ==
  /\ i \in DOMAIN def[p]
  /\ Len(def[p][i].tasks) < MaxTasks /\ k \in 1..(Len(def[p][i].tasks) + 1) /\ Stripped[n] # Blank
  /\ Store(p, [def[p] EXCEPT ![i].tasks =
       InsertAt(@, k, [name |-> Stripped[n], extra |-> extra, ran |-> FALSE])])

\* The name is stored as it is, an empty one too.
UpdateTask(p, i, k, n, extra) ==
  /\ i \in DOMAIN def[p] /\ k \in DOMAIN def[p][i].tasks
  /\ Store(p, [def[p] EXCEPT ![i].tasks[k] = [@ EXCEPT !.name = n, !.extra = extra]])

\* Its task runs go with it.
DeleteTask(p, i, k) ==
  /\ i \in DOMAIN def[p] /\ k \in DOMAIN def[p][i].tasks
  /\ Store(p, [def[p] EXCEPT ![i].tasks = RemoveAt(@, k)])

\* start_pipeline_run: stage runs and task runs for all there is.
StartPipelineRun(p) ==
  LET Run(t) == [t EXCEPT !.ran = TRUE]
  IN  Store(p, [i \in DOMAIN def[p] |-> [def[p][i] EXCEPT
        !.ran = TRUE, !.tasks = [k \in DOMAIN @ |-> Run(@[k])]]])

-----------------------------------------------------------------------------
(* Import and Git.                                                         *)

ImportPipeline(p, doc, last) ==
  /\ ~Refused(def[p], Read(doc), last)
  /\ Store(p, Merged(def[p], Read(doc), last))

\* What a client may send: a file of its own, or what it has exported.
Files == Documents \cup {Written(def[p], FALSE) : p \in {x \in Pipelines : Present(x)}}

Tip == IF branch = {} THEN 0 ELSE Max(branch)

Commit(doc) == commits' = Append(commits, doc)

\* Somebody else commits to the branch.
OutsiderPushes(doc) ==
  /\ Len(commits) < MaxCommits
  /\ Commit(doc)
  /\ branch' = branch \cup {Len(commits) + 1}
  /\ UNCHANGED <<pipelines, template, sync, requests>>

\* git_pull_pipeline up to the end of sync_pipeline_from_git: the clone.
BeginPull(q, p) ==
  /\ sync[q].at = "idle" /\ Present(p) /\ Tip # 0
  /\ sync' = [sync EXCEPT ![q] =
       [at |-> "pull", pipeline |-> p, doc |-> commits[Tip], head |-> Tip]]
  /\ UNCHANGED <<pipelines, template, git, requests>>

\* The merge into what the database has by now; it fails when the pipeline has
\* gone or a delete is refused.
FinishPull(q, last) ==
  LET p == sync[q].pipeline
  IN  /\ sync[q].at = "pull"
      /\ IF Present(p) /\ ~Refused(def[p], Read(sync[q].doc), last)
         THEN /\ def' = [def EXCEPT ![p] = Merged(def[p], Read(sync[q].doc), last)]
              /\ sha' = [sha EXCEPT ![p] = sync[q].head]
         ELSE UNCHANGED <<def, sha>>
      /\ sync' = [sync EXCEPT ![q] = [NoSync EXCEPT !.at = "over"]]
      /\ UNCHANGED <<status, template, git, requests>>

\* git_push_pipeline: reads the stages, clones the branch,
BeginPush(q, p) ==
  /\ sync[q].at = "idle" /\ Present(p) /\ Len(commits) < MaxCommits
  /\ sync' = [sync EXCEPT ![q] =
       [at |-> "push", pipeline |-> p, doc |-> Written(def[p], TRUE), head |-> Tip]]
  /\ UNCHANGED <<pipelines, template, git, requests>>

\* commits and pushes.  origin.push returns what the remote said and raises
\* nothing: a push that is not a fast-forward is rejected unnoticed.
FinishPush(q) ==
  LET p == sync[q].pipeline
      c == Len(commits) + 1
  IN  /\ sync[q].at = "push" /\ Len(commits) < MaxCommits
      /\ Commit(sync[q].doc)
      /\ branch' = IF sync[q].head = Tip THEN branch \cup {c} ELSE branch
      /\ sha' = IF Present(p) THEN [sha EXCEPT ![p] = c] ELSE sha
      /\ sync' = [sync EXCEPT ![q] = [NoSync EXCEPT !.at = "over"]]
      /\ UNCHANGED <<status, def, template, requests>>

-----------------------------------------------------------------------------
Whole(p) ==
  \/ CreatePipeline(p) \/ CreatePipelineFromTemplate(p) \/ DeletePipeline(p)
  \/ TemplateFromPipeline(p) \/ UpdatePipeline(p)
  \/ \E src \in Pipelines \ {p} : CopyPipeline(src, p)

Edit(p) ==
  \/ \E n \in Names, mode \in Modes, language \in Languages \cup {Null}, i, j \in 1..MaxStages :
       CreateStage(p, n, mode, language, i) \/ UpdateStage(p, i, n, mode, language, j)
  \/ \E i \in 1..MaxStages : DeleteStage(p, i)
  \/ \E i \in 1..MaxStages, k \in 1..MaxTasks :
       \/ DeleteTask(p, i, k)
       \/ \E n \in TaskNames, extra \in BOOLEAN :
            CreateTask(p, i, n, extra, k) \/ UpdateTask(p, i, k, n, extra)

Import(p) == \E doc \in Files, last \in BOOLEAN : ImportPipeline(p, doc, last)

Request ==
  \/ \E p \in Pipelines : Whole(p)
  \/ \E p \in Edited : Edit(p) \/ Import(p) \/ StartPipelineRun(p)
  \/ \E doc \in Documents : StoreTemplate(doc)
  \/ DeleteTemplate

Git(q) ==
  \/ \E p \in Edited : BeginPull(q, p) \/ BeginPush(q, p)
  \/ \E last \in BOOLEAN : FinishPull(q, last)
  \/ FinishPush(q)

Next ==
  \/ requests < MaxRequests /\ requests' = requests + 1 /\ Request
  \/ \E doc \in Documents : OutsiderPushes(doc)
  \/ \E q \in Syncs : Git(q)

Spec == Init /\ [][Next]_vars

-----------------------------------------------------------------------------
TypeOK ==
  /\ status \in [Pipelines -> {"absent", "present", "deleted"}]
  /\ def \in [Pipelines -> Seq(Stage)]
  /\ \A p \in Pipelines : ~Present(p) => def[p] = <<>> /\ sha[p] = 0
  /\ sha \in [Pipelines -> 0..Len(commits)]
  /\ template = Unset \/ template \in Seq(StageSpec)
  /\ commits \in Seq(Seq(StageSpec)) /\ branch \subseteq DOMAIN commits
  /\ \A q \in Syncs : sync[q].head \in 0..Len(commits)

Ran(p) == {i \in DOMAIN def[p] : def[p][i].ran}

\* While a pipeline exists, no edit, import or pull takes away a stage that the
\* rows of a run refer to: the executor of the run needs them
\* (services/run_service.py:286).
RunsKeepStages ==
  [][\A p \in Pipelines : Present(p) /\ Present(p)' =>
       Cardinality(Ran(p)) <= Cardinality(Ran(p)')]_vars

NamesOf(rows) == {rows[i].name : i \in DOMAIN rows}

\* The last specification of a name counts.
LastSpec(doc, n) == doc[Max(Named(doc, n))]

\* A pull that goes through leaves the stages and tasks that the document names,
\* each once, stripped and none blank, and no other, however the definition was
\* edited since the clone (routes/yaml_io.py:231, :333).
PullReplaces ==
  [][\A q \in Syncs :
       LET p == sync[q].pipeline
           doc == Read(sync[q].doc)
       IN  sync[q].at = "pull" /\ sync'[q].at = "over" /\ sha' # sha =>
             /\ NamesOf(def'[p]) = NamesOf(doc) \ {Blank}
             /\ \A i \in DOMAIN def'[p] :
                  LET s == def'[p][i]
                  IN  /\ Cardinality(Named(def'[p], s.name)) = 1
                      /\ NamesOf(s.tasks) = NamesOf(LastSpec(doc, s.name).tasks) \ {Blank}]_vars

\* Names that a file can carry: each once, stripped and not blank.
WellNamed(rows) ==
  \A i \in DOMAIN rows :
    /\ Stripped[rows[i].name] = rows[i].name /\ rows[i].name # Blank
    /\ Cardinality(Named(rows, rows[i].name)) = 1

Clean(d) == WellNamed(d) /\ \A i \in DOMAIN d : WellNamed(d[i].tasks)

\* What a file lacks comes back as it was, but a stage without a language as a bash one.
Filled(d, modes) ==
  [i \in DOMAIN d |-> [d[i] EXCEPT !.language = IF ~modes /\ @ = Null THEN "bash" ELSE @]]

ReadBack(d, modes) == Merged(d, Read(Written(d, modes)), FALSE)

ComesBack(d, modes) ==
  Clean(d) => ReadBack(d, modes) = Filled(d, modes) /\ ~Refused(d, Read(Written(d, modes)), FALSE)

\* Importing what was just exported, or pulling what was just pushed, is not refused and changes
\* nothing but a missing language as long as names are clean: the file lacks much of the definition,
\* and the import must leave alone what the file lacks.  Names that an edit left with blanks or twice
\* are clean after one round, so that the next one changes nothing.
RoundTrip ==
  \A p \in Pipelines, modes \in BOOLEAN :
    LET back == ReadBack(def[p], modes)
    IN  ComesBack(def[p], modes) /\ Clean(back) /\ ComesBack(back, modes)
=============================================================================
