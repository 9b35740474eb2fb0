----------------------------- MODULE Properties -----------------------------
(***************************************************************************)
(* Properties of definitions and parameter values of runs, and their       *)
(* resolution (services/property_service.py): the narrowest level that has *)
(* a row for a name gives its value.  To gather the names takes a query    *)
(* for each level, to resolve one takes a query for each level until a row *)
(* is found, and each query sees what has been committed before it.        *)
(***************************************************************************)
EXTENDS Integers, Sequences, FiniteSets

CONSTANTS
  MaxRequests,  \* bound: requests are made in the order of their numbers
  Names,
  Values, Null,
  Given         \* levels that may have a row from before for every name

Requests == 1..MaxRequests

RunLevels == {"task_run", "stage_run", "pipeline_run"}
Levels == RunLevels \cup {"task", "stage", "pipeline", "product"}

\* The order in which resolve asks.
Place == [task_run |-> 1, stage_run |-> 2, pipeline_run |-> 3, task |-> 4, stage |-> 5, pipeline |-> 6, product |-> 7]

\* What the two routes and the executor resolve for: the levels they have an object of.
Contexts ==
  {{"pipeline_run", "pipeline", "product"},
   {"stage_run", "pipeline_run", "stage", "pipeline", "product"},
   Levels}

Types == {"string", "number"}

ASSUME PropertiesAssumption == MaxRequests \in Nat /\ Given \subseteq Levels /\ Null \notin Values

VARIABLES
  rows,  \* rows[<<level, name>>]: at most one, with the request that inserted it as its id
  call   \* the requests

Cells == Levels \X Names

Absent == [id |-> 0, value |-> Null, type |-> "string"]

New == [at |-> "new"]
Done == [at |-> "done"]

PropertiesInit ==
  /\ \E levels \in SUBSET Given, value \in Values :
       rows = [cell \in Cells |->
                 IF cell[1] \in levels THEN [id |-> -1, value |-> value, type |-> "string"] ELSE Absent]
  /\ call = [r \in Requests |-> New]

\* The request that comes next.
Arrives(r) == call[r] = New /\ \A q \in Requests : q < r => call[q] # New

Answer(r) == call' = [call EXCEPT ![r] = Done]

-----------------------------------------------------------------------------
(* Resolution.                                                             *)

\* The level asked first, of those that are left; names are gathered from definitions first.
Foremost(levels) == CHOOSE l \in levels : \A m \in levels : Place[l] <= Place[m]

Gathers(levels) == Foremost(IF levels \ RunLevels = {} THEN levels ELSE levels \ RunLevels)

\* coerced_value: only definitions have a type.
Coerced(level, row) ==
  IF row.type = "string" \/ row.value = Null \/ level \in RunLevels
  THEN row.value ELSE <<row.type, row.value>>

\* resolve_all: names of definitions first.
BeginResolution(r) ==
  /\ Arrives(r)
  /\ \E ctx \in Contexts :
       call' = [call EXCEPT ![r] =
         [at |-> "gathering", ctx |-> ctx, left |-> ctx, names |-> {}, held |-> {},
          first |-> rows, edited |-> [n \in Names |-> 0]]]
  /\ UNCHANGED rows

HasRow(level) == {n \in Names : rows[<<level, n>>].id # 0}

\* The loop variable holds the last row, of definitions and of runs, and keeps it in the session.
Holding(held, level, n) ==
  {x \in held : (x.level \in RunLevels) # (level \in RunLevels)}
    \cup {[level |-> level, name |-> n, row |-> rows[<<level, n>>]]}

Gather(r) ==
  LET c == call[r]
      level == Gathers(c.left)
  IN  /\ c.at = "gathering" /\ c.left # {}
      /\ \E held \in IF HasRow(level) = {} THEN {c.held} ELSE {Holding(c.held, level, n) : n \in HasRow(level)} :
           call' = [call EXCEPT ![r].left = @ \ {level}, ![r].names = @ \cup HasRow(level), ![r].held = held]
      /\ UNCHANGED rows

\* The next name, or the answer.
NextName(c, todo, answer) ==
  {[at |-> "resolving", ctx |-> c.ctx, left |-> c.ctx, name |-> n, todo |-> todo \ {n},
    answer |-> answer, held |-> c.held, first |-> c.first, edited |-> c.edited] : n \in todo}
  \cup
  (IF todo = {} THEN {[at |-> "resolved", ctx |-> c.ctx, answer |-> answer, first |-> c.first, edited |-> c.edited]} ELSE {})

Gathered(r) ==
  /\ call[r].at = "gathering" /\ call[r].left = {}
  /\ \E next \in NextName(call[r], call[r].names, [n \in Names |-> Null]) : call' = [call EXCEPT ![r] = next]
  /\ UNCHANGED rows

\* (Mutant of Found: an empty value does not count.)
FoundValue(row) == row.id # 0 /\ row.value # Null

Found(row) == row.id # 0

\* The row as the query gives it: a row that the session still holds keeps its old values.
Queried(c, cell) ==
  LET old == {x.row : x \in {y \in c.held : <<y.level, y.name>> = cell /\ y.row.id = rows[cell].id}}
  IN  IF old = {} THEN rows[cell] ELSE CHOOSE row \in old : TRUE

\* resolve.
ReadLevel(r) ==
  LET c == call[r]
      level == Foremost(c.left)
      row == Queried(c, <<level, c.name>>)
  IN  /\ c.at = "resolving"
      /\ \E next \in IF c.left = {} THEN NextName(c, c.todo, c.answer)
                     ELSE IF Found(row) THEN NextName(c, c.todo, [c.answer EXCEPT ![c.name] = Coerced(level, row)])
                     ELSE {[c EXCEPT !.left = @ \ {level}]} : call' = [call EXCEPT ![r] = next]
      /\ UNCHANGED rows

AnswerResolution(r) == call[r].at = "resolved" /\ Answer(r) /\ UNCHANGED rows

-----------------------------------------------------------------------------
(* set_property, delete_property, set_parameter_value and                  *)
(* delete_parameter_value: look the row up, and commit.                    *)

Goals(level) ==
  [kind : {"set"}, value : Values \cup {Null},
   type : IF level \in RunLevels THEN {"string"} ELSE Types]
  \cup {[kind |-> "delete"]}

BeginEdit(r) ==
  /\ Arrives(r)
  /\ \E cell \in Cells : \E goal \in Goals(cell[1]) :
       call' = [call EXCEPT ![r] = [at |-> "editing", cell |-> cell, goal |-> goal, row |-> rows[cell]]]
  /\ UNCHANGED rows

\* What the UPDATE writes: the columns that differ from what was looked up.
Merged(c) ==
  [rows[c.cell] EXCEPT !.value = IF c.goal.value # c.row.value THEN c.goal.value ELSE @,
                       !.type = IF c.goal.type # c.row.type THEN c.goal.type ELSE @]

Inserted(r) == [id |-> r, value |-> call[r].goal.value, type |-> call[r].goal.type]

\* An INSERT fails when the row is there by now, an UPDATE when it is not; a DELETE does not.
Committed(r) ==
  LET c == call[r]
  IN  IF c.goal.kind = "set" /\ c.row.id = 0 /\ rows[c.cell].id = 0 THEN Inserted(r)
      ELSE IF c.row.id = 0 \/ c.row.id # rows[c.cell].id THEN rows[c.cell]
      ELSE IF c.goal.kind = "set" THEN Merged(c) ELSE Absent

\* (edited is history: changes a resolution may have met, up to 2.)
CommitEdit(r) ==
  LET cell == call[r].cell
      changes == Committed(r) # rows[cell]
      Meets(q) == call[q].at \in {"gathering", "resolving", "resolved"} /\ changes
                    /\ cell[1] \in call[q].ctx /\ call[q].edited[cell[2]] < 2
  IN  /\ call[r].at = "editing"
      /\ rows' = [rows EXCEPT ![cell] = Committed(r)]
      /\ call' = [q \in Requests |->
                    IF q = r THEN Done ELSE IF Meets(q) THEN [call[q] EXCEPT !.edited[cell[2]] = @ + 1] ELSE call[q]]

PropertyRequest(r) ==
  \/ BeginResolution(r) \/ Gather(r) \/ Gathered(r) \/ ReadLevel(r) \/ AnswerResolution(r)
  \/ BeginEdit(r) \/ CommitEdit(r)

-----------------------------------------------------------------------------
\* "Resolution order (most-specific first) ... the first match wins" (property_service.py:3-7).
Chain(table, ctx, n) ==
  LET set == {l \in ctx : table[<<l, n>>].id # 0}
  IN  IF set = {} THEN Null ELSE Coerced(Foremost(set), table[<<Foremost(set), n>>])

\* Resolution takes many queries.  As long as at most one change to a name's rows overlaps it, its
\* answer for the name is what the whole chain gave before the change or gives after it; with two,
\* it may be a value that the chain never had.
ResolvedNearby ==
  \A r \in Requests : call[r].at = "resolved" =>
    \A n \in Names : call[r].edited[n] <= 1 =>
      call[r].answer[n] \in {Chain(call[r].first, call[r].ctx, n), Chain(rows, call[r].ctx, n)}
=============================================================================
