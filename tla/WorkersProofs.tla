---------------------------- MODULE WorkersProofs ----------------------------
(***************************************************************************)
(* WorkersInv is an invariant of the workers, and with it the type         *)
(* invariant, CacheCoherent, SecretKept and ClearForgets: for any number   *)
(* of processes and requests, whatever Redis does and whenever a process   *)
(* is recycled.                                                            *)
(***************************************************************************)
EXTENDS Workers, FiniteSetTheorems, SequenceTheorems, TLAPS

Rows == Seq(RowType \cup {Gone})
Lists == {Shown(c, rows) : c \in Collections, rows \in Rows}

Goal ==
  [kind : {"create"}, name : SecretNames, value : {TRUE}]
    \cup [kind : {"update"}, id : Nat, name : SecretNames \cup {Empty}, value : BOOLEAN]
    \cup [kind : {"reveal"}, id : Nat]

\* What a request is about, at each of its steps.
CallType ==
  {New, Done}
    \cup [at : {"missed"}, coll : Collections, seed : SUBSET {"builtin"}]
    \cup [at : {"loaded"}, coll : Collections, list : Lists, late : BOOLEAN]
    \cup [at : {"written"}, coll : Collections]
    \cup [at : {"keyed"}, worker : Processes, goal : Goal, key : Int]
    \cup [at : {"encrypted"}, worker : Processes, goal : Goal, key : Int]
    \cup [at : {"applying"}, worker : Processes, kind : {"set", "clear"}, value : ApiKeys \cup {Empty}]

ListSteps == {"missed", "loaded", "written"}
VaultSteps == {"keyed", "encrypted"}

SecretRow == [name : SecretNames \cup {Empty}, key : Int, by : Processes \cup {Gone}]

Calls == call \in [Requests -> CallType]

TablesOK ==
  /\ table \in [Collections -> Rows]
  /\ \A i, j \in Live("plugins") : table.plugins[i].name = table.plugins[j].name => i = j
  /\ attached \subseteq Live("products") \X Live("environments")

\* A list that has been read is the table until a change makes it late.
ListsRead ==
  \A r \in Requests : call[r].at = "loaded" /\ ~call[r].late => call[r].list = View(call[r].coll)

Listed ==
  /\ cache \in [Collections -> [list : Lists \cup {<<>>}, left : -1..TTL]]
  /\ redis \in BOOLEAN /\ lapse \in [Collections -> BOOLEAN]
  /\ CacheCoherent /\ ListsRead

\* Is a new value on its way, under a key?
Storing(r) == call[r].at = "encrypted" /\ call[r].goal.kind # "reveal" /\ call[r].goal.value

\* The key a request has: VAULT_KEY or, as long as nothing raced, the one its process has or is
\* about to have.
KeyHeld(r) ==
  LET w == call[r].worker
  IN  /\ call[r].at = "keyed" => /\ ~vaultKeySet /\ call[r].key \in 1..keys
                                 /\ ~raced[w] => fernet[w] = NoKey
      /\ Storing(r) => /\ call[r].key # NoKey
                       /\ IF vaultKeySet THEN call[r].key = VaultKey ELSE ~raced[w] => fernet[w] = call[r].key

KeysUsed ==
  /\ \A i \in Stored : secrets[i].key # NoKey
  /\ vaultKeySet => \A w \in Processes : fernet[w] \in {NoKey, VaultKey}
  /\ \A r \in Requests : KeyHeld(r)
  /\ \A q, r \in Requests : call[q].at = "keyed" /\ call[r].at = "keyed" /\ call[q].worker = call[r].worker
                              /\ ~raced[call[r].worker] => q = r

Vaulted ==
  /\ fernet \in [Processes -> NoKey..keys] /\ keys \in Nat /\ raced \in [Processes -> BOOLEAN]
  /\ secrets \in Seq(SecretRow \cup {Gone})
  /\ \A i, j \in Stored : secrets[i].name = secrets[j].name => i = j
  /\ SecretKept /\ KeysUsed

\* After a process has cleared the setting all that it may still apply is another clearing.
ClearsApplied ==
  /\ \A r \in Requests : call[r].at = "applying" /\ call[r].kind = "clear" => call[r].value = Empty
  /\ \A w \in Processes : wiped[w] =>
       /\ config[w] = Empty
       /\ \A r \in Requests : call[r].at = "applying" /\ call[r].worker = w => call[r].kind = "clear"

Cleared ==
  /\ config \in [Processes -> ApiKeys \cup {Empty}] /\ wiped \in [Processes -> BOOLEAN]
  /\ setting \in ApiKeys \cup {Empty, Gone}
  /\ ClearsApplied

WorkersInv == Calls /\ TablesOK /\ Listed /\ Vaulted /\ Cleared

-----------------------------------------------------------------------------
(* What a request is at.                                                   *)

LEMMA CallShape ==
  ASSUME NEW x \in CallType
  PROVE  /\ x.at \in {"new", "done", "applying"} \cup ListSteps \cup VaultSteps
         /\ x.at = "new" => x = New
         /\ x.at = "done" => x = Done
         /\ x.at = "missed" => x \in [at : {"missed"}, coll : Collections, seed : SUBSET {"builtin"}]
         /\ x.at = "loaded" => x \in [at : {"loaded"}, coll : Collections,
                                      list : Lists, late : BOOLEAN]
         /\ x.at = "written" => x \in [at : {"written"}, coll : Collections]
         /\ x.at \in VaultSteps => x \in [at : VaultSteps, worker : Processes, goal : Goal, key : Int]
         /\ x.at = "applying" => x \in [at : {"applying"}, worker : Processes,
                                        kind : {"set", "clear"}, value : ApiKeys \cup {Empty}]
BY DEF CallType, New, Done, ListSteps, VaultSteps

LEMMA RowShape == Gone \notin RowType /\ First \in Details
BY CatalogAssumption DEF RowType

\* The row of a new request.
LEMMA NewRows == \A name \in {"own", "builtin"}, b \in BOOLEAN : Row(name, b) \in RowType
BY RowShape DEF Row, RowType

LEMMA SeededShape ==
  ASSUME NEW r \in Requests, call[r].at = "missed", call[r] \in CallType
  PROVE  /\ call[r].seed = {} => Seeded(r) = <<>>
         /\ call[r].seed # {} => call[r].seed = {"builtin"} /\ Seeded(r) = <<Row("builtin", TRUE)>>
<1>1. call[r].seed \in SUBSET {"builtin"}
  BY CallShape
<1>2. CASE call[r].seed = {}
  <2>1. Cardinality(call[r].seed) = 0
    BY <1>2, FS_EmptySet
  <2>2. Seeded(r) \in Seq(RowType) /\ Len(Seeded(r)) = 0
    BY <2>1 DEF Seeded
  <2>3. QED
    BY <1>2, <2>2, EmptySeq
<1>3. CASE call[r].seed = {"builtin"}
  <2>1. Cardinality(call[r].seed) = 1
    BY <1>3, FS_Singleton
  <2> DEFINE row == Row("builtin", TRUE)
  <2>2. row \in RowType
    BY NewRows
  <2>3. Seeded(r) = [i \in 1..1 |-> row]
    BY <2>1 DEF Seeded
  <2> HIDE DEF row
  <2>4. Seeded(r) \in Seq(RowType) /\ Len(Seeded(r)) = 1 /\ Seeded(r)[1] = row
    BY <2>2, <2>3
  <2>5. <<row>> \in Seq(RowType) /\ Len(<<row>>) = 1 /\ <<row>>[1] = row
    BY <2>2
  <2>6. Seeded(r) = <<row>>
    BY <2>4, <2>5, SeqEqual
  <2>7. QED
    BY <1>3, <2>6 DEF row
<1>4. QED
  BY <1>1, <1>2, <1>3

\* A table that grows.
LEMMA Grown ==
  ASSUME NEW rows \in Rows, NEW row \in RowType
  PROVE  LET new == Append(rows, row)
         IN  /\ new \in Rows /\ rows \o <<row>> = new
             /\ DOMAIN new = 1..(Len(rows) + 1)
             /\ Left(new) = Left(rows) \cup {Len(rows) + 1}
             /\ Len(rows) + 1 \notin Left(rows)
             /\ \A i \in Left(rows) : new[i] = rows[i]
             /\ new[Len(rows) + 1] = row
<1> DEFINE new == Append(rows, row)
<1>1. /\ new \in Rows /\ Len(new) = Len(rows) + 1 /\ new[Len(rows) + 1] = row
      /\ \A i \in 1..Len(rows) : new[i] = rows[i]
  BY AppendProperties DEF Rows
<1>2. rows \o <<row>> = new
  BY AppendIsConcat DEF Rows
<1>3. /\ DOMAIN rows = 1..Len(rows) /\ Len(rows) \in Nat
      /\ DOMAIN new = 1..(Len(rows) + 1)
  BY <1>1, LenProperties DEF Rows
<1> HIDE DEF new
<1>4. Left(new) = Left(rows) \cup {Len(rows) + 1}
  BY <1>1, <1>3, RowShape DEF Left
<1>5. QED
  BY <1>1, <1>2, <1>3, <1>4 DEF Left, new

\* A table of which one row changes, or goes.
LEMMA Edited ==
  ASSUME NEW rows \in Rows, NEW i \in Left(rows), NEW row \in RowType \cup {Gone}
  PROVE  LET new == [rows EXCEPT ![i] = row]
         IN  /\ rows[i] \in RowType
             /\ new \in Rows /\ new[i] = row
             /\ row = Gone => Left(new) = Left(rows) \ {i}
             /\ row # Gone => Left(new) = Left(rows)
             /\ \A j \in Left(rows) \ {i} : new[j] = rows[j]
<1> DEFINE new == [rows EXCEPT ![i] = row]
<1>1. /\ rows \in [1..Len(rows) -> RowType \cup {Gone}] /\ Len(rows) \in Nat
      /\ DOMAIN rows = 1..Len(rows) /\ i \in 1..Len(rows)
  BY LenProperties DEF Rows, Left
<1>2. new \in Rows
  BY <1>1, ExceptSeq DEF Rows
<1>3. DOMAIN new = DOMAIN rows /\ new[i] = row /\ \A j \in DOMAIN rows \ {i} : new[j] = rows[j]
  BY <1>1
<1> HIDE DEF new
<1>4. QED
  BY <1>1, <1>2, <1>3, RowShape DEF Left, new

-----------------------------------------------------------------------------
(* The tables.                                                             *)

LEMMA TablesGrow ==
  ASSUME TablesOK, NEW c \in Collections, NEW row \in RowType,
         c = "plugins" => row.name \notin Taken(c),
         table' = [table EXCEPT ![c] = Append(table[c], row)], attached' = attached
  PROVE  TablesOK'
<1> DEFINE new == Append(table[c], row)
<1>1. table[c] \in Rows
  BY DEF TablesOK
<1>2. /\ new \in Rows
      /\ Left(new) = Left(table[c]) \cup {Len(table[c]) + 1}
      /\ \A i \in Left(table[c]) : new[i] = table[c][i]
      /\ new[Len(table[c]) + 1] = row
  BY <1>1, Grown
<1> HIDE DEF new
<1>3. table' = [table EXCEPT ![c] = new]
  BY DEF new
<1>4. table' \in [Collections -> Rows] /\ table'[c] = new
      /\ \A d \in Collections \ {c} : table'[d] = table[d]
  BY <1>2, <1>3 DEF TablesOK
<1>5. \A d \in Collections : Left(table[d]) \subseteq Left(table'[d])
  BY <1>2, <1>4
<1>6. attached' \subseteq Left(table'["products"]) \X Left(table'["environments"])
  BY <1>5 DEF TablesOK, Live, Collections
<1>7. ASSUME NEW i \in Left(table'["plugins"]), NEW j \in Left(table'["plugins"]),
             table'["plugins"][i].name = table'["plugins"][j].name
      PROVE  i = j
  <2>1. CASE c # "plugins"
    BY <1>4, <1>7, <2>1 DEF TablesOK, Live, Collections
  <2>2. CASE c = "plugins"
    <3>1. \A k \in Left(table[c]) : table[c][k].name # row.name
      BY <2>2 DEF Taken, Live
    <3>2. /\ table'["plugins"] = new /\ new[Len(table[c]) + 1].name = row.name
          /\ \A k \in Left(table[c]) : new[k].name = table[c][k].name
      BY <1>2, <1>4, <2>2
    <3>3. \A k, l \in Left(table[c]) : table[c][k].name = table[c][l].name => k = l
      BY <2>2 DEF TablesOK, Live
    <3>4. i \in Left(table[c]) \cup {Len(table[c]) + 1} /\ j \in Left(table[c]) \cup {Len(table[c]) + 1}
      BY <1>2, <3>2
    <3>5. QED
      BY <1>7, <3>1, <3>2, <3>3, <3>4
  <2>3. QED
    BY <2>1, <2>2
<1>8. QED
  BY <1>4, <1>6, <1>7 DEF TablesOK, Live

LEMMA TablesEdited ==
  ASSUME TablesOK, NEW c \in Collections, NEW i \in Live(c), NEW row \in RowType,
         row.name = table[c][i].name,
         table' = [table EXCEPT ![c] = [table[c] EXCEPT ![i] = row]], attached' = attached
  PROVE  TablesOK'
<1> DEFINE new == [table[c] EXCEPT ![i] = row]
<1>1. table[c] \in Rows /\ i \in Left(table[c])
  BY DEF TablesOK, Live
<1>2. /\ new \in Rows /\ Left(new) = Left(table[c]) /\ new[i] = row
      /\ \A j \in Left(table[c]) \ {i} : new[j] = table[c][j]
  <2>1. row \in RowType \cup {Gone} /\ row # Gone
    BY RowShape
  <2>2. QED
    BY <1>1, <2>1, Edited
<1> HIDE DEF new
<1>3. table' = [table EXCEPT ![c] = new]
  BY DEF new
<1>4. table' \in [Collections -> Rows] /\ table'[c] = new
      /\ \A d \in Collections \ {c} : table'[d] = table[d]
  BY <1>2, <1>3 DEF TablesOK
<1>5. \A d \in Collections : Left(table'[d]) = Left(table[d])
  BY <1>2, <1>4
<1>6. \A d \in Collections : \A j \in Left(table'[d]) : table'[d][j].name = table[d][j].name
  BY <1>1, <1>2, <1>4, <1>5
<1>7. QED
  BY <1>4, <1>5, <1>6 DEF TablesOK, Live, Collections

LEMMA TablesShrink ==
  ASSUME TablesOK, NEW c \in Collections, NEW i \in Live(c),
         table' = [table EXCEPT ![c] = [table[c] EXCEPT ![i] = Gone]],
         attached' = {x \in attached : (c = "products" => x[1] # i) /\ (c = "environments" => x[2] # i)}
  PROVE  TablesOK'
<1> DEFINE new == [table[c] EXCEPT ![i] = Gone]
<1>1. table[c] \in Rows /\ i \in Left(table[c])
  BY DEF TablesOK, Live
<1>2. /\ new \in Rows /\ Left(new) = Left(table[c]) \ {i}
      /\ \A j \in Left(table[c]) \ {i} : new[j] = table[c][j]
  <2>1. Gone \in RowType \cup {Gone}
    OBVIOUS
  <2>2. QED
    BY <1>1, <2>1, Edited
<1> HIDE DEF new
<1>3. table' = [table EXCEPT ![c] = new]
  BY DEF new
<1>4. table' \in [Collections -> Rows] /\ table'[c] = new
      /\ \A d \in Collections \ {c} : table'[d] = table[d]
  BY <1>2, <1>3 DEF TablesOK
<1>5. \A x \in attached' : x \in Left(table'["products"]) \X Left(table'["environments"])
  BY <1>2, <1>4 DEF TablesOK, Live, Collections
<1>6. /\ Left(table'["plugins"]) \subseteq Left(table["plugins"])
      /\ \A j \in Left(table'["plugins"]) : table'["plugins"][j] = table["plugins"][j]
  BY <1>2, <1>4 DEF Collections
<1>7. QED
  BY <1>4, <1>5, <1>6 DEF TablesOK, Live

\* What a request on a list does to the tables.
LEMMA TableStep ==
  ASSUME Calls, TablesOK, NEW r \in Requests, CatalogRequest(r)
  PROVE  TablesOK'
<1>1. CASE UNCHANGED <<table, attached>>
  BY <1>1 DEF TablesOK, Live
<1>2. CASE Load(r)
  <2> DEFINE c == call[r].coll
  <2>1. /\ call[r] \in CallType /\ call[r].at = "missed" /\ ~SeedingFails(r)
        /\ table' = [table EXCEPT ![c] = table[c] \o Seeded(r)] /\ attached' = attached
    BY <1>2 DEF Load, Calls
  <2>2. c \in Collections /\ table[c] \in Rows
    BY <2>1, CallShape DEF TablesOK
  <2>3. CASE call[r].seed = {}
    <3>1. table[c] \o Seeded(r) = table[c]
      BY <2>1, <2>2, <2>3, SeededShape, ConcatEmptySeq DEF Rows
    <3>2. QED
      BY <1>1, <2>1, <3>1 DEF TablesOK
  <2>4. CASE call[r].seed # {}
    <3> DEFINE row == Row("builtin", TRUE)
    <3>1. /\ call[r].seed = {"builtin"} /\ row \in RowType /\ row.name = "builtin"
          /\ Seeded(r) = <<row>>
      BY <2>1, <2>4, SeededShape, NewRows DEF Row
    <3> HIDE DEF row
    <3>2. table[c] \o Seeded(r) = Append(table[c], row)
      BY <2>2, <3>1, Grown
    <3>3. c = "plugins" => row.name \notin Taken(c)
      BY <2>1, <3>1 DEF SeedingFails
    <3>4. QED
      BY <2>1, <2>2, <3>1, <3>2, <3>3, TablesGrow
  <2>5. QED
    BY <2>3, <2>4
<1>3. ASSUME NEW c \in Collections, NEW name \in Names(c), Create(r, c, name) \/ Import(r, c, name)
      PROVE  TablesOK'
  <2> DEFINE row == Row(name, FALSE)
  <2>1. row \in RowType /\ row.name = name
    BY NewRows DEF Row, Names, Builtins
  <2>2. /\ c = "plugins" => name \notin Taken(c)
        /\ table' = [table EXCEPT ![c] = Append(table[c], row)] /\ attached' = attached
    BY <1>3 DEF Create, Import, Write, WriteSilently
  <2> HIDE DEF row
  <2>3. QED
    BY <2>1, <2>2, TablesGrow
<1>4. ASSUME NEW c \in Collections, NEW i \in DOMAIN table[c], Delete(r, c, i)
      PROVE  TablesOK'
  BY <1>4, TablesShrink DEF Delete, Write
<1>5. ASSUME NEW c \in Collections, NEW i \in DOMAIN table[c], NEW detail \in Details, Update(r, c, i, detail)
      PROVE  TablesOK'
  <2>1. i \in Live(c) /\ table' = [table EXCEPT ![c] = [table[c] EXCEPT ![i].detail = detail]]
        /\ attached' = attached
    BY <1>5 DEF Update, Write
  <2> DEFINE row == [table[c][i] EXCEPT !.detail = detail]
  <2>2. table[c][i] \in RowType
    BY <2>1 DEF TablesOK, Live, Left, Rows
  <2>3. row \in RowType /\ row.name = table[c][i].name
    BY <2>2 DEF RowType
  <2>4. [table[c] EXCEPT ![i].detail = detail] = [table[c] EXCEPT ![i] = row]
    OBVIOUS
  <2> HIDE DEF row
  <2>5. QED
    BY <2>1, <2>3, <2>4, TablesEdited
<1>6. ASSUME NEW i \in DOMAIN table.plugins, NEW configs \in SUBSET Configs, SetConfigs(r, i, configs)
      PROVE  TablesOK'
  <2> DEFINE c == "plugins"
             row == [table[c][i] EXCEPT !.configs = configs]
  <2>1. /\ i \in Live(c) /\ attached' = attached
        /\ table' = [table EXCEPT ![c] = [table[c] EXCEPT ![i].configs = configs]]
    BY <1>6 DEF SetConfigs, WriteSilently
  <2>2. table[c][i] \in RowType
    BY <2>1 DEF TablesOK, Live, Left, Rows, Collections
  <2>3. row \in RowType /\ row.name = table[c][i].name
    BY <2>2 DEF RowType
  <2>4. [table[c] EXCEPT ![i].configs = configs] = [table[c] EXCEPT ![i] = row]
    OBVIOUS
  <2>5. c \in Collections
    BY DEF Collections
  <2> HIDE DEF row, c
  <2>6. QED
    BY <2>1, <2>3, <2>4, <2>5, TablesEdited
<1>7. ASSUME NEW p, NEW e, AttachEnvironment(r, p, e) \/ DetachEnvironment(r, p, e)
      PROVE  TablesOK'
  BY <1>7 DEF AttachEnvironment, DetachEnvironment, TablesOK, Live
<1>8. ASSUME NEW i \in DOMAIN table.plugins, TogglePlugin(r, i)
      PROVE  TablesOK'
  BY <1>5, <1>8 DEF TogglePlugin, Collections
<1>9. CASE LoadFails(r) \/ Store(r) \/ Invalidate(r) \/ \E c \in Collections : LookUp(r, c)
  BY <1>1, <1>9 DEF LoadFails, Store, Invalidate, LookUp
<1>10. QED
  BY <1>2, <1>3, <1>4, <1>5, <1>6, <1>7, <1>8, <1>9 DEF CatalogRequest

-----------------------------------------------------------------------------
(* The vault.                                                              *)

LEMMA GoalsShape ==
  ASSUME Vaulted
  PROVE  /\ Goals \subseteq Goal
         /\ \A i \in Stored : i \in 1..Len(secrets) /\ secrets[i] \in SecretRow
                              /\ [kind |-> "reveal", id |-> i] \in Goal
<1>1. secrets \in Seq(SecretRow \cup {Gone})
  BY DEF Vaulted
<1>2. \A i \in Stored : i \in 1..Len(secrets) /\ i \in Nat /\ secrets[i] \in SecretRow
  BY <1>1, LenProperties DEF Stored
<1>3. QED
  BY <1>2 DEF Goals, Goal

LEMMA VaultCalls ==
  ASSUME Calls, Vaulted, NEW r \in Requests, Vault(r)
  PROVE  /\ call' \in [Requests -> CallType]
         /\ \A q \in Requests \ {r} : call'[q] = call[q]
         /\ call[r].at \in {"new"} \cup VaultSteps
         /\ call'[r].at \in {"done"} \cup VaultSteps
<1>1. call \in [Requests -> CallType]
  BY DEF Calls
<1>2. ASSUME NEW x \in CallType, call' = [call EXCEPT ![r] = x], x.at \in {"done"} \cup VaultSteps,
             call[r].at \in {"new"} \cup VaultSteps
      PROVE  /\ call' \in [Requests -> CallType]
             /\ \A q \in Requests \ {r} : call'[q] = call[q]
             /\ call[r].at \in {"new"} \cup VaultSteps
             /\ call'[r].at \in {"done"} \cup VaultSteps
  BY <1>1, <1>2
<1>3. New.at = "new" /\ Done.at = "done" /\ Done \in CallType
  BY DEF New, Done, CallType
<1>4. ASSUME NEW w \in Processes, NEW goal \in Goal, NEW key \in Int, NEW at \in VaultSteps
      PROVE  LET x == [at |-> at, worker |-> w, goal |-> goal, key |-> key]
             IN  x \in CallType /\ x.at = at
  BY DEF CallType, VaultSteps
<1>5. ASSUME NEW w \in Processes, NEW goal \in Goal, call[r] = New, GetFernet(r, w, goal)
      PROVE  \E x \in CallType : call' = [call EXCEPT ![r] = x] /\ x.at \in VaultSteps
  <2>1. fernet[w] \in Int /\ VaultKey \in Int /\ keys + 1 \in Int
    BY DEF Vaulted, VaultKey, NoKey
  <2>2. PICK key \in Int, at \in VaultSteps :
          call' = [call EXCEPT ![r] = [at |-> at, worker |-> w, goal |-> goal, key |-> key]]
    BY <1>5, <2>1 DEF GetFernet, VaultSteps
  <2> DEFINE x == [at |-> at, worker |-> w, goal |-> goal, key |-> key]
  <2>3. x \in CallType /\ x.at \in VaultSteps /\ call' = [call EXCEPT ![r] = x]
    BY <1>4, <2>2
  <2> HIDE DEF x
  <2>4. QED
    BY <2>3
<1>6. ASSUME NEW w \in Processes, BeginStoring(r, w)
      PROVE  call[r] = New /\ \E x \in CallType : call' = [call EXCEPT ![r] = x] /\ x.at \in VaultSteps
  <2>1. PICK goal \in Goals :
          IF goal.value THEN GetFernet(r, w, goal)
          ELSE call' = [call EXCEPT ![r] = [at |-> "encrypted", worker |-> w, goal |-> goal, key |-> NoKey]]
    BY <1>6 DEF BeginStoring
  <2>2. call[r] = New /\ goal \in Goal /\ NoKey \in Int
    BY <1>6, GoalsShape DEF BeginStoring, Arrives, NoKey
  <2>3. QED
    BY <1>4, <1>5, <2>1, <2>2 DEF VaultSteps
<1>7. ASSUME NEW w \in Processes, BeginReveal(r, w)
      PROVE  call[r] = New /\ \E x \in CallType : call' = [call EXCEPT ![r] = x] /\ x.at \in VaultSteps
  BY <1>5, <1>7, GoalsShape DEF BeginReveal, Arrives
<1>8. CASE SetKey(r)
  <2>1. call[r].at = "keyed" /\ call' = [call EXCEPT ![r].at = "encrypted"]
    BY <1>8 DEF SetKey
  <2>2. call[r] \in [at : VaultSteps, worker : Processes, goal : Goal, key : Int]
    BY <1>1, <2>1, CallShape DEF VaultSteps
  <2> DEFINE x == [at |-> "encrypted", worker |-> call[r].worker, goal |-> call[r].goal, key |-> call[r].key]
  <2>3. x \in CallType /\ x.at = "encrypted"
    BY <2>2, <1>4 DEF VaultSteps
  <2>4. [call[r] EXCEPT !.at = "encrypted"] = x
    BY <2>2
  <2>5. call' = [call EXCEPT ![r] = x]
    BY <2>1, <2>4
  <2> HIDE DEF x
  <2>6. QED
    BY <1>2, <2>1, <2>3, <2>5 DEF VaultSteps
<1>9. CASE CommitSecret(r) \/ AnswerReveal(r)
  BY <1>2, <1>3, <1>9 DEF CommitSecret, AnswerReveal, Answer, VaultSteps
<1>10. CASE DeleteSecret(r)
  BY <1>2, <1>3, <1>10 DEF DeleteSecret, Arrives, Answer
<1>11. QED
  BY <1>2, <1>3, <1>6, <1>7, <1>8, <1>9, <1>10 DEF Vault

\* A request is given a key, or makes one up.
LEMMA FernetGot ==
  ASSUME Calls, Vaulted, NEW r \in Requests, NEW w \in Processes, NEW goal \in Goal,
         call[r] = New, GetFernet(r, w, goal), UNCHANGED <<vaultKeySet, secrets>>
  PROVE  Vaulted'
<1>1. /\ call \in [Requests -> CallType] /\ r \in Requests /\ NoKey = -1 /\ VaultKey = 0
      /\ \A q \in Requests \ {r} : call'[q] = call[q] /\ (Storing(q)' <=> Storing(q))
  BY DEF Calls, GetFernet, NoKey, VaultKey, Storing
<1>w. \A q \in Requests : call[q].at \in VaultSteps => call[q].worker \in Processes
  BY <1>1, CallShape
<1>2. CASE fernet[w] # NoKey \/ vaultKeySet
  <2> DEFINE key == IF fernet[w] # NoKey THEN fernet[w] ELSE VaultKey
  <2>1. /\ fernet' = [fernet EXCEPT ![w] = key] /\ keys' = keys /\ raced' = raced
        /\ call'[r] = [at |-> "encrypted", worker |-> w, goal |-> goal, key |-> key]
    BY <1>1, <1>2 DEF GetFernet
  <2>2. key # NoKey /\ key \in NoKey..keys /\ (vaultKeySet => key = VaultKey)
        /\ (~vaultKeySet => fernet[w] = key)
    BY <1>1, <1>2 DEF Vaulted, KeysUsed
  <2> HIDE DEF key
  <2>3. /\ call'[r].at = "encrypted" /\ call'[r].worker = w /\ call'[r].key = key
        /\ fernet' \in [Processes -> NoKey..keys] /\ fernet'[w] = key
        /\ ~vaultKeySet => \A p \in Processes : fernet'[p] = fernet[p]
        /\ vaultKeySet => \A p \in Processes : fernet'[p] \in {NoKey, VaultKey}
    BY <2>1, <2>2 DEF Vaulted, KeysUsed
  <2>4. SecretKept'
    BY <2>1, <2>3 DEF Vaulted, SecretKept, Stored
  <2>5. ASSUME NEW q \in Requests PROVE KeyHeld(q)'
    <3>1. CASE q = r
      BY <2>1, <2>2, <2>3, <3>1 DEF KeyHeld
    <3>2. CASE q # r
      BY <1>1, <1>w, <2>1, <2>3, <3>2 DEF KeyHeld, Vaulted, KeysUsed, Storing, VaultSteps
    <3>3. QED
      BY <3>1, <3>2
  <2>6. KeysUsed'
    BY <1>1, <2>1, <2>3, <2>5 DEF Vaulted, KeysUsed, Stored
  <2>7. QED
    BY <2>1, <2>3, <2>4, <2>6 DEF Vaulted, Stored
<1>3. CASE fernet[w] = NoKey /\ ~vaultKeySet
  <2> DEFINE overlap == \E q \in Requests : call[q].at = "keyed" /\ call[q].worker = w
  <2>1. /\ fernet' = fernet /\ keys' = keys + 1
        /\ call'[r] = [at |-> "keyed", worker |-> w, goal |-> goal, key |-> keys']
        /\ raced' = [raced EXCEPT ![w] = @ \/ overlap]
    BY <1>1, <1>3 DEF GetFernet
  <2>2. raced' \in [Processes -> BOOLEAN] /\ raced'[w] = (raced[w] \/ overlap)
        /\ \A p \in Processes \ {w} : raced'[p] = raced[p]
    BY <2>1, Zenon DEF Vaulted
  <2>3. /\ call'[r].at = "keyed" /\ call'[r].worker = w /\ call'[r].key = keys' /\ ~Storing(r)'
    BY <2>1 DEF Storing
  <2>4. SecretKept'
    BY <1>3, <2>1, <2>2 DEF Vaulted, SecretKept, Stored
  <2>5. ASSUME NEW q \in Requests PROVE KeyHeld(q)'
    <3>1. CASE q = r
      BY <1>3, <2>1, <2>3, <3>1 DEF KeyHeld, Vaulted
    <3>2. CASE q # r
      BY <1>1, <1>3, <1>w, <2>1, <2>2, <3>2 DEF KeyHeld, Vaulted, KeysUsed, Storing, VaultSteps
    <3>3. QED
      BY <3>1, <3>2
  <2>6. ASSUME NEW p \in Requests, NEW q \in Requests,
               call'[p].at = "keyed", call'[q].at = "keyed", call'[p].worker = call'[q].worker,
               ~raced'[call'[q].worker]
        PROVE  p = q
    BY <1>1, <1>w, <2>2, <2>3, <2>6 DEF Vaulted, KeysUsed, VaultSteps
  <2>7. KeysUsed'
    BY <1>3, <2>1, <2>5, <2>6 DEF Vaulted, KeysUsed, Stored
  <2>8. QED
    BY <1>1, <2>1, <2>2, <2>4, <2>7 DEF Vaulted, Stored
<1>4. QED
  BY <1>2, <1>3

\* Requests that leave the vault, or store nothing, do not touch what the others hold.
LEMMA KeysStay ==
  ASSUME Calls, Vaulted, UNCHANGED <<vaultKeySet, fernet, keys, raced>>,
         \A q \in Requests : call'[q] = call[q] \/ (call'[q].at # "keyed" /\ ~Storing(q)')
  PROVE  /\ \A q \in Requests : KeyHeld(q)'
         /\ \A p, q \in Requests : call'[p].at = "keyed" /\ call'[q].at = "keyed" /\ call'[p].worker = call'[q].worker
                                     /\ ~raced'[call'[q].worker] => p = q
<1>1. ASSUME NEW q \in Requests PROVE KeyHeld(q)'
  <2>1. CASE call'[q] = call[q]
    BY <2>1 DEF KeyHeld, Storing, Vaulted, KeysUsed
  <2>2. CASE call'[q].at # "keyed" /\ ~Storing(q)'
    BY <2>2 DEF KeyHeld
  <2>3. QED
    BY <2>1, <2>2
<1>2. QED
  BY <1>1 DEF Vaulted, KeysUsed

LEMMA VaultAside ==
  ASSUME Calls, Vaulted, UNCHANGED vault,
         \A q \in Requests : call'[q] = call[q] \/ (call'[q].at # "keyed" /\ ~Storing(q)')
  PROVE  Vaulted'
<1>1. SecretKept'
  BY DEF vault, Vaulted, SecretKept, Stored
<1>2. KeysUsed'
  BY KeysStay DEF vault, Vaulted, KeysUsed, Stored
<1>3. QED
  BY <1>1, <1>2 DEF vault, Vaulted, Stored

LEMMA GoalShape ==
  ASSUME Calls, NEW r \in Requests, call[r].at = "encrypted"
  PROVE  LET goal == call[r].goal
         IN  /\ call[r].worker \in Processes /\ call[r].key \in Int
             /\ goal.kind \in {"create", "update", "reveal"}
             /\ goal.kind = "create" => goal.value /\ goal.name \in SecretNames
             /\ goal.kind = "update" => goal.name \in SecretNames \cup {Empty} /\ goal.value \in BOOLEAN
<1>1. call[r] \in [at : VaultSteps, worker : Processes, goal : Goal, key : Int]
  BY CallShape DEF Calls, VaultSteps
<1>2. QED
  BY <1>1 DEF Goal

LEMMA CommitKept ==
  ASSUME Calls, Vaulted, NEW r \in Requests, CommitSecret(r), call' = [call EXCEPT ![r] = Done]
  PROVE  Vaulted'
<1> DEFINE goal == call[r].goal
           w == call[r].worker
           key == call[r].key
<1>1. /\ call[r].at = "encrypted" /\ goal.kind # "reveal"
      /\ UNCHANGED <<vaultKeySet, fernet, keys, raced>>
      /\ call \in [Requests -> CallType] /\ secrets \in Seq(SecretRow \cup {Gone})
  BY DEF CommitSecret, Calls, Vaulted
<1>2. /\ w \in Processes /\ key \in Int /\ goal.kind \in {"create", "update"}
      /\ goal.kind = "create" => goal.value /\ goal.name \in SecretNames
      /\ goal.kind = "update" => goal.name \in SecretNames \cup {Empty} /\ goal.value \in BOOLEAN
  BY <1>1, GoalShape
<1>3. goal.value => /\ key # NoKey
                    /\ IF vaultKeySet THEN key = VaultKey ELSE ~raced[w] => fernet[w] = key
  BY <1>1 DEF Vaulted, KeysUsed, KeyHeld, Storing
<1>4. /\ \A q \in Requests : KeyHeld(q)'
      /\ \A p, q \in Requests : call'[p].at = "keyed" /\ call'[q].at = "keyed" /\ call'[p].worker = call'[q].worker
                                  /\ ~raced'[call'[q].worker] => p = q
  BY <1>1, KeysStay DEF Done, Storing
<1>5. SUFFICES /\ secrets' \in Seq(SecretRow \cup {Gone})
               /\ \A i, j \in Stored' : secrets'[i].name = secrets'[j].name => i = j
               /\ \A i \in Stored' : LET row == secrets'[i]
                    IN  /\ row.key # NoKey
                        /\ IF vaultKeySet THEN row.key = VaultKey
                           ELSE row.by # Gone /\ ~raced[row.by] => fernet[row.by] = row.key
  BY <1>1, <1>4 DEF Vaulted, KeysUsed, SecretKept
<1>6. \A i \in Stored : LET row == secrets[i]
                        IN  /\ row.key # NoKey
                            /\ IF vaultKeySet THEN row.key = VaultKey
                               ELSE row.by # Gone /\ ~raced[row.by] => fernet[row.by] = row.key
  BY DEF Vaulted, KeysUsed, SecretKept
<1>7. DOMAIN secrets = 1..Len(secrets) /\ Len(secrets) \in Nat
  BY <1>1
<1>8. CASE UNCHANGED secrets
  BY <1>1, <1>6, <1>8 DEF Vaulted, Stored
<1>9. CASE /\ goal.kind = "create" /\ goal.name \notin NamesOf(Stored)
           /\ secrets' = Append(secrets, [name |-> goal.name, key |-> key, by |-> w])
  <2> DEFINE row == [name |-> goal.name, key |-> key, by |-> w]
  <2>1. row \in SecretRow /\ row.name = goal.name /\ row.key = key /\ row.by = w
    BY <1>2, <1>9 DEF SecretRow
  <2>2. secrets' = Append(secrets, row)
    BY <1>9
  <2> HIDE DEF row
  <2>3. /\ secrets' \in Seq(SecretRow \cup {Gone}) /\ Len(secrets') = Len(secrets) + 1
        /\ \A i \in 1..Len(secrets) : secrets'[i] = secrets[i]
        /\ secrets'[Len(secrets) + 1] = row
    BY <1>1, <2>1, <2>2, AppendProperties
  <2>4. DOMAIN secrets' = 1..(Len(secrets) + 1)
    BY <2>3
  <2>5. \A i \in Stored' : (i \in Stored /\ secrets'[i] = secrets[i]) \/ (i = Len(secrets) + 1 /\ secrets'[i] = row)
    BY <1>7, <2>3, <2>4 DEF Stored
  <2>6. \A i \in Stored : secrets[i].name # row.name
    BY <1>9, <2>1 DEF NamesOf
  <2>7. \A i, j \in Stored' : secrets'[i].name = secrets'[j].name => i = j
    BY <2>5, <2>6 DEF Vaulted
  <2>8. /\ row.key # NoKey
        /\ IF vaultKeySet THEN row.key = VaultKey
           ELSE row.by # Gone /\ ~raced[row.by] => fernet[row.by] = row.key
    BY <1>2, <1>3, <1>9, <2>1
  <2>9. QED
    BY <1>6, <2>3, <2>5, <2>7, <2>8
<1>10. CASE /\ goal.kind = "update" /\ goal.id \in Stored /\ goal.name \notin NamesOf(Stored \ {goal.id})
            /\ secrets' = [secrets EXCEPT ![goal.id] = Updated(@, goal, key, w)]
  <2> DEFINE id == goal.id
             row == Updated(secrets[id], goal, key, w)
  <2>1. secrets[id] \in SecretRow /\ id \in 1..Len(secrets)
    BY <1>10, GoalsShape
  <2>2. /\ row \in SecretRow
        /\ row.name = IF goal.name = Empty THEN secrets[id].name ELSE goal.name
        /\ row.key = IF goal.value THEN key ELSE secrets[id].key
        /\ row.by = IF goal.value THEN w ELSE secrets[id].by
    BY <1>2, <1>10, <2>1 DEF Updated, SecretRow
  <2>3. secrets' = [secrets EXCEPT ![id] = row]
    BY <1>10
  <2> HIDE DEF row
  <2>4. /\ secrets' \in Seq(SecretRow \cup {Gone}) /\ DOMAIN secrets' = DOMAIN secrets
        /\ secrets'[id] = row /\ \A i \in DOMAIN secrets \ {id} : secrets'[i] = secrets[i]
    BY <1>1, <1>7, <2>1, <2>2, <2>3, ExceptSeq
  <2>5. \A i \in Stored' : (i # id /\ i \in Stored /\ secrets'[i] = secrets[i]) \/ (i = id /\ secrets'[i] = row)
    BY <2>4 DEF Stored
  <2>6. \A i \in Stored \ {id} : secrets[i].name # row.name
    BY <1>10, <2>2 DEF NamesOf, Vaulted
  <2>7. \A i, j \in Stored' : secrets'[i].name = secrets'[j].name => i = j
    BY <2>5, <2>6 DEF Vaulted
  <2>8. /\ row.key # NoKey
        /\ IF vaultKeySet THEN row.key = VaultKey
           ELSE row.by # Gone /\ ~raced[row.by] => fernet[row.by] = row.key
    BY <1>3, <1>6, <1>10, <2>2
  <2>9. QED
    BY <1>6, <2>4, <2>5, <2>7, <2>8
<1>11. QED
  BY <1>8, <1>9, <1>10 DEF CommitSecret

LEMMA SetKeyKept ==
  ASSUME Calls, Vaulted, NEW r \in Requests, SetKey(r)
  PROVE  Vaulted'
<1> DEFINE w == call[r].worker
           key == call[r].key
<1>1. /\ call[r].at = "keyed" /\ call[r] \in CallType
      /\ fernet' = [fernet EXCEPT ![w] = key] /\ call' = [call EXCEPT ![r].at = "encrypted"]
      /\ UNCHANGED <<vaultKeySet, keys, secrets, raced>> /\ NoKey = -1
  BY DEF SetKey, Calls, NoKey
<1>2. call[r] \in [at : VaultSteps, worker : Processes, goal : Goal, key : Int]
  BY <1>1, CallShape DEF VaultSteps
<1>3. /\ call'[r].at = "encrypted" /\ call'[r].worker = w /\ call'[r].key = key
      /\ \A q \in Requests \ {r} : call'[q] = call[q] /\ (Storing(q)' <=> Storing(q))
  BY <1>1, <1>2 DEF Calls, Storing
<1>4. /\ ~vaultKeySet /\ key \in 1..keys /\ w \in Processes
      /\ ~raced[w] => fernet[w] = NoKey
  BY <1>1, <1>2 DEF Vaulted, KeysUsed, KeyHeld
<1>5. /\ fernet' \in [Processes -> NoKey..keys] /\ fernet'[w] = key
      /\ \A p \in Processes \ {w} : fernet'[p] = fernet[p]
  BY <1>1, <1>4 DEF Vaulted
<1>6. SecretKept'
  <2>1. \A i \in Stored : secrets[i].by \in Processes \cup {Gone}
    BY GoalsShape DEF SecretRow
  <2>2. QED
    BY <1>1, <1>4, <1>5, <2>1 DEF Vaulted, SecretKept, KeysUsed, Stored
<1>7. ASSUME NEW q \in Requests PROVE KeyHeld(q)'
  <2>1. CASE q = r
    BY <1>1, <1>3, <1>4, <1>5, <2>1 DEF KeyHeld
  <2>2. CASE q # r
    <3>1. call[q].at \in VaultSteps => call[q].worker \in Processes
      BY CallShape DEF Calls
    <3>2. call[q].at = "keyed" /\ call[q].worker = w => raced[w]
      BY <1>1, <2>2 DEF Vaulted, KeysUsed
    <3>3. KeyHeld(q)
      BY DEF Vaulted, KeysUsed
    <3>4. QED
      BY <1>1, <1>3, <1>4, <1>5, <2>2, <3>1, <3>2, <3>3 DEF KeyHeld, Storing, VaultSteps
  <2>3. QED
    BY <2>1, <2>2
<1>8. \A p, q \in Requests : call'[p].at = "keyed" /\ call'[q].at = "keyed" /\ call'[p].worker = call'[q].worker
                               /\ ~raced'[call'[q].worker] => p = q
  BY <1>1, <1>3 DEF Vaulted, KeysUsed
<1>9. KeysUsed'
  BY <1>1, <1>4, <1>7, <1>8 DEF Vaulted, KeysUsed, Stored
<1>10. QED
  BY <1>1, <1>5, <1>6, <1>9 DEF Vaulted, Stored

LEMMA VaultKept ==
  ASSUME Calls, Vaulted, NEW r \in Requests, Vault(r)
  PROVE  Vaulted'
<1>1. call \in [Requests -> CallType]
  BY DEF Calls
<1>2. ASSUME NEW w \in Processes, BeginStoring(r, w)
      PROVE  Vaulted'
  <2>1. PICK goal \in Goals :
          IF goal.value THEN GetFernet(r, w, goal)
          ELSE /\ call' = [call EXCEPT ![r] = [at |-> "encrypted", worker |-> w, goal |-> goal, key |-> NoKey]]
               /\ UNCHANGED <<fernet, keys, raced>>
    BY <1>2 DEF BeginStoring
  <2>2. goal \in Goal /\ call[r] = New /\ UNCHANGED <<vaultKeySet, secrets>>
    BY <1>2, GoalsShape DEF BeginStoring, Arrives
  <2>3. CASE goal.value
    BY <2>1, <2>2, <2>3, FernetGot
  <2>4. CASE ~goal.value
    <3>1. UNCHANGED vault /\ call'[r].at = "encrypted" /\ call'[r].goal = goal
          /\ \A q \in Requests \ {r} : call'[q] = call[q]
      BY <1>1, <2>1, <2>2, <2>4 DEF vault
    <3>2. QED
      BY <2>4, <3>1, VaultAside DEF Storing
  <2>5. QED
    BY <2>3, <2>4
<1>3. ASSUME NEW w \in Processes, BeginReveal(r, w)
      PROVE  Vaulted'
  BY <1>3, GoalsShape, FernetGot DEF BeginReveal, Arrives
<1>4. CASE CommitSecret(r)
  BY <1>4, CommitKept DEF CommitSecret, Answer
<1>5. CASE AnswerReveal(r)
  BY <1>1, <1>5, VaultAside DEF AnswerReveal, Answer, Done, Storing
<1>6. CASE DeleteSecret(r)
  <2>1. PICK i \in Stored : secrets' = [secrets EXCEPT ![i] = Gone]
    BY <1>6 DEF DeleteSecret
  <2>2. UNCHANGED <<vaultKeySet, fernet, keys, raced>> /\ call' = [call EXCEPT ![r] = Done]
    BY <1>6 DEF DeleteSecret, Answer
  <2>3. /\ \A q \in Requests : KeyHeld(q)'
        /\ \A p, q \in Requests : call'[p].at = "keyed" /\ call'[q].at = "keyed"
             /\ call'[p].worker = call'[q].worker /\ ~raced'[call'[q].worker] => p = q
    BY <1>1, <2>2, KeysStay DEF Done, Storing
  <2>4. secrets' \in Seq(SecretRow \cup {Gone}) /\ Stored' \subseteq Stored
        /\ \A j \in Stored' : secrets'[j] = secrets[j]
    BY <2>1, GoalsShape, ExceptSeq DEF Vaulted, Stored
  <2>5. SecretKept'
    BY <2>2, <2>4 DEF Vaulted, SecretKept
  <2>6. QED
    BY <2>2, <2>3, <2>4, <2>5 DEF Vaulted, KeysUsed
<1>7. QED
  BY <1>2, <1>3, <1>4, <1>5, <1>6, SetKeyKept DEF Vault

LEMMA RecycleVault ==
  ASSUME Calls, Vaulted, NEW w \in Processes, Recycle(w)
  PROVE  Vaulted'
<1>1. PICK S \in SUBSET {r \in Open : call[r].at \in ListSteps} : Abandon(S \cup Served(w))
  BY DEF Recycle, ListSteps
<1>2. /\ fernet' = [fernet EXCEPT ![w] = NoKey] /\ raced' = [raced EXCEPT ![w] = FALSE]
      /\ UNCHANGED <<vaultKeySet, keys>>
      /\ secrets' = [i \in DOMAIN secrets |->
                       IF i \in Stored /\ secrets[i].by = w THEN [secrets[i] EXCEPT !.by = Gone] ELSE secrets[i]]
  BY DEF Recycle
<1>3. \A q \in Requests : call'[q] = Done \/ (call'[q] = call[q] /\ q \notin Served(w))
  BY <1>1 DEF Abandon
<1>4. \A q \in Requests : call'[q].at \in VaultSteps =>
        call'[q] = call[q] /\ (Storing(q)' <=> Storing(q)) /\ call[q].worker \in Processes \ {w}
  <2> SUFFICES ASSUME NEW q \in Requests, call'[q].at \in VaultSteps
               PROVE  call'[q] = call[q] /\ (Storing(q)' <=> Storing(q)) /\ call[q].worker \in Processes \ {w}
    OBVIOUS
  <2>1. call'[q] = call[q] /\ q \notin Served(w)
    BY <1>3 DEF Done, VaultSteps
  <2>2. call[q].worker \in Processes
    BY <2>1, CallShape DEF Calls
  <2>3. call[q].worker # w
    BY <2>1 DEF Served, Open, VaultSteps
  <2>4. QED
    BY <2>1, <2>2, <2>3 DEF Storing
<1>5. /\ fernet' \in [Processes -> NoKey..keys] /\ fernet'[w] = NoKey
      /\ raced' \in [Processes -> BOOLEAN]
      /\ \A p \in Processes \ {w} : fernet'[p] = fernet[p] /\ raced'[p] = raced[p]
  BY <1>2 DEF Vaulted, NoKey
<1>6. /\ secrets \in Seq(SecretRow \cup {Gone}) /\ DOMAIN secrets = 1..Len(secrets) /\ Len(secrets) \in Nat
      /\ \A i \in Stored : secrets[i] \in SecretRow
  <2>1. secrets \in Seq(SecretRow \cup {Gone})
    BY DEF Vaulted
  <2>2. QED
    BY <2>1, GoalsShape, LenProperties
<1>7. \A i \in DOMAIN secrets :
        /\ secrets'[i] \in SecretRow \cup {Gone}
        /\ i \in Stored' => /\ i \in Stored /\ secrets'[i].name = secrets[i].name /\ secrets'[i].key = secrets[i].key
                            /\ secrets'[i].by = IF secrets[i].by = w THEN Gone ELSE secrets[i].by
  BY <1>2, <1>6 DEF Stored, SecretRow
<1>8. secrets' \in Seq(SecretRow \cup {Gone}) /\ DOMAIN secrets' = DOMAIN secrets
  BY <1>2, <1>6, <1>7
<1>9. \A i \in Stored' : i \in DOMAIN secrets
  BY <1>8 DEF Stored
<1>10. SecretKept'
  <2>1. \A i \in Stored : secrets[i].by \in Processes \cup {Gone}
    BY <1>6 DEF SecretRow
  <2>2. vaultKeySet => \A p \in Processes : fernet'[p] \in {NoKey, VaultKey}
    BY <1>5 DEF Vaulted, KeysUsed
  <2>3. ASSUME NEW i \in Stored', ~vaultKeySet, secrets'[i].by # Gone, ~raced'[secrets'[i].by]
        PROVE  fernet'[secrets'[i].by] = secrets'[i].key
    <3>1. i \in Stored /\ secrets'[i].by = secrets[i].by /\ secrets[i].by \in Processes \ {w}
      BY <1>7, <1>9, <2>1, <2>3
    <3>2. QED
      BY <1>5, <1>7, <1>9, <2>3, <3>1 DEF Vaulted, SecretKept
  <2>4. \A i \in Stored' : vaultKeySet => secrets'[i].key = VaultKey
    BY <1>7, <1>9 DEF Vaulted, SecretKept
  <2>5. QED
    BY <1>2, <2>2, <2>3, <2>4 DEF SecretKept
<1>11. KeysUsed'
  <2>1. ASSUME NEW q \in Requests PROVE KeyHeld(q)'
    BY <1>2, <1>4, <1>5 DEF Vaulted, KeysUsed, KeyHeld, Storing, VaultSteps
  <2>2. \A p, q \in Requests : call'[p].at = "keyed" /\ call'[q].at = "keyed" /\ call'[p].worker = call'[q].worker
                                 /\ ~raced'[call'[q].worker] => p = q
    BY <1>4, <1>5 DEF Vaulted, KeysUsed, VaultSteps
  <2>3. QED
    BY <1>2, <1>5, <1>7, <1>9, <2>1, <2>2 DEF Vaulted, KeysUsed
<1>12. \A i, j \in Stored' : secrets'[i].name = secrets'[j].name => i = j
  BY <1>7, <1>9 DEF Vaulted
<1>13. keys' \in Nat /\ fernet' \in [Processes -> NoKey..keys']
  BY <1>2, <1>5 DEF Vaulted
<1>14. QED
  BY <1>5, <1>8, <1>10, <1>11, <1>12, <1>13 DEF Vaulted

-----------------------------------------------------------------------------
(* The settings.                                                           *)

LEMMA SettingsCalls ==
  ASSUME Calls, NEW r \in Requests, Settings(r)
  PROVE  /\ call' \in [Requests -> CallType]
         /\ \A q \in Requests \ {r} : call'[q] = call[q]
         /\ call[r].at \in {"new", "applying"}
         /\ call'[r].at \in {"done", "applying"}
<1>1. call \in [Requests -> CallType] /\ Done \in CallType /\ New.at = "new" /\ Done.at = "done"
  BY DEF Calls, CallType, New, Done
<1>2. \A w \in Processes, kind \in {"set", "clear"}, value \in ApiKeys \cup {Empty} :
        [at |-> "applying", worker |-> w, kind |-> kind, value |-> value] \in CallType
  BY DEF CallType
<1>3. ASSUME NEW w \in Processes, SetSetting(r, w) \/ ClearSetting(r, w)
      PROVE  /\ call[r] = New
             /\ \/ call' = [call EXCEPT ![r] = Done]
                \/ \E kind \in {"set", "clear"}, value \in ApiKeys \cup {Empty} : Apply(r, w, kind, value)
  BY <1>3 DEF SetSetting, ClearSetting, Arrives, Answer
<1>4. CASE ApplySetting(r)
  BY <1>1, <1>4 DEF ApplySetting, Answer
<1>5. QED
  BY <1>1, <1>2, <1>3, <1>4 DEF Settings, Apply

LEMMA SettingsKept ==
  ASSUME Calls, Cleared, NEW r \in Requests, Settings(r)
  PROVE  Cleared'
<1>1. call \in [Requests -> CallType] /\ Done.at = "done"
  BY DEF Calls, Done
<1>2. ASSUME NEW w \in Processes, SetSetting(r, w)
      PROVE  Cleared'
  <2>1. PICK value \in ApiKeys \cup {Empty} : setting' = value /\ Apply(r, w, "set", value)
    BY <1>2 DEF SetSetting
  <2>2. /\ wiped' = [wiped EXCEPT ![w] = FALSE] /\ config' = config
        /\ call'[r] = [at |-> "applying", worker |-> w, kind |-> "set", value |-> value]
        /\ \A q \in Requests \ {r} : call'[q] = call[q]
    BY <1>1, <1>2, <2>1 DEF SetSetting, Apply
  <2>3. wiped' \in [Processes -> BOOLEAN] /\ \A p \in Processes : wiped'[p] => p # w /\ wiped[p]
    BY <2>2 DEF Cleared
  <2>4. QED
    BY <2>1, <2>2, <2>3 DEF Cleared, ClearsApplied
<1>3. ASSUME NEW w \in Processes, ClearSetting(r, w)
      PROVE  Cleared'
  <2>1. /\ UNCHANGED <<config, wiped>> /\ setting' \in {setting, Empty}
        /\ \A q \in Requests \ {r} : call'[q] = call[q]
        /\ call'[r] \in {Done, [at |-> "applying", worker |-> w, kind |-> "clear", value |-> Empty]}
    BY <1>1, <1>3 DEF ClearSetting, Apply, Answer
  <2>2. QED
    BY <1>1, <2>1 DEF Cleared, ClearsApplied
<1>4. CASE ApplySetting(r)
  <2> DEFINE w == call[r].worker
             value == call[r].value
             alone == \A q \in Requests \ {r} : call[q].at = "applying" => call[q].worker # w
  <2>1. /\ call[r].at = "applying" /\ setting' = setting /\ config' = [config EXCEPT ![w] = value]
        /\ wiped' = [wiped EXCEPT ![w] = call[r].kind = "clear" /\ alone]
        /\ call' = [call EXCEPT ![r] = Done]
    BY <1>4 DEF ApplySetting, Answer
  <2>2. w \in Processes /\ value \in ApiKeys \cup {Empty}
    BY <1>1, <2>1, CallShape
  <2>3. /\ config' \in [Processes -> ApiKeys \cup {Empty}] /\ config'[w] = value
        /\ \A p \in Processes \ {w} : config'[p] = config[p]
    BY <2>1, <2>2 DEF Cleared
  <2>4. /\ wiped' \in [Processes -> BOOLEAN] /\ wiped'[w] = (call[r].kind = "clear" /\ alone)
        /\ \A p \in Processes \ {w} : wiped'[p] = wiped[p]
    BY <2>1, <2>2, Zenon DEF Cleared
  <2>5. /\ \A q \in Requests \ {r} : call'[q] = call[q]
        /\ call'[r].at = "done"
    BY <1>1, <2>1
  <2>6. ASSUME NEW p \in Processes, wiped'[p]
        PROVE  /\ config'[p] = Empty
               /\ \A q \in Requests : call'[q].at = "applying" /\ call'[q].worker = p => call'[q].kind = "clear"
    <3>1. CASE p = w
      <4>1. value = Empty
        BY <2>1, <2>4, <2>6, <3>1 DEF Cleared, ClearsApplied
      <4>2. QED
        BY <2>3, <2>4, <2>5, <2>6, <3>1, <4>1
    <3>2. CASE p # w
      BY <2>3, <2>4, <2>5, <2>6, <3>2 DEF Cleared, ClearsApplied
    <3>3. QED
      BY <3>1, <3>2
  <2>7. ClearsApplied'
    BY <2>5, <2>6 DEF Cleared, ClearsApplied
  <2>8. QED
    BY <2>1, <2>3, <2>4, <2>7 DEF Cleared
<1>5. QED
  BY <1>2, <1>3, <1>4 DEF Settings

LEMMA SettingsAside ==
  ASSUME Cleared, UNCHANGED settings, \A q \in Requests : call'[q] = call[q] \/ call'[q].at # "applying"
  PROVE  Cleared'
BY DEF Cleared, ClearsApplied, settings

LEMMA RecycleSettings ==
  ASSUME Calls, Cleared, NEW w \in Processes, Recycle(w)
  PROVE  Cleared'
<1>1. PICK S \in SUBSET {r \in Open : call[r].at \in ListSteps} : Abandon(S \cup Served(w))
  BY DEF Recycle, ListSteps
<1>2. \A q \in Requests : call'[q] = Done \/ call'[q] = call[q]
  BY <1>1 DEF Abandon
<1>3. Loaded \in ApiKeys \cup {Empty}
  BY WorkersAssumption DEF Loaded
<1>4. /\ config' = [config EXCEPT ![w] = Loaded] /\ wiped' = [wiped EXCEPT ![w] = FALSE] /\ setting' = setting
  BY DEF Recycle
<1>5. /\ config' \in [Processes -> ApiKeys \cup {Empty}] /\ wiped' \in [Processes -> BOOLEAN]
      /\ \A p \in Processes : wiped'[p] => wiped[p] /\ config'[p] = config[p]
  BY <1>3, <1>4 DEF Cleared
<1>6. QED
  BY <1>2, <1>4, <1>5 DEF Cleared, ClearsApplied, Done

-----------------------------------------------------------------------------
(* The lists.                                                              *)

\* A change makes the lists late that have been read, and the cached one is to be dropped or
\* may lapse.
LEMMA Overtakes ==
  ASSUME Calls, Listed, NEW r \in Requests, NEW c \in Collections, NEW x \in CallType,
         call' = [Overtaken(c) EXCEPT ![r] = x],
         call[r].at \in {"new", "missed"}, x.at \in {"done", "loaded", "written"},
         x.at = "loaded" => x.list = View(x.coll)',
         UNCHANGED <<cache, redis>>, \A d \in Collections \ {c} : table'[d] = table[d],
         lapse' \in [Collections -> BOOLEAN], \A d \in Collections \ {c} : lapse'[d] = lapse[d],
         lapse'[c] \/ (x.at = "written" /\ x.coll = c)
  PROVE  /\ Listed' /\ Calls'
         /\ \A q \in Requests : call'[q] = call[q] \/ call'[q].at \in {"done"} \cup ListSteps
<1>1. call \in [Requests -> CallType]
  BY DEF Calls
<1>2. call'[r] = x
  BY <1>1 DEF Overtaken
<1>3. ASSUME NEW q \in Requests \ {r}
      PROVE  /\ call'[q] \in CallType /\ call'[q].at = call[q].at
             /\ call[q].at \in {"loaded", "written"} => call'[q].coll = call[q].coll
             /\ call[q].at = "loaded" /\ ~call'[q].late => call[q].coll # c /\ call'[q] = call[q]
  <2>1. call'[q] = IF call[q].at = "loaded" /\ call[q].coll = c THEN [call[q] EXCEPT !.late = TRUE] ELSE call[q]
    BY <1>1 DEF Overtaken
  <2>2. call[q].at = "loaded" => call[q] \in [at : {"loaded"}, coll : Collections, list : Lists, late : BOOLEAN]
    BY <1>1, CallShape DEF Lists
  <2>3. [at : {"loaded"}, coll : Collections, list : Lists, late : BOOLEAN] \subseteq CallType
    BY DEF CallType, Lists
  <2>4. CASE call[q].at = "loaded" /\ call[q].coll = c
    <3> DEFINE y == [call[q] EXCEPT !.late = TRUE]
    <3>1. y \in [at : {"loaded"}, coll : Collections, list : Lists, late : BOOLEAN]
          /\ y.coll = call[q].coll /\ y.late
      BY <2>2, <2>4
    <3>2. call'[q] = y
      BY <2>1, <2>4
    <3> HIDE DEF y
    <3>3. QED
      BY <2>3, <2>4, <3>1, <3>2
  <2>5. CASE ~(call[q].at = "loaded" /\ call[q].coll = c)
    BY <1>1, <2>1, <2>5
  <2>6. QED
    BY <2>4, <2>5
<1>4. call' \in [Requests -> CallType]
  BY <1>1, <1>2, <1>3 DEF Overtaken
<1>5. \A d \in Collections \ {c} : View(d)' = View(d)
  BY DEF View
<1>6. ListsRead'
  <2>1. \A q \in Requests : call[q].at = "loaded" => call[q].coll \in Collections
    BY <1>1, CallShape
  <2>2. QED
    BY <1>2, <1>3, <1>5, <2>1 DEF Listed, ListsRead
<1>7. CacheCoherent'
  <2> SUFFICES ASSUME NEW d \in Collections, cache[d] # Nothing, ~lapse'[d],
                      \A q \in Requests : call'[q].at = "written" => call'[q].coll # d
               PROVE  cache[d].list = View(d)'
    BY DEF CacheCoherent
  <2>1. d # c /\ ~lapse[d]
    BY <1>2
  <2>2. \A q \in Requests : call[q].at = "written" => call[q].coll # d
    BY <1>3
  <2>3. QED
    BY <1>5, <2>1, <2>2 DEF Listed, CacheCoherent
<1>8. \A q \in Requests : call'[q] = call[q] \/ call'[q].at \in {"done"} \cup ListSteps
  BY <1>1, <1>2, <1>3 DEF Overtaken, ListSteps
<1>9. QED
  BY <1>4, <1>6, <1>7, <1>8 DEF Listed, Calls

\* Nothing changes in the tables or the cache, and no list has been read.
LEMMA ListsAside ==
  ASSUME Listed, UNCHANGED <<table, cache, redis, lapse>>,
         \A q \in Requests : call'[q] = call[q] \/ (call[q].at # "written" /\ call'[q].at # "loaded")
  PROVE  Listed'
<1>1. ListsRead'
  BY DEF Listed, ListsRead, View
<1>2. CacheCoherent'
  BY DEF Listed, CacheCoherent, View
<1>3. QED
  BY <1>1, <1>2 DEF Listed

LEMMA LoadKept ==
  ASSUME Calls, TablesOK, Listed, NEW r \in Requests, Load(r), TablesOK'
  PROVE  /\ Listed' /\ Calls'
         /\ \A q \in Requests : call'[q] = call[q] \/ call'[q].at \in {"done"} \cup ListSteps
<1>0. PICK c \in Collections : c = call[r].coll
  BY CallShape DEF Load, Calls
<1> DEFINE rows == table[c] \o Seeded(r)
           x == [at |-> "loaded", coll |-> c, list |-> Shown(c, rows), late |-> FALSE]
<1>1. /\ call[r] \in CallType /\ call[r].at = "missed" /\ table' = [table EXCEPT ![c] = rows]
      /\ lapse' = [lapse EXCEPT ![c] = @ \/ Seeded(r) # <<>>]
      /\ call' = [(IF Seeded(r) # <<>> THEN Overtaken(c) ELSE call) EXCEPT ![r] = x]
      /\ UNCHANGED <<cache, redis>>
  BY <1>0 DEF Load, Calls
<1>3. table[c] \in Rows /\ table'[c] = rows /\ \A d \in Collections \ {c} : table'[d] = table[d]
  BY <1>1 DEF TablesOK
<1>4. rows \in Rows /\ View(c)' = Shown(c, rows)
  <2> HIDE DEF rows
  <2>1. table'[c] \in Rows
    BY DEF TablesOK
  <2>2. View(c)' = Shown(c, table'[c])
    BY DEF View
  <2>3. QED
    BY <1>3, <2>1, <2>2
<1>5. x \in CallType /\ x.at = "loaded" /\ x.coll = c /\ x.list = Shown(c, rows) /\ ~x.late
  BY <1>4 DEF CallType, Lists
<1>6. /\ lapse' \in [Collections -> BOOLEAN] /\ (lapse[c] \/ Seeded(r) # <<>> => lapse'[c])
      /\ \A d \in Collections \ {c} : lapse'[d] = lapse[d]
  BY <1>1, Zenon DEF Listed
<1> HIDE DEF x
<1>7. CASE Seeded(r) # <<>>
  BY <1>1, <1>3, <1>4, <1>5, <1>6, <1>7, Overtakes
<1>8. CASE Seeded(r) = <<>>
  <2>1. rows = table[c]
    BY <1>3, <1>8, ConcatEmptySeq DEF Rows
  <2> HIDE DEF rows
  <2>2. \A d \in Collections : View(d)' = View(d) /\ (lapse[d] => lapse'[d])
    BY <1>3, <1>6, <2>1 DEF View
  <2>3. call'[r] = x /\ \A q \in Requests \ {r} : call'[q] = call[q]
    BY <1>1, <1>8 DEF Calls
  <2>4. ListsRead'
    <3>1. \A q \in Requests : call[q].at = "loaded" => call[q].coll \in Collections
      BY CallShape DEF Calls
    <3>2. QED
      BY <1>4, <1>5, <2>2, <2>3, <3>1 DEF Listed, ListsRead
  <2>5. CacheCoherent'
    BY <1>1, <1>5, <2>2, <2>3 DEF Listed, CacheCoherent
  <2>6. Calls'
    BY <1>1, <1>5, <1>8 DEF Calls
  <2>7. QED
    BY <1>1, <1>5, <1>6, <2>3, <2>4, <2>5, <2>6 DEF Listed, ListSteps
<1>9. QED
  BY <1>7, <1>8

\* What is true of the lists remains so when one is stored or dropped.
LEMMA CacheStep ==
  ASSUME Calls, Listed, NEW r \in Requests, Store(r) \/ Invalidate(r)
  PROVE  /\ Listed' /\ Calls'
         /\ \A q \in Requests : call'[q] = call[q] \/ call'[q].at \in {"done"} \cup ListSteps
<1>0. PICK c \in Collections : c = call[r].coll
  BY CallShape DEF Store, Invalidate, Calls
<1>1. /\ call[r] \in CallType /\ call[r].at \in {"loaded", "written"} /\ call' = [call EXCEPT ![r] = Done]
      /\ UNCHANGED <<table, redis>> /\ Done \in CallType /\ Done.at = "done"
  BY DEF Store, Invalidate, Answer, Calls, CallType, Done
<1>2. Nothing \in [list : Lists \cup {<<>>}, left : -1..TTL]
  BY CatalogAssumption DEF Nothing
<1>3. /\ Calls' /\ \A q \in Requests \ {r} : call'[q] = call[q]
      /\ call'[r].at = "done"
  BY <1>1 DEF Calls
<1>4. ListsRead'
  BY <1>1, <1>3 DEF Listed, ListsRead, View
<1>5. CASE Store(r)
  <2> DEFINE x == [list |-> call[r].list, left |-> TTL]
  <2>1. call[r] \in [at : {"loaded"}, coll : Collections, list : Lists, late : BOOLEAN]
    BY <1>1, <1>5, CallShape DEF Store
  <2>2. x \in [list : Lists \cup {<<>>}, left : -1..TTL] /\ x.list = call[r].list
    BY <2>1, CatalogAssumption
  <2>3. /\ cache' = IF redis THEN [cache EXCEPT ![c] = x] ELSE cache
        /\ lapse' = IF redis THEN [lapse EXCEPT ![c] = call[r].late] ELSE lapse
    BY <1>0, <1>5 DEF Store
  <2>4. ~call[r].late => call[r].list = View(c)
    BY <1>0, <1>5 DEF Listed, ListsRead, Store
  <2> HIDE DEF x
  <2>5. CASE redis
    <3>1. /\ cache' \in [Collections -> [list : Lists \cup {<<>>}, left : -1..TTL]]
          /\ lapse' \in [Collections -> BOOLEAN]
          /\ cache'[c] = x /\ lapse'[c] = call[r].late
          /\ \A d \in Collections \ {c} : cache'[d] = cache[d] /\ lapse'[d] = lapse[d]
      BY <1>2, <2>1, <2>2, <2>3, <2>5 DEF Listed
    <3>2. \A q \in Requests : call[q].at = "written" => call'[q] = call[q]
      BY <1>3, <1>5 DEF Store
    <3>3. \A d \in Collections : View(d)' = View(d)
      BY <1>1 DEF View
    <3>4. CacheCoherent'
      BY <2>2, <2>4, <3>1, <3>2, <3>3 DEF Listed, CacheCoherent
    <3>5. QED
      BY <1>1, <1>3, <1>4, <3>1, <3>4 DEF Listed
  <2>6. CASE ~redis
    <3>1. UNCHANGED <<cache, lapse>>
      BY <2>3, <2>6
    <3>2. CacheCoherent'
      BY <1>1, <1>3, <1>5, <3>1 DEF Listed, CacheCoherent, View, Store
    <3>3. QED
      BY <1>1, <1>3, <1>4, <3>1, <3>2 DEF Listed
  <2>7. QED
    BY <2>5, <2>6
<1>6. CASE Invalidate(r)
  <2>1. /\ cache' = IF redis THEN [cache EXCEPT ![c] = Nothing] ELSE cache
        /\ lapse' = [lapse EXCEPT ![c] = ~redis] /\ call[r].at = "written"
    BY <1>0, <1>6 DEF Invalidate
  <2>2. /\ cache' \in [Collections -> [list : Lists \cup {<<>>}, left : -1..TTL]]
        /\ lapse' \in [Collections -> BOOLEAN]
        /\ lapse'[c] \/ cache'[c] = Nothing
        /\ \A d \in Collections \ {c} : cache'[d] = cache[d] /\ lapse'[d] = lapse[d]
    BY <1>2, <2>1 DEF Listed
  <2>3. CacheCoherent'
    BY <1>0, <1>1, <1>3, <2>1, <2>2 DEF Listed, CacheCoherent, View
  <2>4. QED
    BY <1>1, <1>3, <1>4, <2>2, <2>3 DEF Listed
<1>7. QED
  BY <1>5, <1>6

LEMMA WriteKept ==
  ASSUME Calls, TablesOK, Listed, NEW r \in Requests, NEW c \in Collections, NEW rows,
         Write(r, c, rows) \/ WriteSilently(r, c, rows)
  PROVE  /\ Listed' /\ Calls'
         /\ \A q \in Requests : call'[q] = call[q] \/ call'[q].at \in {"done"} \cup ListSteps
<1>1. /\ call[r].at = "new" /\ table' = [table EXCEPT ![c] = rows] /\ UNCHANGED <<cache, redis>>
  BY DEF Write, WriteSilently, Arrives, New
<1>2. \A d \in Collections \ {c} : table'[d] = table[d]
  BY <1>1 DEF TablesOK
<1>3. CASE Write(r, c, rows)
  <2> DEFINE x == [at |-> "written", coll |-> c]
  <2>1. x \in CallType /\ x.at = "written" /\ x.coll = c
    BY DEF CallType
  <2>2. call' = [Overtaken(c) EXCEPT ![r] = x] /\ lapse' = lapse
    BY <1>3 DEF Write
  <2> HIDE DEF x
  <2>3. QED
    BY <1>1, <1>2, <2>1, <2>2, Overtakes DEF Listed
<1>4. CASE WriteSilently(r, c, rows)
  <2>1. Done \in CallType /\ Done.at = "done"
    BY DEF CallType, Done
  <2>2. call' = [Overtaken(c) EXCEPT ![r] = Done] /\ lapse' = [lapse EXCEPT ![c] = TRUE]
    BY <1>4 DEF WriteSilently
  <2>3. lapse' \in [Collections -> BOOLEAN] /\ lapse'[c] /\ \A d \in Collections \ {c} : lapse'[d] = lapse[d]
    BY <2>2 DEF Listed
  <2>4. QED
    BY <1>1, <1>2, <2>1, <2>2, <2>3, Overtakes
<1>5. QED
  BY <1>3, <1>4

LEMMA CatalogKept ==
  ASSUME Calls, TablesOK, Listed, NEW r \in Requests, CatalogRequest(r), TablesOK'
  PROVE  /\ Listed' /\ Calls'
         /\ \A q \in Requests : call'[q] = call[q] \/ call'[q].at \in {"done"} \cup ListSteps
<1>1. ASSUME NEW x \in CallType, call' = [call EXCEPT ![r] = x], x.at \in {"done", "missed"},
             call[r].at \in {"new", "missed"}, UNCHANGED <<table, cache, redis, lapse>>
      PROVE  /\ Listed' /\ Calls'
             /\ \A q \in Requests : call'[q] = call[q] \/ call'[q].at \in {"done"} \cup ListSteps
  <2>1. \A q \in Requests : call'[q] = call[q] \/ (q = r /\ call'[q] = x)
    BY <1>1 DEF Calls
  <2>2. QED
    BY <1>1, <2>1, ListsAside DEF Calls, ListSteps
<1>2. Done \in CallType /\ Done.at = "done" /\ New.at = "new"
  BY DEF CallType, Done, New
<1>3. ASSUME NEW c \in Collections, LookUp(r, c)
      PROVE  \E x \in CallType : call' = [call EXCEPT ![r] = x] /\ x.at \in {"done", "missed"}
  <2> DEFINE x == [at |-> "missed", coll |-> c, seed |-> Builtins(c) \ Taken(c)]
  <2>1. Builtins(c) \ Taken(c) \in SUBSET {"builtin"}
    BY DEF Builtins
  <2>2. x \in CallType /\ x.at = "missed"
    BY <2>1 DEF CallType
  <2>3. call' = [call EXCEPT ![r] = Done] \/ call' = [call EXCEPT ![r] = x]
    BY <1>3 DEF LookUp, Answer
  <2> HIDE DEF x
  <2>4. QED
    BY <1>2, <2>2, <2>3
<1>4. \A c \in Collections : LookUp(r, c) => call[r].at = "new" /\ UNCHANGED <<table, cache, redis, lapse>>
  BY <1>2 DEF LookUp, Arrives
<1>5. CASE LoadFails(r)
  BY <1>1, <1>2, <1>5 DEF LoadFails, Answer
<1>6. ASSUME NEW p, NEW e, AttachEnvironment(r, p, e) \/ DetachEnvironment(r, p, e)
      PROVE  call[r].at = "new" /\ UNCHANGED <<table, cache, redis, lapse>> /\ call' = [call EXCEPT ![r] = Done]
  BY <1>2, <1>6 DEF AttachEnvironment, DetachEnvironment, Arrives, Answer
<1>7. ASSUME \E c \in Collections : \E rows : Write(r, c, rows) \/ WriteSilently(r, c, rows)
      PROVE  /\ Listed' /\ Calls'
             /\ \A q \in Requests : call'[q] = call[q] \/ call'[q].at \in {"done"} \cup ListSteps
  BY <1>7, WriteKept
<1>8. ASSUME NEW c \in Collections, NEW name \in Names(c), Create(r, c, name) \/ Import(r, c, name)
      PROVE  \E d \in Collections : \E rows : Write(r, d, rows) \/ WriteSilently(r, d, rows)
  BY <1>8 DEF Create, Import
<1>9. ASSUME NEW c \in Collections, NEW i, Delete(r, c, i)
      PROVE  \E d \in Collections : \E rows : Write(r, d, rows) \/ WriteSilently(r, d, rows)
  BY <1>9 DEF Delete
<1>10. ASSUME NEW c \in Collections, NEW i, NEW detail, Update(r, c, i, detail)
       PROVE  \E d \in Collections : \E rows : Write(r, d, rows) \/ WriteSilently(r, d, rows)
  BY <1>10 DEF Update
<1>11. ASSUME NEW i, TogglePlugin(r, i) \/ \E configs : SetConfigs(r, i, configs)
       PROVE  \E d \in Collections : \E rows : Write(r, d, rows) \/ WriteSilently(r, d, rows)
  <2>1. "plugins" \in Collections
    BY DEF Collections
  <2>2. QED
    BY <1>10, <1>11, <2>1 DEF TogglePlugin, SetConfigs
<1>12. CASE Load(r)
  BY <1>12, LoadKept
<1>13. CASE Store(r) \/ Invalidate(r)
  BY <1>13, CacheStep
<1>14. CASE \E c \in Collections : LookUp(r, c)
  BY <1>1, <1>3, <1>4, <1>14
<1>15. CASE \E p, e : AttachEnvironment(r, p, e) \/ DetachEnvironment(r, p, e)
  BY <1>1, <1>2, <1>6, <1>15
<1>16. QED
  BY <1>5, <1>7, <1>8, <1>9, <1>10, <1>11, <1>12, <1>13, <1>14, <1>15 DEF CatalogRequest

LEMMA EnvironmentKept ==
  ASSUME Calls, Listed, RedisFails \/ RedisReturns \/ Tick
  PROVE  Listed' /\ UNCHANGED <<table, attached, call>>
<1>1. Nothing \in [list : Lists \cup {<<>>}, left : -1..TTL] /\ Nothing.left = -1
  BY CatalogAssumption DEF Nothing
<1>2. CASE RedisFails \/ (RedisReturns /\ UNCHANGED <<cache, lapse>>)
  BY <1>2 DEF RedisFails, RedisReturns, Listed, ListsRead, CacheCoherent, View
<1>3. CASE RedisReturns /\ cache' = [c \in Collections |-> Nothing] /\ lapse' = [c \in Collections |-> FALSE]
  BY <1>1, <1>3 DEF RedisReturns, Listed, ListsRead, CacheCoherent, View
<1>4. CASE Tick
  <2>1. \A c \in Collections : cache[c] \in [list : Lists \cup {<<>>}, left : -1..TTL]
    BY DEF Listed
  <2>2. /\ UNCHANGED <<table, attached, redis, call, lapse>> /\ TTL \in Nat
        /\ cache' = [c \in Collections |->
             IF cache[c].left = 1 THEN Nothing
             ELSE IF cache[c].left > 1 THEN [cache[c] EXCEPT !.left = @ - 1] ELSE cache[c]]
    BY <1>4, CatalogAssumption DEF Tick
  <2>3. ASSUME NEW c \in Collections
        PROVE  /\ cache'[c] \in [list : Lists \cup {<<>>}, left : -1..TTL]
               /\ cache'[c] # Nothing => cache[c] # Nothing /\ cache'[c].list = cache[c].list
    <3>1. CASE cache[c].left > 1
      BY <1>1, <2>1, <2>2, <3>1
    <3>2. CASE ~(cache[c].left > 1)
      BY <1>1, <2>1, <2>2, <3>2
    <3>3. QED
      BY <3>1, <3>2
  <2>4. cache' \in [Collections -> [list : Lists \cup {<<>>}, left : -1..TTL]]
    BY <2>2, <2>3
  <2>5. QED
    BY <2>2, <2>3, <2>4 DEF Listed, ListsRead, CacheCoherent, View
<1>5. QED
  BY <1>2, <1>3, <1>4 DEF RedisFails, RedisReturns, Tick

LEMMA RecycleLists ==
  ASSUME Calls, Listed, NEW w \in Processes, Recycle(w)
  PROVE  Listed' /\ Calls' /\ UNCHANGED <<table, attached>>
<1>1. PICK S \in SUBSET {r \in Open : call[r].at \in {"missed", "loaded", "written"}} : Abandon(S \cup Served(w))
  BY DEF Recycle
<1>2. /\ call' = [r \in Requests |-> IF r \in S \cup Served(w) THEN Done ELSE call[r]]
      /\ lapse' = [c \in Collections |->
           lapse[c] \/ \E r \in S \cup Served(w) : call[r].at = "written" /\ call[r].coll = c]
      /\ UNCHANGED <<table, attached, cache, redis>>
  BY <1>1 DEF Recycle, Abandon
<1>3. Calls' /\ \A q \in Requests : call'[q] = call[q] \/ (call'[q].at = "done" /\ q \in S \cup Served(w))
  BY <1>2 DEF Calls, CallType, Done
<1>4. lapse' \in [Collections -> BOOLEAN]
      /\ \A c \in Collections : ~lapse'[c] =>
           /\ ~lapse[c]
           /\ \A r \in S \cup Served(w) : ~(call[r].at = "written" /\ call[r].coll = c)
  BY <1>2, Zenon DEF Listed
<1>5. ListsRead'
  BY <1>2, <1>3 DEF Listed, ListsRead, View
<1>6. CacheCoherent'
  BY <1>2, <1>3, <1>4 DEF Listed, CacheCoherent, View
<1>7. QED
  BY <1>2, <1>3, <1>4, <1>5, <1>6 DEF Listed

-----------------------------------------------------------------------------
(* The invariant and what follows from it.                                 *)

LEMMA WorkersInit == Init => WorkersInv
<1> SUFFICES ASSUME Init PROVE WorkersInv
  OBVIOUS
<1>1. Calls /\ \A r \in Requests : call[r].at = "new"
  BY DEF Init, CatalogInit, Calls, CallType, New
<1>2. TablesOK
  <2>1. table = [c \in Collections |-> <<>>] /\ attached = {} /\ <<>> \in Rows
    BY DEF Init, CatalogInit, Rows
  <2>2. \A c \in Collections : Live(c) = {}
    BY <2>1 DEF Live, Left
  <2>3. QED
    BY <2>1, <2>2 DEF TablesOK, Collections
<1>3. Listed
  <2>1. Nothing \in [list : Lists \cup {<<>>}, left : -1..TTL]
    BY CatalogAssumption DEF Nothing
  <2>2. QED
    BY <1>1, <2>1 DEF Init, CatalogInit, Listed, CacheCoherent, ListsRead
<1>4. Vaulted
  <2>1. secrets = <<>> /\ secrets \in Seq(SecretRow \cup {Gone}) /\ Stored = {}
    BY DEF Init, Stored
  <2>2. KeysUsed
    BY <1>1, <2>1 DEF Init, KeysUsed, KeyHeld, Storing
  <2>3. QED
    BY <2>1, <2>2 DEF Init, Vaulted, SecretKept, NoKey
<1>5. Cleared
  BY <1>1, WorkersAssumption DEF Init, Cleared, ClearsApplied
<1>6. QED
  BY <1>1, <1>2, <1>3, <1>4, <1>5 DEF WorkersInv

LEMMA WorkersStep == WorkersInv /\ [Next]_vars => WorkersInv'
<1> SUFFICES ASSUME WorkersInv, [Next]_vars PROVE WorkersInv'
  OBVIOUS
<1> USE DEF WorkersInv
<1>1. ASSUME NEW r \in Requests, Vault(r) PROVE WorkersInv'
  <2>0. UNCHANGED <<lists, settings>>
    BY <1>1 DEF Vault
  <2>1. /\ Calls' /\ \A q \in Requests \ {r} : call'[q] = call[q]
        /\ call[r].at \in {"new"} \cup VaultSteps /\ call'[r].at \in {"done"} \cup VaultSteps
    BY <1>1, VaultCalls DEF Calls
  <2>2. Listed'
    BY <2>0, <1>1, <2>1, ListsAside DEF lists, VaultSteps
  <2>3. Cleared'
    BY <2>0, <1>1, <2>1, SettingsAside DEF VaultSteps
  <2>4. QED
    BY <2>0, <1>1, <2>1, <2>2, <2>3, VaultKept DEF lists, TablesOK, Live
<1>2. ASSUME NEW r \in Requests, Settings(r) PROVE WorkersInv'
  <2>0. UNCHANGED <<lists, vault>>
    BY <1>2 DEF Settings
  <2>1. /\ Calls' /\ \A q \in Requests \ {r} : call'[q] = call[q]
        /\ call[r].at \in {"new", "applying"} /\ call'[r].at \in {"done", "applying"}
    BY <1>2, SettingsCalls DEF Calls
  <2>2. Listed'
    BY <2>0, <1>2, <2>1, ListsAside DEF lists
  <2>3. Vaulted'
    BY <2>0, <1>2, <2>1, VaultAside DEF Storing
  <2>4. QED
    BY <2>0, <1>2, <2>1, <2>2, <2>3, SettingsKept DEF lists, TablesOK, Live
<1>3. ASSUME NEW r \in Requests, CatalogRequest(r), UNCHANGED <<vault, settings>> PROVE WorkersInv'
  <2>1. TablesOK'
    BY <1>3, TableStep
  <2>2. /\ Listed' /\ Calls'
        /\ \A q \in Requests : call'[q] = call[q] \/ call'[q].at \in {"done"} \cup ListSteps
    BY <1>3, <2>1, CatalogKept
  <2>3. Vaulted'
    BY <1>3, <2>2, VaultAside DEF Storing, ListSteps
  <2>4. Cleared'
    BY <1>3, <2>2, SettingsAside DEF ListSteps
  <2>5. QED
    BY <2>1, <2>2, <2>3, <2>4
<1>4. ASSUME RedisFails \/ RedisReturns \/ Tick, UNCHANGED <<vault, settings>> PROVE WorkersInv'
  <2>1. Listed' /\ UNCHANGED <<table, attached, call>>
    BY <1>4, EnvironmentKept
  <2>2. Vaulted' /\ Cleared'
    BY <1>4, <2>1, VaultAside, SettingsAside
  <2>3. QED
    BY <2>1, <2>2 DEF Calls, TablesOK, Live
<1>5. ASSUME NEW w \in Processes, Recycle(w) PROVE WorkersInv'
  <2>1. Listed' /\ Calls' /\ UNCHANGED <<table, attached>>
    BY <1>5, RecycleLists
  <2>2. QED
    BY <1>5, <2>1, RecycleVault, RecycleSettings DEF TablesOK, Live
<1>6. CASE UNCHANGED vars
  <2>1. UNCHANGED <<table, attached, cache, redis, call, lapse, vault, settings>>
    BY <1>6 DEF vars, catalog
  <2>2. Listed' /\ Vaulted' /\ Cleared'
    BY <2>1, ListsAside, VaultAside, SettingsAside
  <2>3. QED
    BY <2>1, <2>2 DEF Calls, TablesOK, Live
<1>7. QED
  BY <1>1, <1>2, <1>3, <1>4, <1>5, <1>6 DEF Next

LEMMA WorkersAlways == Spec => []WorkersInv
BY WorkersInit, WorkersStep, PTL DEF Spec

\* Types, unique plugin and secret names, and attachments that point at what exists.
THEOREM WorkersTypeCorrect == Spec => []WorkersTypeOK
<1>1. WorkersInv => WorkersTypeOK
  BY DEF WorkersInv, TablesOK, Listed, Vaulted, Cleared, WorkersTypeOK, CatalogTypeOK, Rows
<1>2. QED
  BY <1>1, WorkersAlways, PTL

\* A list in the cache is its table unless it was read before a change, or a change since was
\* not followed by an invalidation that reached Redis (cache_service.py).
THEOREM CacheIsCoherent == Spec => []CacheCoherent
<1>1. WorkersInv => CacheCoherent
  BY DEF WorkersInv, Listed
<1>2. QED
  BY <1>1, WorkersAlways, PTL

\* What a process has stored in the vault it can decrypt as long as it lives, and any process
\* can with VAULT_KEY, unless first uses of the key raced (vault_service.py).
THEOREM SecretsAreKept == Spec => []SecretKept
<1>1. WorkersInv => SecretKept
  BY DEF WorkersInv, Vaulted
<1>2. QED
  BY <1>1, WorkersAlways, PTL

\* A process that has cleared the API key has none left to fall back to (settings.py, chat_service.py).
THEOREM ClearingForgets == Spec => []ClearForgets
<1>1. WorkersInv => ClearForgets
  BY DEF WorkersInv, Cleared, ClearsApplied, ClearForgets, ApiKey
<1>2. QED
  BY <1>1, WorkersAlways, PTL
=============================================================================
