---- MODULE AccountsProofs ----
(***************************************************************************)
(* Proofs about Accounts, for every set of users, groups, roles, personas  *)
(* and requests.                                                           *)
(***************************************************************************)
EXTENDS Accounts, TLAPS

LEMMA Names ==
  /\ None \notin Users /\ None \notin Groups /\ None \notin Requests /\ None \notin Personas
  /\ None \notin Role /\ None \notin Scope
  /\ Template \subseteq Id /\ Users \subseteq Template /\ Requests \subseteq Template
  /\ Grants \subseteq Id /\ Id = Template \cup Grants
  /\ \A p \in Personas : PersonaRole[p] \in Role
  /\ Organization \in Scope
  BY NamesAssumption DEF Template, Id, Role, Scope

LEMMA BindingTypes ==
  /\ NoBinding \in Binding /\ NoBinding.role = None /\ NoBinding.user = None
  /\ NoBinding.group = None
  /\ \A u \in Users, p \in Personas : PersonaBinding(u, p) \in Binding
  /\ \A gone : \A f \in [Id -> Binding] :
       [i \in Id |-> IF i \in gone THEN NoBinding ELSE f[i]] \in [Id -> Binding]
<1>1. NoBinding \in Binding /\ NoBinding.role = None /\ NoBinding.user = None
      /\ NoBinding.group = None
  BY DEF NoBinding, Binding
<1>2. ASSUME NEW u \in Users, NEW p \in Personas PROVE PersonaBinding(u, p) \in Binding
  BY Names, SMT DEF PersonaBinding, Binding
<1> QED BY <1>1, <1>2

\* What the steps of a request do to the locals of all requests.
LEMMA Moved ==
  ASSUME request \in [Requests -> RequestRecord], NEW q \in Requests, NEW place \in Open,
         request' = [request EXCEPT ![q].at = place]
  PROVE  /\ request' \in [Requests -> RequestRecord]
         /\ \A z \in Requests \ {q} : request'[z] = request[z]
         /\ request'[q] = [request[q] EXCEPT !.at = place]
<1> DEFINE new == [request[q] EXCEPT !.at = place]
<1>1. new \in RequestRecord
  BY SMT DEF RequestRecord
<1>2. request' = [request EXCEPT ![q] = new]
  OBVIOUS
<1> HIDE DEF new
<1>3. request' \in [Requests -> RequestRecord]
  BY <1>1, <1>2
<1>4. request'[q] = new /\ \A z \in Requests \ {q} : request'[z] = request[z]
  BY <1>2, SMT
<1> QED BY <1>3, <1>4 DEF new

LEMMA MovedSeeing ==
  ASSUME request \in [Requests -> RequestRecord], NEW q \in Requests, NEW sees \in SUBSET Id,
         request' = [request EXCEPT ![q] = [@ EXCEPT !.at = "commit", !.sees = sees]]
  PROVE  /\ request' \in [Requests -> RequestRecord]
         /\ \A z \in Requests \ {q} : request'[z] = request[z]
         /\ request'[q] = [request[q] EXCEPT !.at = "commit", !.sees = sees]
<1> DEFINE moved == [request[q] EXCEPT !.at = "commit"]
           new == [request[q] EXCEPT !.at = "commit", !.sees = sees]
<1>1. moved \in RequestRecord
  BY SMT DEF RequestRecord, Open
<1>2. new = [moved EXCEPT !.sees = sees]
  OBVIOUS
<1>3. request' = [request EXCEPT ![q] = new]
  OBVIOUS
<1> HIDE DEF moved
<1>4. new \in RequestRecord
  BY <1>1, <1>2, SMT DEF RequestRecord
<1> HIDE DEF new
<1>5. request' \in [Requests -> RequestRecord]
  BY <1>3, <1>4
<1>6. request'[q] = new /\ \A z \in Requests \ {q} : request'[z] = request[z]
  BY <1>3
<1> QED BY <1>5, <1>6 DEF new

LEMMA BlankType ==
  ASSUME NEW place \in {"idle", "over"}
  PROVE  Blank(place) \in RequestRecord /\ Blank(place).at = place
  BY SMT DEF Blank, RequestRecord

\* An open request has a user that exists or existed, and a new persona.
LEMMA Asked ==
  ASSUME TypeOK, BindingInv, NEW q \in Requests, request[q].at \in Open
  PROVE  request[q].user \in Users /\ request[q].new \in Personas
<1>1. request[q].user \in Users \cup {None} /\ request[q].new \in Personas \cup {None}
  BY SMT DEF TypeOK, RequestRecord
<1> QED BY <1>1 DEF BindingInv

LEMMA InitInv == Init => Inv
<1> SUFFICES ASSUME Init PROVE Inv
  OBVIOUS
<1> USE DEF Init
<1>1. Blank("idle") \in RequestRecord /\ Blank("idle").at = "idle"
  BY BlankType
<1>2. TypeOK
  <2>1. roles \subseteq Role
    BY NamesAssumption, Names
  <2>2. perms \in [Role -> SUBSET Permissions]
    OBVIOUS
  <2> HIDE DEF Init
  <2>3. /\ users = [u \in Users |-> [status |-> "absent", active |-> FALSE, persona |-> None]]
        /\ groups = {} /\ members = {} /\ binding = [i \in Id |-> NoBinding]
        /\ given = {} /\ bare = {} /\ request = [q \in Requests |-> Blank("idle")]
        /\ userLock = [u \in Users |-> None] /\ roleLock = [r \in Role |-> None]
    BY DEF Init
  <2> QED BY <1>1, <2>1, <2>2, <2>3, BindingTypes, SMT DEF TypeOK
<1>3. \A i \in Id : ~Live(i)
  BY BindingTypes, SMT DEF Live
<1>4. References
  BY <1>3, SMT DEF References
<1>5. LockInv
  BY <1>1, SMT DEF LockInv
<1>6. BindingInv
  BY <1>1, <1>3, Names, SMT DEF BindingInv, Open, Present
<1> QED BY <1>2, <1>4, <1>5, <1>6 DEF Inv
-----------------------------------------------------------------------------
LEMMA TypeStep == TypeOK /\ BindingInv /\ [Next]_vars => TypeOK'
<1> SUFFICES ASSUME TypeOK, BindingInv, [Next]_vars PROVE TypeOK'
  OBVIOUS
<1> USE NamesAssumption DEF TypeOK, directory, rights, sessions
<1>1. CASE ManageRoles
  <2>1. ASSUME NEW r \in Role, NEW ps \in Edits, CreateRole(r, ps) \/ UpdateRole(r, ps)
        PROVE  TypeOK'
    BY <2>1, SMT DEF CreateRole, UpdateRole
  <2>2. ASSUME NEW r \in Role, DeleteRole(r) PROVE TypeOK'
    BY <2>2, BindingTypes, SMT DEF DeleteRole, Without, Losers
  <2> QED BY <1>1, <2>1, <2>2 DEF ManageRoles
<1>2. CASE ManageUsers
  <2>1. ASSUME NEW u \in Users, NEW p \in Personas, CreateUser(u, p) PROVE TypeOK'
    <3>1. binding' \in [Id -> Binding]
      BY <2>1, BindingTypes, Names, SMT DEF CreateUser
    <3>2. roles' \subseteq Role /\ perms' \in [Role -> SUBSET Permissions]
      BY <2>1, Names, SMT DEF CreateUser, EnsuredRole
    <3> QED BY <2>1, <3>1, <3>2, SMT DEF CreateUser
  <2>2. ASSUME NEW u \in Users, SeedAdmin(u) \/ DirectoryLogin(u) PROVE TypeOK'
    <3>1. PICK p \in Personas : Bare(u, p)
      BY <2>2 DEF SeedAdmin, DirectoryLogin
    <3> QED BY <3>1, SMT DEF Bare
  <2>3. ASSUME NEW u \in Users, SetActive(u) PROVE TypeOK'
    <3>1. users' = [users EXCEPT ![u] = [users[u] EXCEPT !.active = ~users[u].active]]
      BY <2>3 DEF SetActive
    <3>2. [users[u] EXCEPT !.active = ~users[u].active] \in
            [status : {"absent", "present", "deleted"}, active : BOOLEAN, persona : Personas \cup {None}]
      OBVIOUS
    <3> QED BY <2>3, <3>1, <3>2 DEF SetActive
  <2>4. ASSUME NEW u \in Users, DeleteUser(u) PROVE TypeOK'
    BY <2>4, BindingTypes, SMT DEF DeleteUser, Without
  <2>5. ASSUME NEW g \in Groups, CreateGroup(g) \/ DeleteGroup(g) PROVE TypeOK'
    BY <2>5, BindingTypes, SMT DEF CreateGroup, DeleteGroup, Without
  <2>6. ASSUME NEW g \in Groups, NEW u \in Users, AddGroupMember(g, u) \/ RemoveGroupMember(g, u)
        PROVE  TypeOK'
    BY <2>6, SMT DEF AddGroupMember, RemoveGroupMember
  <2> QED BY <1>2, <2>1, <2>2, <2>3, <2>4, <2>5, <2>6 DEF ManageUsers
<1>3. CASE ManageBindings
  <2>1. ASSUME NEW i \in Grants, NEW r \in Role, NEW u \in Users \cup {None},
               NEW g \in Groups \cup {None}, NEW scope \in Scope, NEW temporary \in BOOLEAN,
               AddBinding(i, r, u, g, scope, temporary)
        PROVE  TypeOK'
    <3>1. [role |-> r, user |-> u, group |-> g, scope |-> scope, temporary |-> temporary] \in Binding
      BY SMT DEF Binding
    <3> QED BY <2>1, <3>1, Names, SMT DEF AddBinding
  <2>2. ASSUME NEW i \in Id, RemoveBinding(i) PROVE TypeOK'
    BY <2>2, BindingTypes, SMT DEF RemoveBinding, Without, Losers
  <2> QED BY <1>3, <2>1, <2>2 DEF ManageBindings
<1>4. ASSUME NEW q \in Requests, ChangePersona(q) PROVE TypeOK'
  <2>1. ASSUME NEW u \in Users, NEW p \in Personas, NEW flips \in BOOLEAN, BeginChange(q, u, p, flips)
        PROVE  TypeOK'
    BY <2>1, SMT DEF BeginChange, RequestRecord, Open
  <2>2. CASE FlushActive(q)
    <3>1. request' \in [Requests -> RequestRecord]
      BY <2>2, Moved DEF FlushActive, Open
    <3>2. request[q].user \in Users
      BY <2>2, Asked DEF FlushActive, Open
    <3>3. userLock' \in [Users -> Requests \cup {None}]
      BY <2>2, <3>2, SMT DEF FlushActive, GetsRow
    <3> QED BY <2>2, <3>1, <3>3 DEF FlushActive
  <2>3. CASE GetRole(q)
    <3> DEFINE place == IF NewRole(q) \in roles THEN "bindings" ELSE "insert"
    <3>1. request' = [request EXCEPT ![q].at = place] /\ place \in Open
      BY <2>3, SMT DEF GetRole, Open
    <3>2. request' \in [Requests -> RequestRecord]
      BY <3>1, Moved
    <3> QED BY <2>3, <3>2 DEF GetRole
  <2>4. CASE InsertRole(q)
    <3>1. request' \in [Requests -> RequestRecord]
      BY <2>4, Moved DEF InsertRole, Open
    <3>2. NewRole(q) \in Role => roleLock' \in [Role -> Requests \cup {None}]
      BY <2>4, SMT DEF InsertRole
    <3>3. NewRole(q) \notin Role => roleLock' = roleLock
      BY <2>4, SMT DEF InsertRole
    <3> QED BY <2>4, <3>1, <3>2, <3>3 DEF InsertRole
  <2>5. CASE ReadBindings(q)
    <3>1. request' \in [Requests -> RequestRecord]
      <4>1. OwnBindings(request[q].user) \in SUBSET Id
        BY DEF OwnBindings
      <4> QED BY <2>5, <4>1, MovedSeeing DEF ReadBindings
    <3>2. userLock' \in [Users -> Requests \cup {None}]
      BY <2>5, SMT DEF ReadBindings, GetsRow
    <3> QED BY <2>5, <3>1, <3>2 DEF ReadBindings
  <2>6. CASE CommitChange(q)
    <3> DEFINE u == request[q].user
               p == request[q].new
    <3>1. request' \in [Requests -> RequestRecord]
      BY <2>6, BlankType DEF CommitChange
    <3>2. userLock' \in [Users -> Requests \cup {None}] /\ roleLock' \in [Role -> Requests \cup {None}]
      BY <2>6, SMT DEF CommitChange, Release
    <3>3. request[q].at = "commit" /\ u \in Users /\ p \in Personas
      BY <2>6, Asked DEF CommitChange, Commits, Open
    <3>4. PersonaBinding(u, p) \in Binding
      BY <3>3, BindingTypes
    <3>5. binding' \in [Id -> Binding]
      <4>1. Without(request[q].sees) \in [Id -> Binding]
        BY BindingTypes DEF Without
      <4>2. binding' = [Without(request[q].sees) EXCEPT ![q] = PersonaBinding(u, p)]
        BY <2>6 DEF CommitChange
      <4> QED BY <3>4, <4>1, <4>2
    <3>6. roles' \subseteq Role /\ perms' \in [Role -> SUBSET Permissions]
      BY <2>6, <3>3, Names, SMT DEF CommitChange, EnsuredRole
    <3>7. users' \in [Users -> [status : {"absent", "present", "deleted"}, active : BOOLEAN,
                               persona : Personas \cup {None}]]
      <4> DEFINE new == [status |-> "present",
                         persona |-> IF Writes(q) THEN p ELSE users[u].persona,
                         active |-> IF request[q].flips THEN ~request[q].active ELSE users[u].active]
      <4>1. new \in [status : {"absent", "present", "deleted"}, active : BOOLEAN,
                     persona : Personas \cup {None}]
        <5>1. request[q].active \in BOOLEAN
          BY SMT DEF RequestRecord
        <5>2. users[u].active \in BOOLEAN /\ users[u].persona \in Personas \cup {None}
          BY <3>3, SMT
        <5> QED BY <3>3, <5>1, <5>2, Zenon
      <4>2. users' = [users EXCEPT ![u] = new]
        BY <2>6 DEF CommitChange
      <4> QED BY <4>1, <4>2
    <3> QED BY <2>6, <3>1, <3>2, <3>5, <3>6, <3>7, SMT DEF CommitChange
  <2>7. CASE RollBack(q)
    BY <2>7, BlankType, SMT DEF RollBack, Release
  <2> QED BY <1>4, <2>1, <2>2, <2>3, <2>4, <2>5, <2>6, <2>7
        DEF ChangePersona, Fails, RequestDies
<1>5. CASE UNCHANGED vars
  BY <1>5 DEF vars
<1> QED BY <1>1, <1>2, <1>3, <1>4, <1>5 DEF Next
-----------------------------------------------------------------------------
\* What is left when the bindings in gone are deleted.
LEMMA Removed ==
  ASSUME NEW gone, binding' = Without(gone)
  PROVE  /\ \A i \in Id : Live(i)' => i \notin gone /\ Live(i) /\ binding'[i] = binding[i]
         /\ \A i \in Id \ gone : binding'[i] = binding[i]
         /\ \A i \in Id \cap gone : binding'[i].user = None /\ ~Live(i)'
  BY BindingTypes, SMT DEF Without, Live

\* One binding more, or another one, at i.
LEMMA Placed ==
  ASSUME NEW f \in [Id -> Binding], NEW i \in Id, NEW b, binding' = [f EXCEPT ![i] = b]
  PROVE  binding'[i] = b /\ \A j \in Id \ {i} : binding'[j] = f[j]
  OBVIOUS

\* What a change of persona does to the rows when it commits.
LEMMA Committed ==
  ASSUME TypeOK, BindingInv, NEW q \in Requests, CommitChange(q)
  PROVE  LET u == request[q].user
             p == request[q].new
         IN  /\ u \in Users /\ p \in Personas /\ Present(u) /\ q \in Id
             /\ binding'[q] = PersonaBinding(u, p)
             /\ \A i \in Id \ {q} : i \notin request[q].sees => binding'[i] = binding[i]
             /\ \A i \in Id \ {q} : i \in request[q].sees => binding'[i].user = None /\ ~Live(i)'
             /\ users'[u].status = "present"
             /\ users'[u].persona = IF Writes(q) THEN p ELSE users[u].persona
             /\ \A v \in Users \ {u} : users'[v] = users[v]
             /\ roles' = roles \cup {PersonaRole[p]}
<1> DEFINE u == request[q].user
           p == request[q].new
           f == Without(request[q].sees)
<1>1. u \in Users /\ p \in Personas /\ Present(u)
  BY Asked DEF CommitChange, Commits, Open
<1>2. q \in Id
  BY Names
<1>3. f \in [Id -> Binding]
  BY BindingTypes DEF Without, TypeOK
<1>4. binding' = [f EXCEPT ![q] = PersonaBinding(u, p)]
  BY DEF CommitChange
<1>5. binding'[q] = PersonaBinding(u, p) /\ \A i \in Id \ {q} : binding'[i] = f[i]
  BY <1>2, <1>3, <1>4, Placed
<1>6. \A i \in Id : f[i] = IF i \in request[q].sees THEN NoBinding ELSE binding[i]
  BY DEF Without
<1>7. \A i \in Id \ {q} : i \in request[q].sees => binding'[i].user = None /\ ~Live(i)'
  BY <1>5, <1>6, BindingTypes DEF Live
<1>8. /\ users'[u].status = "present"
      /\ users'[u].persona = IF Writes(q) THEN p ELSE users[u].persona
      /\ \A v \in Users \ {u} : users'[v] = users[v]
  BY <1>1, SMT DEF CommitChange, TypeOK
<1>9. roles' = roles \cup {PersonaRole[p]}
  BY DEF CommitChange, EnsuredRole
<1> QED BY <1>1, <1>2, <1>5, <1>6, <1>7, <1>8, <1>9

LEMMA ReferencesStep == TypeOK /\ BindingInv /\ References /\ [Next]_vars => References'
<1> SUFFICES ASSUME TypeOK, BindingInv, References, [Next]_vars PROVE References'
  OBVIOUS
<1> USE Names DEF directory, rights, sessions
<1>1. CASE ManageRoles
  <2>1. ASSUME NEW r \in Role, NEW ps \in Edits, CreateRole(r, ps) \/ UpdateRole(r, ps)
        PROVE  References'
    BY <2>1, SMT DEF CreateRole, UpdateRole, References, Live, Present
  <2>2. ASSUME NEW r \in Role, DeleteRole(r) PROVE References'
    <3> DEFINE gone == {i \in Id : binding[i].role = r}
    <3>1. binding' = Without(gone) /\ roles' = roles \ {r} /\ UNCHANGED <<users, groups, members>>
      BY <2>2 DEF DeleteRole
    <3>2. \A i \in Id : Live(i)' => binding[i].role # r /\ Live(i) /\ binding'[i] = binding[i]
      BY <3>1, Removed
    <3> QED BY <3>1, <3>2, SMT DEF References, Present
  <2> QED BY <1>1, <2>1, <2>2 DEF ManageRoles
<1>2. CASE ManageUsers
  <2>1. ASSUME NEW u \in Users, NEW p \in Personas, CreateUser(u, p) PROVE References'
    <3>1. binding'[u] = PersonaBinding(u, p) /\ \A i \in Id \ {u} : binding'[i] = binding[i]
      BY <2>1, Placed DEF CreateUser, TypeOK
    <3>2. Present(u)' /\ \A v \in Users : Present(v) => Present(v)'
      BY <2>1, SMT DEF CreateUser, TypeOK, Present
    <3>3. roles' = roles \cup {PersonaRole[p]} /\ UNCHANGED <<groups, members>>
      BY <2>1 DEF CreateUser, EnsuredRole
    <3>4. \A m \in members : m[1] \in Users
      BY SMT DEF TypeOK
    <3>5. \A i \in Id : binding[i].user # None /\ Live(i) => binding[i].user \in Users
      BY SMT DEF TypeOK, Binding, Live, NoBinding
    <3> QED BY <3>1, <3>2, <3>3, <3>4, <3>5, SMT DEF References, Live, PersonaBinding
  <2>2. ASSUME NEW u \in Users, SeedAdmin(u) \/ DirectoryLogin(u) PROVE References'
    <3>1. PICK p \in Personas : Bare(u, p)
      BY <2>2, NamesAssumption DEF SeedAdmin, DirectoryLogin
    <3>2. \A v \in Users : Present(v) => Present(v)'
      BY <3>1, SMT DEF Bare, TypeOK, Present
    <3>3. \A m \in members : m[1] \in Users
      BY SMT DEF TypeOK
    <3>4. \A i \in Id : binding[i].user # None /\ Live(i) => binding[i].user \in Users
      BY SMT DEF TypeOK, Binding, Live, NoBinding
    <3> QED BY <3>1, <3>2, <3>3, <3>4, SMT DEF References, Live, Bare
  <2>3. ASSUME NEW u \in Users, SetActive(u) PROVE References'
    <3>1. \A v \in Users : Present(v)' = Present(v)
      BY <2>3, SMT DEF SetActive, TypeOK, Present
    <3>2. \A m \in members : m[1] \in Users
      BY SMT DEF TypeOK
    <3>3. \A i \in Id : binding[i].user # None /\ Live(i) => binding[i].user \in Users
      BY SMT DEF TypeOK, Binding, Live, NoBinding
    <3> QED BY <2>3, <3>1, <3>2, <3>3, SMT DEF References, Live, SetActive
  <2>4. ASSUME NEW u \in Users, DeleteUser(u) PROVE References'
    <3> DEFINE gone == {i \in Id : binding[i].user = u}
    <3>1. binding' = Without(gone) /\ members' = {m \in members : m[1] # u} /\ UNCHANGED <<groups, roles>>
      BY <2>4 DEF DeleteUser
    <3>2. \A i \in Id : Live(i)' => binding[i].user # u /\ Live(i) /\ binding'[i] = binding[i]
      BY <3>1, Removed
    <3>3. \A v \in Users \ {u} : Present(v)' = Present(v)
      BY <2>4, SMT DEF DeleteUser, TypeOK, Present
    <3>4. \A m \in members : m[1] \in Users
      BY SMT DEF TypeOK
    <3>5. \A i \in Id : binding[i].user # None /\ Live(i) => binding[i].user \in Users
      BY SMT DEF TypeOK, Binding, Live, NoBinding
    <3> QED BY <3>1, <3>2, <3>3, <3>4, <3>5, SMT DEF References
  <2>5. ASSUME NEW g \in Groups, CreateGroup(g) PROVE References'
    BY <2>5, SMT DEF CreateGroup, References, Live, Present
  <2>6. ASSUME NEW g \in Groups, DeleteGroup(g) PROVE References'
    <3> DEFINE gone == {i \in Id : binding[i].group = g}
    <3>1. /\ binding' = Without(gone) /\ members' = {m \in members : m[2] # g}
          /\ groups' = groups \ {g} /\ UNCHANGED <<users, roles>>
      BY <2>6 DEF DeleteGroup
    <3>2. \A i \in Id : Live(i)' => binding[i].group # g /\ Live(i) /\ binding'[i] = binding[i]
      BY <3>1, Removed
    <3> QED BY <3>1, <3>2, SMT DEF References, Present
  <2>7. ASSUME NEW g \in Groups, NEW u \in Users, AddGroupMember(g, u) \/ RemoveGroupMember(g, u)
        PROVE  References'
    BY <2>7, SMT DEF AddGroupMember, RemoveGroupMember, References, Live, Present
  <2> QED BY <1>2, <2>1, <2>2, <2>3, <2>4, <2>5, <2>6, <2>7 DEF ManageUsers
<1>3. CASE ManageBindings
  <2>1. ASSUME NEW i \in Grants, NEW r \in Role, NEW u \in Users \cup {None},
               NEW g \in Groups \cup {None}, NEW scope \in Scope, NEW temporary \in BOOLEAN,
               AddBinding(i, r, u, g, scope, temporary)
        PROVE  References'
    <3> DEFINE b == [role |-> r, user |-> u, group |-> g, scope |-> scope, temporary |-> temporary]
    <3>1. binding'[i] = b /\ \A j \in Id \ {i} : binding'[j] = binding[j]
      BY <2>1, Placed DEF AddBinding, TypeOK
    <3> QED BY <2>1, <3>1, SMT DEF AddBinding, References, Live, Present
  <2>2. ASSUME NEW i \in Id, RemoveBinding(i) PROVE References'
    <3>1. \A j \in Id : Live(j)' => Live(j) /\ binding'[j] = binding[j]
      BY <2>2, Removed DEF RemoveBinding
    <3>2. UNCHANGED <<users, groups, members, roles>>
      BY <2>2 DEF RemoveBinding
    <3> QED BY <3>1, <3>2, SMT DEF References, Present
  <2> QED BY <1>3, <2>1, <2>2 DEF ManageBindings
<1>4. ASSUME NEW q \in Requests, ChangePersona(q) PROVE References'
  <2>1. CASE UNCHANGED <<users, groups, members, roles, binding>>
    BY <2>1, SMT DEF References, Live, Present
  <2>2. CASE CommitChange(q)
    <3> DEFINE u == request[q].user
               p == request[q].new
    <3>0. /\ u \in Users /\ binding'[q] = PersonaBinding(u, p) /\ users'[u].status = "present"
          /\ roles' = roles \cup {PersonaRole[p]}
      BY <2>2, Committed
    <3>1. \A i \in Id : Live(i)' =>
            i = q \/ (Live(i) /\ binding'[i] = binding[i])
      BY <2>2, Committed, SMT DEF Live
    <3>2. \A v \in Users : users[v].status = "present" => users'[v].status = "present"
      BY <2>2, Committed, SMT
    <3>3. binding'[q].role \in roles' /\ binding'[q].user = u /\ binding'[q].group = None /\ u \in Users
      BY <3>0, SMT DEF PersonaBinding
    <3>4. users'[u].status = "present" /\ roles \subseteq roles'
      BY <3>0
    <3>5. \A m \in members : m[1] \in Users
      BY SMT DEF TypeOK
    <3>6. \A i \in Id : binding[i].user # None /\ Live(i) => binding[i].user \in Users
      BY SMT DEF TypeOK, Binding, Live, NoBinding
    <3>7. UNCHANGED <<groups, members>>
      BY <2>2 DEF CommitChange
    <3>8. \A i \in Id : Live(i)' =>
            /\ binding'[i].role \in roles'
            /\ binding'[i].user # None => users'[binding'[i].user].status = "present"
            /\ binding'[i].group # None => binding'[i].group \in groups'
      <4> TAKE i \in Id
      <4> HAVE Live(i)'
      <4>1. CASE i = q
        BY <4>1, <3>3, <3>4
      <4>2. CASE Live(i) /\ binding'[i] = binding[i]
        BY <4>2, <3>2, <3>4, <3>6, <3>7 DEF References, Present
      <4> QED BY <3>1, <4>1, <4>2
    <3>9. \A m \in members : users'[m[1]].status = "present" /\ m[2] \in groups
      BY <3>2, <3>5 DEF References, Present
    <3> QED BY <3>7, <3>8, <3>9, SMT DEF References, Present
  <2> QED BY <1>4, <2>1, <2>2 DEF ChangePersona, BeginChange, FlushActive, GetRole, InsertRole,
        ReadBindings, Fails, RequestDies, RollBack
<1>5. CASE UNCHANGED vars
  BY <1>5, SMT DEF vars, References, Live, Present
<1> QED BY <1>1, <1>2, <1>3, <1>4, <1>5 DEF Next
-----------------------------------------------------------------------------
\* What a persona's binding looks like, whoever inserts it.
Shape(b) == b.user # None /\ b.group = None /\ b.scope = Organization /\ ~b.temporary

\* A step keeps a binding as it is, deletes it, or inserts it for the first time.
LEMMA StepBindings ==
  ASSUME TypeOK, BindingInv, [Next]_vars
  PROVE  /\ \A i \in Id : Used(i) => Used(i)'
         /\ \A i \in Id : Live(i)' =>
              \/ Live(i) /\ binding'[i] = binding[i]
              \/ ~Used(i) /\ Used(i)' /\ (i \in Template => Shape(binding'[i]))
<1> DEFINE Grows == \A i \in Id : Used(i) => Used(i)'
           Keeps == \A i \in Id : Live(i)' => Live(i) /\ binding'[i] = binding[i]
           Inserts(i) == /\ \A j \in Id \ {i} : Live(j)' => Live(j) /\ binding'[j] = binding[j]
                         /\ ~Used(i) /\ Used(i)' /\ (i \in Template => Shape(binding'[i]))
<1> USE Names
<1>0. ASSUME UNCHANGED <<users, given, request>> PROVE Grows
  BY <1>0 DEF Used
<1>1. ASSUME UNCHANGED binding PROVE Keeps
  BY <1>1 DEF Live
<1>2. ASSUME NEW gone, binding' = Without(gone) PROVE Keeps
  BY <1>2, Removed
<1>3. CASE ManageRoles
  BY <1>0, <1>1, <1>2, <1>3 DEF ManageRoles, CreateRole, UpdateRole, DeleteRole, directory, sessions
<1>4. CASE ManageUsers
  <2>1. ASSUME NEW u \in Users, NEW p \in Personas, CreateUser(u, p) PROVE Grows /\ Inserts(u)
    <3>1. binding'[u] = PersonaBinding(u, p) /\ \A i \in Id \ {u} : binding'[i] = binding[i]
      BY <2>1, Placed DEF CreateUser, TypeOK
    <3>2. users'[u].status = "present" /\ \A v \in Users \ {u} : users'[v] = users[v]
      BY <2>1, SMT DEF CreateUser, TypeOK
    <3>3. UNCHANGED <<given, request>> /\ users[u].status = "absent"
      BY <2>1 DEF CreateUser, sessions
    <3>4. u \notin given /\ u \notin Requests
      BY NamesAssumption DEF TypeOK
    <3>5. Shape(PersonaBinding(u, p))
      BY SMT DEF Shape, PersonaBinding
    <3>6. ~Used(u) /\ Used(u)'
      BY <3>2, <3>3, <3>4, SMT DEF Used
    <3>7. Grows
      BY <3>2, <3>3, SMT DEF Used
    <3> QED BY <3>1, <3>5, <3>6, <3>7 DEF Live
  <2>2. ASSUME NEW u \in Users, NEW p \in Personas, Bare(u, p) PROVE Grows /\ Keeps
    <3>1. \A v \in Users : users[v].status # "absent" => users'[v].status # "absent"
      BY <2>2, SMT DEF Bare, TypeOK
    <3> QED BY <2>2, <3>1, <1>1 DEF Bare, Used, sessions
  <2>3. ASSUME NEW u \in Users, SetActive(u) PROVE Grows /\ Keeps
    <3>1. \A v \in Users : users[v].status # "absent" => users'[v].status # "absent"
      BY <2>3, SMT DEF SetActive, TypeOK
    <3> QED BY <2>3, <3>1, <1>1 DEF SetActive, Used, rights, sessions
  <2>4. ASSUME NEW u \in Users, DeleteUser(u) PROVE Grows /\ Keeps
    <3>1. \A v \in Users : users[v].status # "absent" => users'[v].status # "absent"
      BY <2>4, SMT DEF DeleteUser, TypeOK
    <3> QED BY <2>4, <3>1, <1>2 DEF DeleteUser, Used, sessions
  <2>5. ASSUME NEW g \in Groups, CreateGroup(g) \/ DeleteGroup(g) PROVE Grows /\ Keeps
    BY <2>5, <1>0, <1>1, <1>2 DEF CreateGroup, DeleteGroup, rights, sessions
  <2>6. ASSUME NEW g \in Groups, NEW u \in Users, AddGroupMember(g, u) \/ RemoveGroupMember(g, u)
        PROVE  Grows /\ Keeps
    BY <2>6, <1>0, <1>1 DEF AddGroupMember, RemoveGroupMember, rights, sessions
  <2> QED BY <1>4, <2>1, <2>2, <2>3, <2>4, <2>5, <2>6, NamesAssumption
        DEF ManageUsers, SeedAdmin, DirectoryLogin
<1>5. CASE ManageBindings
  <2>1. ASSUME NEW i \in Grants, NEW r \in Role, NEW u \in Users \cup {None},
               NEW g \in Groups \cup {None}, NEW scope \in Scope, NEW temporary \in BOOLEAN,
               AddBinding(i, r, u, g, scope, temporary)
        PROVE  Grows /\ Inserts(i)
    <3> DEFINE b == [role |-> r, user |-> u, group |-> g, scope |-> scope, temporary |-> temporary]
    <3>1. binding'[i] = b /\ \A j \in Id \ {i} : binding'[j] = binding[j]
      BY <2>1, Placed DEF AddBinding, TypeOK
    <3>2. i \notin Template
      BY NamesAssumption
    <3>3. UNCHANGED <<users, request>> /\ given' = given \cup {i} /\ i \notin given
      BY <2>1 DEF AddBinding, directory, sessions
    <3> QED BY <3>1, <3>2, <3>3 DEF Used, Live
  <2>2. ASSUME NEW i \in Id, RemoveBinding(i) PROVE Grows /\ Keeps
    BY <2>2, <1>0, <1>2 DEF RemoveBinding, directory, sessions
  <2> QED BY <1>5, <2>1, <2>2 DEF ManageBindings
<1>6. ASSUME NEW q \in Requests, ChangePersona(q) PROVE Grows /\ (Keeps \/ Inserts(q))
  <2>1. ASSUME UNCHANGED <<users, given>>, request[q].at # "over",
               \A z \in Requests \ {q} : request'[z] = request[z]
        PROVE  Grows
    BY <2>1 DEF Used
  <2>2. ASSUME NEW u \in Users, NEW p \in Personas, NEW flips \in BOOLEAN, BeginChange(q, u, p, flips)
        PROVE  Grows /\ Keeps
    BY <2>2, <2>1, <1>1 DEF BeginChange, directory, rights, TypeOK
  <2>3. CASE FlushActive(q) \/ GetRole(q) \/ InsertRole(q) \/ ReadBindings(q)
    BY <2>3, <2>1, <1>1 DEF FlushActive, GetRole, InsertRole, ReadBindings, directory, rights, TypeOK
  <2>4. CASE request[q].at \in Open /\ RollBack(q)
    <3>1. request[q].at # "over"
      BY <2>4 DEF Open
    <3> QED BY <2>4, <3>1, <2>1, <1>1 DEF RollBack, directory, rights, TypeOK
  <2>5. CASE CommitChange(q)
    <3> DEFINE u == request[q].user
               p == request[q].new
    <3>1. /\ u \in Users /\ binding'[q] = PersonaBinding(u, p) /\ users'[u].status = "present"
          /\ \A v \in Users \ {u} : users'[v] = users[v]
          /\ \A i \in Id \ {q} : i \notin request[q].sees => binding'[i] = binding[i]
          /\ \A i \in Id \ {q} : i \in request[q].sees => ~Live(i)'
      BY <2>5, Committed
    <3>2. request[q].at = "commit" /\ request'[q].at = "over" /\ given' = given
          /\ \A z \in Requests \ {q} : request'[z] = request[z]
      BY <2>5, BlankType DEF CommitChange, Commits, TypeOK
    <3>3. q \notin given /\ q \notin Users
      BY NamesAssumption DEF TypeOK
    <3>4. Shape(PersonaBinding(u, p))
      BY <3>1, SMT DEF Shape, PersonaBinding
    <3>5. ~Used(q) /\ Used(q)'
      BY <3>2, <3>3, SMT DEF Used
    <3>6. Grows
      BY <3>1, <3>2, SMT DEF Used
    <3>7. \A j \in Id \ {q} : Live(j)' => Live(j) /\ binding'[j] = binding[j]
      BY <3>1 DEF Live
    <3> QED BY <3>1, <3>4, <3>5, <3>6, <3>7
  <2>6. CASE Fails(q)
    BY <2>6, <2>4 DEF Fails, Open
  <2> QED BY <1>6, <2>2, <2>3, <2>4, <2>5, <2>6 DEF ChangePersona, RequestDies
<1>7. CASE UNCHANGED vars
  BY <1>7, <1>0, <1>1 DEF vars, directory, rights, sessions
<1> QED BY <1>3, <1>4, <1>5, <1>6, <1>7 DEF Next

\* How a request comes to be open, and to be about to commit.
LEMMA StepRequests ==
  ASSUME TypeOK, BindingInv, [Next]_vars, NEW q \in Requests, request'[q].at \in Open
  PROVE  \/ \E u \in Users, p \in Personas, flips \in BOOLEAN : BeginChange(q, u, p, flips)
         \/ /\ request[q].at \in Open
            /\ request'[q].user = request[q].user /\ request'[q].new = request[q].new
            /\ request'[q].loaded = request[q].loaded
            /\ \/ request'[q] = request[q] \/ request'[q].at # "commit"
               \/ ReadBindings(q) /\ request'[q].sees = OwnBindings(request[q].user)
<1>1. CASE request' = request
  BY <1>1
<1>2. ASSUME NEW z \in Requests, z # q, ChangePersona(z) PROVE request'[q] = request[q]
  BY <1>2 DEF ChangePersona, BeginChange, FlushActive, GetRole, InsertRole, ReadBindings,
    CommitChange, Fails, RequestDies, RollBack, TypeOK
<1>3. CASE ChangePersona(q)
  <2>1. CASE FlushActive(q)
    <3>1. request'[q] = [request[q] EXCEPT !.at = "role"]
      BY <2>1, Moved DEF FlushActive, Open, TypeOK
    <3> QED BY <2>1, <3>1, SMT DEF FlushActive, Open, TypeOK, RequestRecord
  <2>2. CASE GetRole(q)
    <3> DEFINE place == IF NewRole(q) \in roles THEN "bindings" ELSE "insert"
    <3>1. request' = [request EXCEPT ![q].at = place] /\ place \in Open /\ place # "commit"
      BY <2>2, SMT DEF GetRole, Open
    <3> HIDE DEF place
    <3>2. request'[q] = [request[q] EXCEPT !.at = place]
      BY <3>1, Moved DEF TypeOK
    <3> QED BY <2>2, <3>1, <3>2, SMT DEF GetRole, Open, TypeOK, RequestRecord
  <2>3. CASE InsertRole(q)
    <3>1. request'[q] = [request[q] EXCEPT !.at = "bindings"]
      BY <2>3, Moved DEF InsertRole, Open, TypeOK
    <3> QED BY <2>3, <3>1, SMT DEF InsertRole, Open, TypeOK, RequestRecord
  <2>4. CASE ReadBindings(q)
    <3> DEFINE sees == OwnBindings(request[q].user)
    <3>1. sees \in SUBSET Id
      BY DEF OwnBindings
    <3>2. request'[q] = [request[q] EXCEPT !.at = "commit", !.sees = sees]
      BY <2>4, <3>1, MovedSeeing DEF ReadBindings, TypeOK
    <3> HIDE DEF sees
    <3>3. /\ request'[q].user = request[q].user /\ request'[q].new = request[q].new
          /\ request'[q].loaded = request[q].loaded /\ request'[q].sees = sees
      <4>1. request[q] \in RequestRecord
        BY DEF TypeOK
      <4> QED BY <3>2, <4>1, SMT DEF RequestRecord
    <3> QED BY <2>4, <3>3 DEF ReadBindings, Open, sees
  <2>5. CASE CommitChange(q) \/ RollBack(q)
    <3>1. request'[q].at = "over"
      BY <2>5, BlankType DEF CommitChange, RollBack, TypeOK
    <3> QED BY <3>1 DEF Open
  <2> QED BY <1>3, <2>1, <2>2, <2>3, <2>4, <2>5 DEF ChangePersona, Fails, RequestDies
<1>4. CASE ManageRoles
  BY <1>1, <1>4 DEF ManageRoles, CreateRole, UpdateRole, DeleteRole, sessions
<1>5. CASE ManageUsers
  BY <1>1, <1>5 DEF ManageUsers, CreateUser, SeedAdmin, DirectoryLogin, Bare, SetActive, DeleteUser,
    CreateGroup, DeleteGroup, AddGroupMember, RemoveGroupMember, sessions
<1>6. CASE ManageBindings
  BY <1>1, <1>6 DEF ManageBindings, AddBinding, RemoveBinding, sessions
<1>7. CASE UNCHANGED vars
  BY <1>1, <1>7 DEF vars, sessions
<1>8. ASSUME NEW z \in Requests, z # q, ChangePersona(z)
      PROVE  request'[q] = request[q]
  BY <1>2, <1>8
<1> QED BY <1>3, <1>4, <1>5, <1>6, <1>7, <1>8 DEF Next

\* No step makes a user absent again, and a user that is there has a persona.
LEMMA StepUsers ==
  ASSUME TypeOK, BindingInv, [Next]_vars, NEW u \in Users
  PROVE  /\ users[u].status # "absent" => users'[u].status # "absent"
         /\ users'[u].status = "present" =>
              users'[u].persona # None
<1> USE NamesAssumption
<1>1. CASE UNCHANGED users
  BY <1>1 DEF BindingInv, Present
<1>2. ASSUME NEW v \in Users, NEW p \in Personas, CreateUser(v, p) \/ Bare(v, p)
      PROVE  /\ users[u].status # "absent" => users'[u].status # "absent"
             /\ users'[u].status = "present" => users'[u].persona # None
  <2>1. users' = [users EXCEPT ![v] = [status |-> "present", active |-> TRUE, persona |-> p]]
    BY <1>2 DEF CreateUser, Bare
  <2> QED BY <2>1, SMT DEF TypeOK, BindingInv, Present
<1>3. ASSUME NEW v \in Users, SetActive(v)
      PROVE  users'[u].status = users[u].status /\ users'[u].persona = users[u].persona
  BY <1>3, SMT DEF SetActive, TypeOK
<1>4. ASSUME NEW v \in Users, DeleteUser(v)
      PROVE  users'[u] = users[u] \/ users'[u].status = "deleted"
  BY <1>4, SMT DEF DeleteUser, TypeOK
<1>5. ASSUME NEW q \in Requests, CommitChange(q)
      PROVE  \/ users'[u] = users[u]
             \/ users'[u].status = "present" /\ users'[u].persona # None
  BY <1>5, Committed, Names DEF BindingInv
<1>6. CASE ManageRoles
  BY <1>1, <1>6 DEF ManageRoles, CreateRole, UpdateRole, DeleteRole, directory
<1>7. CASE ManageUsers
  BY <1>1, <1>2, <1>3, <1>4, <1>7, Zenon DEF ManageUsers, SeedAdmin, DirectoryLogin, CreateGroup, DeleteGroup,
    AddGroupMember, RemoveGroupMember, BindingInv, Present
<1>8. CASE ManageBindings
  BY <1>1, <1>8 DEF ManageBindings, AddBinding, RemoveBinding, directory
<1>9. CASE \E q \in Requests : ChangePersona(q)
  BY <1>1, <1>5, <1>9 DEF ChangePersona, BeginChange, FlushActive, GetRole, InsertRole, ReadBindings,
    Fails, RequestDies, RollBack, directory, BindingInv, Present
<1>10. CASE UNCHANGED vars
  BY <1>1, <1>10 DEF vars, directory
<1> QED BY <1>6, <1>7, <1>8, <1>9, <1>10 DEF Next

LEMMA BindingStep == TypeOK /\ BindingInv /\ [Next]_vars => BindingInv'
<1> SUFFICES ASSUME TypeOK, BindingInv, [Next]_vars PROVE BindingInv'
  OBVIOUS
<1> USE Names
<1>1. \A i \in Id : Live(i)' => Used(i)'
  BY StepBindings DEF BindingInv
<1>2. \A i \in Template : Live(i)' => Shape(binding'[i])
  BY StepBindings DEF BindingInv, Shape
<1>3. ASSUME NEW q \in Requests, request'[q].at \in Open
      PROVE  /\ request'[q].user # None /\ request'[q].new # None
             /\ users'[request'[q].user].status # "absent"
  <2>1. ASSUME NEW u \in Users, NEW p \in Personas, NEW flips \in BOOLEAN, BeginChange(q, u, p, flips)
        PROVE  /\ request'[q].user # None /\ request'[q].new # None
               /\ users'[request'[q].user].status # "absent"
    <3>1. request'[q].user = u /\ request'[q].new = p /\ users[u].status = "present" /\ users' = users
      BY <2>1, SMT DEF BeginChange, directory, TypeOK, Present
    <3> QED BY <3>1
  <2>2. CASE /\ request[q].at \in Open
             /\ request'[q].user = request[q].user /\ request'[q].new = request[q].new
    <3>1. request[q].user \in Users /\ request[q].new \in Personas
      BY <2>2, Asked
    <3>2. users[request[q].user].status # "absent"
      BY <2>2 DEF BindingInv
    <3> QED BY <2>2, <3>1, <3>2, StepUsers
  <2> QED BY <1>3, <2>1, <2>2, StepRequests
<1>4. ASSUME NEW q \in Requests, request'[q].at = "commit", NEW i \in request'[q].sees
      PROVE  /\ Used(i)'
             /\ Live(i)' => binding'[i].user = request'[q].user /\ binding'[i].scope = Organization
  <2>1. request'[q].at \in Open
    BY <1>4 DEF Open
  <2>2. CASE request'[q] = request[q]
    <3>1. request[q].at = "commit" /\ i \in request[q].sees
      BY <1>4, <2>2
    <3>2. i \in Id
      BY <3>1, SMT DEF TypeOK, RequestRecord
    <3>3. Used(i) /\ (Live(i) => binding[i].user = request[q].user /\ binding[i].scope = Organization)
      BY <3>1 DEF BindingInv
    <3> QED BY <2>2, <3>2, <3>3, StepBindings
  <2>3. CASE ReadBindings(q) /\ request'[q].user = request[q].user
               /\ request'[q].sees = OwnBindings(request[q].user)
    <3>1. i \in Id /\ binding[i].user = request[q].user /\ binding[i].scope = Organization
      BY <1>4, <2>3 DEF OwnBindings
    <3>2. binding' = binding
      BY <2>3 DEF ReadBindings, rights
    <3>3. request[q].user \in Users
      BY <2>3, Asked DEF ReadBindings, Open
    <3>4. Live(i)
      BY <3>1, <3>3, BindingTypes, SMT DEF Live, TypeOK, Binding
    <3>5. Used(i)
      BY <3>1, <3>4 DEF BindingInv
    <3> QED BY <2>3, <3>1, <3>2, <3>5, StepBindings
  <2>4. ASSUME NEW u \in Users, NEW p \in Personas, NEW flips \in BOOLEAN, BeginChange(q, u, p, flips)
        PROVE  FALSE
    BY <1>4, <2>4, SMT DEF BeginChange, TypeOK
  <2> QED BY <1>4, <2>1, <2>2, <2>3, <2>4, StepRequests
<1>5. \A u \in Users : users'[u].status = "present" => users'[u].persona # None
  BY StepUsers
<1> QED BY <1>1, <1>2, <1>3, <1>4, <1>5, Zenon DEF BindingInv, Shape, Present
-----------------------------------------------------------------------------
\* What the end of a request's transaction leaves of the locks.
LEMMA Released ==
  ASSUME TypeOK, NEW q \in Requests, Release(q)
  PROVE  /\ \A u \in Users : userLock'[u] # None => userLock'[u] = userLock[u] /\ userLock[u] # q
         /\ \A u \in Users : userLock[u] # q => userLock'[u] = userLock[u]
         /\ \A r \in Role : roleLock'[r] # None => roleLock'[r] = roleLock[r] /\ roleLock[r] # q
  BY DEF Release

\* A step outside the requests.
LEMMA LocksKept ==
  ASSUME TypeOK, LockInv, BindingInv, UNCHANGED sessions,
         \A u \in Users : Present(u) /\ userLock[u] # None => users'[u].status = "present",
         \A r \in Role : r \in roles' => r \in roles \/ roleLock[r] = None \/ r \in CustomRoles
  PROVE  LockInv'
<1>1. ASSUME NEW u \in Users, userLock[u] # None
      PROVE  /\ request[userLock[u]].at \in Open /\ request[userLock[u]].user = u
             /\ users'[u].status = "present"
  BY <1>1 DEF LockInv
<1>2. ASSUME NEW r \in Role, roleLock[r] # None
      PROVE  /\ request[roleLock[r]].at \in {"bindings", "commit"}
             /\ PersonaRole[request[roleLock[r]].new] = r /\ r \notin roles'
  <2>1. /\ request[roleLock[r]].at \in {"bindings", "commit"}
        /\ PersonaRole[request[roleLock[r]].new] = r /\ r \notin roles
    BY <1>2 DEF LockInv, NewRole
  <2>2. r \notin CustomRoles
    <3>1. roleLock[r] \in Requests
      BY <1>2 DEF TypeOK
    <3> QED BY <2>1, <3>1, Asked, NamesAssumption DEF Open
  <2> QED BY <1>2, <2>1, <2>2
<1> QED BY <1>1, <1>2 DEF LockInv, NewRole, Writes, Present, sessions

\* A step within a transaction, which may take the lock of the user or of the role.
LEMMA LocksTaken ==
  ASSUME TypeOK, BindingInv, LockInv, NEW q \in Requests, UNCHANGED <<users, roles>>,
         request[q].at \in Open, request'[q].at \in Open,
         request'[q].user = request[q].user, request'[q].new = request[q].new,
         request'[q].loaded = request[q].loaded,
         \A z \in Requests \ {q} : request'[z] = request[z],
         \A u \in Users :
           \/ userLock'[u] = userLock[u]
           \/ /\ u = request[q].user /\ userLock[u] = None /\ userLock'[u] = q
              /\ users[u].status = "present",
         \A r \in Role :
           \/ roleLock'[r] = roleLock[r]
           \/ /\ r = PersonaRole[request[q].new] /\ roleLock'[r] = q /\ r \notin roles
              /\ request'[q].at = "bindings",
         request[q].at \in {"bindings", "commit"} => request'[q].at \in {"bindings", "commit"},
         request'[q].at = "commit" /\ request[q].new # request[q].loaded =>
           userLock'[request[q].user] = q
  PROVE  LockInv'
<1>1. ASSUME NEW u \in Users, userLock'[u] # None
      PROVE  /\ request'[userLock'[u]].at \in Open /\ request'[userLock'[u]].user = u
             /\ users'[u].status = "present"
  <2>1. CASE userLock'[u] = userLock[u]
    <3>1. /\ userLock[u] \in Requests /\ request[userLock[u]].at \in Open
          /\ request[userLock[u]].user = u /\ users[u].status = "present"
      BY <1>1, <2>1 DEF LockInv, Present, TypeOK
    <3>2. CASE userLock[u] = q
      BY <2>1, <3>1, <3>2
    <3>3. CASE userLock[u] # q
      BY <2>1, <3>1, <3>3
    <3> QED BY <3>2, <3>3
  <2>2. CASE userLock'[u] # userLock[u]
    BY <2>2
  <2> QED BY <2>1, <2>2
<1>2. ASSUME NEW r \in Role, roleLock'[r] # None
      PROVE  /\ request'[roleLock'[r]].at \in {"bindings", "commit"}
             /\ PersonaRole[request'[roleLock'[r]].new] = r /\ r \notin roles'
  <2>1. CASE roleLock'[r] = roleLock[r]
    <3>1. /\ roleLock[r] \in Requests /\ request[roleLock[r]].at \in {"bindings", "commit"}
          /\ PersonaRole[request[roleLock[r]].new] = r /\ r \notin roles
      BY <1>2, <2>1 DEF LockInv, NewRole, TypeOK
    <3>2. CASE roleLock[r] = q
      BY <2>1, <3>1, <3>2
    <3>3. CASE roleLock[r] # q
      BY <2>1, <3>1, <3>3
    <3> QED BY <3>2, <3>3
  <2>2. CASE roleLock'[r] # roleLock[r]
    BY <2>2
  <2> QED BY <2>1, <2>2
<1>3. ASSUME NEW z \in Requests, request'[z].at = "commit", request'[z].new # request'[z].loaded
      PROVE  userLock'[request'[z].user] = z
  <2>1. CASE z = q
    BY <1>3, <2>1
  <2>2. CASE z # q
    <3>1. request'[z] = request[z]
      BY <2>2
    <3>2. userLock[request[z].user] = z
      BY <1>3, <3>1 DEF LockInv, Writes
    <3>3. request[z].user \in Users
      BY <1>3, <3>1, Asked DEF Open
    <3>4. userLock'[request[z].user] = userLock[request[z].user]
      BY <3>2, <3>3, Names
    <3> QED BY <3>1, <3>2, <3>4
  <2> QED BY <2>1, <2>2
<1> QED BY <1>1, <1>2, <1>3 DEF LockInv, NewRole, Writes, Present

LEMMA LockStep == TypeOK /\ BindingInv /\ LockInv /\ [Next]_vars => LockInv'
<1> SUFFICES ASSUME TypeOK, BindingInv, LockInv, [Next]_vars PROVE LockInv'
  OBVIOUS
<1> USE Names
<1>1. CASE ManageRoles
  BY <1>1, LocksKept DEF ManageRoles, CreateRole, UpdateRole, DeleteRole, directory, Present
<1>2. CASE ManageUsers
  <2>1. ASSUME NEW u \in Users, NEW p \in Personas, CreateUser(u, p) PROVE LockInv'
    <3>1. \A v \in Users : Present(v) => users'[v].status = "present"
      BY <2>1, SMT DEF CreateUser, TypeOK, Present
    <3>2. \A r \in Role : r \in roles' => r \in roles \/ roleLock[r] = None
      BY <2>1 DEF CreateUser, EnsuredRole
    <3> QED BY <2>1, <3>1, <3>2, LocksKept DEF CreateUser
  <2>2. ASSUME NEW u \in Users, NEW p \in Personas, Bare(u, p) PROVE LockInv'
    <3>1. \A v \in Users : Present(v) => users'[v].status = "present"
      BY <2>2, SMT DEF Bare, TypeOK, Present
    <3> QED BY <2>2, <3>1, LocksKept DEF Bare
  <2>3. ASSUME NEW u \in Users, SetActive(u) PROVE LockInv'
    <3>1. \A v \in Users : Present(v) => users'[v].status = "present"
      BY <2>3, SMT DEF SetActive, TypeOK, Present
    <3> QED BY <2>3, <3>1, LocksKept DEF SetActive, rights
  <2>4. ASSUME NEW u \in Users, DeleteUser(u) PROVE LockInv'
    <3>1. \A v \in Users : Present(v) /\ userLock[v] # None => users'[v].status = "present"
      BY <2>4, SMT DEF DeleteUser, TypeOK, Present
    <3> QED BY <2>4, <3>1, LocksKept DEF DeleteUser
  <2>5. ASSUME NEW g \in Groups, CreateGroup(g) \/ DeleteGroup(g) PROVE LockInv'
    BY <2>5, LocksKept DEF CreateGroup, DeleteGroup, rights, Present
  <2>6. ASSUME NEW g \in Groups, NEW u \in Users, AddGroupMember(g, u) \/ RemoveGroupMember(g, u)
        PROVE  LockInv'
    BY <2>6, LocksKept DEF AddGroupMember, RemoveGroupMember, rights, Present
  <2> QED BY <1>2, <2>1, <2>2, <2>3, <2>4, <2>5, <2>6, NamesAssumption
        DEF ManageUsers, SeedAdmin, DirectoryLogin
<1>3. CASE ManageBindings
  BY <1>3, LocksKept DEF ManageBindings, AddBinding, RemoveBinding, directory, Present
<1>4. ASSUME NEW q \in Requests, ChangePersona(q) PROVE LockInv'
  <2> DEFINE UserLocks == \A u \in Users : userLock'[u] # None =>
               /\ request'[userLock'[u]].at \in Open /\ request'[userLock'[u]].user = u
               /\ users'[u].status = "present"
             RoleLocks == \A r \in Role : roleLock'[r] # None =>
               /\ request'[roleLock'[r]].at \in {"bindings", "commit"}
               /\ PersonaRole[request'[roleLock'[r]].new] = r /\ r \notin roles'
             Locked == \A z \in Requests :
               request'[z].at = "commit" /\ request'[z].new # request'[z].loaded =>
                 userLock'[request'[z].user] = z
  <2>1. SUFFICES UserLocks /\ RoleLocks /\ Locked
    BY DEF LockInv, NewRole, Writes, Present
  <2>2. /\ \A u \in Users : userLock[u] # None =>
             /\ userLock[u] \in Requests /\ request[userLock[u]].at \in Open
             /\ request[userLock[u]].user = u /\ users[u].status = "present"
        /\ \A r \in Role : roleLock[r] # None =>
             /\ roleLock[r] \in Requests /\ request[roleLock[r]].at \in {"bindings", "commit"}
             /\ PersonaRole[request[roleLock[r]].new] = r /\ r \notin roles
        /\ \A z \in Requests : request[z].at = "commit" /\ request[z].new # request[z].loaded =>
             userLock[request[z].user] = z
    BY DEF LockInv, NewRole, Writes, Present, TypeOK
  <2>3. ASSUME NEW u \in Users, NEW p \in Personas, NEW flips \in BOOLEAN, BeginChange(q, u, p, flips)
        PROVE  UserLocks /\ RoleLocks /\ Locked
    <3>1. request[q].at = "idle" /\ UNCHANGED <<users, roles, userLock, roleLock>>
      BY <2>3 DEF BeginChange, directory, rights
    <3>2. \A z \in Requests \ {q} : request'[z] = request[z]
      BY <2>3 DEF BeginChange, TypeOK
    <3>3. request'[q].at # "commit"
      BY <2>3, SMT DEF BeginChange, TypeOK
    <3> QED BY <2>2, <3>1, <3>2, <3>3 DEF Open
  <2>4. CASE FlushActive(q)
    <3> DEFINE u == request[q].user
    <3>1. u \in Users /\ request[q].at = "flush"
      BY <2>4, Asked DEF FlushActive, Open
    <3>2. request'[q] = [request[q] EXCEPT !.at = "role"]
      BY <2>4, Moved DEF FlushActive, Open, TypeOK
    <3>3. /\ request'[q].at = "role" /\ request'[q].user = u
          /\ request'[q].new = request[q].new /\ request'[q].loaded = request[q].loaded
      BY <3>2, SMT DEF TypeOK, RequestRecord
    <3>4. \A z \in Requests \ {q} : request'[z] = request[z]
      BY <2>4 DEF FlushActive, TypeOK
    <3>5. /\ userLock'[u] = q /\ userLock[u] \in {None, q} /\ users[u].status = "present"
          /\ \A v \in Users \ {u} : userLock'[v] = userLock[v]
          /\ UNCHANGED <<users, roles, roleLock>>
      BY <2>4, <3>1, SMT DEF FlushActive, GetsRow, TypeOK, directory, rights, Present
    <3>6. LockInv'
      BY <3>1, <3>3, <3>4, <3>5, LocksTaken DEF Open
    <3> QED BY <3>6 DEF LockInv, NewRole, Writes, Present
  <2>5. CASE GetRole(q)
    <3> DEFINE place == IF NewRole(q) \in roles THEN "bindings" ELSE "insert"
    <3>1. request' = [request EXCEPT ![q].at = place] /\ place \in {"bindings", "insert"}
      BY <2>5, SMT DEF GetRole
    <3> HIDE DEF place
    <3>2. request'[q] = [request[q] EXCEPT !.at = place]
      BY <3>1, Moved DEF TypeOK, Open
    <3>3. /\ request'[q].at = place /\ request'[q].user = request[q].user
          /\ request'[q].new = request[q].new /\ request'[q].loaded = request[q].loaded
      BY <3>2, SMT DEF TypeOK, RequestRecord
    <3>4. \A z \in Requests \ {q} : request'[z] = request[z]
      BY <3>1 DEF TypeOK
    <3>5. request[q].at = "role" /\ UNCHANGED <<users, roles, userLock, roleLock>>
      BY <2>5 DEF GetRole, directory, rights
    <3>6. LockInv'
      BY <3>1, <3>3, <3>4, <3>5, LocksTaken DEF Open
    <3> QED BY <3>6 DEF LockInv, NewRole, Writes, Present
  <2>6. CASE InsertRole(q)
    <3> DEFINE r == PersonaRole[request[q].new]
    <3>1. request[q].at = "insert" /\ r \in Role /\ r \notin roles
      BY <2>6, Asked DEF InsertRole, Open, NewRole
    <3>2. request'[q] = [request[q] EXCEPT !.at = "bindings"]
      BY <2>6, Moved DEF InsertRole, Open, TypeOK
    <3>3. /\ request'[q].at = "bindings" /\ request'[q].user = request[q].user
          /\ request'[q].new = request[q].new /\ request'[q].loaded = request[q].loaded
      BY <3>2, SMT DEF TypeOK, RequestRecord
    <3>4. \A z \in Requests \ {q} : request'[z] = request[z]
      BY <2>6 DEF InsertRole, TypeOK
    <3>5. /\ roleLock'[r] = q /\ \A s \in Role \ {r} : roleLock'[s] = roleLock[s]
          /\ UNCHANGED <<users, roles, userLock>>
      BY <2>6, <3>1, SMT DEF InsertRole, NewRole, TypeOK, directory, rights
    <3>6. LockInv'
      BY <3>1, <3>3, <3>4, <3>5, LocksTaken DEF Open
    <3> QED BY <3>6 DEF LockInv, NewRole, Writes, Present
  <2>7. CASE ReadBindings(q)
    <3> DEFINE u == request[q].user
    <3>1. u \in Users /\ request[q].at = "bindings"
      BY <2>7, Asked DEF ReadBindings, Open
    <3>2. request'[q] = [request[q] EXCEPT !.at = "commit", !.sees = OwnBindings(u)]
      <4>1. OwnBindings(u) \in SUBSET Id
        BY DEF OwnBindings
      <4> QED BY <2>7, <4>1, MovedSeeing DEF ReadBindings, TypeOK
    <3>3. /\ request'[q].at = "commit" /\ request'[q].user = u
          /\ request'[q].new = request[q].new /\ request'[q].loaded = request[q].loaded
      <4>1. request[q] \in RequestRecord
        BY DEF TypeOK
      <4> QED BY <3>2, <4>1, SMT DEF RequestRecord
    <3>4. \A z \in Requests \ {q} : request'[z] = request[z]
      BY <2>7 DEF ReadBindings, TypeOK
    <3>5. UNCHANGED <<users, roles, roleLock>>
      BY <2>7 DEF ReadBindings, directory, rights
    <3>6. CASE Writes(q)
      <4>1. /\ userLock'[u] = q /\ userLock[u] \in {None, q} /\ users[u].status = "present"
            /\ \A v \in Users \ {u} : userLock'[v] = userLock[v]
        BY <2>7, <3>1, <3>6, SMT DEF ReadBindings, GetsRow, TypeOK, Present
      <4>2. LockInv'
        BY <3>1, <3>3, <3>4, <3>5, <4>1, LocksTaken DEF Open
      <4> QED BY <4>2 DEF LockInv, NewRole, Writes, Present
    <3>7. CASE ~Writes(q)
      <4>1. userLock' = userLock /\ request[q].new = request[q].loaded
        BY <2>7, <3>7 DEF ReadBindings, Writes
      <4>2. LockInv'
        BY <3>1, <3>3, <3>4, <3>5, <4>1, LocksTaken DEF Open
      <4> QED BY <4>2 DEF LockInv, NewRole, Writes, Present
    <3> QED BY <3>6, <3>7
  <2>8. ASSUME Release(q), request' = [request EXCEPT ![q] = Blank("over")],
               \A v \in Users : users[v].status = "present" => users'[v].status = "present",
               \A r \in Role : r \in roles' => r \in roles \/ roleLock[r] \in {None, q}
        PROVE  UserLocks /\ RoleLocks /\ Locked
    <3>1. request'[q].at = "over" /\ \A z \in Requests \ {q} : request'[z] = request[z]
      BY <2>8, BlankType DEF TypeOK
    <3>2. \A z \in Requests : request[z].at = "commit" => request[z].user \in Users
      BY Asked DEF Open
    <3>3. UserLocks
      BY <2>2, <2>8, <3>1, Released
    <3>4. RoleLocks
      BY <2>2, <2>8, <3>1, Released
    <3>5. Locked
      BY <2>2, <2>8, <3>1, <3>2, Released
    <3> QED BY <3>3, <3>4, <3>5
  <2>9. CASE CommitChange(q)
    <3> DEFINE p == request[q].new
    <3>1. \A v \in Users : users[v].status = "present" => users'[v].status = "present"
      BY <2>9, Committed
    <3>2. roles' = roles \cup {PersonaRole[p]} /\ (PersonaRole[p] \in roles \/ roleLock[PersonaRole[p]] = q)
      BY <2>9, Committed DEF CommitChange, Commits, NewRole
    <3> QED BY <2>8, <2>9, <3>1, <3>2 DEF CommitChange
  <2>10. CASE RollBack(q)
    BY <2>8, <2>10 DEF RollBack, directory, rights
  <2> QED BY <1>4, <2>3, <2>4, <2>5, <2>6, <2>7, <2>9, <2>10 DEF ChangePersona, Fails, RequestDies
<1>5. CASE UNCHANGED vars
  BY <1>5, LocksKept DEF vars, directory, rights, Present
<1> QED BY <1>1, <1>2, <1>3, <1>4, <1>5 DEF Next
-----------------------------------------------------------------------------
LEMMA InvStep == Inv /\ [Next]_vars => Inv'
  BY TypeStep, ReferencesStep, LockStep, BindingStep DEF Inv

\* Every row a row refers to is there, and locks and uncommitted rows belong to
\* open requests, for any number of users, groups, roles and overlapping changes.
THEOREM AccountsInvariance == Spec => []Inv
  BY InitInv, InvStep, PTL DEF Spec

\* A change of persona takes nothing but its own user's bindings at the
\* organization, however long after it read them it commits.
THEOREM ScopedKeptHolds == Spec => ScopedKept
<1> DEFINE Own(q) == request[q].at = "commit" /\ request'[q].at = "over" =>
             \A i \in Id \ {q} : binding'[i] # binding[i] =>
               binding[i].user = request[q].user /\ binding[i].scope = Organization
<1>1. ASSUME Inv, [Next]_vars PROVE [\A q \in Requests : Own(q)]_vars
  <2> SUFFICES ASSUME NEW q \in Requests, request[q].at = "commit", request'[q].at = "over",
                      NEW i \in Id \ {q}, binding'[i] # binding[i]
               PROVE  binding[i].user = request[q].user /\ binding[i].scope = Organization
    OBVIOUS
  <2>1. request' # request
    OBVIOUS
  <2>2. PICK z \in Requests : ChangePersona(z)
    BY <1>1, <2>1 DEF Next, vars, sessions, ManageRoles, CreateRole, UpdateRole, DeleteRole, ManageUsers,
      CreateUser, SeedAdmin, DirectoryLogin, Bare, SetActive, DeleteUser, CreateGroup, DeleteGroup,
      AddGroupMember, RemoveGroupMember, ManageBindings, AddBinding, RemoveBinding
  <2>3. CommitChange(z)
    BY <2>2 DEF ChangePersona, BeginChange, FlushActive, GetRole, InsertRole, ReadBindings, Fails,
      RequestDies, RollBack, rights
  <2>4. z = q
    BY <2>3 DEF CommitChange, Inv, TypeOK
  <2>5. i \in request[q].sees /\ Live(i)
    <3>1. i \in request[q].sees
      BY <1>1, <2>3, <2>4, Committed DEF Inv
    <3>2. binding'[i] = NoBinding
      <4>1. binding' = [Without(request[q].sees) EXCEPT
                         ![q] = PersonaBinding(request[q].user, request[q].new)]
        BY <2>3, <2>4 DEF CommitChange
      <4> QED BY <3>1, <4>1 DEF Without
    <3>3. binding[i] \in Binding /\ binding[i] # NoBinding
      BY <1>1, <3>2 DEF Inv, TypeOK
    <3>4. Live(i)
      BY <3>3, Names, SMT DEF Live, Binding
    <3> QED BY <3>1, <3>4
  <2> QED BY <1>1, <2>5 DEF Inv, BindingInv
<1> QED BY <1>1, AccountsInvariance, PTL DEF Spec, ScopedKept
-----------------------------------------------------------------------------
\* Where no client sends the persona a user has: every change of persona locks
\* its user's row before it reads, so that it sees all there is to replace.
Seen ==
  /\ bare \subseteq {u \in Users : Present(u)}
  /\ \A q \in Requests : request[q].at \in Open => Writes(q)
  /\ \A q \in Requests : request[q].at = "commit" => TemplateOf(request[q].user) \subseteq request[q].sees

\* What PersonaBound says of one user.
Bound(u) ==
  IF u \in bare THEN TemplateOf(u) = {}
  ELSE \E i \in Template : TemplateOf(u) = {i} /\ binding[i].role = PersonaRole[users[u].persona]

\* A user's template bindings are those of a user that is there.
LEMMA TemplateLive ==
  ASSUME Inv, NEW u \in Users, NEW i \in TemplateOf(u)
  PROVE  i \in Template /\ Live(i) /\ binding[i].user = u /\ binding[i].group = None /\ Present(u)
<1>1. i \in Template /\ binding[i].user = u /\ i \in Id
  BY Names DEF TemplateOf
<1>2. binding[i] \in Binding
  BY <1>1 DEF Inv, TypeOK
<1>3. Live(i)
  BY <1>1, <1>2, Names, BindingTypes, SMT DEF Live, Binding
<1> QED BY <1>1, <1>3, Names DEF Inv, References, BindingInv

\* Deleting bindings leaves a user with its one template binding, or bare.
LEMMA BoundWithout ==
  ASSUME Inv, NEW gone, binding' = Without(gone), NEW u \in Users, Bound(u),
         users'[u].persona = users[u].persona,
         u \in bare' <=> u \in bare \/ u \in Losers(gone)
  PROVE  Bound(u)'
<1> USE Names
<1>1. \A i \in Template : binding'[i] = IF i \in gone THEN NoBinding ELSE binding[i]
  BY DEF Without
<1>2. \A i \in Template : binding'[i].user = u <=> i \in TemplateOf(u) /\ i \notin gone
  BY <1>1, BindingTypes DEF TemplateOf
<1>3. TemplateOf(u)' = TemplateOf(u) \ gone
  BY <1>2 DEF TemplateOf
<1>4. CASE u \in bare
  BY <1>3, <1>4 DEF Bound
<1>5. CASE u \notin bare
  <2>1. PICK i \in Template : TemplateOf(u) = {i} /\ binding[i].role = PersonaRole[users[u].persona]
    BY <1>5 DEF Bound
  <2>2. Live(i) /\ binding[i].user = u
    BY <2>1, TemplateLive
  <2>3. CASE i \in gone
    BY <1>3, <2>1, <2>2, <2>3 DEF Bound, Losers
  <2>4. CASE i \notin gone
    <3>1. u \notin Losers(gone)
      BY <2>1, <2>4 DEF Losers, TemplateOf
    <3> QED BY <1>1, <1>3, <1>5, <2>1, <2>4, <3>1 DEF Bound
  <2> QED BY <2>3, <2>4
<1> QED BY <1>4, <1>5

\* A step that leaves a user's template bindings as they are.
LEMMA BoundKept ==
  ASSUME NEW u \in Users, Bound(u), users'[u].persona = users[u].persona, u \in bare' <=> u \in bare,
         \A i \in Template : binding'[i].user = u \/ binding[i].user = u => binding'[i] = binding[i]
  PROVE  Bound(u)' /\ TemplateOf(u)' = TemplateOf(u)
<1>1. TemplateOf(u)' = TemplateOf(u)
  BY DEF TemplateOf
<1>2. \A i \in TemplateOf(u) : binding'[i] = binding[i]
  BY DEF TemplateOf
<1> QED BY <1>1, <1>2 DEF Bound

\* What each step does to bare users, to bound users, and to the bindings that
\* a request which is about to commit has read.
BareOK == bare \subseteq {u \in Users : Present(u)}
BoundOK == \A u \in Users : Present(u) => Bound(u)
NoGain(u) == \A i \in Template : binding'[i].user = u => binding[i].user = u

LEMMA PersonaAction ==
  ASSUME ~Resend, Inv, Seen, BoundOK, [Next]_vars
  PROVE  /\ BareOK' /\ BoundOK'
         /\ \A q \in Requests : request[q].at = "commit" /\ request'[q] = request[q] =>
              NoGain(request[q].user)
<1> DEFINE Rest == \A q \in Requests : request[q].at = "commit" /\ request'[q] = request[q] =>
                     NoGain(request[q].user)
<1> USE Names
<1>1. \A q \in Requests : request[q].at = "commit" =>
        /\ request[q].user \in Users /\ userLock[request[q].user] = q
        /\ users[request[q].user].status # "absent"
  BY Asked DEF Inv, LockInv, BindingInv, Seen, Open
<1>2. ASSUME NEW gone, binding' = Without(gone), bare' = bare \cup Losers(gone), users' = users
      PROVE  BareOK' /\ BoundOK' /\ Rest
  <2>1. \A u \in Losers(gone) : u \in Users /\ Present(u)
    BY TemplateLive DEF Losers, TemplateOf
  <2>2. BareOK'
    BY <1>2, <2>1 DEF Seen, BareOK, Present
  <2>3. ASSUME NEW u \in Users, Present(u) PROVE Bound(u)'
    <3>1. Bound(u)
      BY <2>3 DEF BoundOK
    <3> QED BY <1>2, <3>1, BoundWithout
  <2>4. BoundOK'
    BY <1>2, <2>3 DEF BoundOK, Present
  <2>5. Rest
    BY <1>1, <1>2, BindingTypes DEF Without, NoGain
  <2> QED BY <2>2, <2>4, <2>5
<1>3. ASSUME \A i \in Template : binding'[i] = binding[i], bare' = bare,
             \A u \in Users : users'[u].status = users[u].status,
             \A u \in Users : users'[u].persona = users[u].persona
      PROVE  BareOK' /\ BoundOK' /\ Rest
  <2>1. BareOK'
    BY <1>3 DEF Seen, BareOK, Present
  <2>2. ASSUME NEW u \in Users, users[u].status = "present" PROVE Bound(u)'
    <3>1. Bound(u)
      BY <2>2 DEF BoundOK, Present
    <3> QED BY <1>3, <3>1, BoundKept
  <2>3. BoundOK'
    BY <1>3, <2>2 DEF BoundOK, Present
  <2>4. Rest
    BY <1>3 DEF NoGain
  <2> QED BY <2>1, <2>3, <2>4
<1>4. ASSUME UNCHANGED <<binding, bare, users>> PROVE BareOK' /\ BoundOK' /\ Rest
  BY <1>3, <1>4
<1>5. CASE ManageRoles
  <2>1. ASSUME NEW r \in Role, NEW ps \in Edits, CreateRole(r, ps) \/ UpdateRole(r, ps)
        PROVE  BareOK' /\ BoundOK' /\ Rest
    BY <2>1, <1>4 DEF CreateRole, UpdateRole, directory
  <2>2. ASSUME NEW r \in Role, DeleteRole(r) PROVE BareOK' /\ BoundOK' /\ Rest
    BY <2>2, <1>2 DEF DeleteRole, directory
  <2> QED BY <1>5, <2>1, <2>2 DEF ManageRoles
<1>6. ASSUME NEW u \in Users, NEW p \in Personas, CreateUser(u, p)
      PROVE  BareOK' /\ BoundOK' /\ Rest
  <2>1. binding'[u] = PersonaBinding(u, p) /\ \A i \in Id \ {u} : binding'[i] = binding[i]
    BY <1>6, Placed DEF CreateUser, Inv, TypeOK
  <2>2. /\ users'[u].status = "present" /\ users'[u].persona = p
        /\ \A v \in Users \ {u} : users'[v] = users[v]
    BY <1>6, SMT DEF CreateUser, Inv, TypeOK
  <2>3. ~Present(u) /\ bare' = bare
    BY <1>6 DEF CreateUser, Present
  <2>4. BareOK'
    BY <2>2, <2>3 DEF Seen, BareOK, Present
  <2>5. binding'[u].user = u /\ binding'[u].role = PersonaRole[p]
    BY <2>1 DEF PersonaBinding
  <2>6. TemplateOf(u) = {}
    BY <2>3, TemplateLive
  <2>7. TemplateOf(u)' = {u}
    BY <2>1, <2>5, <2>6 DEF TemplateOf
  <2>8. u \notin bare
    BY <2>3 DEF Seen
  <2>9. Bound(u)'
    BY <2>2, <2>3, <2>5, <2>7, <2>8 DEF Bound
  <2>10. ASSUME NEW v \in Users \ {u}, Present(v) PROVE Bound(v)'
    <3>1. Bound(v)
      BY <2>10 DEF BoundOK
    <3>2. binding[u].user # v
      <4>1. SUFFICES ASSUME binding[u].user = v PROVE FALSE
        OBVIOUS
      <4>2. Live(u)
        BY <4>1, TemplateLive DEF TemplateOf
      <4>3. Used(u) /\ u \notin given /\ u \notin Requests
        BY <4>2, NamesAssumption DEF Inv, BindingInv, TypeOK
      <4> QED BY <1>6, <4>3 DEF Used, CreateUser
    <3>3. \A i \in Template : binding'[i].user = v \/ binding[i].user = v => binding'[i] = binding[i]
      BY <2>1, <2>5, <3>2
    <3> QED BY <2>2, <2>3, <2>10, <3>1, <3>3, BoundKept
  <2>11. BoundOK'
    BY <2>2, <2>9, <2>10 DEF BoundOK, Present
  <2>12. Rest
    <3>1. \A q \in Requests : request[q].at = "commit" => request[q].user # u
      BY <1>1, <1>6 DEF CreateUser
    <3> QED BY <2>1, <2>5, <3>1 DEF NoGain
  <2> QED BY <2>4, <2>11, <2>12
<1>7. ASSUME NEW u \in Users, NEW p \in Personas, Bare(u, p) PROVE BareOK' /\ BoundOK' /\ Rest
  <2>1. /\ users'[u].status = "present" /\ \A v \in Users \ {u} : users'[v] = users[v]
        /\ binding' = binding /\ bare' = bare \cup {u} /\ ~Present(u)
    BY <1>7, SMT DEF Bare, Inv, TypeOK, Present
  <2>2. BareOK'
    BY <2>1 DEF Seen, BareOK, Present
  <2>3. TemplateOf(u)' = {}
    <3>1. TemplateOf(u) = {}
      BY <2>1, TemplateLive
    <3> QED BY <2>1, <3>1 DEF TemplateOf
  <2>4. ASSUME NEW v \in Users \ {u}, Present(v) PROVE Bound(v)'
    <3>1. Bound(v)
      BY <2>4 DEF BoundOK
    <3> QED BY <2>1, <2>4, <3>1, BoundKept
  <2>5. BoundOK'
    BY <2>1, <2>3, <2>4 DEF BoundOK, Bound, Present
  <2> QED BY <2>1, <2>2, <2>5 DEF NoGain
<1>8. ASSUME NEW u \in Users, SetActive(u) PROVE BareOK' /\ BoundOK' /\ Rest
  <2>1. /\ \A v \in Users : users'[v].status = users[v].status
        /\ \A v \in Users : users'[v].persona = users[v].persona
    BY <1>8, SMT DEF SetActive, Inv, TypeOK
  <2> QED BY <1>3, <1>8, <2>1 DEF SetActive, rights
<1>9. ASSUME NEW u \in Users, DeleteUser(u) PROVE BareOK' /\ BoundOK' /\ Rest
  <2> DEFINE gone == {i \in Id : binding[i].user = u}
  <2>1. /\ binding' = Without(gone) /\ bare' = bare \ {u}
        /\ users'[u].status = "deleted" /\ \A v \in Users \ {u} : users'[v] = users[v]
    BY <1>9, SMT DEF DeleteUser, Inv, TypeOK
  <2>2. BareOK'
    BY <2>1 DEF Seen, BareOK, Present
  <2>3. \A i \in Id : binding'[i] = IF binding[i].user = u THEN NoBinding ELSE binding[i]
    BY <2>1 DEF Without
  <2>4. ASSUME NEW v \in Users \ {u}, Present(v) PROVE Bound(v)'
    <3>1. Bound(v)
      BY <2>4 DEF BoundOK
    <3>2. \A i \in Template : binding'[i].user = v \/ binding[i].user = v => binding'[i] = binding[i]
      BY <2>3, BindingTypes
    <3> QED BY <2>1, <2>4, <3>1, <3>2, BoundKept
  <2>5. BoundOK'
    BY <2>1, <2>4 DEF BoundOK, Present
  <2>6. Rest
    BY <1>1, <2>3, BindingTypes DEF NoGain
  <2> QED BY <2>2, <2>5, <2>6
<1>10. ASSUME NEW g \in Groups, DeleteGroup(g) PROVE BareOK' /\ BoundOK' /\ Rest
  <2> DEFINE gone == {i \in Id : binding[i].group = g}
  <2>1. binding' = Without(gone) /\ bare' = bare /\ users' = users
    BY <1>10 DEF DeleteGroup
  <2>2. \A i \in Template : i \notin gone \/ binding[i] = NoBinding
    <3>1. \A i \in Template : Live(i) => binding[i].group = None
      BY DEF Inv, BindingInv
    <3>2. \A i \in Template : ~Live(i) => binding[i] = NoBinding
      BY SMT DEF Inv, TypeOK, Live, Binding
    <3> QED BY <3>1, <3>2
  <2>3. \A i \in Template : binding'[i] = binding[i]
    BY <2>1, <2>2 DEF Without
  <2> QED BY <1>3, <2>1, <2>3
<1>11. CASE ManageUsers
  BY <1>4, <1>6, <1>7, <1>8, <1>9, <1>10, <1>11, NamesAssumption, Zenon DEF ManageUsers, SeedAdmin,
    DirectoryLogin, CreateGroup, AddGroupMember, RemoveGroupMember, rights
<1>12. CASE ManageBindings
  <2>1. ASSUME NEW i \in Grants, NEW r \in Role, NEW u \in Users \cup {None},
               NEW g \in Groups \cup {None}, NEW scope \in Scope, NEW temporary \in BOOLEAN,
               AddBinding(i, r, u, g, scope, temporary)
        PROVE  BareOK' /\ BoundOK' /\ Rest
    <3>1. \A j \in Id \ {i} : binding'[j] = binding[j]
      BY <2>1, Placed DEF AddBinding, Inv, TypeOK
    <3>2. i \notin Template
      BY NamesAssumption
    <3> QED BY <1>3, <2>1, <3>1, <3>2 DEF AddBinding, directory
  <2>2. ASSUME NEW i \in Id, RemoveBinding(i) PROVE BareOK' /\ BoundOK' /\ Rest
    BY <2>2, <1>2 DEF RemoveBinding, directory
  <2> QED BY <1>12, <2>1, <2>2 DEF ManageBindings
<1>13. ASSUME NEW q \in Requests, CommitChange(q) PROVE BareOK' /\ BoundOK' /\ Rest
  <2> DEFINE p == request[q].new
  <2>0. PICK u \in Users : u = request[q].user
    BY <1>13, Committed DEF Inv
  <2>1. /\ p \in Personas /\ Present(u) /\ q \in Id
        /\ binding'[q] = PersonaBinding(u, p)
        /\ \A i \in Id \ {q} : i \notin request[q].sees => binding'[i] = binding[i]
        /\ \A i \in Id \ {q} : i \in request[q].sees => binding'[i].user = None /\ ~Live(i)'
        /\ users'[u].status = "present" /\ users'[u].persona = IF Writes(q) THEN p ELSE users[u].persona
        /\ \A v \in Users \ {u} : users'[v] = users[v]
    BY <1>13, <2>0, Committed DEF Inv
  <2>2. request[q].at = "commit" /\ bare' = bare \ {u}
    BY <1>13, <2>0 DEF CommitChange, Commits
  <2>3. Writes(q) /\ TemplateOf(u) \subseteq request[q].sees
    BY <2>0, <2>2 DEF Seen, Open
  <2>4. ~Live(q)
    <3>1. q \notin given /\ q \notin Users
      BY NamesAssumption DEF Inv, TypeOK
    <3> QED BY <2>2, <3>1 DEF Inv, BindingInv, Used
  <2>5. BareOK'
    BY <2>1, <2>2 DEF Seen, BareOK, Present
  <2>6. binding'[q].user = u /\ binding'[q].role = PersonaRole[p]
    BY <2>1 DEF PersonaBinding
  <2>7. TemplateOf(u)' = {q}
    <3>1. \A i \in Template \ {q} : binding'[i].user # u
      BY <2>1, <2>3 DEF TemplateOf
    <3>2. q \in Template
      BY DEF Template
    <3> QED BY <2>6, <3>1, <3>2 DEF TemplateOf
  <2>8. Bound(u)'
    BY <2>1, <2>2, <2>3, <2>6, <2>7, Names DEF Bound
  <2>9. ASSUME NEW v \in Users \ {u}, Present(v) PROVE Bound(v)'
    <3>1. Bound(v)
      BY <2>9 DEF BoundOK
    <3>2. ASSUME NEW i \in Template, binding'[i].user = v \/ binding[i].user = v
          PROVE  binding'[i] = binding[i]
      <4>1. i # q
        <5>1. binding'[q].user # v
          BY <2>6
        <5>2. binding[q].user # v
          BY <2>4, TemplateLive DEF TemplateOf
        <5> QED BY <3>2, <5>1, <5>2
      <4>2. i \notin request[q].sees
        <5>1. SUFFICES ASSUME i \in request[q].sees PROVE FALSE
          OBVIOUS
        <5>2. binding[i].user = v
          BY <2>1, <3>2, <4>1, <5>1
        <5>3. Live(i)
          BY <5>2, TemplateLive DEF TemplateOf
        <5> QED BY <2>0, <2>2, <5>1, <5>2, <5>3 DEF Inv, BindingInv
      <4> QED BY <2>1, <4>1, <4>2
    <3> QED BY <2>1, <2>2, <2>9, <3>1, <3>2, BoundKept
  <2>10. BoundOK'
    BY <2>1, <2>8, <2>9 DEF BoundOK, Present
  <2>11. ASSUME NEW z \in Requests, request[z].at = "commit", request'[z] = request[z]
         PROVE  NoGain(request[z].user)
    <3>1. z # q
      BY <1>13, <2>11, BlankType DEF CommitChange, Inv, TypeOK
    <3>2. request[z].user # u
      BY <1>1, <2>0, <2>2, <2>11, <3>1
    <3>3. request[z].user # None
      BY <1>1, <2>11
    <3> QED BY <2>1, <2>6, <3>2, <3>3 DEF NoGain
  <2> QED BY <2>5, <2>10, <2>11
<1>14. CASE \E q \in Requests : ChangePersona(q)
  BY <1>4, <1>13, <1>14, Zenon DEF ChangePersona, BeginChange, FlushActive, GetRole, InsertRole, ReadBindings,
    Fails, RequestDies, RollBack, directory, rights
<1>15. CASE UNCHANGED vars
  BY <1>4, <1>15 DEF vars, directory, rights
<1> QED BY <1>5, <1>11, <1>12, <1>14, <1>15 DEF Next

LEMMA SeenStep ==
  ASSUME ~Resend, Inv, Seen, BoundOK, [Next]_vars
  PROVE  Seen' /\ BoundOK'
<1>1. ASSUME NEW q \in Requests, request'[q].at \in Open
      PROVE  request'[q].new # request'[q].loaded
  <2>1. ASSUME NEW u \in Users, NEW p \in Personas, NEW flips \in BOOLEAN, BeginChange(q, u, p, flips)
        PROVE  request'[q].new # request'[q].loaded
    BY <2>1, SMT DEF BeginChange, Inv, TypeOK
  <2>2. request[q].at \in Open => request[q].new # request[q].loaded
    BY DEF Seen, Writes
  <2> QED BY <1>1, <2>1, <2>2, StepRequests DEF Inv
<1>2. ASSUME NEW q \in Requests, request'[q].at = "commit", NEW u \in Users, u = request'[q].user
      PROVE  TemplateOf(u)' \subseteq request'[q].sees
  <2>1. ASSUME NEW v \in Users, NEW p \in Personas, NEW flips \in BOOLEAN, BeginChange(q, v, p, flips)
        PROVE  FALSE
    BY <1>2, <2>1, SMT DEF BeginChange, Inv, TypeOK
  <2>2. CASE request'[q] = request[q]
    <3>1. request[q].at = "commit" /\ u = request[q].user
      BY <1>2, <2>2
    <3>2. NoGain(u)
      BY <2>2, <3>1, PersonaAction
    <3>3. TemplateOf(u) \subseteq request[q].sees
      BY <3>1 DEF Seen
    <3> QED BY <2>2, <3>2, <3>3 DEF NoGain, TemplateOf
  <2>3. CASE ReadBindings(q) /\ u = request[q].user /\ request'[q].sees = OwnBindings(u)
    <3>1. binding' = binding
      BY <2>3 DEF ReadBindings, rights
    <3>2. ASSUME NEW i \in TemplateOf(u) PROVE i \in OwnBindings(u)
      <4>1. Live(i) /\ i \in Template /\ binding[i].user = u
        BY <3>2, TemplateLive
      <4>2. binding[i].scope = Organization
        BY <4>1 DEF Inv, BindingInv
      <4> QED BY <4>1, <4>2, Names DEF OwnBindings
    <3> QED BY <2>3, <3>1, <3>2 DEF TemplateOf
  <2> QED BY <1>2, <2>1, <2>2, <2>3, StepRequests DEF Inv, Open
<1>3. ASSUME NEW q \in Requests, request'[q].at = "commit"
      PROVE  \E u \in Users : u = request'[q].user
  <2>1. ASSUME NEW v \in Users, NEW p \in Personas, NEW flips \in BOOLEAN, BeginChange(q, v, p, flips)
        PROVE  FALSE
    BY <1>3, <2>1, SMT DEF BeginChange, Inv, TypeOK
  <2>2. request[q].at \in Open => request[q].user \in Users
    BY Asked DEF Inv
  <2> QED BY <1>3, <2>1, <2>2, StepRequests DEF Inv, Open
<1> QED BY <1>1, <1>2, <1>3, PersonaAction DEF Seen, BareOK, Writes

\* While no client sends the persona a user has, a user has exactly the one
\* binding its persona gives, however the changes of persona overlap with each
\* other, with deletions of users and roles and with edits by hand.
THEOREM PersonaBoundHolds ==
  ASSUME ~Resend
  PROVE  Spec => []PersonaBound
<1>1. Init => Seen /\ BoundOK
  <2> SUFFICES ASSUME Init PROVE Seen /\ BoundOK
    OBVIOUS
  <2>1. \A q \in Requests : request[q].at = "idle"
    BY BlankType DEF Init
  <2>2. \A u \in Users : ~Present(u)
    BY SMT DEF Init, Present
  <2> QED BY <2>1, <2>2 DEF Seen, BoundOK, Open, Init
<1>2. Inv /\ Seen /\ BoundOK /\ [Next]_vars => Seen' /\ BoundOK'
  BY SeenStep
<1>3. BoundOK => PersonaBound
  BY DEF BoundOK, Bound, PersonaBound
<1> QED BY <1>1, <1>2, <1>3, AccountsInvariance, PTL DEF Spec

LEMMA UnionOfBoth ==
  ASSUME NEW X, NEW Y
  PROVE  UNION (X \cup Y) = (UNION X) \cup (UNION Y)
<1>1. ASSUME NEW x, x \in UNION (X \cup Y) PROVE x \in (UNION X) \cup (UNION Y)
  BY <1>1
<1>2. ASSUME NEW x, x \in (UNION X) \cup (UNION Y) PROVE x \in UNION (X \cup Y)
  BY <1>2
<1> QED BY <1>1, <1>2

LEMMA RightsFollow == Inv /\ PersonaBound => RightsAsEntitled
<1> SUFFICES ASSUME Inv, PersonaBound, NEW u \in Users, NEW scope \in Scope
             PROVE  PermissionsFor(u, scope) =
                      IF Present(u) /\ users[u].active THEN Entitlement(u, scope) ELSE {}
  BY DEF RightsAsEntitled
<1> SUFFICES ASSUME Present(u)
             PROVE  UNION {perms[binding[i].role] : i \in Matching(u, scope)} = Entitlement(u, scope)
  BY DEF PermissionsFor
<1> USE Names
<1> DEFINE Hand == {j \in Grants : /\ Live(j) /\ binding[j].scope \in {Organization, scope}
                                   /\ \/ binding[j].user = u
                                      \/ \E g \in groups : <<u, g>> \in members /\ binding[j].group = g}
<1>1. \A g : g \in GroupsOf(u) <=> g \in groups /\ <<u, g>> \in members
  <2>1. \A m \in members : m = <<m[1], m[2]>> /\ m[2] \in groups
    BY SMT DEF Inv, TypeOK, References
  <2> QED BY <2>1, SMT DEF GroupsOf
<1>2. None \notin GroupsOf(u)
  BY <1>1 DEF Inv, TypeOK
<1>3. Matching(u, scope) = TemplateOf(u) \cup Hand
  <2>1. ASSUME NEW i \in Template PROVE i \in Matching(u, scope) <=> i \in TemplateOf(u)
    <3>1. Live(i) => binding[i].group = None /\ binding[i].scope = Organization
      BY DEF Inv, BindingInv
    <3>2. binding[i].user = u => Live(i)
      BY TemplateLive DEF TemplateOf
    <3> QED BY <1>2, <3>1, <3>2 DEF Matching, TemplateOf
  <2>2. ASSUME NEW i \in Grants PROVE i \in Matching(u, scope) <=> i \in Hand
    BY <1>1 DEF Matching
  <2> QED BY <2>1, <2>2, NamesAssumption DEF Matching, TemplateOf
<1>4. UNION {perms[binding[i].role] : i \in TemplateOf(u)} =
        IF u \in bare THEN {} ELSE perms[PersonaRole[users[u].persona]]
  <2>1. CASE u \in bare
    BY <2>1 DEF PersonaBound
  <2>2. CASE u \notin bare
    <3>1. PICK i \in Template : TemplateOf(u) = {i} /\ binding[i].role = PersonaRole[users[u].persona]
      BY <2>2 DEF PersonaBound
    <3> QED BY <2>2, <3>1
  <2> QED BY <2>1, <2>2
<1> DEFINE Both == {perms[binding[i].role] : i \in Matching(u, scope)}
           First == {perms[binding[i].role] : i \in TemplateOf(u)}
           Second == {perms[binding[i].role] : i \in Hand}
<1>5. Both = First \cup Second
  BY <1>3
<1>6. UNION First = IF u \in bare THEN {} ELSE perms[PersonaRole[users[u].persona]]
  BY <1>4
<1>7. Entitlement(u, scope) =
        (IF u \in bare THEN {} ELSE perms[PersonaRole[users[u].persona]]) \cup UNION Second
  BY DEF Entitlement
<1>8. SUFFICES UNION Both = Entitlement(u, scope)
  OBVIOUS
<1> HIDE DEF Both, First, Second, Hand
<1>9. UNION Both = (UNION First) \cup (UNION Second)
  BY <1>5, UnionOfBoth, Zenon
<1> QED BY <1>6, <1>7, <1>9

\* The permissions of a user are those of its present persona and of the bindings
\* made by hand, no more and no less.
THEOREM RightsAsEntitledHolds ==
  ASSUME ~Resend
  PROVE  Spec => []RightsAsEntitled
  BY RightsFollow, PersonaBoundHolds, AccountsInvariance, PTL
====
