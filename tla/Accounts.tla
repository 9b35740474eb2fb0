------------------------------- MODULE Accounts -------------------------------
(***************************************************************************)
(* Users, groups, roles and the bindings between them (routes/users.py,    *)
(* services/user_service.py, models/auth.py, the users routes/auth.py      *)
(* makes), and the permissions they amount to (services/authz_service.py). *)
(*                                                                         *)
(* A change of persona is the one request that holds a transaction open    *)
(* over several statements: its UPDATE and INSERT, flushed before the next *)
(* query, lock a row until it commits, as on PostgreSQL.  Every other      *)
(* request is one commit.                                                  *)
(***************************************************************************)
EXTENDS FiniteSets

CONSTANTS
  Users, Groups,
  Grants,               \* ids of the bindings made by hand, each made at most once
  Requests,             \* requests that change a persona, each made at most once
  Personas,             \* values of the column persona; the API takes any string
  PersonaRole,          \* PersonaRole[p]: the id built from the name p
  Former,               \* personas of users deleted before: their roles are still there
  Default, Admin,       \* the personas ReadOnly and PlatformAdmin
  PersonaPermissions,   \* PersonaPermissions[p]: what the role is created with
  CustomRoles,
  Permissions,
  Edits,                \* the permission lists an administrator gives a role
  Products,             \* the scopes below the organization
  Organization,         \* the scope "organization"
  Resend,               \* TRUE when a client may send the persona the user has
  None

Role  == {PersonaRole[p] : p \in Personas} \cup CustomRoles
Scope == Products \cup {Organization}

\* A binding is named after what inserts it: the request that creates the
\* user, a change of persona, or an administrator.
Template == Users \cup Requests
Id == Template \cup Grants

ASSUME NamesAssumption ==
  /\ None \notin Users \cup Groups \cup Requests \cup Personas \cup Role \cup Scope
  /\ Organization \notin Products
  /\ Users \cap Requests = {} /\ Template \cap Grants = {}
  /\ \A p \in Personas : PersonaRole[p] \notin CustomRoles
  /\ Former \subseteq Personas /\ Default \in Personas /\ Admin \in Personas
  /\ PersonaPermissions \in [Personas -> SUBSET Permissions]
  /\ Edits \subseteq SUBSET Permissions
  /\ Resend \in BOOLEAN

VARIABLES
  users,      \* the users rows
  groups,     \* the groups that exist
  members,    \* user_groups
  roles,      \* the roles that exist
  perms,      \* perms[r]: the permissions of role r
  binding,    \* the role_bindings rows
  given,      \* the grants that have been made
  request,    \* the locals of the persona changes
  userLock,   \* userLock[u]: the request whose open transaction updated u's row
  roleLock,   \* roleLock[r]: the request whose open transaction inserted r
  bare        \* history: the users without the binding of their persona, because they
              \* were created without one or an administrator has taken it away

directory == <<users, groups, members>>
rights    == <<roles, perms, binding, given, bare>>
sessions  == <<request, userLock, roleLock>>
vars      == <<directory, rights, sessions>>

-----------------------------------------------------------------------------
NoBinding ==
  [role |-> None, user |-> None, group |-> None, scope |-> None, temporary |-> FALSE]

Binding ==
  [role : Role, user : Users \cup {None}, group : Groups \cup {None}, scope : Scope,
   temporary : BOOLEAN] \cup {NoBinding}

Live(i) == binding[i].role # None
Present(u) == users[u].status = "present"

\* Where a change of persona is.  "flush": is_active differs and is not
\* written yet; "role": before the query for the role; "insert": has not found
\* it; "bindings": before the query for the old bindings; "commit": after it.
Open == {"flush", "role", "insert", "bindings", "commit"}

Blank(place) ==
  [at |-> place, user |-> None, loaded |-> None, new |-> None, active |-> FALSE, flips |-> FALSE,
   sees |-> {}]

RequestRecord ==
  [at : Open \cup {"idle", "over"}, user : Users \cup {None},
   loaded : Personas \cup {None}, new : Personas \cup {None}, active : BOOLEAN, flips : BOOLEAN,
   sees : SUBSET Id]

TypeOK ==
  /\ users \in [Users -> [status : {"absent", "present", "deleted"}, active : BOOLEAN,
                          persona : Personas \cup {None}]]
  /\ groups \subseteq Groups
  /\ members \subseteq Users \X Groups
  /\ roles \subseteq Role
  /\ perms \in [Role -> SUBSET Permissions]
  /\ binding \in [Id -> Binding]
  /\ given \subseteq Grants
  /\ request \in [Requests -> RequestRecord]
  /\ userLock \in [Users -> Requests \cup {None}]
  /\ roleLock \in [Role -> Requests \cup {None}]
  /\ bare \subseteq Users

Init ==
  /\ users = [u \in Users |-> [status |-> "absent", active |-> FALSE, persona |-> None]]
  /\ groups = {} /\ members = {}
  /\ roles = {PersonaRole[p] : p \in Former}
  /\ perms \in {f \in [Role -> SUBSET Permissions] : \A r \in Role :
       IF r \in roles THEN \E p \in Former : r = PersonaRole[p] /\ f[r] = PersonaPermissions[p]
       ELSE f[r] = {}}
  /\ binding = [i \in Id |-> NoBinding]
  /\ given = {} /\ bare = {}
  /\ request = [q \in Requests |-> Blank("idle")]
  /\ userLock = [u \in Users |-> None]
  /\ roleLock = [r \in Role |-> None]

-----------------------------------------------------------------------------
(* Roles, and the binding a persona gives.                                 *)

\* _ensure_persona_role, once it is committed: a role that is there is left
\* as it is, whatever became of its permissions.
EnsuredRole(p) ==
  /\ roles' = roles \cup {PersonaRole[p]}
  /\ perms' = IF PersonaRole[p] \in roles THEN perms
              ELSE [perms EXCEPT ![PersonaRole[p]] = PersonaPermissions[p]]

PersonaBinding(u, p) ==
  [role |-> PersonaRole[p], user |-> u, group |-> None, scope |-> Organization,
   temporary |-> FALSE]

\* The bindings left when those in gone are deleted.
Without(gone) == [i \in Id |-> IF i \in gone THEN NoBinding ELSE binding[i]]

\* The users that lose the binding of their persona with the bindings in gone.
Losers(gone) == {u \in Users : \E i \in gone \cap Template : Live(i) /\ binding[i].user = u}

CreateRole(r, ps) ==
  /\ r \in CustomRoles \ roles
  /\ roles' = roles \cup {r}
  /\ perms' = [perms EXCEPT ![r] = ps]
  /\ UNCHANGED <<directory, binding, given, bare, sessions>>

\* Any role may be edited, those of the personas too.
UpdateRole(r, ps) ==
  /\ r \in roles
  /\ perms' = [perms EXCEPT ![r] = ps]
  /\ UNCHANGED <<directory, roles, binding, given, bare, sessions>>

\* (Mutant of DeleteRole: the relationship has no cascade.)
DeleteRoleAlone(r) ==
  /\ r \in roles
  /\ roles' = roles \ {r}
  /\ perms' = [perms EXCEPT ![r] = {}]
  /\ UNCHANGED <<directory, binding, given, bare, sessions>>

\* The bindings of the role go with it.
DeleteRole(r) ==
  LET gone == {i \in Id : binding[i].role = r}
  IN  /\ r \in roles
      /\ roles' = roles \ {r}
      /\ perms' = [perms EXCEPT ![r] = {}]
      /\ binding' = Without(gone)
      /\ bare' = bare \cup Losers(gone)
      /\ UNCHANGED <<directory, given, sessions>>

-----------------------------------------------------------------------------
(* Users and groups.                                                       *)

\* The role of the persona is made along with the user; the INSERT of a role
\* waits for one that another transaction has inserted.
CreateUser(u, p) ==
  /\ users[u].status = "absent"
  /\ roleLock[PersonaRole[p]] = None
  /\ users' = [users EXCEPT ![u] = [status |-> "present", active |-> TRUE, persona |-> p]]
  /\ EnsuredRole(p)
  /\ binding' = [binding EXCEPT ![u] = PersonaBinding(u, p)]
  /\ UNCHANGED <<groups, members, given, bare, sessions>>

Bare(u, p) ==
  /\ users[u].status = "absent"
  /\ users' = [users EXCEPT ![u] = [status |-> "present", active |-> TRUE, persona |-> p]]
  /\ bare' = bare \cup {u}
  /\ UNCHANGED <<groups, members, roles, perms, binding, given, sessions>>

\* ensure_admin_user, when a worker starts and finds no user.
SeedAdmin(u) == (\A v \in Users : ~Present(v)) /\ Bare(u, Admin)

\* The first login of somebody the external directory knows.
DirectoryLogin(u) == Bare(u, Default)

\* update_user without a persona.
SetActive(u) ==
  /\ Present(u) /\ userLock[u] = None
  /\ users' = [users EXCEPT ![u].active = ~@]
  /\ UNCHANGED <<groups, members, rights, sessions>>

DeleteUser(u) ==
  /\ Present(u) /\ userLock[u] = None
  /\ users' = [users EXCEPT ![u] = [status |-> "deleted", active |-> FALSE, persona |-> None]]
  /\ members' = {m \in members : m[1] # u}
  /\ binding' = Without({i \in Id : binding[i].user = u})
  /\ bare' = bare \ {u}
  /\ UNCHANGED <<groups, roles, perms, given, sessions>>

CreateGroup(g) ==
  /\ g \notin groups
  /\ groups' = groups \cup {g}
  /\ UNCHANGED <<users, members, rights, sessions>>

DeleteGroup(g) ==
  /\ g \in groups
  /\ groups' = groups \ {g}
  /\ members' = {m \in members : m[2] # g}
  /\ binding' = Without({i \in Id : binding[i].group = g})
  /\ UNCHANGED <<users, roles, perms, given, bare, sessions>>

AddGroupMember(g, u) ==
  /\ g \in groups /\ Present(u)
  /\ members' = members \cup {<<u, g>>}
  /\ UNCHANGED <<users, groups, rights, sessions>>

RemoveGroupMember(g, u) ==
  /\ g \in groups /\ Present(u)
  /\ members' = members \ {<<u, g>>}
  /\ UNCHANGED <<users, groups, rights, sessions>>

-----------------------------------------------------------------------------
(* Bindings made and removed by hand.                                      *)

\* add_user_binding and create_scope_binding: for a user, a group, or both.
AddBinding(i, r, u, g, scope, temporary) ==
  /\ i \in Grants \ given
  /\ r \in roles
  /\ u # None \/ g # None
  /\ u # None => Present(u)
  /\ g # None => g \in groups
  /\ binding' = [binding EXCEPT ![i] =
       [role |-> r, user |-> u, group |-> g, scope |-> scope, temporary |-> temporary]]
  /\ given' = given \cup {i}
  /\ UNCHANGED <<directory, roles, perms, bare, sessions>>

RemoveBinding(i) ==
  /\ Live(i)
  /\ binding' = Without({i})
  /\ bare' = bare \cup Losers({i})
  /\ UNCHANGED <<directory, roles, perms, given, sessions>>

-----------------------------------------------------------------------------
(* A change of persona, PATCH /users/<id>, and its transaction.            *)

\* The get_or_404 of update_user.  The assignments of the same handler only
\* mark the row; is_active is written when the query for the role flushes it.
BeginChange(q, u, p, flips) ==
  /\ request[q].at = "idle" /\ Present(u)
  /\ Resend \/ p # users[u].persona
  /\ request' = [request EXCEPT ![q] =
       [at |-> IF flips THEN "flush" ELSE "role", user |-> u, loaded |-> users[u].persona, new |-> p,
        active |-> users[u].active, flips |-> flips, sees |-> {}]]
  /\ UNCHANGED <<directory, rights, userLock, roleLock>>

\* Whether q gets the lock of its user's row, which UPDATE takes; the row may be gone.
GetsRow(q) ==
  LET u == request[q].user
  IN  Present(u) /\ userLock[u] \in {None, q} /\ userLock' = [userLock EXCEPT ![u] = q]

FlushActive(q) ==
  /\ request[q].at = "flush"
  /\ GetsRow(q)
  /\ request' = [request EXCEPT ![q].at = "role"]
  /\ UNCHANGED <<directory, rights, roleLock>>

NewRole(q) == PersonaRole[request[q].new]

GetRole(q) ==
  /\ request[q].at = "role"
  /\ request' = [request EXCEPT ![q].at = IF NewRole(q) \in roles THEN "bindings" ELSE "insert"]
  /\ UNCHANGED <<directory, rights, userLock, roleLock>>

\* The flush of _ensure_persona_role; the row is for the others to see at the commit.
InsertRole(q) ==
  /\ request[q].at = "insert"
  /\ NewRole(q) \notin roles /\ roleLock[NewRole(q)] = None
  /\ roleLock' = [roleLock EXCEPT ![NewRole(q)] = q]
  /\ request' = [request EXCEPT ![q].at = "bindings"]
  /\ UNCHANGED <<directory, rights, userLock>>

\* An UPDATE names the columns that differ from what was loaded, and there is
\* none when none differs.
Writes(q) == request[q].new # request[q].loaded

\* (Mutant of OwnBindings: every scope.)
OwnEverywhere(u) == {i \in Id : binding[i].user = u}

OwnBindings(u) == {i \in Id : binding[i].user = u /\ binding[i].scope = Organization}

\* (Mutant of ReadBindings: no flush before the query.)
ReadUnlocked(q) ==
  /\ request[q].at = "bindings"
  /\ request' = [request EXCEPT ![q] =
       [@ EXCEPT !.at = "commit", !.sees = OwnBindings(request[q].user)]]
  /\ UNCHANGED <<directory, rights, userLock, roleLock>>

\* The query flushes the persona before it reads.
ReadBindings(q) ==
  /\ request[q].at = "bindings"
  /\ IF Writes(q) THEN GetsRow(q) ELSE UNCHANGED userLock
  /\ request' = [request EXCEPT ![q] =
       [@ EXCEPT !.at = "commit", !.sees = OwnBindings(request[q].user)]]
  /\ UNCHANGED <<directory, rights, roleLock>>

Release(q) ==
  /\ userLock' = [u \in Users |-> IF userLock[u] = q THEN None ELSE userLock[u]]
  /\ roleLock' = [r \in Role |-> IF roleLock[r] = q THEN None ELSE roleLock[r]]

Commits(q) ==
  /\ request[q].at = "commit"
  /\ Present(request[q].user)
  /\ NewRole(q) \in roles \/ roleLock[NewRole(q)] = q

CommitChange(q) ==
  LET rq == request[q]
      u  == rq.user
  IN  /\ Commits(q)
      /\ users' = [users EXCEPT ![u] =
           [status  |-> "present",
            persona |-> IF Writes(q) THEN rq.new ELSE users[u].persona,
            active  |-> IF rq.flips THEN ~rq.active ELSE users[u].active]]
      /\ EnsuredRole(rq.new)
      /\ binding' = [Without(rq.sees) EXCEPT ![q] = PersonaBinding(u, rq.new)]
      /\ bare' = bare \ {u}
      /\ request' = [request EXCEPT ![q] = Blank("over")]
      /\ Release(q)
      /\ UNCHANGED <<groups, members, given>>

RollBack(q) ==
  /\ request' = [request EXCEPT ![q] = Blank("over")]
  /\ Release(q)
  /\ UNCHANGED <<directory, rights>>

\* The user to update is gone, the role to insert has come, or the binding
\* would refer to a user or role that has gone: the statement raises.
Fails(q) ==
  /\ \/ request[q].at = "flush" /\ ~Present(request[q].user)
     \/ request[q].at = "insert" /\ NewRole(q) \in roles
     \/ request[q].at = "bindings" /\ Writes(q) /\ ~Present(request[q].user)
     \/ request[q].at = "commit" /\ ~Commits(q)
  /\ RollBack(q)

\* The worker process ends, or the database breaks a cycle of waiting requests.
RequestDies(q) == request[q].at \in Open /\ RollBack(q)

ChangePersona(q) ==
  \/ \E u \in Users, p \in Personas, flips \in BOOLEAN : BeginChange(q, u, p, flips)
  \/ FlushActive(q) \/ GetRole(q) \/ InsertRole(q) \/ ReadBindings(q) \/ CommitChange(q)
  \/ Fails(q) \/ RequestDies(q)

-----------------------------------------------------------------------------
ManageRoles ==
  \/ \E r \in Role, ps \in Edits : CreateRole(r, ps) \/ UpdateRole(r, ps)
  \/ \E r \in Role : DeleteRole(r)

ManageUsers ==
  \/ \E u \in Users, p \in Personas : CreateUser(u, p)
  \/ \E u \in Users : SeedAdmin(u) \/ DirectoryLogin(u) \/ SetActive(u) \/ DeleteUser(u)
  \/ \E g \in Groups : CreateGroup(g) \/ DeleteGroup(g)
  \/ \E g \in Groups, u \in Users : AddGroupMember(g, u) \/ RemoveGroupMember(g, u)

ManageBindings ==
  \/ \E i \in Grants, r \in Role, u \in Users \cup {None}, g \in Groups \cup {None},
        scope \in Scope, temporary \in BOOLEAN : AddBinding(i, r, u, g, scope, temporary)
  \/ \E i \in Id : RemoveBinding(i)

Next == ManageRoles \/ ManageUsers \/ ManageBindings \/ \E q \in Requests : ChangePersona(q)

Spec == Init /\ [][Next]_vars

-----------------------------------------------------------------------------
(* authz_service.                                                          *)

GroupsOf(u) == {m[2] : m \in {n \in members : n[1] = u}}

\* (Mutant of Matching: the scope asked for alone.)
MatchingThere(u, scope) ==
  {i \in Id : /\ Live(i) /\ binding[i].scope = scope
              /\ binding[i].user = u \/ binding[i].group \in GroupsOf(u)}

\* _expand_scope: the scope asked for and the organization, nothing between.
Matching(u, scope) ==
  {i \in Id : /\ Live(i) /\ binding[i].scope \in {scope, Organization}
              /\ binding[i].user = u \/ binding[i].group \in GroupsOf(u)}

\* expires_at comes back from a DateTime column without a zone and is compared
\* with an aware now: a TypeError, whatever the two dates are.
Raises(u, scope) ==
  Present(u) /\ users[u].active /\ \E i \in Matching(u, scope) : binding[i].temporary

\* get_permissions_for_user
PermissionsFor(u, scope) ==
  IF Present(u) /\ users[u].active
  THEN UNION {perms[binding[i].role] : i \in Matching(u, scope)}
  ELSE {}

-----------------------------------------------------------------------------
(* The properties.                                                         *)

References ==
  /\ \A i \in Id : Live(i) =>
       /\ binding[i].role \in roles
       /\ binding[i].user # None => Present(binding[i].user)
       /\ binding[i].group # None => binding[i].group \in groups
  /\ \A m \in members : Present(m[1]) /\ m[2] \in groups

\* A lock belongs to an open request on that row; a request that is past an
\* UPDATE of its user holds the lock.
LockInv ==
  /\ \A u \in Users : userLock[u] # None =>
       request[userLock[u]].at \in Open /\ request[userLock[u]].user = u /\ Present(u)
  /\ \A r \in Role : roleLock[r] # None =>
       /\ request[roleLock[r]].at \in {"bindings", "commit"} /\ NewRole(roleLock[r]) = r
       /\ r \notin roles
  /\ \A q \in Requests : request[q].at = "commit" /\ Writes(q) => userLock[request[q].user] = q

TemplateOf(u) == {i \in Template : binding[i].user = u}

\* Whether what names a binding has inserted it, or at least had its turn to.
Used(i) ==
  \/ i \in given
  \/ i \in Users /\ users[i].status # "absent"
  \/ i \in Requests /\ request[i].at = "over"

\* A binding is inserted once, what a change of persona is about to delete is
\* its user's own, and it has a user and a persona to change.
BindingInv ==
  /\ \A i \in Id : Live(i) => Used(i)
  /\ \A i \in Template : Live(i) =>
       /\ binding[i].user # None /\ binding[i].group = None
       /\ binding[i].scope = Organization /\ ~binding[i].temporary
  /\ \A q \in Requests : request[q].at \in Open =>
       /\ request[q].user # None /\ request[q].new # None
       /\ users[request[q].user].status # "absent"
  /\ \A q \in Requests : request[q].at = "commit" => \A i \in request[q].sees :
       Used(i) /\ (Live(i) => binding[i].user = request[q].user /\ binding[i].scope = Organization)
  /\ \A u \in Users : Present(u) => users[u].persona # None

\* Every row a row refers to is there, whatever is deleted in the meantime,
\* and the rows that open transactions have written are nobody else's.
Inv == TypeOK /\ References /\ LockInv /\ BindingInv

\* A user has exactly one binding that a persona gave, that of the persona in
\* the column, unless it was taken away or the user came without one:
\* overlapping changes of persona leave one of them in both tables.
PersonaBound ==
  \A u \in Users : Present(u) =>
    IF u \in bare THEN TemplateOf(u) = {}
    ELSE \E i \in Template :
           TemplateOf(u) = {i} /\ binding[i].role = PersonaRole[users[u].persona]

\* What the persona and the bindings made by hand entitle a user to.
Entitlement(u, scope) ==
  (IF u \in bare THEN {} ELSE perms[PersonaRole[users[u].persona]])
    \cup UNION {perms[binding[i].role] : i \in
           {j \in Grants : /\ Live(j) /\ binding[j].scope \in {Organization, scope}
                           /\ \/ binding[j].user = u
                              \/ \E g \in groups : <<u, g>> \in members /\ binding[j].group = g}}

\* The permissions of an active user at a scope are those its persona has now
\* and those of the bindings made by hand, for it or its groups: nothing of an
\* earlier persona or a deleted group is left, and the others have none.
RightsAsEntitled ==
  \A u \in Users, scope \in Scope : ~Raises(u, scope) =>
    PermissionsFor(u, scope) =
      IF Present(u) /\ users[u].active THEN Entitlement(u, scope) ELSE {}

\* A change of persona, however late it commits, takes nothing from other
\* users or groups and nothing below the organization
\* (services/user_service.py:164: scoped bindings are not touched).
ScopedKept ==
  [][\A q \in Requests : request[q].at = "commit" /\ request'[q].at = "over" =>
       \A i \in Id \ {q} : binding'[i] # binding[i] =>
         binding[i].user = request[q].user /\ binding[i].scope = Organization]_vars

=============================================================================
