---- MODULE MCAccounts ----
(***************************************************************************)
(* Values of Accounts' constants that TLC can check.                       *)
(***************************************************************************)
EXTENDS Accounts, TLC

CONSTANTS reader, owner, readerRole, ownerRole, custom

RoleOf == [p \in {reader, owner} |-> IF p = reader THEN readerRole ELSE ownerRole]

PermissionsOf == [p \in {reader, owner} |-> IF p = reader THEN {"view"} ELSE {"view", "manage"}]

AllPermissions == {"view", "manage"}

Lists == {{"view", "manage"}}

Symmetry == Permutations(Requests)
====
