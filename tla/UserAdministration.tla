-------------------------- MODULE UserAdministration --------------------------
(***************************************************************************)
(* The iam schema: accounts, the one role of each, what roles permit, and  *)
(* the functions of the user administration screen.  A call of one of them *)
(* is a READ COMMITTED transaction: each of its statements sees what is    *)
(* committed by then, and only the row of the account or role it changes   *)
(* is locked.  Calls of several administrators run at the same time.       *)
(***************************************************************************)
EXTENDS Naturals, FiniteSets

CONSTANTS
    Users,          \* bound: accounts that may be created
    OtherRoles,     \* the roles below SUPER_ADMIN
    Connections,    \* database connections that run administration calls
    None

SuperAdmin == "SUPER_ADMIN"
Roles == OtherRoles \cup {SuperAdmin}
Permissions == {"MANAGE_USERS", "MANAGE_ROLES"}

ASSUME NamesAssumption == None \notin Users \cup Roles /\ SuperAdmin \notin OtherRoles

VARIABLES
    role,       \* iam.user_roles: of each account its role, None before it exists
    active,     \* accounts with is_active
    grants,     \* iam.role_permissions, as far as administration goes
    session,    \* of each account: "none", "verified" (login checked), "live"
    call        \* what each connection runs

vars == <<role, active, grants, session, call>>

-----------------------------------------------------------------------------
Operations == {"activate", "deactivate", "assign", "create", "permit"}

OnAccounts == {"activate", "deactivate", "assign"}

Idle == [op |-> None, actor |-> None, target |-> None, role |-> None, new |-> {},
         phase |-> "idle", stale |-> FALSE]

\* stale, a history: another call committed since this one began to check.
Calls ==
    [op: Operations \cup {None}, actor: Users \cup {None}, target: Users \cup {None},
     role: Roles \cup {None}, new: SUBSET Permissions,
     phase: {"idle", "authorised", "locked", "half_checked", "checked"}, stale: BOOLEAN]

Checking == {"half_checked", "checked"}

SuperAdmins == {u \in active : role[u] = SuperAdmin}

\* The join of user_roles with role_permissions.
Holds(u, permission) == role[u] # None /\ permission \in grants[role[u]]

Administrators == {u \in active : Holds(u, "MANAGE_USERS")}

\* Mutant of AnotherSuperAdmin: the account need not be active.
AnotherHolder(u) == \E v \in Users \ {u} : role[v] = SuperAdmin

\* iam.another_active_super_admin_exists
AnotherSuperAdmin(u) == SuperAdmins \ {u} # {}

\* iam.another_active_user_administrator_exists
AnotherAdministrator(u) == Administrators \ {u} # {}

\* What bootstrap_first_admin leaves, whatever the other roles permit by now.
Init ==
    /\ \E u \in Users : /\ role = [v \in Users |-> IF v = u THEN SuperAdmin ELSE None]
                        /\ active = {u}
    /\ \E g \in [OtherRoles -> SUBSET Permissions] :
         grants = [r \in Roles |-> IF r = SuperAdmin THEN Permissions ELSE g[r]]
    /\ session = [u \in Users |-> "none"]
    /\ call = [c \in Connections |-> Idle]

-----------------------------------------------------------------------------
(* Row locks, which a call holds from its SELECT ... FOR UPDATE to its end.  *)

HasLocked(c, table, row) ==
    /\ call[c].phase \in {"locked"} \cup Checking
    /\ CASE table = "users" -> call[c].op \in OnAccounts /\ call[c].target = row
         [] table = "roles" -> call[c].op = "permit" /\ call[c].role = row

Unlocked(table, row) == \A c \in Connections : ~HasLocked(c, table, row)

-----------------------------------------------------------------------------
(* Sessions.  A login reads the account, spends a while on the password,   *)
(* and then inserts the session, whatever became of the account, once the  *)
(* row it refers to is not locked.                                         *)

Verify(u) ==
    /\ u \in active
    /\ session[u] = "none"
    /\ session' = [session EXCEPT ![u] = "verified"]
    /\ UNCHANGED <<role, active, grants, call>>

SignIn(u) ==
    /\ session[u] = "verified"
    /\ Unlocked("users", u)
    /\ session' = [session EXCEPT ![u] = "live"]
    /\ UNCHANGED <<role, active, grants, call>>

\* Also the end of a session's twelve hours.
SignOut(u) ==
    /\ session[u] = "live"
    /\ session' = [session EXCEPT ![u] = "none"]
    /\ UNCHANGED <<role, active, grants, call>>

\* resolve_session_with_permission
Authorised(u, permission) ==
    /\ session[u] = "live"
    /\ u \in active
    /\ Holds(u, permission)

-----------------------------------------------------------------------------
(* The calls.                                                              *)

Began(c, op, actor, target, r, new) ==
    /\ call[c] = Idle
    /\ call' = [call EXCEPT ![c] = [op |-> op, actor |-> actor, target |-> target, role |-> r,
                                    new |-> new, phase |-> "authorised", stale |-> FALSE]]
    /\ UNCHANGED <<role, active, grants, session>>

\* set_user_active(true), or (false) on anybody but oneself.
SetUserActive(c, actor, target) ==
    /\ Authorised(actor, "MANAGE_USERS")
    /\ \/ Began(c, "activate", actor, target, None, {})
       \/ actor # target /\ Began(c, "deactivate", actor, target, None, {})

AssignUserRole(c, actor, target, r) ==
    /\ Authorised(actor, "MANAGE_USERS")
    /\ Began(c, "assign", actor, target, r, {})

CreateUser(c, actor, target, r) ==
    /\ Authorised(actor, "MANAGE_USERS")
    /\ Began(c, "create", actor, target, r, {})

SetRolePermissions(c, actor, r, new) ==
    /\ Authorised(actor, "MANAGE_ROLES")
    /\ Began(c, "permit", None, None, r, new)

Moves(c, phase) ==
    /\ call' = [call EXCEPT ![c].phase = phase]
    /\ UNCHANGED <<role, active, grants, session>>

\* Mutant of Lock: a missing row is not noticed.
LockAnything(c) ==
    /\ call[c].phase = "authorised"
    /\ Moves(c, "locked")

\* SELECT ... FOR UPDATE of the account or role to change; nothing in create_user.
Lock(c) ==
    LET k == call[c]
    IN  /\ k.phase = "authorised"
        /\ k.op \in OnAccounts => role[k.target] # None /\ Unlocked("users", k.target)
        /\ k.op = "permit" => k.role # SuperAdmin /\ Unlocked("roles", k.role)
        /\ Moves(c, "locked")

\* The target is the last active SUPER_ADMIN and would stop being one.
LastSuperAdmin(k) ==
    /\ \/ k.op = "deactivate"
       \/ k.op = "assign" /\ k.target \in active /\ k.role # SuperAdmin
    /\ role[k.target] = SuperAdmin
    /\ ~AnotherSuperAdmin(k.target)

\* Only a SUPER_ADMIN makes another.
MayGrant(k) ==
    k.op \in {"assign", "create"} /\ k.role = SuperAdmin => role[k.actor] = SuperAdmin

CheckSuperAdmin(c) ==
    /\ call[c].phase = "locked"
    /\ MayGrant(call[c])
    /\ ~LastSuperAdmin(call[c])
    /\ Moves(c, "half_checked")

\* The same guard over the permission MANAGE_USERS instead of the role.
LastAdministrator(k) ==
    \/ /\ \/ k.op = "deactivate"
          \/ k.op = "assign" /\ k.target \in active /\ "MANAGE_USERS" \notin grants[k.role]
       /\ Holds(k.target, "MANAGE_USERS")
       /\ ~AnotherAdministrator(k.target)
    \/ /\ k.op = "permit"
       /\ "MANAGE_USERS" \in grants[k.role] \ k.new
       /\ \A u \in Administrators : role[u] = k.role

CheckAdministrator(c) ==
    /\ call[c].phase = "half_checked"
    /\ ~LastAdministrator(call[c])
    /\ Moves(c, "checked")

\* The row of a role is referenced, so it must not be locked; a user name is
\* taken once.
CanWrite(k) ==
    /\ k.op \in {"assign", "create"} => Unlocked("roles", k.role)
    /\ k.op = "create" => role[k.target] = None

Overtaken(k) == IF k.phase \in Checking THEN [k EXCEPT !.stale = TRUE] ELSE k

Commit(c) ==
    LET k == call[c]
    IN  /\ k.phase = "checked"
        /\ CanWrite(k)
        /\ role' = IF k.op \in {"assign", "create"} THEN [role EXCEPT ![k.target] = k.role]
                   ELSE role
        /\ active' = CASE k.op \in {"activate", "create"} -> active \cup {k.target}
                       [] k.op = "deactivate"             -> active \ {k.target}
                       [] OTHER                           -> active
        /\ grants' = IF k.op = "permit" THEN [grants EXCEPT ![k.role] = k.new] ELSE grants
        /\ session' = IF k.op = "deactivate" /\ session[k.target] = "live"
                      THEN [session EXCEPT ![k.target] = "none"] ELSE session
        /\ call' = [d \in Connections |-> IF d = c THEN Idle ELSE Overtaken(call[d])]

\* A check failed, the connection was lost, the program was killed.
Rollback(c) ==
    /\ call[c] # Idle
    /\ call' = [call EXCEPT ![c] = Idle]
    /\ UNCHANGED <<role, active, grants, session>>

Next ==
    \/ \E u \in Users : Verify(u) \/ SignIn(u) \/ SignOut(u)
    \/ \E c \in Connections :
         \/ \E actor, target \in Users :
              \/ SetUserActive(c, actor, target)
              \/ \E r \in Roles : AssignUserRole(c, actor, target, r) \/ CreateUser(c, actor, target, r)
         \/ \E actor \in Users, r \in Roles, new \in SUBSET Permissions :
              SetRolePermissions(c, actor, r, new)
         \/ Lock(c) \/ CheckSuperAdmin(c) \/ CheckAdministrator(c) \/ Commit(c) \/ Rollback(c)

Spec == Init /\ [][Next]_vars

-----------------------------------------------------------------------------
(* Correctness.                                                            *)

\* An active account exists and has a role; SUPER_ADMIN permits everything.
TypeOK ==
    /\ role \in [Users -> Roles \cup {None}]
    /\ active \subseteq {u \in Users : role[u] # None}
    /\ grants \in [Roles -> SUBSET Permissions]
    /\ grants[SuperAdmin] = Permissions
    /\ session \in [Users -> {"none", "verified", "live"}]
    /\ call \in [Connections -> Calls]

\* There is always an active SUPER_ADMIN, without whom the installation could
\* never have one again: no call removes the last of them, not even one that
\* runs at the same time as a call on another administrator.
SuperAdminRemains == SuperAdmins # {}

\* A call during whose checks no other call committed never removes the last
\* active SUPER_ADMIN: only calls that overlap can.
CleanCallsKeepASuperAdmin ==
    [][\A c \in Connections :
          /\ call[c].phase = "checked"
          /\ ~call[c].stale
          /\ SuperAdmins # {}
          /\ call'[c] = Idle
          => SuperAdmins' # {}]_vars
=============================================================================
