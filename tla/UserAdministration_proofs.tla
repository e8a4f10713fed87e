----------------------- MODULE UserAdministration_proofs -----------------------
(***************************************************************************)
(* Proofs about UserAdministration, for every set of accounts, roles and   *)
(* connections.                                                            *)
(***************************************************************************)
EXTENDS UserAdministration, TLAPS

\* What a call found out is still so, unless another call committed since.
ChecksHold ==
    \A c \in Connections :
        call[c].phase \in Checking /\ ~call[c].stale => ~LastSuperAdmin(call[c])

\* A call carries what its operation needs; past its lock the target exists,
\* and is not the role SUPER_ADMIN.
WellFormed(k) ==
    k.phase # "idle" =>
      /\ k.op \in Operations
      /\ k.op \in OnAccounts \cup {"create"} => k.target \in Users
      /\ k.op \in {"assign", "create", "permit"} => k.role \in Roles
      /\ k.phase \in {"locked"} \cup Checking =>
           /\ k.op = "permit" => k.role # SuperAdmin
           /\ k.op \in OnAccounts => role[k.target] # None

CallsWellFormed == \A c \in Connections : WellFormed(call[c])

AdministrationInv == TypeOK /\ CallsWellFormed /\ ChecksHold

Phases == {"idle", "authorised", "locked", "half_checked", "checked"}

\* Two calls for the same thing, overtaken or not alike.
SameRequest(k, l) ==
    /\ k.op = l.op
    /\ k.target = l.target
    /\ k.role = l.role
    /\ k.stale = l.stale

-----------------------------------------------------------------------------
(* Steps that end or advance a call.                                       *)

\* A call that only moves on keeps everything, if what its new phase presumes
\* has been looked at.
LEMMA MovesKeepsInv ==
    ASSUME AdministrationInv, NEW c \in Connections, NEW phase \in Phases, Moves(c, phase),
           call[c].phase # "idle",
           phase \in {"locked"} \cup Checking =>
             \/ call[c].phase \in {"locked"} \cup Checking
             \/ /\ call[c].op = "permit" => call[c].role # SuperAdmin
                /\ call[c].op \in OnAccounts => role[call[c].target] # None,
           phase \in Checking => call[c].phase \in Checking \/ ~LastSuperAdmin(call[c])
    PROVE  AdministrationInv'
<1>1. /\ call \in [Connections -> Calls]
      /\ role' = role /\ active' = active /\ grants' = grants /\ session' = session
      /\ call' = [call EXCEPT ![c].phase = phase]
  BY DEF AdministrationInv, TypeOK, Moves
<1> DEFINE l == [call[c] EXCEPT !.phase = phase]
<1>2. /\ l \in Calls
      /\ SameRequest(l, call[c])
      /\ l.phase = phase
  BY <1>1 DEF Calls, Phases, SameRequest
<1>3. call' = [call EXCEPT ![c] = l]
  BY <1>1
<1> HIDE DEF l
<1>4. TypeOK'
  BY <1>1, <1>2, <1>3 DEF AdministrationInv, TypeOK
<1>5. ASSUME NEW d \in Connections
      PROVE  /\ SameRequest(call'[d], call[d])
             /\ d # c => call'[d] = call[d]
             /\ d = c => call'[d].phase = phase
  BY <1>1, <1>2, <1>3 DEF SameRequest
<1>6. CallsWellFormed'
  <2> SUFFICES ASSUME NEW d \in Connections PROVE WellFormed(call[d])'
    BY DEF CallsWellFormed
  <2>1. WellFormed(call[d]) /\ role' = role
    BY <1>1 DEF AdministrationInv, CallsWellFormed
  <2>2. SameRequest(call'[d], call[d]) /\ (d # c => call'[d] = call[d])
        /\ (d = c => call'[d].phase = phase)
    BY <1>5
  <2>3. CASE d # c
    BY <2>1, <2>2, <2>3 DEF WellFormed
  <2>4. CASE d = c
    BY <2>1, <2>2, <2>4 DEF WellFormed, SameRequest
  <2> QED
    BY <2>3, <2>4
<1>7. ChecksHold'
  <2> SUFFICES ASSUME NEW d \in Connections, call'[d].phase \in Checking, ~call'[d].stale
               PROVE  ~LastSuperAdmin(call[d])'
    BY DEF ChecksHold
  <2>1. SameRequest(call'[d], call[d]) /\ (d # c => call'[d] = call[d])
        /\ (d = c => call'[d].phase = phase)
    BY <1>5
  <2>2. ~LastSuperAdmin(call[d])
    BY <2>1 DEF AdministrationInv, ChecksHold, SameRequest
  <2>3. LastSuperAdmin(call[d])' = LastSuperAdmin(call[d])
    BY <2>1, <1>1 DEF LastSuperAdmin, SameRequest, AnotherSuperAdmin, SuperAdmins
  <2> QED
    BY <2>2, <2>3
<1> QED
  BY <1>4, <1>6, <1>7 DEF AdministrationInv

\* A connection that starts a call, or forgets one, disturbs no other.
LEMMA ResetKeepsInv ==
    ASSUME AdministrationInv, NEW c \in Connections, NEW k \in Calls, WellFormed(k),
           k.phase \in {"idle", "authorised"},
           call' = [call EXCEPT ![c] = k], UNCHANGED <<role, active, grants, session>>
    PROVE  AdministrationInv'
<1>1. TypeOK'
  BY DEF AdministrationInv, TypeOK
<1>2. ASSUME NEW d \in Connections
      PROVE  call'[d] = IF d = c THEN k ELSE call[d]
  BY DEF AdministrationInv, TypeOK
<1>3. CallsWellFormed'
  <2> SUFFICES ASSUME NEW d \in Connections PROVE WellFormed(call[d])'
    BY DEF CallsWellFormed
  <2>1. CASE d = c
    BY <1>2, <2>1 DEF WellFormed
  <2>2. CASE d # c
    BY <1>2, <2>2 DEF AdministrationInv, CallsWellFormed, WellFormed
  <2> QED
    BY <2>1, <2>2
<1>4. ChecksHold'
  <2> SUFFICES ASSUME NEW d \in Connections, call'[d].phase \in Checking, ~call'[d].stale
               PROVE  ~LastSuperAdmin(call[d])'
    BY DEF ChecksHold
  <2>1. call'[d] = call[d]
    BY <1>2 DEF Checking
  <2>2. ~LastSuperAdmin(call[d])
    BY <2>1 DEF AdministrationInv, ChecksHold
  <2> QED
    BY <2>1, <2>2 DEF LastSuperAdmin, AnotherSuperAdmin, SuperAdmins
<1> QED
  BY <1>1, <1>3, <1>4 DEF AdministrationInv

LEMMA BeganKeepsInv ==
    ASSUME AdministrationInv, NEW c \in Connections, NEW op \in Operations,
           NEW actor \in Users \cup {None}, NEW target \in Users \cup {None},
           NEW r \in Roles \cup {None}, NEW new \in SUBSET Permissions,
           op \in OnAccounts \cup {"create"} => target \in Users,
           op \in {"assign", "create", "permit"} => r \in Roles,
           Began(c, op, actor, target, r, new)
    PROVE  AdministrationInv'
<1> DEFINE k == [op |-> op, actor |-> actor, target |-> target, role |-> r,
                 new |-> new, phase |-> "authorised", stale |-> FALSE]
<1>1. k \in Calls /\ k.phase = "authorised" /\ WellFormed(k)
  BY DEF Calls, Checking, WellFormed
<1>2. call' = [call EXCEPT ![c] = k] /\ UNCHANGED <<role, active, grants, session>>
  BY DEF Began
<1> HIDE DEF k
<1> QED
  BY <1>1, <1>2, ResetKeepsInv

LEMMA IdleIsACall == Idle \in Calls /\ WellFormed(Idle) /\ Idle.phase = "idle"
BY NamesAssumption DEF Idle, Calls, WellFormed, Checking, Operations, OnAccounts

LEMMA RollbackKeepsInv ==
    ASSUME AdministrationInv, NEW c \in Connections, Rollback(c)
    PROVE  AdministrationInv'
BY IdleIsACall, ResetKeepsInv DEF Rollback

-----------------------------------------------------------------------------
(* Commit.                                                                 *)

\* What a commit changes, operation by operation.
LEMMA CommitEffect ==
    ASSUME AdministrationInv, NEW c \in Connections, Commit(c)
    PROVE  \/ /\ call[c].op = "activate" /\ call[c].target \in Users
              /\ role[call[c].target] # None
              /\ role' = role /\ grants' = grants
              /\ active' = active \cup {call[c].target}
           \/ /\ call[c].op = "deactivate" /\ call[c].target \in Users
              /\ role' = role /\ grants' = grants
              /\ active' = active \ {call[c].target}
           \/ /\ call[c].op = "assign" /\ call[c].target \in Users /\ call[c].role \in Roles
              /\ active' = active /\ grants' = grants
              /\ role' = [role EXCEPT ![call[c].target] = call[c].role]
           \/ /\ call[c].op = "create" /\ call[c].target \in Users /\ call[c].role \in Roles
              /\ role[call[c].target] = None /\ grants' = grants
              /\ role' = [role EXCEPT ![call[c].target] = call[c].role]
              /\ active' = active \cup {call[c].target}
           \/ /\ call[c].op = "permit" /\ call[c].role \in Roles /\ call[c].role # SuperAdmin
              /\ role' = role /\ active' = active
              /\ grants' = [grants EXCEPT ![call[c].role] = call[c].new]
<1>1. WellFormed(call[c]) /\ call[c].phase = "checked" /\ CanWrite(call[c])
  BY DEF AdministrationInv, CallsWellFormed, Commit
<1>2. call[c].op \in Operations
  BY <1>1 DEF WellFormed
<1> DEFINE k == call[c]
<1>3. CASE k.op = "activate"
  BY <1>1, <1>3 DEF Commit, WellFormed, OnAccounts, Checking
<1>4. CASE k.op = "deactivate"
  BY <1>1, <1>4 DEF Commit, WellFormed, OnAccounts, Checking
<1>5. CASE k.op = "assign"
  BY <1>1, <1>5 DEF Commit, WellFormed, OnAccounts, Checking
<1>6. CASE k.op = "create"
  BY <1>1, <1>6 DEF Commit, WellFormed, OnAccounts, Checking, CanWrite
<1>7. CASE k.op = "permit"
  BY <1>1, <1>7 DEF Commit, WellFormed, OnAccounts, Checking
<1> QED
  BY <1>2, <1>3, <1>4, <1>5, <1>6, <1>7 DEF Operations

\* The other calls of a commit: overtaken if they were checking.
LEMMA CommitOthers ==
    ASSUME AdministrationInv, NEW c \in Connections, Commit(c), NEW d \in Connections
    PROVE  /\ call'[d] \in Calls
           /\ d = c => call'[d] = Idle
           /\ d # c => /\ call'[d].phase = call[d].phase
                       /\ call'[d].op = call[d].op
                       /\ call'[d].target = call[d].target
                       /\ call'[d].role = call[d].role
                       /\ call[d].phase \in Checking => call'[d].stale
<1>1. call[d] \in Calls
  BY DEF AdministrationInv, TypeOK
<1>2. call'[d] = IF d = c THEN Idle ELSE Overtaken(call[d])
  BY DEF Commit
<1>3. Overtaken(call[d]) \in Calls
      /\ Overtaken(call[d]).phase = call[d].phase
      /\ Overtaken(call[d]).op = call[d].op
      /\ Overtaken(call[d]).target = call[d].target
      /\ Overtaken(call[d]).role = call[d].role
      /\ (call[d].phase \in Checking => Overtaken(call[d]).stale)
  BY <1>1 DEF Overtaken, Calls
<1> QED
  BY <1>2, <1>3, IdleIsACall

LEMMA CommitKeepsInv ==
    ASSUME AdministrationInv, NEW c \in Connections, Commit(c)
    PROVE  AdministrationInv'
<1> DEFINE k == call[c]
<1>1. /\ role \in [Users -> Roles \cup {None}]
      /\ active \subseteq {u \in Users : role[u] # None}
      /\ grants \in [Roles -> SUBSET Permissions]
      /\ grants[SuperAdmin] = Permissions
      /\ session \in [Users -> {"none", "verified", "live"}]
      /\ k \in Calls
  BY DEF AdministrationInv, TypeOK
<1>2. None \notin Roles
  BY NamesAssumption
<1>3. /\ role' \in [Users -> Roles \cup {None}]
      /\ \A u \in Users : role[u] # None => role'[u] # None
      /\ active' \subseteq {u \in Users : role'[u] # None}
      /\ grants' \in [Roles -> SUBSET Permissions]
      /\ grants'[SuperAdmin] = Permissions
  <2>1. k.new \in SUBSET Permissions
    BY <1>1 DEF Calls
  <2> HIDE DEF Permissions, Roles
  <2>2. /\ role' \in [Users -> Roles \cup {None}]
        /\ \A u \in Users : role[u] # None => role'[u] # None
    BY <1>1, <1>2, CommitEffect
  <2>3. active' \subseteq {u \in Users : role'[u] # None}
    <3>1. active' \subseteq active \cup {call[c].target}
      BY CommitEffect
    <3>2. active' \subseteq active \/ (call[c].target \in Users /\ role'[call[c].target] # None)
      BY <1>1, <1>2, CommitEffect
    <3> QED
      BY <1>1, <2>2, <3>1, <3>2
  <2>4. /\ grants' \in [Roles -> SUBSET Permissions]
        /\ grants'[SuperAdmin] = Permissions
    <3>1. CASE grants' = grants
      BY <1>1, <3>1
    <3>2. CASE call[c].role \in Roles /\ call[c].role # SuperAdmin
               /\ grants' = [grants EXCEPT ![call[c].role] = call[c].new]
      BY <1>1, <2>1, <3>2
    <3> QED
      BY <3>1, <3>2, CommitEffect
  <2> QED
    BY <2>2, <2>3, <2>4
<1>4. session' \in [Users -> {"none", "verified", "live"}]
  BY <1>1 DEF Commit
<1>5. call' \in [Connections -> Calls]
  <2>1. call' = [d \in Connections |-> call'[d]]
    BY DEF Commit
  <2> QED
    BY <2>1, CommitOthers
<1>6. CallsWellFormed'
  <2> SUFFICES ASSUME NEW d \in Connections PROVE WellFormed(call[d])'
    BY DEF CallsWellFormed
  <2>1. CASE d = c
    BY <2>1, CommitOthers, IdleIsACall DEF WellFormed, Checking
  <2>2. CASE d # c
    BY <2>2, <1>3, CommitOthers DEF AdministrationInv, CallsWellFormed, WellFormed
  <2> QED
    BY <2>1, <2>2
<1>7. ChecksHold'
  BY CommitOthers, IdleIsACall DEF ChecksHold, Checking
<1> QED
  BY <1>3, <1>4, <1>5, <1>6, <1>7 DEF AdministrationInv, TypeOK

-----------------------------------------------------------------------------
(* The other actions, and the theorems.                                    *)

\* Signing in and out reads accounts and changes only sessions.
LEMMA SessionsKeepInv ==
    ASSUME AdministrationInv, NEW u \in Users, Verify(u) \/ SignIn(u) \/ SignOut(u)
    PROVE  AdministrationInv'
<1>1. /\ UNCHANGED <<role, active, grants, call>>
      /\ session' \in [Users -> {"none", "verified", "live"}]
  BY DEF AdministrationInv, TypeOK, Verify, SignIn, SignOut
<1>2. TypeOK'
  BY <1>1 DEF AdministrationInv, TypeOK
<1>3. CallsWellFormed'
  BY <1>1 DEF AdministrationInv, CallsWellFormed, WellFormed
<1>4. ChecksHold'
  BY <1>1 DEF AdministrationInv, ChecksHold, LastSuperAdmin, AnotherSuperAdmin, SuperAdmins
<1> QED
  BY <1>2, <1>3, <1>4 DEF AdministrationInv

LEMMA LockKeepsInv ==
    ASSUME AdministrationInv, NEW c \in Connections, Lock(c)
    PROVE  AdministrationInv'
<1>1. /\ call[c].phase = "authorised" /\ Moves(c, "locked")
      /\ call[c].op = "permit" => call[c].role # SuperAdmin
      /\ call[c].op \in OnAccounts => role[call[c].target] # None
  BY DEF Lock
<1> QED
  BY <1>1, MovesKeepsInv DEF Phases, Checking

LEMMA CheckSuperAdminKeepsInv ==
    ASSUME AdministrationInv, NEW c \in Connections, CheckSuperAdmin(c)
    PROVE  AdministrationInv'
<1>1. /\ call[c].phase = "locked" /\ Moves(c, "half_checked")
      /\ ~LastSuperAdmin(call[c])
  BY DEF CheckSuperAdmin
<1> QED
  BY <1>1, MovesKeepsInv DEF Phases, Checking

LEMMA CheckAdministratorKeepsInv ==
    ASSUME AdministrationInv, NEW c \in Connections, CheckAdministrator(c)
    PROVE  AdministrationInv'
<1>1. call[c].phase = "half_checked" /\ Moves(c, "checked")
  BY DEF CheckAdministrator
<1> QED
  BY <1>1, MovesKeepsInv DEF Phases, Checking

LEMMA CallBeginsKeepsInv ==
    ASSUME AdministrationInv, NEW c \in Connections, NEW actor \in Users,
           NEW target \in Users, NEW r \in Roles, NEW new \in SUBSET Permissions,
           \/ SetUserActive(c, actor, target) \/ AssignUserRole(c, actor, target, r)
           \/ CreateUser(c, actor, target, r) \/ SetRolePermissions(c, actor, r, new)
    PROVE  AdministrationInv'
<1>1. CASE SetUserActive(c, actor, target)
  <2>1. Began(c, "activate", actor, target, None, {}) \/ Began(c, "deactivate", actor, target, None, {})
    BY <1>1 DEF SetUserActive
  <2>2. /\ "activate" \in Operations /\ "deactivate" \in Operations
        /\ {} \in SUBSET Permissions
        /\ None \in Roles \cup {None} /\ target \in Users \cup {None} /\ actor \in Users \cup {None}
    BY DEF Operations
  <2>3. CASE Began(c, "activate", actor, target, None, {})
    BY <2>2, <2>3, BeganKeepsInv
  <2>4. CASE Began(c, "deactivate", actor, target, None, {})
    BY <2>2, <2>4, BeganKeepsInv
  <2> QED
    BY <2>1, <2>3, <2>4
<1>2. CASE AssignUserRole(c, actor, target, r)
  BY <1>2, BeganKeepsInv DEF AssignUserRole, Operations, OnAccounts
<1>3. CASE CreateUser(c, actor, target, r)
  BY <1>3, BeganKeepsInv DEF CreateUser, Operations, OnAccounts
<1>4. CASE SetRolePermissions(c, actor, r, new)
  <2>1. Began(c, "permit", None, None, r, new)
    BY <1>4 DEF SetRolePermissions
  <2> QED
    BY <2>1, BeganKeepsInv DEF Operations, OnAccounts
<1> QED
  BY <1>1, <1>2, <1>3, <1>4

LEMMA InitEstablishesInv == Init => AdministrationInv
<1> SUFFICES ASSUME Init PROVE AdministrationInv
  OBVIOUS
<1>1. call = [c \in Connections |-> Idle]
  BY DEF Init
<1>2. TypeOK
  BY <1>1, NamesAssumption, IdleIsACall DEF Init, TypeOK, Roles
<1>3. CallsWellFormed
  BY <1>1, IdleIsACall DEF CallsWellFormed
<1>4. ChecksHold
  BY <1>1, IdleIsACall DEF ChecksHold, Checking
<1> QED
  BY <1>2, <1>3, <1>4 DEF AdministrationInv

LEMMA NextKeepsInv == AdministrationInv /\ [Next]_vars => AdministrationInv'
<1> SUFFICES ASSUME AdministrationInv, [Next]_vars PROVE AdministrationInv'
  OBVIOUS
<1>1. CASE UNCHANGED vars
  BY <1>1 DEF vars, AdministrationInv, TypeOK, CallsWellFormed, WellFormed, ChecksHold,
              LastSuperAdmin, AnotherSuperAdmin, SuperAdmins
<1>2. CASE \E u \in Users : Verify(u) \/ SignIn(u) \/ SignOut(u)
  BY <1>2, SessionsKeepInv
<1>3. ASSUME NEW c \in Connections, NEW actor \in Users, NEW target \in Users,
             SetUserActive(c, actor, target)
      PROVE  AdministrationInv'
  <2>1. {} \in SUBSET Permissions /\ SuperAdmin \in Roles
    BY DEF Roles
  <2> QED
    BY <1>3, <2>1, CallBeginsKeepsInv
<1>4. ASSUME NEW c \in Connections, NEW actor \in Users, NEW target \in Users, NEW r \in Roles,
             AssignUserRole(c, actor, target, r) \/ CreateUser(c, actor, target, r)
      PROVE  AdministrationInv'
  <2>1. {} \in SUBSET Permissions
    OBVIOUS
  <2> QED
    BY <1>4, <2>1, CallBeginsKeepsInv
<1>5. ASSUME NEW c \in Connections, NEW actor \in Users, NEW r \in Roles,
             NEW new \in SUBSET Permissions, SetRolePermissions(c, actor, r, new)
      PROVE  AdministrationInv'
  BY <1>5, CallBeginsKeepsInv
<1>6. ASSUME NEW c \in Connections,
             Lock(c) \/ CheckSuperAdmin(c) \/ CheckAdministrator(c) \/ Commit(c) \/ Rollback(c)
      PROVE  AdministrationInv'
  BY <1>6, LockKeepsInv, CheckSuperAdminKeepsInv, CheckAdministratorKeepsInv, CommitKeepsInv,
     RollbackKeepsInv
<1> QED
  BY <1>1, <1>2, <1>3, <1>4, <1>5, <1>6 DEF Next

\* Whatever runs at the same time, a check that nobody overtook still holds.
THEOREM AdministrationInvariant == Spec => []AdministrationInv
<1> QED
  BY InitEstablishesInv, NextKeepsInv, PTL DEF Spec

\* Accounts, roles, permissions and calls stay what their tables declare, and
\* SUPER_ADMIN permits everything.
THEOREM TypeCorrect == Spec => []TypeOK
<1>1. AdministrationInv => TypeOK
  BY DEF AdministrationInv
<1> QED
  BY <1>1, AdministrationInvariant, PTL

\* A commit whose check still holds leaves an active SUPER_ADMIN.
LEMMA CommitLeavesOne ==
    ASSUME AdministrationInv, NEW c \in Connections, Commit(c), ~LastSuperAdmin(call[c]),
           SuperAdmins # {}
    PROVE  SuperAdmins' # {}
<1> DEFINE t == call[c].target
<1>1. /\ role \in [Users -> Roles \cup {None}] /\ active \subseteq Users
      /\ None \notin Roles /\ SuperAdmin \in Roles
  BY NamesAssumption DEF AdministrationInv, TypeOK, Roles
<1>2. PICK w \in active : role[w] = SuperAdmin
  BY DEF SuperAdmins
<1>3. CASE active \subseteq active' /\ role' = role
  BY <1>2, <1>3 DEF SuperAdmins
<1>4. CASE call[c].op = "create" /\ role[t] = None /\ active \subseteq active'
           /\ role' = [role EXCEPT ![t] = call[c].role]
  BY <1>1, <1>2, <1>4 DEF SuperAdmins
<1>5. CASE call[c].op = "deactivate" /\ role' = role /\ active' = active \ {t}
  <2>1. role[t] # SuperAdmin \/ AnotherSuperAdmin(t)
    BY <1>5 DEF LastSuperAdmin
  <2> QED
    BY <1>2, <1>5, <2>1 DEF AnotherSuperAdmin, SuperAdmins
<1>6. CASE call[c].op = "assign" /\ t \in Users /\ active' = active
           /\ role' = [role EXCEPT ![t] = call[c].role]
  <2>1. t \notin active \/ call[c].role = SuperAdmin \/ role[t] # SuperAdmin \/ AnotherSuperAdmin(t)
    BY <1>6 DEF LastSuperAdmin
  <2>2. \A v \in Users : role'[v] = IF v = t THEN call[c].role ELSE role[v]
    BY <1>1, <1>6
  <2>3. PICK v \in active : role[v] = SuperAdmin /\ (v = t => call[c].role = SuperAdmin)
    BY <1>2, <2>1 DEF AnotherSuperAdmin, SuperAdmins
  <2> QED
    BY <1>1, <1>6, <2>2, <2>3 DEF SuperAdmins
<1> QED
  BY <1>3, <1>4, <1>5, <1>6, CommitEffect

\* Only a commit changes who is an active SUPER_ADMIN.
LEMMA OthersKeepSuperAdmins ==
    ASSUME [Next]_vars
    PROVE  SuperAdmins' = SuperAdmins \/ \E c \in Connections : Commit(c)
<1>1. UNCHANGED <<role, active>> \/ \E c \in Connections : Commit(c)
  BY DEF Next, vars, Verify, SignIn, SignOut, SetUserActive, AssignUserRole, CreateUser,
         SetRolePermissions, Began, Lock, CheckSuperAdmin, CheckAdministrator, Moves, Rollback
<1> QED
  BY <1>1 DEF SuperAdmins

\* A call nobody overtook never removes the last active SUPER_ADMIN.
THEOREM CleanCalls == Spec => CleanCallsKeepASuperAdmin
<1>1. ASSUME AdministrationInv, [Next]_vars, NEW c \in Connections,
             call[c].phase = "checked", ~call[c].stale, SuperAdmins # {}, call'[c] = Idle
      PROVE  SuperAdmins' # {}
  <2>1. CASE Commit(c)
    <3>1. ~LastSuperAdmin(call[c])
      BY <1>1 DEF AdministrationInv, ChecksHold, Checking
    <3> QED
      BY <1>1, <2>1, <3>1, CommitLeavesOne
  <2>2. CASE \E d \in Connections : d # c /\ Commit(d)
    BY <1>1, <2>2, CommitOthers, IdleIsACall
  <2>3. CASE SuperAdmins' = SuperAdmins
    BY <1>1, <2>3
  <2> QED
    BY <1>1, <2>1, <2>2, <2>3, OthersKeepSuperAdmins
<1>2. AdministrationInv /\ [Next]_vars
      => [\A c \in Connections : /\ call[c].phase = "checked"
                                 /\ ~call[c].stale
                                 /\ SuperAdmins # {}
                                 /\ call'[c] = Idle
                                 => SuperAdmins' # {}]_vars
  BY <1>1
<1> QED
  BY <1>2, AdministrationInvariant, PTL DEF Spec, CleanCallsKeepASuperAdmin

-----------------------------------------------------------------------------
(* One connection.                                                         *)

NoneOvertaken == \A c \in Connections : ~call[c].stale

\* Calls that run one at a time always leave an active SUPER_ADMIN.
THEOREM SerialCallsKeepASuperAdmin ==
    ASSUME NEW only, Connections = {only}
    PROVE  Spec => []SuperAdminRemains
<1> DEFINE SerialInv == SuperAdminRemains /\ NoneOvertaken
<1>1. Init => SerialInv
  <2> SUFFICES ASSUME Init PROVE SerialInv
    OBVIOUS
  <2>1. SuperAdmins # {}
    BY DEF Init, SuperAdmins
  <2>2. NoneOvertaken
    BY DEF Init, NoneOvertaken, Idle
  <2> QED
    BY <2>1, <2>2 DEF SuperAdminRemains
<1>2. ASSUME AdministrationInv, SerialInv, [Next]_vars
      PROVE  SerialInv'
  <2>1. CASE Commit(only)
    <3>1. ~LastSuperAdmin(call[only])
      BY <1>2, <2>1 DEF AdministrationInv, ChecksHold, Checking, Commit, NoneOvertaken
    <3>2. SuperAdmins' # {}
      BY <1>2, <2>1, <3>1, CommitLeavesOne DEF SuperAdminRemains
    <3>3. NoneOvertaken'
      BY <1>2, <2>1, CommitOthers DEF NoneOvertaken, Idle
    <3> QED
      BY <3>2, <3>3 DEF SuperAdminRemains
  <2>2. CASE ~Commit(only)
    <3>1. SuperAdmins' = SuperAdmins
      BY <1>2, <2>2, OthersKeepSuperAdmins
    <3>2. NoneOvertaken'
      BY <1>2, <2>2 DEF Next, vars, Verify, SignIn, SignOut, SetUserActive, AssignUserRole,
         CreateUser, SetRolePermissions, Began, Lock, CheckSuperAdmin, CheckAdministrator, Moves,
         Rollback, NoneOvertaken, Idle, AdministrationInv, TypeOK, Calls
    <3> QED
      BY <1>2, <3>1, <3>2 DEF SuperAdminRemains
  <2> QED
    BY <2>1, <2>2
<1> HIDE DEF SerialInv
<1>3. SerialInv => SuperAdminRemains
  BY DEF SerialInv
<1> QED
  BY <1>1, <1>2, <1>3, AdministrationInvariant, PTL DEF Spec
=============================================================================
