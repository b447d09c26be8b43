-------------------------- MODULE MembershipProofs --------------------------
(***************************************************************************)
(* Theorems about Membership, MembershipRequests and RequestContext, for   *)
(* every number of users, groups, sessions and open requests.              *)
(***************************************************************************)
EXTENDS MembershipRequests, RequestContext, FiniteSetTheorems, TLAPS

-----------------------------------------------------------------------------
(* Counting. *)

\* Where more than one administrator is counted, there is one besides u.
LEMMA AnotherAdmin ==
  ASSUME NEW u, NEW g, Cardinality(Admins(g)) \notin {0, 1}
  PROVE  \E a \in Admins(g) : a # u
  <1> SUFFICES ASSUME Admins(g) \subseteq {u}
               PROVE  FALSE
    OBVIOUS
  <1>1. Admins(g) = {} \/ Admins(g) = {u}
    OBVIOUS
  <1>2. QED BY <1>1, FS_EmptySet, FS_Singleton

\* Who may leave leaves an administrator behind.
LEMMA LeavingIsSafe ==
  ASSUME NEW u, NEW g, MayLeave(u, g), Admins(g) # {}
  PROVE  \E a \in Admins(g) : a # u
  <1>1. CASE IsAdmin(u, g)
    <2>1. Cardinality(Admins(g)) > 1
      BY <1>1 DEF MayLeave
    <2>2. QED BY <2>1, AnotherAdmin
  <1>2. CASE ~IsAdmin(u, g)
    BY <1>2 DEF Admins
  <1>3. QED BY <1>1, <1>2

\* Who may close the account leaves an administrator behind in every group.
LEMMA ClosingIsSafe ==
  ASSUME NEW u, SoleAdminGroups(u) = {}, NEW g \in LiveGroups, Admins(g) # {}
  PROVE  \E a \in Admins(g) : a # u
  <1>1. CASE IsAdmin(u, g)
    <2>1. ~(Cardinality(Admins(g)) <= 1)
      BY <1>1 DEF SoleAdminGroups
    <2>2. QED BY <2>1, AnotherAdmin
  <1>2. CASE ~IsAdmin(u, g)
    BY <1>2 DEF Admins
  <1>3. QED BY <1>1, <1>2

-----------------------------------------------------------------------------
(* The inductive invariant. *)

\* An administrator stays one only as long as keys are not used twice: a new
\* group must not find memberships, nor a new account.
IInv ==
  /\ TypeOK
  /\ GroupsKeepAnAdmin
  /\ DeletedAccountsBelongNowhere

LEMMA RegisterInv ==
  ASSUME IInv, NEW u \in Users, Register(u)
  PROVE  IInv'
  <1> USE DEF IInv, TypeOK, Row
  <1>1. /\ IsTable(user', Users, Row)
        /\ DOMAIN user' = DOMAIN user \cup {u}
        /\ \A v \in DOMAIN user : user'[v] = user[v]
    <2>1. [deleted |-> FALSE] \in Row /\ IsTable(user, Users, Row)
      OBVIOUS
    <2>2. QED BY <2>1 DEF Register, Insert, IsTable
  <1>2. TypeOK'
    BY <1>1 DEF Register
  <1>3. LiveUsers \subseteq LiveUsers'
    BY <1>1 DEF LiveUsers
  <1>4. GroupsKeepAnAdmin'
    BY <1>3 DEF GroupsKeepAnAdmin, Register, LiveGroups, Admins, IsAdmin, IsMember
  <1>5. DeletedAccountsBelongNowhere'
    BY <1>3 DEF DeletedAccountsBelongNowhere, Register, IsMember
  <1>6. QED BY <1>2, <1>4, <1>5

LEMMA CreateGroupInv ==
  ASSUME IInv, NEW u \in Users, NEW g \in Groups, CreateGroup(u, g)
  PROVE  IInv'
  <1> USE DEF IInv, TypeOK, Row, Role
  <1>1. /\ IsTable(group', Groups, Row)
        /\ DOMAIN group' = DOMAIN group \cup {g}
        /\ \A h \in DOMAIN group : group'[h] = group[h]
    <2>1. [deleted |-> FALSE] \in Row /\ IsTable(group, Groups, Row)
      OBVIOUS
    <2>2. QED BY <2>1 DEF CreateGroup, Insert, IsTable
  <1>2. /\ IsTable(member', Users \X Groups, Role)
        /\ DOMAIN member' = DOMAIN member \cup {<<u, g>>}
        /\ member'[<<u, g>>] = "admin"
        /\ \A k \in DOMAIN member : k # <<u, g>> => member'[k] = member[k]
    <2>1. <<u, g>> \in Users \X Groups /\ "admin" \in Role
      OBVIOUS
    <2>2. QED BY <2>1 DEF CreateGroup, Insert, IsTable
  <1>3. TypeOK' /\ LiveUsers' = LiveUsers
    BY <1>1, <1>2 DEF CreateGroup, LiveUsers
  <1>4. u \in Admins(g)'
    BY <1>2, <1>3 DEF CreateGroup, Admins, IsAdmin, IsMember
  <1>5. \A h \in LiveGroups' \ {g} : h \in LiveGroups /\ Admins(h) \subseteq Admins(h)'
    BY <1>1, <1>2, <1>3 DEF LiveGroups, Admins, IsAdmin, IsMember
  <1>6. GroupsKeepAnAdmin'
    BY <1>4, <1>5 DEF GroupsKeepAnAdmin
  <1>7. DeletedAccountsBelongNowhere'
    BY <1>1, <1>2, <1>3 DEF DeletedAccountsBelongNowhere, IsMember, CreateGroup
  <1>8. QED BY <1>3, <1>6, <1>7

LEMMA JoinGroupInv ==
  ASSUME IInv, NEW u \in Users, NEW g \in Groups, JoinGroup(u, g)
  PROVE  IInv'
  <1> USE DEF IInv, TypeOK, Row, Role
  <1>1. /\ IsTable(member', Users \X Groups, Role)
        /\ DOMAIN member' = DOMAIN member \cup {<<u, g>>}
        /\ \A k \in DOMAIN member : member'[k] = member[k]
    <2>1. <<u, g>> \in Users \X Groups /\ "contributor" \in Role
      OBVIOUS
    <2>2. QED BY <2>1 DEF JoinGroup, IsMember, Insert, IsTable
  <1>2. TypeOK' /\ LiveUsers' = LiveUsers /\ LiveGroups' = LiveGroups
    BY <1>1 DEF JoinGroup, LiveUsers, LiveGroups
  <1>3. GroupsKeepAnAdmin'
    BY <1>1, <1>2 DEF GroupsKeepAnAdmin, Admins, IsAdmin, IsMember
  <1>4. DeletedAccountsBelongNowhere'
    BY <1>1, <1>2 DEF DeletedAccountsBelongNowhere, IsMember, JoinGroup, GroupsToJoin,
                      LiveGroups
  <1>5. QED BY <1>2, <1>3, <1>4

\* Leaving and being removed: one membership goes, and not the last
\* administrator's.
LEMMA RemovalInv ==
  ASSUME IInv, NEW u \in Users, NEW g \in Groups,
         member' = Remove(member, {<<u, g>>}), UNCHANGED <<user, group>>,
         g \in LiveGroups => \E a \in Admins(g) : a # u
  PROVE  IInv'
  <1> USE DEF IInv, TypeOK, Row
  <1>1. /\ IsTable(member', Users \X Groups, Role)
        /\ DOMAIN member' = DOMAIN member \ {<<u, g>>}
        /\ \A k \in DOMAIN member' : member'[k] = member[k]
    BY DEF IsTable, Remove
  <1>2. TypeOK' /\ LiveUsers' = LiveUsers /\ LiveGroups' = LiveGroups
    BY <1>1 DEF LiveUsers, LiveGroups
  <1>3. \A h \in LiveGroups : \A a \in Admins(h) : a # u \/ h # g => a \in Admins(h)'
    BY <1>1, <1>2 DEF Admins, IsAdmin, IsMember
  <1>4. GroupsKeepAnAdmin'
    BY <1>2, <1>3 DEF GroupsKeepAnAdmin
  <1>5. DeletedAccountsBelongNowhere'
    BY <1>1, <1>2 DEF DeletedAccountsBelongNowhere, IsMember
  <1>6. QED BY <1>2, <1>4, <1>5

LEMMA DeleteGroupInv ==
  ASSUME IInv, NEW u \in Users, NEW g \in Groups, DeleteGroup(u, g)
  PROVE  IInv'
  <1> USE DEF IInv, TypeOK, Row
  <1>1. g \in DOMAIN group /\ group[g] \in Row
    BY DEF DeleteGroup, LiveGroups, IsTable
  <1>2. group' = [group EXCEPT ![g] = [group[g] EXCEPT !.deleted = TRUE]]
    BY DEF DeleteGroup
  <1>3. /\ IsTable(group', Groups, Row)
        /\ DOMAIN group' = DOMAIN group
        /\ group'[g].deleted
        /\ \A h \in DOMAIN group : h # g => group'[h] = group[h]
    BY <1>1, <1>2 DEF IsTable
  <1>4. TypeOK' /\ LiveUsers' = LiveUsers /\ LiveGroups' \subseteq LiveGroups
    BY <1>3 DEF DeleteGroup, LiveUsers, LiveGroups
  <1>5. GroupsKeepAnAdmin'
    BY <1>4 DEF GroupsKeepAnAdmin, DeleteGroup, Admins, IsAdmin, IsMember
  <1>6. DeletedAccountsBelongNowhere'
    BY <1>3, <1>4 DEF DeletedAccountsBelongNowhere, DeleteGroup, IsMember
  <1>7. QED BY <1>4, <1>5, <1>6

LEMMA ChangeMemberRoleInv ==
  ASSUME IInv, NEW a \in Users, NEW u \in Users, NEW g \in Groups, NEW role \in FormRole,
         ChangeMemberRole(a, u, g, role)
  PROVE  IInv'
  <1> USE DEF IInv, TypeOK, Row
  <1>1. <<u, g>> \in DOMAIN member /\ role \in Role
    BY DEF ChangeMemberRole, MayManage, IsMember, AcceptedRoles
  <1>2. /\ IsTable(member', Users \X Groups, Role)
        /\ DOMAIN member' = DOMAIN member
        /\ \A k \in DOMAIN member : k # <<u, g>> => member'[k] = member[k]
    BY <1>1 DEF ChangeMemberRole, IsTable
  <1>3. TypeOK' /\ LiveUsers' = LiveUsers /\ LiveGroups' = LiveGroups
    BY <1>2 DEF ChangeMemberRole, LiveUsers, LiveGroups
  <1>4. a \in Admins(g)'
    BY <1>2, <1>3 DEF ChangeMemberRole, MayManage, Admins, IsAdmin, IsMember
  <1>5. \A h \in LiveGroups : h # g => Admins(h) \subseteq Admins(h)'
    BY <1>2, <1>3 DEF Admins, IsAdmin, IsMember
  <1>6. GroupsKeepAnAdmin'
    BY <1>3, <1>4, <1>5 DEF GroupsKeepAnAdmin
  <1>7. DeletedAccountsBelongNowhere'
    BY <1>2, <1>3 DEF DeletedAccountsBelongNowhere, ChangeMemberRole, IsMember
  <1>8. QED BY <1>3, <1>6, <1>7

LEMMA DeleteAccountInv ==
  ASSUME IInv, NEW u \in Users, DeleteAccount(u)
  PROVE  IInv'
  <1> USE DEF IInv, TypeOK, Row
  <1>1. u \in DOMAIN user /\ user[u] \in Row
    BY DEF DeleteAccount, LiveUsers, IsTable
  <1>2. user' = [user EXCEPT ![u] = [user[u] EXCEPT !.deleted = TRUE]]
    BY DEF DeleteAccount
  <1>3. /\ IsTable(user', Users, Row)
        /\ DOMAIN user' = DOMAIN user
        /\ user'[u].deleted
        /\ \A v \in DOMAIN user : v # u => user'[v] = user[v]
    BY <1>1, <1>2 DEF IsTable
  <1>4. /\ IsTable(member', Users \X Groups, Role)
        /\ DOMAIN member' = DOMAIN member \ ({u} \X Groups)
        /\ \A k \in DOMAIN member' : member'[k] = member[k]
    BY DEF DeleteAccount, IsTable, Remove
  <1>5. TypeOK' /\ LiveUsers' = LiveUsers \ {u} /\ LiveGroups' = LiveGroups
    BY <1>3, <1>4 DEF DeleteAccount, LiveUsers, LiveGroups
  <1>6. \A h \in LiveGroups : \A a \in Admins(h) : a # u => a \in Admins(h)'
    BY <1>4, <1>5 DEF Admins, IsAdmin, IsMember
  <1>7. GroupsKeepAnAdmin'
    BY <1>5, <1>6, ClosingIsSafe DEF GroupsKeepAnAdmin, DeleteAccount
  <1>8. DeletedAccountsBelongNowhere'
    BY <1>4, <1>5 DEF DeletedAccountsBelongNowhere, DeleteAccount, IsMember
  <1>9. QED BY <1>5, <1>7, <1>8

LEMMA InitInv == Init => IInv
  BY DEF Init, IInv, TypeOK, EmptyTable, IsTable, GroupsKeepAnAdmin, LiveGroups,
         DeletedAccountsBelongNowhere, IsMember

LEMMA StepInv == IInv /\ [Next]_vars => IInv'
  <1> SUFFICES ASSUME IInv, [Next]_vars
               PROVE  IInv'
    OBVIOUS
  <1>1. CASE UNCHANGED vars
    BY <1>1 DEF vars, IInv, TypeOK, GroupsKeepAnAdmin, DeletedAccountsBelongNowhere,
                LiveUsers, LiveGroups, Admins, IsAdmin, IsMember
  <1>2. ASSUME NEW u \in Users, AccountStep(u)
        PROVE  IInv'
    BY <1>2, RegisterInv, DeleteAccountInv DEF AccountStep
  <1>3. ASSUME NEW u \in Users, NEW g \in Groups, LeaveGroup(u, g)
        PROVE  IInv'
    <2>1. g \in LiveGroups => \E a \in Admins(g) : a # u
      BY <1>3, LeavingIsSafe DEF LeaveGroup, IInv, GroupsKeepAnAdmin
    <2>2. QED BY <1>3, <2>1, RemovalInv DEF LeaveGroup
  <1>4. ASSUME NEW u \in Users, NEW g \in Groups, GroupStep(u, g)
        PROVE  IInv'
    BY <1>3, <1>4, CreateGroupInv, JoinGroupInv, DeleteGroupInv DEF GroupStep
  <1>5. ASSUME NEW a \in Users, NEW u \in Users, NEW g \in Groups, RemoveMember(a, u, g)
        PROVE  IInv'
    <2>1. a \in Admins(g) /\ a # u
      BY <1>5 DEF RemoveMember, MayManage, Admins
    <2>2. QED BY <1>5, <2>1, RemovalInv DEF RemoveMember
  <1>6. ASSUME NEW a \in Users, NEW u \in Users, NEW g \in Groups, ManagerStep(a, u, g)
        PROVE  IInv'
    BY <1>5, <1>6, ChangeMemberRoleInv DEF ManagerStep
  <1>7. QED BY <1>1, <1>2, <1>4, <1>6 DEF Next

\* The inductive invariant holds in every reachable state.
THEOREM Invariance == Spec => []IInv
  BY InitInv, StepInv, PTL DEF Spec

-----------------------------------------------------------------------------
(* The theorems. *)

\* The tables of users, groups and memberships hold well-typed rows.
THEOREM TypeCorrect == Spec => []TypeOK
  <1>1. IInv => TypeOK
    BY DEF IInv
  <1>2. QED BY <1>1, Invariance, PTL

\* While requests are served one at a time, a live group has an administrator
\* whose account lives (leave_group, delete_user_account, remove_member and
\* change_member_role).
THEOREM NoGroupOrphaned == Spec => []GroupsKeepAnAdmin
  <1>1. IInv => GroupsKeepAnAdmin
    BY DEF IInv
  <1>2. QED BY <1>1, Invariance, PTL

\* delete_user_account leaves no membership and no request brings one back.
THEOREM AccountsGoEntirely == Spec => []DeletedAccountsBelongNowhere
  <1>1. IInv => DeletedAccountsBelongNowhere
    BY DEF IInv
  <1>2. QED BY <1>1, Invariance, PTL

\* What DeletedGroupsOnlyShrink says of a step.
Shrinks ==
  \A g \in DOMAIN group \ LiveGroups : \A u \in Users :
    IsMember(u, g)' => IsMember(u, g) /\ member'[<<u, g>>] = member[<<u, g>>]

\* No step lets anyone into a deleted group or changes a role there.
LEMMA StepShrinks ==
  ASSUME IInv, [Next]_vars
  PROVE  Shrinks
  <1> SUFFICES ASSUME NEW h \in DOMAIN group \ LiveGroups, NEW v \in Users, IsMember(v, h)'
               PROVE  IsMember(v, h) /\ member'[<<v, h>>] = member[<<v, h>>]
    BY DEF Shrinks
  <1> DEFINE Kept == IsMember(v, h) /\ member'[<<v, h>>] = member[<<v, h>>]
  <1>1. CASE UNCHANGED vars
    BY <1>1 DEF vars, IsMember
  <1>2. ASSUME NEW u \in Users, AccountStep(u)
        PROVE  Kept
    BY <1>2 DEF AccountStep, Register, DeleteAccount, Remove, IsMember
  <1>3. ASSUME NEW u \in Users, NEW g \in Groups, GroupStep(u, g)
        PROVE  Kept
    BY <1>3 DEF GroupStep, CreateGroup, JoinGroup, GroupsToJoin, LeaveGroup, DeleteGroup,
                Insert, Remove, IsMember
  <1>4. ASSUME NEW a \in Users, NEW u \in Users, NEW g \in Groups, ManagerStep(a, u, g)
        PROVE  Kept
    <2>1. CASE RemoveMember(a, u, g)
      BY <2>1 DEF RemoveMember, Remove, IsMember
    <2>2. ASSUME NEW role \in FormRole, ChangeMemberRole(a, u, g, role)
          PROVE  Kept
      BY <2>2 DEF ChangeMemberRole, MayManage, IsMember
    <2>3. QED BY <1>4, <2>1, <2>2 DEF ManagerStep
  <1>5. QED BY <1>1, <1>2, <1>3, <1>4 DEF Next

\* Once a group is deleted nobody joins it and no role in it changes.
THEOREM GroupsClose == Spec => DeletedGroupsOnlyShrink
  <1>1. IInv /\ [Next]_vars => [Shrinks]_vars
    BY StepShrinks
  <1>2. [][Shrinks]_vars => DeletedGroupsOnlyShrink
    BY PTL DEF Shrinks, DeletedGroupsOnlyShrink
  <1>3. QED BY <1>1, <1>2, Invariance, PTL DEF Spec

-----------------------------------------------------------------------------
(* The requests taken apart.                                               *)
(*                                                                         *)
(* What a request at its commit holds is named c below; what it wrote to   *)
(* the tables follows from c and the tables alone.                         *)

Op == {"create", "join", "leave", "delete", "close", "role", "remove"}

Deciding == [at : {"body"}, call : Call]

Decided == [at : {"commit"}, op : Op, u : Users, v : Users, g : Groups, role : Role,
            loaded : Role]

Request == {Idle} \cup Deciding \cup Decided

RTypeOK ==
  /\ TypeOK
  /\ req \in [Requests -> Request]
  /\ oneReplica \in BOOLEAN

\* A user who acts for himself is named twice; a manager acts on another user.
ActsOnOthers(op) == op \in {"role", "remove"}

CallIsPlain(call) == ~ActsOnOthers(call.op) => call.v = call.u

TargetIsRight(c) == IF ActsOnOthers(c.op) THEN c.u # c.v ELSE c.v = c.u

RequestIsSound(q) ==
  /\ q.at = "body" => CallIsPlain(q.call)
  /\ q.at = "commit" => TargetIsRight(q)

\* Not the last administrator: there is one besides u.
AnotherThan(u, g) == IsAdmin(u, g) => \E a \in Admins(g) : a # u

\* What the checks of leaving and closing saw still holds.
StillSafe(q) ==
  q.at = "commit" =>
    /\ q.op = "leave" => AnotherThan(q.u, q.g)
    /\ q.op = "close" => \A h \in LiveGroups : AnotherThan(q.u, h)

\* One replica runs one body at a time, so nothing is written between the
\* checks of a body and its commit.
OneBody ==
  oneReplica =>
    /\ \A r, q \in Requests : req[r].at = "commit" /\ req[q].at = "commit" => r = q
    /\ \A r \in Requests : StillSafe(req[r])

RInv ==
  /\ RTypeOK
  /\ \A r \in Requests : RequestIsSound(req[r])
  /\ OneBody

-----------------------------------------------------------------------------
(* Requests and what they hold. *)

LEMMA RequestFields ==
  ASSUME NEW q \in Request
  PROVE  /\ q.at = "body" => q.call \in Call /\ q = [at |-> "body", call |-> q.call]
         /\ q.at = "commit" => q \in Decided
         /\ q.at \notin {"body", "commit"} => q = Idle
  BY DEF Request, Deciding, Decided, Idle

LEMMA CallFields ==
  ASSUME NEW call \in Call
  PROVE  /\ call.op \in Op /\ call.u \in Users /\ call.v \in Users /\ call.g \in Groups
         /\ call.role \in Role
  BY DEF Call, Op, Role

\* A request changes and the others stay.
LEMMA RequestChanges ==
  ASSUME RInv, NEW r \in Requests, NEW q \in Request, req' = [req EXCEPT ![r] = q],
         RequestIsSound(q)
  PROVE  /\ req' \in [Requests -> Request]
         /\ req'[r] = q
         /\ \A p \in Requests : p # r => req'[p] = req[p]
         /\ \A p \in Requests : RequestIsSound(req'[p])
  <1>1. req \in [Requests -> Request] /\ \A p \in Requests : RequestIsSound(req[p])
    BY DEF RInv, RTypeOK
  <1>2. /\ req' \in [Requests -> Request]
        /\ req'[r] = q
        /\ \A p \in Requests : p # r => req'[p] = req[p]
    BY <1>1
  <1>3. QED BY <1>1, <1>2

\* More administrators, and no user newly one, leave what was safe safe.
LEMMA SafeWhileAdminsStay ==
  ASSUME NEW q, StillSafe(q), LiveUsers \subseteq LiveUsers', UNCHANGED <<group, member>>
  PROVE  StillSafe(q)'
  BY DEF StillSafe, AnotherThan, Admins, IsAdmin, IsMember, LiveGroups

\* A step that writes no table keeps OneBody.
LEMMA OneBodyKept ==
  ASSUME RInv, NEW r \in Requests, NEW q \in Request, req' = [req EXCEPT ![r] = q],
         UNCHANGED <<vars, oneReplica>>,
         q.at = "commit" => StillSafe(q) /\ BodyFree(r)
  PROVE  OneBody'
  <1>1. SUFFICES ASSUME oneReplica
                 PROVE  /\ \A p, s \in Requests : 
                             req'[p].at = "commit" /\ req'[s].at = "commit" => p = s
                        /\ \A p \in Requests : StillSafe(req[p])'
    BY DEF OneBody
  <1>2. /\ req'[r] = q
        /\ \A p \in Requests : p # r => req'[p] = req[p]
    BY DEF RInv, RTypeOK
  <1>3. /\ \A p, s \in Requests : req[p].at = "commit" /\ req[s].at = "commit" => p = s
        /\ \A p \in Requests : StillSafe(req[p])
    BY <1>1 DEF RInv, OneBody
  <1>4. ASSUME NEW p \in Requests, NEW s \in Requests,
               req'[p].at = "commit", req'[s].at = "commit"
        PROVE  p = s
    BY <1>1, <1>2, <1>3, <1>4 DEF BodyFree
  <1>5. ASSUME NEW p \in Requests
        PROVE  StillSafe(req[p])'
    <2>1. LiveUsers' = LiveUsers
      BY DEF vars, LiveUsers
    <2>2. PICK k : k = req'[p]
      OBVIOUS
    <2>3. StillSafe(k)
      BY <1>2, <1>3, <2>2 DEF StillSafe
    <2>4. StillSafe(k)'
      BY <2>1, <2>3, SafeWhileAdminsStay DEF vars
    <2>5. QED BY <2>2, <2>4 DEF StillSafe, AnotherThan
  <1>6. QED BY <1>4, <1>5

-----------------------------------------------------------------------------
(* Every step keeps the invariant. *)

LEMMA AuthenticateInv ==
  ASSUME RInv, NEW r \in Requests, NEW call \in Call, Authenticate(r, call),
         UNCHANGED oneReplica
  PROVE  RInv'
  <1> DEFINE q == [at |-> "body", call |-> call]
  <1>1. q \in Request /\ RequestIsSound(q) /\ q.at # "commit"
    BY DEF Request, Deciding, RequestIsSound, CallIsPlain, ActsOnOthers, Authenticate
  <1>2. req' = [req EXCEPT ![r] = q] /\ UNCHANGED <<vars, oneReplica>>
    BY DEF Authenticate
  <1> HIDE DEF q
  <1>3. req' \in [Requests -> Request] /\ \A p \in Requests : RequestIsSound(req'[p])
    BY <1>1, <1>2, RequestChanges
  <1>4. OneBody'
    BY <1>1, <1>2, OneBodyKept
  <1>5. RTypeOK'
    BY <1>2, <1>3 DEF RInv, RTypeOK, TypeOK, vars
  <1>6. QED BY <1>3, <1>4, <1>5 DEF RInv, RequestIsSound

LEMMA DieInv ==
  ASSUME RInv, NEW r \in Requests, Reply(r), UNCHANGED <<vars, oneReplica>>
  PROVE  RInv'
  <1>1. Idle \in Request /\ RequestIsSound(Idle) /\ Idle.at # "commit"
    BY DEF Request, Idle, RequestIsSound
  <1>2. req' = [req EXCEPT ![r] = Idle]
    BY DEF Reply
  <1>3. req' \in [Requests -> Request] /\ \A p \in Requests : RequestIsSound(req'[p])
    BY <1>1, <1>2, RequestChanges
  <1>4. OneBody'
    BY <1>1, <1>2, OneBodyKept
  <1>5. RTypeOK'
    BY <1>3 DEF RInv, RTypeOK, TypeOK, vars
  <1>6. QED BY <1>3, <1>4, <1>5 DEF RInv, RequestIsSound

\* The checks of a body establish what its commit relies on.
LEMMA ChecksSuffice ==
  ASSUME NEW call \in Call, CallIsPlain(call), Admits(call), TypeOK,
         NEW q \in Decided, q.op = call.op, q.u = call.u, q.v = call.v, q.g = call.g
  PROVE  TargetIsRight(q) /\ StillSafe(q)
  <1>0. call.op \in Op
    BY CallFields
  <1>1. TargetIsRight(q)
    <2>1. CASE ActsOnOthers(call.op)
      BY <2>1 DEF TargetIsRight, ActsOnOthers, Admits
    <2>2. CASE ~ActsOnOthers(call.op)
      BY <2>2 DEF TargetIsRight, CallIsPlain, ActsOnOthers
    <2>3. QED BY <2>1, <2>2
  <1>2. ASSUME q.op = "leave"
        PROVE  AnotherThan(q.u, q.g)
    <2>1. MayLeave(q.u, q.g)
      BY <1>2 DEF Admits
    <2>2. ASSUME IsAdmin(q.u, q.g)
          PROVE  \E a \in Admins(q.g) : a # q.u
      <3>1. Cardinality(Admins(q.g)) > 1
        BY <2>1, <2>2 DEF MayLeave
      <3>2. QED BY <3>1, AnotherAdmin
    <2>3. QED BY <2>2 DEF AnotherThan
  <1>3. ASSUME q.op = "close", NEW h \in LiveGroups
        PROVE  AnotherThan(q.u, h)
    <2>1. SoleAdminGroups(q.u) = {}
      BY <1>3 DEF Admits
    <2>2. ASSUME IsAdmin(q.u, h)
          PROVE  \E a \in Admins(h) : a # q.u
      <3>1. ~(Cardinality(Admins(h)) <= 1)
        BY <2>1, <2>2 DEF SoleAdminGroups
      <3>2. QED BY <3>1, AnotherAdmin
    <2>3. QED BY <2>2 DEF AnotherThan
  <1>4. QED BY <1>1, <1>2, <1>3 DEF StillSafe

LEMMA CheckInv ==
  ASSUME RInv, NEW r \in Requests, Check(r), UNCHANGED oneReplica
  PROVE  RInv'
  <1>1. PICK call : call = req[r].call
    OBVIOUS
  <1>2. req[r] \in Request /\ req[r].at = "body" /\ RequestIsSound(req[r])
    BY DEF RInv, RTypeOK, Check
  <1>3. call \in Call /\ CallIsPlain(call)
    BY <1>1, <1>2, RequestFields DEF RequestIsSound
  <1>4. CASE Admits(call)
    <2> DEFINE q == [at |-> "commit", op |-> call.op, u |-> call.u, v |-> call.v,
                     g |-> call.g, role |-> call.role, loaded |-> LoadedRole(call)]
    <2>1. LoadedRole(call) \in Role
      BY DEF LoadedRole, IsMember, Role, RInv, RTypeOK, TypeOK, IsTable
    <2>2. q \in Decided
      BY <1>3, <2>1, CallFields DEF Decided
    <2>3. /\ q.op = call.op /\ q.u = call.u /\ q.v = call.v /\ q.g = call.g
          /\ q.at = "commit"
      OBVIOUS
    <2>4. req' = [req EXCEPT ![r] = q] /\ BodyFree(r) /\ UNCHANGED vars
      BY <1>1, <1>4 DEF Check
    <2> HIDE DEF q
    <2>5. TargetIsRight(q) /\ StillSafe(q)
      BY <1>3, <1>4, <2>2, <2>3, ChecksSuffice DEF RInv, RTypeOK
    <2>6. q \in Request /\ RequestIsSound(q)
      BY <2>2, <2>3, <2>5 DEF Request, RequestIsSound
    <2>7. req' \in [Requests -> Request] /\ \A p \in Requests : RequestIsSound(req'[p])
      BY <2>4, <2>6, RequestChanges
    <2>8. OneBody'
      BY <2>4, <2>5, <2>6, OneBodyKept
    <2>9. RTypeOK'
      BY <2>4, <2>7 DEF RInv, RTypeOK, TypeOK, vars
    <2>10. QED BY <2>7, <2>8, <2>9 DEF RInv, RequestIsSound
  <1>5. CASE ~Admits(call)
    BY <1>1, <1>5, DieInv DEF Check
  <1>6. QED BY <1>4, <1>5

LEMMA RegistrationInv ==
  ASSUME RInv, NEW u \in Users, Register(u), UNCHANGED <<req, oneReplica>>
  PROVE  RInv'
  <1>1. /\ IsTable(user', Users, Row)
        /\ DOMAIN user' = DOMAIN user \cup {u}
        /\ \A v \in DOMAIN user : user'[v] = user[v]
    <2>1. [deleted |-> FALSE] \in Row /\ IsTable(user, Users, Row)
      BY DEF RInv, RTypeOK, TypeOK, Row
    <2>2. QED BY <2>1 DEF Register, Insert, IsTable
  <1>2. RTypeOK'
    BY <1>1 DEF Register, RInv, RTypeOK, TypeOK
  <1>3. LiveUsers \subseteq LiveUsers' /\ UNCHANGED <<group, member>>
    BY <1>1 DEF LiveUsers, Register
  <1>4. OneBody'
    <2>1. SUFFICES ASSUME oneReplica, NEW p \in Requests
                   PROVE  StillSafe(req[p])'
      BY DEF OneBody, RInv
    <2>2. PICK k : k = req[p]
      OBVIOUS
    <2>3. StillSafe(k)
      BY <2>1, <2>2 DEF RInv, OneBody
    <2>4. StillSafe(k)'
      BY <1>3, <2>3, SafeWhileAdminsStay
    <2>5. QED BY <2>2, <2>4 DEF StillSafe, AnotherThan
  <1>5. QED BY <1>2, <1>4 DEF RInv, RequestIsSound

\* After a commit on one replica no request is about to write.
LEMMA CommitInv ==
  ASSUME RInv, NEW r \in Requests, req[r].at = "commit", Reply(r), UNCHANGED oneReplica,
         TypeOK'
  PROVE  RInv'
  <1>1. Idle \in Request /\ RequestIsSound(Idle) /\ Idle.at # "commit"
    BY DEF Request, Idle, RequestIsSound
  <1>2. /\ req' \in [Requests -> Request]
        /\ req'[r] = Idle
        /\ \A p \in Requests : p # r => req'[p] = req[p]
        /\ \A p \in Requests : RequestIsSound(req'[p])
    BY <1>1, RequestChanges DEF Reply
  <1>3. oneReplica => \A p \in Requests : req'[p].at # "commit"
    BY <1>1, <1>2 DEF RInv, OneBody
  <1>4. OneBody'
    BY <1>3 DEF OneBody, StillSafe
  <1>5. RTypeOK'
    BY <1>2 DEF RInv, RTypeOK
  <1>6. QED BY <1>2, <1>4, <1>5 DEF RInv, RequestIsSound

\* A request at its commit holds its decision.
LEMMA WritersDecided ==
  ASSUME RInv, NEW r \in Requests, NEW op, Writing(r, op)
  PROVE  /\ req[r] \in Decided /\ req[r].op = op /\ req[r].at = "commit"
         /\ TargetIsRight(req[r])
  BY RequestFields DEF RInv, RTypeOK, Writing, RequestIsSound

\* Marking a row deleted leaves a table of users or groups one.
LEMMA MarkDeleted ==
  ASSUME NEW table, NEW keys, IsTable(table, keys, Row), NEW k,
         NEW marked, marked = [table EXCEPT ![k].deleted = TRUE]
  PROVE  /\ IsTable(marked, keys, Row)
         /\ DOMAIN marked = DOMAIN table
         /\ \A l \in DOMAIN table : l # k => marked[l] = table[l]
         /\ k \in DOMAIN table => marked[k].deleted
  <1>1. CASE k \in DOMAIN table
    <2>1. table[k] \in Row
      BY <1>1 DEF IsTable
    <2>2. marked = [table EXCEPT ![k] = [table[k] EXCEPT !.deleted = TRUE]]
      OBVIOUS
    <2>3. [table[k] EXCEPT !.deleted = TRUE] \in Row
      BY <2>1 DEF Row
    <2>4. [table[k] EXCEPT !.deleted = TRUE].deleted
      BY <2>1 DEF Row
    <2>5. QED BY <1>1, <2>2, <2>3, <2>4 DEF IsTable
  <1>2. CASE k \notin DOMAIN table
    BY <1>2 DEF IsTable
  <1>3. QED BY <1>1, <1>2

\* What a commit may write to the memberships is a table of them.
LEMMA MembershipsTyped ==
  ASSUME TypeOK, NEW k \in Users \X Groups, NEW role \in Role
  PROVE  /\ IsTable(Insert(member, k, role), Users \X Groups, Role)
         /\ k \in DOMAIN member =>
              IsTable([member EXCEPT ![k] = role], Users \X Groups, Role)
  BY DEF TypeOK, IsTable, Insert

LEMMA RemovalTyped ==
  ASSUME TypeOK, NEW keys
  PROVE  IsTable(Remove(member, keys), Users \X Groups, Role)
  BY DEF TypeOK, IsTable, Remove

LEMMA CommitTyped ==
  ASSUME RInv, NEW r \in Requests, Commit(r)
  PROVE  TypeOK' /\ req[r].at = "commit" /\ Reply(r)
  <1>1. PICK c : c = req[r]
    OBVIOUS
  <1>2. TypeOK
    BY DEF RInv, RTypeOK
  <1>3. ASSUME CommitCreate(r)
        PROVE  TypeOK'
    <2>1. c.u \in Users
      BY <1>1, <1>3, WritersDecided DEF CommitCreate, Decided
    <2>2. ASSUME NEW g \in Groups, group' = Insert(group, g, [deleted |-> FALSE])
          PROVE  IsTable(group', Groups, Row)
      <3>1. [deleted |-> FALSE] \in Row
        BY DEF Row
      <3>2. QED BY <1>2, <2>2, <3>1 DEF TypeOK, IsTable, Insert
    <2>3. ASSUME NEW g \in Groups, member' = Insert(member, <<c.u, g>>, "admin")
          PROVE  IsTable(member', Users \X Groups, Role)
      BY <1>2, <2>1, <2>3, MembershipsTyped DEF Role
    <2>4. QED BY <1>1, <1>2, <1>3, <2>2, <2>3 DEF CommitCreate, TypeOK
  <1>4. ASSUME CommitJoin(r)
        PROVE  TypeOK'
    <2>1. c.u \in Users /\ c.g \in Groups
      BY <1>1, <1>4, WritersDecided DEF CommitJoin, Decided
    <2>2. IsTable(Insert(member, <<c.u, c.g>>, "contributor"), Users \X Groups, Role)
      BY <1>2, <2>1, MembershipsTyped DEF Role
    <2>3. QED BY <1>1, <1>2, <1>4, <2>2 DEF CommitJoin, TypeOK
  <1>5. ASSUME CommitRemoval(r)
        PROVE  TypeOK'
    BY <1>2, <1>5, RemovalTyped DEF CommitRemoval, TypeOK
  <1>6. ASSUME CommitRole(r)
        PROVE  TypeOK'
    <2>1. c.v \in Users /\ c.g \in Groups /\ c.role \in Role
      BY <1>1, <1>6, WritersDecided DEF CommitRole, Decided
    <2>2. IsMember(c.v, c.g) =>
            IsTable([member EXCEPT ![<<c.v, c.g>>] = c.role], Users \X Groups, Role)
      BY <1>2, <2>1, MembershipsTyped DEF IsMember
    <2>3. QED BY <1>1, <1>2, <1>6, <2>2 DEF CommitRole, TypeOK
  <1>7. ASSUME CommitDeletion(r)
        PROVE  TypeOK'
    BY <1>2, <1>7, MarkDeleted DEF CommitDeletion, TypeOK
  <1>8. ASSUME CommitClosure(r)
        PROVE  TypeOK'
    BY <1>2, <1>8, MarkDeleted, RemovalTyped DEF CommitClosure, TypeOK
  <1>9. req[r].at = "commit" /\ Reply(r)
    BY DEF Commit, CommitCreate, CommitJoin, CommitRemoval, CommitRole, CommitDeletion,
           CommitClosure, Writing
  <1>10. QED BY <1>3, <1>4, <1>5, <1>6, <1>7, <1>8, <1>9 DEF Commit

LEMMA RInitInv == RInit => RInv
  BY DEF RInit, Init, RInv, RTypeOK, TypeOK, EmptyTable, IsTable, Request, Idle,
         RequestIsSound, OneBody, StillSafe

LEMMA RStepInv == RInv /\ [RNext]_rvars => RInv'
  <1> SUFFICES ASSUME RInv, [RNext]_rvars
               PROVE  RInv'
    OBVIOUS
  <1>1. CASE UNCHANGED rvars
    <2>1. UNCHANGED <<vars, req, oneReplica>>
      BY <1>1 DEF rvars, vars
    <2>2. \A p \in Requests : StillSafe(req[p]) => StillSafe(req[p])'
      BY <2>1 DEF vars, StillSafe, AnotherThan, Admins, IsAdmin, IsMember, LiveUsers, LiveGroups
    <2>3. QED BY <2>1, <2>2 DEF RInv, RTypeOK, TypeOK, vars, RequestIsSound, OneBody
  <1>2. ASSUME NEW u \in Users, Register(u), UNCHANGED <<req, oneReplica>>
        PROVE  RInv'
    BY <1>2, RegistrationInv
  <1>3. ASSUME NEW r \in Requests, RequestStep(r), UNCHANGED oneReplica
        PROVE  RInv'
    <2>1. CASE Commit(r)
      BY <1>3, <2>1, CommitTyped, CommitInv
    <2>2. CASE Die(r)
      BY <1>3, <2>2, DieInv DEF Die
    <2>3. QED BY <1>3, <2>1, <2>2, AuthenticateInv, CheckInv DEF RequestStep
  <1>4. QED BY <1>1, <1>2, <1>3 DEF RNext

\* The inductive invariant holds in every reachable state, however the requests
\* interleave.
THEOREM RInvariance == RSpec => []RInv
  BY RInitInv, RStepInv, PTL DEF RSpec

\* The tables stay well-typed, and what an open request has decided to write is
\* about users, groups and roles there can be.
THEOREM RTypeCorrect == RSpec => []RTypeOK
  <1>1. RInv => RTypeOK
    BY DEF RInv
  <1>2. QED BY <1>1, RInvariance, PTL

-----------------------------------------------------------------------------
(* What a commit does to the administrators. *)

\* Administrators of g other than the users written about stay administrators.
LEMMA OthersStayAdmins ==
  ASSUME NEW us, NEW g, NEW a \in Admins(g), a \notin us,
         \A w \in DOMAIN user : w \notin us => w \in DOMAIN user' /\ user'[w] = user[w],
         \A w \in DOMAIN user : w \notin us /\ <<w, g>> \in DOMAIN member =>
           <<w, g>> \in DOMAIN member' /\ member'[<<w, g>>] = member[<<w, g>>]
  PROVE  a \in Admins(g)'
  BY DEF Admins, IsAdmin, IsMember, LiveUsers

LEMMA CommitOrphansOnlyStale ==
  ASSUME RInv, NEW r \in Requests, Commit(r), oneReplica, NEW g \in LiveGroups,
         Admins(g) # {}, Admins(g)' = {}
  PROVE  ByStaleAdmin(r, g)
  <1>1. PICK c : c = req[r]
    OBVIOUS
  <1>2. TypeOK /\ StillSafe(req[r]) /\ g \in DOMAIN group
    BY DEF RInv, RTypeOK, OneBody, LiveGroups
  <1>3. ASSUME CommitCreate(r)
        PROVE  FALSE
    BY <1>2, <1>3, OthersStayAdmins DEF CommitCreate, Insert
  <1>4. ASSUME CommitJoin(r)
        PROVE  FALSE
    BY <1>4, OthersStayAdmins DEF CommitJoin, Insert, IsMember
  <1>5. ASSUME CommitDeletion(r)
        PROVE  FALSE
    BY <1>5, OthersStayAdmins DEF CommitDeletion
  <1>6. ASSUME CommitClosure(r)
        PROVE  FALSE
    <2>1. c.at = "commit" /\ c.op = "close"
      BY <1>1, <1>6 DEF CommitClosure, Writing
    <2>2. PICK a \in Admins(g) : a # c.u
      <3>1. AnotherThan(c.u, g)
        BY <1>1, <1>2, <2>1 DEF StillSafe
      <3>2. QED BY <3>1 DEF AnotherThan, Admins
    <2>3. /\ \A w \in DOMAIN user : w \notin {c.u} => w \in DOMAIN user' /\ user'[w] = user[w]
          /\ \A w \in DOMAIN user : w \notin {c.u} /\ <<w, g>> \in DOMAIN member =>
               <<w, g>> \in DOMAIN member' /\ member'[<<w, g>>] = member[<<w, g>>]
      <3>1. user' = [user EXCEPT ![c.u].deleted = TRUE]
        BY <1>1, <1>6 DEF CommitClosure
      <3>2. member' = Remove(member, {c.u} \X Groups)
        BY <1>1, <1>6 DEF CommitClosure
      <3>3. \A w \in DOMAIN user : w # c.u => w \in DOMAIN user' /\ user'[w] = user[w]
        BY <1>2, <3>1, MarkDeleted DEF TypeOK
      <3>4. QED BY <3>2, <3>3 DEF Remove
    <2>4. a \in Admins(g)'
      BY <2>2, <2>3, OthersStayAdmins
    <2>5. QED BY <2>4
  <1>7. ASSUME CommitRemoval(r) \/ CommitRole(r)
        PROVE  ByStaleAdmin(r, g)
    <2>1. /\ \A w \in DOMAIN user : w \in DOMAIN user' /\ user'[w] = user[w]
          /\ \A w \in DOMAIN user : w \notin {c.v} \/ c.g # g =>
               (<<w, g>> \in DOMAIN member =>
                 <<w, g>> \in DOMAIN member' /\ member'[<<w, g>>] = member[<<w, g>>])
      BY <1>1, <1>7 DEF CommitRemoval, CommitRole, Remove, IsMember
    <2>2. c.g = g
      <3>1. SUFFICES ASSUME c.g # g
                     PROVE  FALSE
        OBVIOUS
      <3>2. Admins(g) \subseteq Admins(g)'
        BY <2>1, <3>1, OthersStayAdmins
      <3>3. QED BY <3>2
    <2>3. \A a \in Admins(g) : a = c.v
      BY <2>1, OthersStayAdmins
    <2>4. CASE Writing(r, "leave")
      <3>1. c.at = "commit" /\ c.op = "leave" /\ c.v = c.u
        BY <1>1, <2>4, WritersDecided DEF Writing, TargetIsRight, ActsOnOthers
      <3>2. AnotherThan(c.u, g)
        BY <1>1, <1>2, <2>2, <3>1 DEF StillSafe
      <3>3. QED BY <2>3, <3>1, <3>2 DEF AnotherThan, Admins
    <2>5. CASE Writing(r, "role") \/ Writing(r, "remove")
      <3>1. c.u # c.v
        BY <1>1, <2>5, WritersDecided DEF TargetIsRight, ActsOnOthers
      <3>2. QED BY <1>1, <2>2, <2>3, <2>5, <3>1 DEF ByStaleAdmin
    <2>6. QED BY <1>7, <2>4, <2>5 DEF CommitRemoval, CommitRole
  <1>8. QED BY <1>3, <1>4, <1>5, <1>6, <1>7 DEF Commit

\* What OnlyStaleAdminsOrphan says of a step.
OrphansAreStale ==
  oneReplica =>
    \A g \in LiveGroups : Admins(g) # {} /\ Admins(g)' = {} =>
      \E r \in Requests : ByStaleAdmin(r, g) /\ req'[r] = Idle

LEMMA StepOrphansAreStale ==
  ASSUME RInv, [RNext]_rvars
  PROVE  OrphansAreStale
  <1> SUFFICES ASSUME oneReplica, NEW g \in LiveGroups, Admins(g) # {}, Admins(g)' = {}
               PROVE  \E r \in Requests : ByStaleAdmin(r, g) /\ req'[r] = Idle
    BY DEF OrphansAreStale
  <1>1. ~(UNCHANGED <<user, member>>)
    BY DEF Admins, IsAdmin, IsMember, LiveUsers
  <1>2. ASSUME NEW u \in Users, Register(u)
        PROVE  FALSE
    BY <1>2, OthersStayAdmins DEF Register, Insert
  <1>3. PICK r \in Requests : Commit(r)
    BY <1>1, <1>2 DEF RNext, rvars, vars, RequestStep, Authenticate, Check, Die
  <1>4. ByStaleAdmin(r, g)
    BY <1>3, CommitOrphansOnlyStale
  <1>5. req'[r] = Idle
    BY <1>3, CommitTyped DEF Reply, RInv, RTypeOK
  <1>6. QED BY <1>4, <1>5

\* On one replica, leave_group and delete_user_account never take the last
\* administrator from a live group, whatever interleaves: only remove_member and
\* change_member_role do, by an administrator who is none any more.
THEOREM OnlyStaleAdminsOrphanGroups == RSpec => OnlyStaleAdminsOrphan
  <1>1. RInv /\ [RNext]_rvars => [OrphansAreStale]_rvars
    BY StepOrphansAreStale
  <1>2. [][OrphansAreStale]_rvars => OnlyStaleAdminsOrphan
    BY PTL DEF OrphansAreStale, OnlyStaleAdminsOrphan
  <1>3. QED BY <1>1, <1>2, RInvariance, PTL DEF RSpec

\* What MembershipsStartByJoining says of a step.
JoinsOnly ==
  \A u \in Users, g \in DOMAIN group :
    IsMember(u, g)' /\ ~IsMember(u, g) => member'[<<u, g>>] = "contributor"

LEMMA StepJoinsOnly ==
  ASSUME RInv, [RNext]_rvars
  PROVE  JoinsOnly
  <1> SUFFICES ASSUME NEW u \in Users, NEW g \in DOMAIN group, IsMember(u, g)', ~IsMember(u, g)
               PROVE  member'[<<u, g>>] = "contributor"
    BY DEF JoinsOnly
  <1>1. member' # member
    BY DEF IsMember
  <1>2. PICK r \in Requests : Commit(r)
    <2>1. \A v \in Users : ~Register(v)
      BY <1>1 DEF Register
    <2>2. PICK r \in Requests : RequestStep(r)
      BY <1>1, <2>1 DEF RNext, rvars
    <2>3. ~(UNCHANGED vars)
      BY <1>1 DEF vars
    <2>4. QED BY <2>2, <2>3 DEF RequestStep, Authenticate, Check, Die
  <1>3. CASE CommitCreate(r)
    <2>1. PICK h \in Groups \ DOMAIN group : member' = Insert(member, <<req[r].u, h>>, "admin")
      BY <1>1, <1>3 DEF CommitCreate
    <2>2. <<u, g>> # <<req[r].u, h>>
      BY <2>1
    <2>3. QED BY <2>1, <2>2 DEF Insert, IsMember
  <1>4. CASE CommitJoin(r)
    BY <1>4 DEF CommitJoin, Insert, IsMember
  <1>5. CASE CommitRemoval(r) \/ CommitClosure(r)
    BY <1>5 DEF CommitRemoval, CommitClosure, Remove, IsMember
  <1>6. CASE CommitRole(r)
    BY <1>6 DEF CommitRole, IsMember
  <1>7. CASE CommitDeletion(r)
    BY <1>1, <1>7 DEF CommitDeletion
  <1>8. QED BY <1>2, <1>3, <1>4, <1>5, <1>6, <1>7 DEF Commit

\* No open request brings back a membership that was removed meanwhile: whoever
\* is newly in an existing group has joined as a contributor.
THEOREM NoMembershipComesBack == RSpec => MembershipsStartByJoining
  <1>1. RInv /\ [RNext]_rvars => [JoinsOnly]_rvars
    BY StepJoinsOnly
  <1>2. [][JoinsOnly]_rvars => MembershipsStartByJoining
    BY PTL DEF JoinsOnly, MembershipsStartByJoining
  <1>3. QED BY <1>1, <1>2, RInvariance, PTL DEF RSpec


-----------------------------------------------------------------------------
(* The request context: types of cookies and answers. *)

Answers == Cookie \cup {None, NoAnswer}

SlowTypeOK ==
  /\ slow.at = "sent" => slow.data \in Cookie
  /\ slow.at = "answered" => slow.answer \in Answers

CInv == IInv /\ CTypeOK

\* The cookie of a request names a user, and maybe a group.
LEMMA CookieTypes ==
  ASSUME CTypeOK, NEW via \in Via, Data(via) # None
  PROVE  /\ Data(via) \in Cookie
         /\ Data(via).user \in Users /\ Data(via).sid \in SessionIds
         /\ Data(via).active \in Groups \cup {None} /\ Data(via).view \in Groups \cup {None}
  <1>1. Data(via) \in Cookie
    BY DEF Via, Data, CTypeOK
  <1>2. QED BY <1>1 DEF Cookie

\* Opening another group keeps a cookie a cookie.
LEMMA WithGroupTypes ==
  ASSUME NEW data \in Cookie, NEW g \in Groups \cup {None}
  PROVE  WithGroup(data, g) \in Cookie
  BY DEF WithGroup, Cookie

\* The answer of the middleware is a cookie or none.
LEMMA RefreshedTypes ==
  ASSUME NEW data \in Cookie, NEW g \in Groups \cup {None}
  PROVE  Refreshed(data, g) \in Answers
  BY WithGroupTypes DEF Refreshed, Answers

\* Answering keeps the types of the jar and of the slow request.
LEMMA AnswerTypes ==
  ASSUME CTypeOK, NEW via \in Via, NEW answer \in Answers, Answer(via, answer)
  PROVE  jar' \in Cookie \cup {None} /\ SlowTypeOK'
  <1>1. CASE via = "jar"
    BY <1>1 DEF Answer, Applied, CTypeOK, SlowTypeOK, Answers
  <1>2. CASE via = "slow"
    BY <1>2 DEF Answer, CTypeOK, SlowTypeOK
  <1>3. QED BY <1>1, <1>2 DEF Via

\* Remembering a group keeps the type of what is remembered.
LEMMA RememberTypes ==
  ASSUME CTypeOK, NEW u, NEW g \in Groups \cup {None}
  PROVE  [last EXCEPT ![u] = g] \in [Users -> Groups \cup {None}]
  BY DEF CTypeOK

\* Revoking sessions keeps their table.
LEMMA RevokeTypes ==
  ASSUME CTypeOK, RevokeClosed
  PROVE  IsTable(session', SessionIds, Session)
  <1>1. /\ DOMAIN session \subseteq SessionIds
        /\ \A s \in DOMAIN session : session[s] \in Session
    BY DEF CTypeOK, IsTable
  <1>2. \A s \in DOMAIN session :
          [session[s] EXCEPT !.revoked = @ \/ session[s].user \notin LiveUsers'] \in Session
    BY <1>1 DEF Session
  <1>3. QED BY <1>1, <1>2 DEF RevokeClosed, IsTable

-----------------------------------------------------------------------------
(* A request of the browser changes the tables of Membership as one there. *)

LEMMA BrowserTables ==
  ASSUME CTypeOK, NEW via \in Via, Browser(via)
  PROVE  [Next]_vars
  <1> USE DEF vars
  <1>1. CASE TurnedAway(via, "members") \/ Logout(via)
    BY <1>1 DEF TurnedAway, Logout
  <1>2. ASSUME NEW g \in Groups \cup {None}, Page(via, g) \/ Exit(via, g)
        PROVE  [Next]_vars
    BY <1>2 DEF Page, Exit
  <1>3. ASSUME NEW g \in Groups \cup {None}, Close(via, g)
        PROVE  [Next]_vars
    <2>1. Data(via).user \in Users
      BY <1>3, CookieTypes DEF Close, Reaches, Authenticated
    <2>2. QED BY <1>3, <2>1 DEF Close, Next, AccountStep
  <1>4. ASSUME NEW g \in Groups \cup {None}, NEW u \in Users, Members(via, g, u)
        PROVE  [Next]_vars
    <2>1. Data(via).user \in Users /\ g \in Groups
      BY <1>4, CookieTypes DEF Members, Reaches, Authenticated
    <2>2. QED BY <1>4, <2>1 DEF Members, Next, ManagerStep
  <1>5. ASSUME NEW g \in Groups \cup {None}, NEW h \in Groups, Create(via, g, h) \/ Join(via, g, h)
        PROVE  [Next]_vars
    <2>1. Data(via).user \in Users
      BY <1>5, CookieTypes DEF Create, Join, Reaches, Authenticated
    <2>2. QED BY <1>5, <2>1 DEF Create, Join, Next, GroupStep
  <1>6. ASSUME NEW g \in Groups \cup {None}, NEW h \in Groups, Leave(via, g, h)
        PROVE  [Next]_vars
    <2>1. Data(via).user \in Users
      BY <1>6, CookieTypes DEF Leave, Reaches, Authenticated
    <2>2. QED BY <1>6, <2>1 DEF Leave, Next, GroupStep
  <1>7. ASSUME NEW g \in Groups \cup {None}, NEW h \in Groups, Switch(via, g, h) \/ Enter(via, g, h)
        PROVE  [Next]_vars
    BY <1>7 DEF Switch, Enter
  <1>8. QED BY <1>1, <1>2, <1>3, <1>4, <1>5, <1>6, <1>7 DEF Browser

LEMMA StepTables == CTypeOK /\ [CNext]_cvars => [Next]_vars
  <1> SUFFICES ASSUME CTypeOK, [CNext]_cvars
               PROVE  [Next]_vars
    OBVIOUS
  <1>1. CASE Elsewhere
    BY <1>1 DEF Elsewhere
  <1>2. CASE \E via \in Via : Browser(via)
    BY <1>2, BrowserTables
  <1>3. CASE Send \/ Deliver \/ UNCHANGED cvars
    BY <1>3 DEF Send, Deliver, cvars, vars
  <1>4. CASE \E u \in Users : \/ \E g \in Groups : OpenElsewhere(u, g)
                              \/ \E s \in SessionIds : Login(u, s)
    BY <1>4 DEF OpenElsewhere, Login, vars
  <1>5. QED BY <1>1, <1>2, <1>3, <1>4 DEF CNext

-----------------------------------------------------------------------------
(* Every step keeps the types. *)

\* What a request that reached its handler opens.
LEMMA OpensTypes ==
  ASSUME CTypeOK, NEW via \in Via, NEW op, NEW g, Reaches(via, op, g)
  PROVE  /\ Data(via) \in Cookie
         /\ Data(via).user \in Users
  BY CookieTypes DEF Reaches, Authenticated

\* A page, and every handler that leaves the opened group as it is.
LEMMA AttachKeepsTypes ==
  ASSUME CTypeOK, NEW data, NEW g \in Groups \cup {None}, Attach(data, g)
  PROVE  last' \in [Users -> Groups \cup {None}]
  BY RememberTypes DEF Attach, CTypeOK

LEMMA BrowserTypes ==
  ASSUME CTypeOK, NEW via \in Via, Browser(via)
  PROVE  /\ last' \in [Users -> Groups \cup {None}]
         /\ IsTable(session', SessionIds, Session)
         /\ jar' \in Cookie \cup {None}
         /\ SlowTypeOK'
  <1> DEFINE Typed == /\ last' \in [Users -> Groups \cup {None}]
                      /\ IsTable(session', SessionIds, Session)
                      /\ jar' \in Cookie \cup {None}
                      /\ SlowTypeOK'
  <1>a. NoAnswer \in Answers /\ None \in Answers /\ Cookie \subseteq Answers
    BY DEF Answers
  <1>b. last \in [Users -> Groups \cup {None}] /\ IsTable(session, SessionIds, Session)
    BY DEF CTypeOK
  <1>1. CASE TurnedAway(via, "members")
    BY <1>1, <1>a, <1>b, AnswerTypes DEF TurnedAway
  <1>2. CASE Logout(via)
    <2>1. IsTable([session EXCEPT ![Data(via).sid].revoked = TRUE], SessionIds, Session)
      BY <1>b DEF IsTable, Session
    <2>2. QED BY <1>2, <1>a, <1>b, <2>1, AnswerTypes DEF Logout
  <1>3. ASSUME NEW g \in Groups \cup {None}, Page(via, g)
        PROVE  Typed
    BY <1>3, <1>b, OpensTypes, RefreshedTypes, AnswerTypes, AttachKeepsTypes DEF Page
  <1>4. ASSUME NEW g \in Groups \cup {None}, Close(via, g)
        PROVE  Typed
    BY <1>4, <1>a, RevokeTypes, AnswerTypes, AttachKeepsTypes DEF Close
  <1>5. ASSUME NEW g \in Groups \cup {None}, Exit(via, g)
        PROVE  Typed
    BY <1>5, <1>a, <1>b, OpensTypes, WithGroupTypes, AnswerTypes, AttachKeepsTypes DEF Exit
  <1>6. ASSUME NEW g \in Groups \cup {None}, NEW u \in Users, Members(via, g, u)
        PROVE  Typed
    BY <1>6, <1>b, OpensTypes, RefreshedTypes, AnswerTypes, AttachKeepsTypes DEF Members
  <1>7. ASSUME NEW g \in Groups \cup {None}, NEW h \in Groups,
               Create(via, g, h) \/ Join(via, g, h) \/ Switch(via, g, h)
        PROVE  Typed
    <2>1. Reaches(via, "groups", g) /\ OpenGroup(via, h)
      BY <1>7 DEF Create, Join, Switch
    <2>2. WithGroup(Data(via), h) \in Answers
      BY <1>a, <2>1, OpensTypes, WithGroupTypes
    <2>3. QED BY <1>b, <2>1, <2>2, AnswerTypes, RememberTypes DEF OpenGroup
  <1>8. ASSUME NEW g \in Groups \cup {None}, NEW h \in Groups, Leave(via, g, h)
        PROVE  Typed
    <2>1. Reaches(via, "groups", g) /\ Replace(via, g, h) /\ session' = session
      BY <1>8 DEF Leave
    <2>2. Data(via) \in Cookie
      BY <2>1, OpensTypes
    <2>3. CASE g # h
      BY <1>b, <2>1, <2>2, <2>3, RefreshedTypes, AnswerTypes, AttachKeepsTypes DEF Replace
    <2>4. CASE g = h
      <3>1. \A v : MyGroups(v)' \subseteq Groups
        <4>1. IsTable(group', Groups, Row)
          BY <1>8 DEF Leave, LeaveGroup, DeleteGroup, CTypeOK, TypeOK, IsTable, Row
        <4>2. QED BY <4>1 DEF MyGroups, LiveGroups, IsTable
      <3>2. PICK u \in {Data(via).user} :
              \E next \in (IF MyGroups(u)' = {} THEN {None} ELSE MyGroups(u)') :
                /\ last' = [last EXCEPT ![u] = next]
                /\ Answer(via, WithGroup(Data(via), next))
        BY <2>1, <2>4 DEF Replace
      <3>3. PICK next \in Groups \cup {None} :
              /\ last' = [last EXCEPT ![u] = next]
              /\ Answer(via, WithGroup(Data(via), next))
        BY <3>1, <3>2
      <3>4. QED BY <1>a, <1>b, <2>1, <2>2, <3>3, WithGroupTypes, AnswerTypes, RememberTypes
    <2>5. QED BY <2>3, <2>4
  <1>9. ASSUME NEW g \in Groups \cup {None}, NEW h \in Groups, Enter(via, g, h)
        PROVE  Typed
    <2>1. Data(via) \in Cookie
      BY <1>9, OpensTypes DEF Enter
    <2>2. [Data(via) EXCEPT !.active = h, !.view = h] \in Answers
      BY <1>a, <2>1 DEF Cookie
    <2>3. QED BY <1>9, <1>b, <2>2, AnswerTypes, AttachKeepsTypes DEF Enter
  <1>10. QED BY <1>1, <1>2, <1>3, <1>4, <1>5, <1>6, <1>7, <1>8, <1>9 DEF Browser

LEMMA CInitInv == CInit => CInv
  <1> SUFFICES ASSUME CInit
               PROVE  CInv
    OBVIOUS
  <1>1. IInv
    BY InitInv DEF CInit
  <1>2. IsTable(session, SessionIds, Session)
    BY DEF CInit, IsTable, EmptyTable
  <1>3. CTypeOK
    BY <1>1, <1>2 DEF CInit, CTypeOK, IInv, NotSent
  <1>4. QED BY <1>1, <1>3 DEF CInv

LEMMA CStepInv == CInv /\ [CNext]_cvars => CInv'
  <1> SUFFICES ASSUME CInv, [CNext]_cvars
               PROVE  CInv'
    OBVIOUS
  <1> USE DEF CInv
  <1>1. IInv'
    BY StepTables, StepInv
  <1>2. TypeOK'
    BY <1>1 DEF IInv
  <1>3. last \in [Users -> Groups \cup {None}] /\ IsTable(session, SessionIds, Session)
    BY DEF CTypeOK
  <1>4. ASSUME Elsewhere
        PROVE  CTypeOK'
    <2>1. IsTable(session', SessionIds, Session)
      BY <1>4, RevokeTypes DEF Elsewhere
    <2>2. QED BY <1>2, <1>4, <2>1 DEF Elsewhere, CTypeOK
  <1>5. ASSUME NEW u \in Users, NEW g \in Groups, OpenElsewhere(u, g)
        PROVE  CTypeOK'
    BY <1>2, <1>5, RememberTypes DEF OpenElsewhere, CTypeOK
  <1>6. ASSUME NEW u \in Users, NEW s \in SessionIds, Login(u, s)
        PROVE  CTypeOK'
    <2>1. IsTable(session', SessionIds, Session)
      BY <1>3, <1>6 DEF Login, Insert, IsTable, Session
    <2>2. jar' \in Cookie
      BY <1>6 DEF Login, Cookie
    <2>3. QED BY <1>2, <1>6, <2>1, <2>2 DEF Login, CTypeOK
  <1>7. ASSUME Send
        PROVE  CTypeOK'
    BY <1>2, <1>7 DEF Send, CTypeOK
  <1>8. ASSUME Deliver
        PROVE  CTypeOK'
    BY <1>2, <1>8 DEF Deliver, CTypeOK, Applied, NotSent
  <1>9. ASSUME NEW via \in Via, Browser(via)
        PROVE  CTypeOK'
    <2>1. /\ last' \in [Users -> Groups \cup {None}]
          /\ IsTable(session', SessionIds, Session)
          /\ jar' \in Cookie \cup {None}
          /\ SlowTypeOK'
      BY <1>9, BrowserTypes
    <2>2. QED BY <1>2, <2>1 DEF CTypeOK, SlowTypeOK, Answers
  <1>10. ASSUME UNCHANGED cvars
         PROVE  CTypeOK'
    BY <1>2, <1>10 DEF cvars, CTypeOK
  <1>11. CTypeOK'
    BY <1>4, <1>5, <1>6, <1>7, <1>8, <1>9, <1>10 DEF CNext
  <1>12. QED BY <1>1, <1>11

-----------------------------------------------------------------------------
(* Steps that look, and steps that remember. *)

\* What ViewsChangeNothing says of a step.
ViewLooks ==
  slow.at = "sent" /\ slow'.at = "answered" /\ Views(slow.data) =>
    UNCHANGED <<user, group, member, last>>

LEMMA StepLooks ==
  ASSUME [CNext]_cvars
  PROVE  ViewLooks
  <1> SUFFICES ASSUME slow.at = "sent", slow'.at = "answered", Views(slow.data)
               PROVE  UNCHANGED <<user, group, member, last>>
    BY DEF ViewLooks
  <1>1. slow' # slow
    OBVIOUS
  <1>2. PICK via \in Via : Browser(via)
    BY <1>1 DEF CNext, cvars, Elsewhere, OpenElsewhere, Login, Send, Deliver, NotSent
  <1>3. ASSUME NEW answer, Answer(via, answer)
        PROVE  via = "slow"
    BY <1>1, <1>3 DEF Answer, Via
  <1>4. via = "slow" => /\ Data(via) = slow.data
                        /\ ViewIsValid(Data(via)) /\ Views(Data(via))
    BY DEF Data, Views
  <1>5. ASSUME NEW op, op \in {"members", "groups", "profile"}, NEW g, Reaches(via, op, g), via = "slow"
        PROVE  FALSE
    BY <1>4, <1>5 DEF Reaches, Refused, ViewAllows
  <1>6. ASSUME NEW g, Attach(Data(via), g), via = "slow"
        PROVE  last' = last
    BY <1>4, <1>6 DEF Attach, Remembers
  <1>7. CASE TurnedAway(via, "members") \/ Logout(via)
    BY <1>7 DEF TurnedAway, Logout
  <1>8. ASSUME NEW g, Page(via, g) \/ Exit(via, g)
        PROVE  UNCHANGED <<user, group, member, last>>
    BY <1>3, <1>6, <1>8 DEF Page, Exit
  <1>9. ASSUME NEW g, NEW h, Enter(via, g, h)
        PROVE  UNCHANGED <<user, group, member, last>>
    BY <1>3, <1>6, <1>9 DEF Enter
  <1>10. ASSUME NEW g, NEW u, Close(via, g) \/ Members(via, g, u)
         PROVE  FALSE
    BY <1>3, <1>5, <1>10 DEF Close, Members
  <1>11. ASSUME NEW g, NEW h, Create(via, g, h) \/ Join(via, g, h) \/ Switch(via, g, h)
         PROVE  FALSE
    BY <1>3, <1>5, <1>11 DEF Create, Join, Switch, OpenGroup
  <1>12. ASSUME NEW g, NEW h, Leave(via, g, h)
         PROVE  FALSE
    <2>1. Replace(via, g, h) /\ Reaches(via, "groups", g)
      BY <1>12 DEF Leave
    <2>2. \E answer : Answer(via, answer)
      BY <2>1 DEF Replace
    <2>3. QED BY <1>3, <1>5, <2>1, <2>2
  <1>13. QED BY <1>2, <1>7, <1>8, <1>9, <1>10, <1>11, <1>12 DEF Browser

\* What LastGroupsAreOnesOwn says of a step.
OwnGroups ==
  \A u \in Users : last'[u] # last[u] =>
    last'[u] \in {None} \cup MyGroups(u) \cup MyGroups(u)'

\* Writing one's own group, or none, is all that is asked.
LEMMA WritesOwn ==
  ASSUME CTypeOK, NEW v, NEW g, last' = [last EXCEPT ![v] = g],
         g \in {None} \cup MyGroups(v) \cup MyGroups(v)'
  PROVE  OwnGroups
  BY DEF OwnGroups, CTypeOK

\* The tail of every request writes a group of the user, or nothing.
LEMMA AttachWritesOwn ==
  ASSUME CTypeOK, NEW via \in Via, NEW op, NEW g,
         Reaches(via, op, g), Attach(Data(via), g)
  PROVE  OwnGroups
  <1> DEFINE data == Data(via)
  <1>1. CASE Remembers(data, g)
    <2>1. g \in MyGroups(data.user) \cup {None}
      BY <1>1 DEF Remembers, Reaches, Opens, Defaults
    <2>2. last' = [last EXCEPT ![data.user] = g]
      BY <1>1 DEF Attach
    <2>3. QED BY <2>1, <2>2, WritesOwn
  <1>2. CASE ~Remembers(data, g)
    BY <1>2 DEF Attach, OwnGroups
  <1>3. QED BY <1>1, <1>2

LEMMA StepOwns ==
  ASSUME CInv, [CNext]_cvars
  PROVE  OwnGroups
  <1> USE DEF CInv
  <1>1. CASE last' = last
    BY <1>1 DEF OwnGroups
  <1>2. ASSUME NEW u \in Users, NEW g \in Groups, OpenElsewhere(u, g)
        PROVE  OwnGroups
    BY <1>2, WritesOwn DEF OpenElsewhere
  <1>3. ASSUME NEW via \in Via, Browser(via), last' # last
        PROVE  OwnGroups
    <2>1. ASSUME NEW g, NEW u, Page(via, g) \/ Close(via, g) \/ Exit(via, g) \/ Members(via, g, u)
          PROVE  OwnGroups
      BY <2>1, AttachWritesOwn DEF Page, Close, Exit, Members
    <2>2. ASSUME NEW g, NEW h, Enter(via, g, h)
          PROVE  OwnGroups
      BY <2>2, AttachWritesOwn DEF Enter
    <2>3. ASSUME NEW g, NEW h, Create(via, g, h)
          PROVE  OwnGroups
      <3>1. CreateGroup(Data(via).user, h) /\ OpenGroup(via, h)
        BY <2>3 DEF Create
      <3>2. PICK v : v = Data(via).user
        OBVIOUS
      <3>3. h \in MyGroups(v)'
        BY <3>1, <3>2 DEF CreateGroup, MyGroups, LiveGroups, IsMember, Insert
      <3>4. last' = [last EXCEPT ![v] = h]
        BY <3>1, <3>2 DEF OpenGroup
      <3>5. QED BY <3>3, <3>4, WritesOwn
    <2>4. ASSUME NEW g, NEW h, Join(via, g, h)
          PROVE  OwnGroups
      <3>1. JoinGroup(Data(via).user, h) /\ OpenGroup(via, h)
        BY <2>4 DEF Join
      <3>2. PICK v : v = Data(via).user
        OBVIOUS
      <3>3. h \in MyGroups(v)'
        BY <3>1, <3>2 DEF JoinGroup, GroupsToJoin, MyGroups, LiveGroups, IsMember, Insert
      <3>4. last' = [last EXCEPT ![v] = h]
        BY <3>1, <3>2 DEF OpenGroup
      <3>5. QED BY <3>3, <3>4, WritesOwn
    <2>5. ASSUME NEW g, NEW h, Switch(via, g, h)
          PROVE  OwnGroups
      BY <2>5, WritesOwn DEF Switch, OpenGroup
    <2>6. ASSUME NEW g, NEW h, Leave(via, g, h)
          PROVE  OwnGroups
      <3>1. Replace(via, g, h) /\ Reaches(via, "groups", g)
        BY <2>6 DEF Leave
      <3>2. CASE g # h
        BY <3>1, <3>2, AttachWritesOwn DEF Replace
      <3>3. CASE g = h
        <4>1. PICK u \in {Data(via).user} :
                \E next \in (IF MyGroups(u)' = {} THEN {None} ELSE MyGroups(u)') :
                  last' = [last EXCEPT ![u] = next]
          BY <3>1, <3>3 DEF Replace
        <4>2. PICK next \in {None} \cup MyGroups(u)' : last' = [last EXCEPT ![u] = next]
          BY <4>1
        <4>3. QED BY <4>2, WritesOwn
      <3>4. QED BY <3>2, <3>3
    <2>7. CASE TurnedAway(via, "members") \/ Logout(via)
      BY <1>3, <2>7 DEF TurnedAway, Logout
    <2>8. QED BY <1>3, <2>1, <2>2, <2>3, <2>4, <2>5, <2>6, <2>7 DEF Browser
  <1>4. CASE Elsewhere \/ Send \/ Deliver \/ UNCHANGED cvars
    BY <1>1, <1>4 DEF Elsewhere, Send, Deliver, cvars
  <1>5. ASSUME NEW u \in Users, NEW s \in SessionIds, Login(u, s)
        PROVE  OwnGroups
    BY <1>1, <1>5 DEF Login
  <1>6. QED BY <1>1, <1>2, <1>3, <1>4, <1>5 DEF CNext

-----------------------------------------------------------------------------
(* The theorems. *)

\* The inductive invariant holds in every reachable state.
THEOREM CInvariance == CSpec => []CInv
  BY CInitInv, CStepInv, PTL DEF CSpec

\* The cookie, the sessions and the remembered groups are well-typed.
THEOREM CTypeCorrect == CSpec => []CTypeOK
  <1>1. CInv => CTypeOK
    BY DEF CInv
  <1>2. QED BY <1>1, CInvariance, PTL

\* Requests resolved through cookies, late answers included, do to the tables
\* only what the handlers of Membership do one at a time.
THEOREM ContextImplementsMembership == CSpec => Spec
  <1>1. CInit => Init
    BY DEF CInit
  <1>2. CInv /\ [CNext]_cvars => [Next]_vars
    BY StepTables DEF CInv
  <1>3. QED BY <1>1, <1>2, CInvariance, PTL DEF CSpec, Spec

\* So whatever cookie is in use, a live group keeps an administrator.
THEOREM CookiesOrphanNoGroup == CSpec => []GroupsKeepAnAdmin
  BY ContextImplementsMembership, NoGroupOrphaned, PTL

\* _platform_view_allows_request and the tail of _attach_user_to_request leave
\* a support view nothing to change.
THEOREM ViewsOnlyLook == CSpec => ViewsChangeNothing
  <1>1. [CNext]_cvars => [ViewLooks]_cvars
    BY StepLooks
  <1>2. [][ViewLooks]_cvars => ViewsChangeNothing
    BY PTL DEF ViewLooks, ViewsChangeNothing
  <1>3. QED BY <1>1, <1>2, PTL DEF CSpec

\* remember_last_group and default_group_for_user stay among a user's groups.
THEOREM LastGroupIsOnesOwn == CSpec => LastGroupsAreOnesOwn
  <1>1. CInv /\ [CNext]_cvars => [OwnGroups]_cvars
    BY StepOwns
  <1>2. [][OwnGroups]_cvars => LastGroupsAreOnesOwn
    BY PTL DEF OwnGroups, LastGroupsAreOnesOwn
  <1>3. QED BY <1>1, <1>2, CInvariance, PTL DEF CSpec

=============================================================================
