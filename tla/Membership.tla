----------------------------- MODULE Membership -----------------------------
(***************************************************************************)
(* Users, groups (farms) and memberships: who belongs where with which     *)
(* role.  Here a request is one step, with the checks of its dependencies  *)
(* (get_current_user, require_role) and its handler; MembershipRequests    *)
(* takes them apart.                                                       *)
(*                                                                         *)
(* An account or a group is only marked deleted; a membership row is       *)
(* removed.  A user may open any live group of theirs, so that a handler   *)
(* for the active group may be called for each of them.                    *)
(*                                                                         *)
(* Left out: names, invite codes (whoever joins had the code), and which   *)
(* group was opened last.                                                  *)
(***************************************************************************)
EXTENDS FiniteSets, Integers, Tables

CONSTANTS Users, Groups     \* primary keys: the bounds of an instance

VARIABLES
  user,       \* table users
  group,      \* table groups
  member      \* table user_groups, keyed by user and group

vars == <<user, group, member>>

-----------------------------------------------------------------------------
Role == {"admin", "contributor", "reader"}

\* A row of users or of groups.
Row == [deleted : BOOLEAN]

TypeOK ==
  /\ IsTable(user, Users, Row)
  /\ IsTable(group, Groups, Row)
  /\ IsTable(member, Users \X Groups, Role)

LiveUsers == {u \in DOMAIN user : ~user[u].deleted}

LiveGroups == {g \in DOMAIN group : ~group[g].deleted}

IsMember(u, g) == <<u, g>> \in DOMAIN member

IsAdmin(u, g) == IsMember(u, g) /\ member[<<u, g>>] = "admin"

\* Whom count_group_admins counts.
Admins(g) == {u \in LiveUsers : IsAdmin(u, g)}

\* Faulty variant: the check finds no group to keep the account for.
SoleAdminOfNone(u) == {}

SoleAdminGroups(u) == {g \in LiveGroups : IsAdmin(u, g) /\ Cardinality(Admins(g)) <= 1}

\* Faulty variant: the check lets the last admin go.
MayLeaveAlways(u, g) == IsMember(u, g)

MayLeave(u, g) == IsMember(u, g) /\ (IsAdmin(u, g) => Cardinality(Admins(g)) > 1)

\* Faulty variant: administrators may act on themselves.
MayManageAnyone(a, u, g) ==
  a \in LiveUsers /\ g \in LiveGroups /\ IsAdmin(a, g) /\ IsMember(u, g)

\* require_role(admin) in the active group, and somebody else's membership.
MayManage(a, u, g) ==
  /\ a \in LiveUsers
  /\ g \in LiveGroups
  /\ IsAdmin(a, g)
  /\ a # u
  /\ IsMember(u, g)

\* What a form may send as a role.
FormRole == Role \cup {"owner"}

AcceptedRoles == Role

GroupsToJoin == LiveGroups

-----------------------------------------------------------------------------
Register(u) ==
  /\ u \in Users \ DOMAIN user
  /\ user' = Insert(user, u, [deleted |-> FALSE])
  /\ UNCHANGED <<group, member>>

CreateGroup(u, g) ==
  /\ u \in LiveUsers
  /\ g \in Groups \ DOMAIN group
  /\ group' = Insert(group, g, [deleted |-> FALSE])
  /\ member' = Insert(member, <<u, g>>, "admin")
  /\ UNCHANGED user

JoinGroup(u, g) ==
  /\ u \in LiveUsers
  /\ g \in GroupsToJoin
  /\ ~IsMember(u, g)
  /\ member' = Insert(member, <<u, g>>, "contributor")
  /\ UNCHANGED <<user, group>>

\* A deleted group may be left too.
LeaveGroup(u, g) ==
  /\ u \in LiveUsers
  /\ MayLeave(u, g)
  /\ member' = Remove(member, {<<u, g>>})
  /\ UNCHANGED <<user, group>>

DeleteGroup(u, g) ==
  /\ u \in LiveUsers
  /\ g \in LiveGroups
  /\ IsAdmin(u, g)
  /\ group' = [group EXCEPT ![g].deleted = TRUE]
  /\ UNCHANGED <<user, member>>

ChangeMemberRole(a, u, g, role) ==
  /\ role \in AcceptedRoles
  /\ MayManage(a, u, g)
  /\ member' = [member EXCEPT ![<<u, g>>] = role]
  /\ UNCHANGED <<user, group>>

RemoveMember(a, u, g) ==
  /\ MayManage(a, u, g)
  /\ member' = Remove(member, {<<u, g>>})
  /\ UNCHANGED <<user, group>>

\* Faulty variant: the memberships of the account stay.
DeleteAccountKeepingMemberships(u) ==
  /\ u \in LiveUsers
  /\ SoleAdminGroups(u) = {}
  /\ user' = [user EXCEPT ![u].deleted = TRUE]
  /\ UNCHANGED <<group, member>>

DeleteAccount(u) ==
  /\ u \in LiveUsers
  /\ SoleAdminGroups(u) = {}
  /\ member' = Remove(member, {u} \X Groups)
  /\ user' = [user EXCEPT ![u].deleted = TRUE]
  /\ UNCHANGED group

-----------------------------------------------------------------------------
Init ==
  /\ user = EmptyTable
  /\ group = EmptyTable
  /\ member = EmptyTable

AccountStep(u) == Register(u) \/ DeleteAccount(u)

GroupStep(u, g) ==
  CreateGroup(u, g) \/ JoinGroup(u, g) \/ LeaveGroup(u, g) \/ DeleteGroup(u, g)

ManagerStep(a, u, g) ==
  RemoveMember(a, u, g) \/ \E role \in FormRole : ChangeMemberRole(a, u, g, role)

Next ==
  \E u \in Users :
    \/ AccountStep(u)
    \/ \E g \in Groups : GroupStep(u, g) \/ \E a \in Users : ManagerStep(a, u, g)

Spec == Init /\ [][Next]_vars

-----------------------------------------------------------------------------
(* Properties. *)

(***************************************************************************)
(* No farm is orphaned: a live group has an administrator whose account    *)
(* lives, through leaving, demoting, removing and deleting accounts in any *)
(* order and by anyone.                                                    *)
(***************************************************************************)
GroupsKeepAnAdmin == \A g \in LiveGroups : Admins(g) # {}

(***************************************************************************)
(* A deleted account has no place anywhere: neither a membership left over *)
(* from before nor one gained since.                                       *)
(***************************************************************************)
DeletedAccountsBelongNowhere ==
  \A u \in Users, g \in Groups : IsMember(u, g) => u \in LiveUsers /\ g \in DOMAIN group

(***************************************************************************)
(* Nobody comes into a deleted group or rises in it.                       *)
(***************************************************************************)
DeletedGroupsOnlyShrink ==
  [][\A g \in DOMAIN group \ LiveGroups : \A u \in Users :
       IsMember(u, g)' => IsMember(u, g) /\ member'[<<u, g>>] = member[<<u, g>>]]_vars

=============================================================================
