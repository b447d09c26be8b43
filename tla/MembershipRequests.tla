------------------------- MODULE MembershipRequests -------------------------
(***************************************************************************)
(* The requests of Membership taken apart: the dependencies of a handler   *)
(* run in a thread pool and read the user and, for an administrator's      *)
(* page, the role; then the handler body checks; then it commits.  Other   *)
(* requests come in between.                                               *)
(*                                                                         *)
(* The variables of Membership are the committed tables.  On one replica   *)
(* the bodies run one after the other on the event loop, dependencies of   *)
(* other requests in between; on several, everything interleaves.          *)
(***************************************************************************)
EXTENDS Membership

CONSTANT Requests     \* the requests that can be open at once

VARIABLES
  req,          \* what each open request has decided to do
  oneReplica    \* whether one replica serves them all: a fact of the deployment

rvars == <<user, group, member, req, oneReplica>>

Idle == [at |-> "idle"]

Reply(r) == req' = [req EXCEPT ![r] = Idle]

\* Request r has passed its checks and will write op.
Writing(r, op) == req[r].at = "commit" /\ req[r].op = op

\* Faulty variant: handler bodies of one replica run in parallel.
BodyAlwaysFree(r) == TRUE

BodyFree(r) == oneReplica => \A q \in Requests \ {r} : req[q].at # "commit"

\* The administrator acts on v; for the other calls v is the user.  A role
\* that is none is refused before anything is read.
Call == [op : {"create", "join", "leave", "delete", "close"},
         u : Users, v : Users, g : Groups, role : {"admin"}]
          \cup [op : {"role", "remove"}, u : Users, v : Users, g : Groups, role : Role]

-----------------------------------------------------------------------------
\* get_current_user, and require_role(admin) where the handler asks for it.
Authenticate(r, call) ==
  /\ req[r] = Idle
  /\ call.u \in LiveUsers
  /\ IF call.op \in {"role", "remove"}
       THEN call.g \in LiveGroups /\ IsAdmin(call.u, call.g)
       ELSE call.v = call.u
  /\ req' = [req EXCEPT ![r] = [at |-> "body", call |-> call]]
  /\ UNCHANGED vars

\* The checks of each handler body, on what is committed now.
Admits(call) ==
  CASE call.op = "create" -> Groups \ DOMAIN group # {}
    [] call.op = "join"   -> call.g \in GroupsToJoin /\ ~IsMember(call.u, call.g)
    [] call.op = "leave"  -> MayLeave(call.u, call.g)
    [] call.op = "delete" -> IsAdmin(call.u, call.g) /\ call.g \in LiveGroups
    [] call.op = "close"  -> SoleAdminGroups(call.u) = {}
    [] OTHER              -> call.u # call.v /\ IsMember(call.v, call.g)

\* The role a manager's request has loaded.
LoadedRole(call) == IF IsMember(call.v, call.g) THEN member[<<call.v, call.g>>] ELSE "reader"

Check(r) ==
  /\ req[r].at = "body"
  /\ BodyFree(r)
  /\ LET call == req[r].call
     IN  \/ /\ Admits(call)
            /\ req' = [req EXCEPT ![r] = [at |-> "commit", op |-> call.op, u |-> call.u,
                                          v |-> call.v, g |-> call.g, role |-> call.role,
                                          loaded |-> LoadedRole(call)]]
         \/ ~Admits(call) /\ Reply(r)
  /\ UNCHANGED vars

-----------------------------------------------------------------------------
(* The commits.  A key conflict or a row that is gone is an error 500, and *)
(* nothing is written; so it is when this instance has no group key left.  *)

CommitCreate(r) ==
  /\ Writing(r, "create")
  /\ \/ \E g \in Groups \ DOMAIN group :
          /\ group' = Insert(group, g, [deleted |-> FALSE])
          /\ member' = Insert(member, <<req[r].u, g>>, "admin")
     \/ Groups \ DOMAIN group = {} /\ UNCHANGED <<group, member>>
  /\ Reply(r)
  /\ UNCHANGED user

CommitJoin(r) ==
  /\ Writing(r, "join")
  /\ member' = IF IsMember(req[r].u, req[r].g)
                 THEN member ELSE Insert(member, <<req[r].u, req[r].g>>, "contributor")
  /\ Reply(r)
  /\ UNCHANGED <<user, group>>

\* DELETE of a row that is gone already deletes nothing.
CommitRemoval(r) ==
  /\ Writing(r, "leave") \/ Writing(r, "remove")
  /\ member' = Remove(member, {<<req[r].v, req[r].g>>})
  /\ Reply(r)
  /\ UNCHANGED <<user, group>>

\* Faulty variant: the row is merged, so a membership that is gone comes back.
MergeRole(r) ==
  /\ Writing(r, "role")
  /\ member' = Insert(member, <<req[r].v, req[r].g>>, req[r].role)
  /\ Reply(r)
  /\ UNCHANGED <<user, group>>

\* The UPDATE is sent only if the role differs from the one loaded.
CommitRole(r) ==
  /\ Writing(r, "role")
  /\ member' = IF IsMember(req[r].v, req[r].g) /\ req[r].role # req[r].loaded
                 THEN [member EXCEPT ![<<req[r].v, req[r].g>>] = req[r].role] ELSE member
  /\ Reply(r)
  /\ UNCHANGED <<user, group>>

CommitDeletion(r) ==
  /\ Writing(r, "delete")
  /\ group' = [group EXCEPT ![req[r].g].deleted = TRUE]
  /\ Reply(r)
  /\ UNCHANGED <<user, member>>

\* delete_user_account: the rows there are now go, whenever they came.
CommitClosure(r) ==
  /\ Writing(r, "close")
  /\ member' = Remove(member, {req[r].u} \X Groups)
  /\ user' = [user EXCEPT ![req[r].u].deleted = TRUE]
  /\ Reply(r)
  /\ UNCHANGED group

\* The replica or its connection dies: the transaction is rolled back.
Die(r) == req[r] # Idle /\ Reply(r) /\ UNCHANGED vars

-----------------------------------------------------------------------------
RInit == Init /\ req = [r \in Requests |-> Idle] /\ oneReplica \in BOOLEAN

Commit(r) ==
  \/ CommitCreate(r) \/ CommitJoin(r) \/ CommitRemoval(r) \/ CommitRole(r)
  \/ CommitDeletion(r) \/ CommitClosure(r)

RequestStep(r) ==
  \/ \E call \in Call : Authenticate(r, call)
  \/ Check(r) \/ Commit(r) \/ Die(r)

RNext ==
  /\ \/ \E u \in Users : Register(u) /\ UNCHANGED req
     \/ \E r \in Requests : RequestStep(r)
  /\ UNCHANGED oneReplica

RSpec == RInit /\ [][RNext]_rvars

-----------------------------------------------------------------------------
(* Properties. *)

(***************************************************************************)
(* On one replica only an administrator who has lost that role since the   *)
(* role was checked can take the last administrator from a live group:     *)
(* leaving and closing an account are safe there, their checks and writes  *)
(* being in one body.                                                      *)
(***************************************************************************)
ByStaleAdmin(r, g) ==
  /\ Writing(r, "role") \/ Writing(r, "remove")
  /\ req[r].g = g
  /\ req[r].u \notin Admins(g)

OnlyStaleAdminsOrphan ==
  [][oneReplica =>
       \A g \in LiveGroups : Admins(g) # {} /\ Admins(g)' = {} =>
         \E r \in Requests : ByStaleAdmin(r, g) /\ req'[r] = Idle]_rvars

(***************************************************************************)
(* Whoever was removed, left or closed the account while a request about   *)
(* them was open is not brought back by it: the only way into an existing  *)
(* group is joining as a contributor.                                      *)
(***************************************************************************)
MembershipsStartByJoining ==
  [][\A u \in Users, g \in DOMAIN group :
       IsMember(u, g)' /\ ~IsMember(u, g) => member'[<<u, g>>] = "contributor"]_rvars

=============================================================================
