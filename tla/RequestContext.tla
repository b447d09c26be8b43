--------------------------- MODULE RequestContext ---------------------------
(***************************************************************************)
(* Which group a request of one browser acts in.  The browser keeps a      *)
(* signed cookie with the session, the user, the active group and, for an  *)
(* operator of the platform, a support view of a group.  Each request      *)
(* resolves the cookie it was sent with against the tables, may remember   *)
(* the group it opened as the user's last, and may answer with a new       *)
(* cookie.                                                                 *)
(*                                                                         *)
(* One request of the browser is slow: others, and people elsewhere, come  *)
(* between its sending, its handling and its answer, so that it may use    *)
(* an old cookie and put an old one back.                                  *)
(*                                                                         *)
(* Left out: the expiry of sessions and passwords (Sessions), the tier of  *)
(* a group (Billing), and the data pages other than the members' page.     *)
(***************************************************************************)
EXTENDS Membership

CONSTANTS
  Operators,      \* users the settings name as platform administrators
  SessionIds,     \* session keys: the bound of an instance
  None,           \* NULL, or no cookie
  NoAnswer        \* a response that sets no cookie

VARIABLES
  last,           \* users.last_group_id
  session,        \* table user_sessions
  jar,            \* the cookie the browser holds
  slow            \* the slow request

cvars == <<user, group, member, last, session, jar, slow>>

-----------------------------------------------------------------------------
(* Cookies and what they resolve to. *)

Session == [user : Users, revoked : BOOLEAN]

Cookie == [sid : SessionIds, user : Users, active : Groups \cup {None},
           view : Groups \cup {None}]

NotSent == [at |-> "nothing"]

\* Only the group of the cookie and the group of the view change hands.
WithGroup(data, g) == [data EXCEPT !.active = g, !.view = None]

\* get_active_session, and the user of the session and of the cookie.
Authenticated(data) ==
  /\ data # None
  /\ data.sid \in DOMAIN session
  /\ ~session[data.sid].revoked
  /\ session[data.sid].user = data.user
  /\ data.user \in LiveUsers

ViewIsValid(data) ==
  /\ data.view # None
  /\ data.view = data.active
  /\ data.user \in Operators

MyGroups(u) == {g \in LiveGroups : IsMember(u, g)}

\* default_group_for_user; who joined first is not modelled.
Defaults(u) ==
  CASE last[u] \in MyGroups(u)                          -> {last[u]}
    [] last[u] \notin MyGroups(u) /\ MyGroups(u) # {}   -> MyGroups(u)
    [] OTHER                                            -> {None}

Views(data) == ViewIsValid(data) /\ data.active \in LiveGroups

\* The groups _attach_user_to_request may open.
Opens(data) ==
  IF Views(data) \/ data.active \in MyGroups(data.user) THEN {data.active} ELSE Defaults(data.user)

\* Faulty variant: the support view is remembered too.
RemembersAnyView(data, g) == g # None

Remembers(data, g) == g # None /\ ~Views(data)

\* The tail of _attach_user_to_request: remember_last_group.
Attach(data, g) ==
  last' = IF Remembers(data, g) THEN [last EXCEPT ![data.user] = g] ELSE last

\* Faulty variant: a stale group is left in the cookie.
RefreshesNothing(data, g) == NoAnswer

\* What StaleActiveGroupMiddleware answers when the handler sets no cookie.
Refreshed(data, g) ==
  IF (g # data.active) \/ (data.view # None /\ ~ViewIsValid(data))
    THEN WithGroup(data, g) ELSE NoAnswer

\* Faulty variant: only pages of the group are closed to the view.
AllowsGroupForms(op) == op # "members"

\* _platform_view_allows_request.
ViewAllows(op) == op \in {"page", "enter", "exit", "logout"}

Refused(data, op) == Authenticated(data) /\ ViewIsValid(data) /\ ~ViewAllows(op)

-----------------------------------------------------------------------------
(* A request from the jar is answered at once; the slow one has the cookie *)
(* of its sending, and its answer is still to come.                        *)

Via == {"jar", "slow"}

Data(via) ==
  CASE via = "jar"                        -> jar
    [] via = "slow" /\ slow.at = "sent"   -> slow.data
    [] via = "slow" /\ slow.at # "sent"   -> None

Applied(answer) == IF answer = NoAnswer THEN jar ELSE answer

Answer(via, answer) ==
  IF via = "jar"
    THEN jar' = Applied(answer) /\ slow' = slow
    ELSE slow' = [at |-> "answered", answer |-> answer] /\ jar' = jar

Send ==
  /\ slow.at = "nothing"
  /\ jar # None
  /\ slow' = [at |-> "sent", data |-> jar]
  /\ UNCHANGED <<user, group, member, last, session, jar>>

Deliver ==
  /\ slow.at = "answered"
  /\ jar' = Applied(slow.answer)
  /\ slow' = NotSent
  /\ UNCHANGED <<user, group, member, last, session>>

\* No session, or a form in support view: nothing happens and no cookie is set.
TurnedAway(via, op) ==
  /\ Data(via) # None
  /\ ~Authenticated(Data(via)) \/ Refused(Data(via), op)
  /\ Answer(via, NoAnswer)
  /\ UNCHANGED <<user, group, member, last, session>>

\* A request that reaches its handler, with g as the active group.
Reaches(via, op, g) ==
  /\ Authenticated(Data(via))
  /\ ~Refused(Data(via), op)
  /\ g \in Opens(Data(via))

-----------------------------------------------------------------------------
(* Requests. *)

Page(via, g) ==
  /\ Reaches(via, "page", g)
  /\ Attach(Data(via), g)
  /\ Answer(via, Refreshed(Data(via), g))
  /\ UNCHANGED <<user, group, member, session>>

\* The members' page: its handlers ask for administrators of the active group.
Members(via, g, u) ==
  /\ Reaches(via, "members", g)
  /\ g # None
  /\ \/ RemoveMember(Data(via).user, u, g)
     \/ \E role \in FormRole : ChangeMemberRole(Data(via).user, u, g, role)
  /\ Attach(Data(via), g)
  /\ Answer(via, Refreshed(Data(via), g))
  /\ UNCHANGED session

\* The remembering of the attach is overwritten by that of the handler.
OpenGroup(via, h) ==
  /\ last' = [last EXCEPT ![Data(via).user] = h]
  /\ Answer(via, WithGroup(Data(via), h))
  /\ UNCHANGED session

Create(via, g, h) ==
  /\ Reaches(via, "groups", g)
  /\ CreateGroup(Data(via).user, h)
  /\ OpenGroup(via, h)

Join(via, g, h) ==
  /\ Reaches(via, "groups", g)
  /\ JoinGroup(Data(via).user, h)
  /\ OpenGroup(via, h)

Switch(via, g, h) ==
  /\ Reaches(via, "groups", g)
  /\ h \in MyGroups(Data(via).user)
  /\ OpenGroup(via, h)
  /\ UNCHANGED vars

\* After the active group is left or deleted another one is opened.
Replace(via, g, h) ==
  IF g # h
    THEN Attach(Data(via), g) /\ Answer(via, Refreshed(Data(via), g))
    ELSE \E u \in {Data(via).user} :
           \E next \in (IF MyGroups(u)' = {} THEN {None} ELSE MyGroups(u)') :
             /\ last' = [last EXCEPT ![u] = next]
             /\ Answer(via, WithGroup(Data(via), next))

Leave(via, g, h) ==
  /\ Reaches(via, "groups", g)
  /\ LeaveGroup(Data(via).user, h) \/ DeleteGroup(Data(via).user, h)
  /\ Replace(via, g, h)
  /\ UNCHANGED session

\* revoke_all_user_sessions, of the accounts that a step closes.
RevokeClosed ==
  session' = [s \in DOMAIN session |->
                [session[s] EXCEPT !.revoked = @ \/ session[s].user \notin LiveUsers']]

\* The account is closed, its sessions end and the cookie is cleared.
Close(via, g) ==
  /\ Reaches(via, "profile", g)
  /\ DeleteAccount(Data(via).user)
  /\ Attach(Data(via), g)
  /\ Answer(via, None)
  /\ RevokeClosed

\* A deleted group may be entered: the next page finds it gone.
Enter(via, g, h) ==
  /\ Reaches(via, "enter", g)
  /\ Data(via).user \in Operators
  /\ h \in DOMAIN group
  /\ Attach(Data(via), g)
  /\ Answer(via, [Data(via) EXCEPT !.active = h, !.view = h])
  /\ UNCHANGED <<user, group, member, session>>

Exit(via, g) ==
  /\ Reaches(via, "exit", g)
  /\ Data(via).user \in Operators
  /\ Attach(Data(via), g)
  /\ Answer(via, WithGroup(Data(via), None))
  /\ UNCHANGED <<user, group, member, session>>

\* Asks for no authentication: the session of the cookie is revoked.
Logout(via) ==
  /\ Data(via) # None
  /\ session' = [session EXCEPT ![Data(via).sid].revoked = TRUE]
  /\ Answer(via, None)
  /\ UNCHANGED <<user, group, member, last>>

Login(u, s) ==
  /\ u \in LiveUsers
  /\ s \in SessionIds \ DOMAIN session
  /\ session' = Insert(session, s, [user |-> u, revoked |-> FALSE])
  /\ jar' = [sid |-> s, user |-> u, active |-> None, view |-> None]
  /\ UNCHANGED <<user, group, member, last, slow>>

Browser(via) ==
  \/ TurnedAway(via, "members")
  \/ Logout(via)
  \/ \E g \in Groups \cup {None} :
       \/ Page(via, g) \/ Close(via, g) \/ Exit(via, g)
       \/ \E u \in Users : Members(via, g, u)
       \/ \E h \in Groups : \/ Create(via, g, h) \/ Join(via, g, h) \/ Switch(via, g, h)
                            \/ Leave(via, g, h) \/ Enter(via, g, h)

-----------------------------------------------------------------------------
(* Everybody else, and the same user in another browser. *)

\* The group a form elsewhere opened is remembered by OpenElsewhere.
Elsewhere == Next /\ RevokeClosed /\ UNCHANGED <<last, jar, slow>>

OpenElsewhere(u, g) ==
  /\ u \in LiveUsers
  /\ g \in MyGroups(u)
  /\ last' = [last EXCEPT ![u] = g]
  /\ UNCHANGED <<user, group, member, session, jar, slow>>

-----------------------------------------------------------------------------
CInit ==
  /\ Init
  /\ last = [u \in Users |-> None]
  /\ session = EmptyTable
  /\ jar = None
  /\ slow = NotSent

CNext ==
  \/ Elsewhere
  \/ \E u \in Users : \/ \E g \in Groups : OpenElsewhere(u, g)
                      \/ \E s \in SessionIds : Login(u, s)
  \/ Send \/ Deliver
  \/ \E via \in Via : Browser(via)

CSpec == CInit /\ [][CNext]_cvars

OpenSomePage == \E g \in Groups \cup {None} : Page("jar", g)

\* The user goes on opening pages, and answers arrive.
Fairness == WF_cvars(OpenSomePage) /\ WF_cvars(Deliver)

FairSpec == CSpec /\ Fairness

-----------------------------------------------------------------------------
(* Properties. *)

CTypeOK ==
  /\ TypeOK
  /\ last \in [Users -> Groups \cup {None}]
  /\ IsTable(session, SessionIds, Session)
  /\ jar \in Cookie \cup {None}
  /\ slow.at = "sent" => slow.data \in Cookie
  /\ slow.at = "answered" => slow.answer \in Cookie \cup {None, NoAnswer}

(***************************************************************************)
(* A support view only looks: no request sent with the cookie of one       *)
(* changes a membership, a group, an account or what anybody opened last,  *)
(* even for an operator who administers the group being viewed.  (Any      *)
(* request may be the slow one.)                                           *)
(***************************************************************************)
ViewsChangeNothing ==
  [][slow.at = "sent" /\ slow'.at = "answered" /\ Views(slow.data) =>
       UNCHANGED <<user, group, member, last>>]_cvars

(***************************************************************************)
(* The farm a login will open only ever changes to one its user belongs    *)
(* to: neither a support view nor an old cookie makes it another.          *)
(***************************************************************************)
LastGroupsAreOnesOwn ==
  [][\A u \in Users : last'[u] # last[u] =>
       last'[u] \in {None} \cup MyGroups(u) \cup MyGroups(u)']_cvars

\* The cookie names a group its user may open, or none if there is none.
Fits(data) ==
  Authenticated(data) =>
    \/ Views(data)
    \/ data.view = None /\ data.active \in MyGroups(data.user)
    \/ data.view = None /\ data.active = None /\ MyGroups(data.user) = {}

(***************************************************************************)
(* Once the tables come to rest the cookie does not stay stale: however    *)
(* late an old one is put back, a page replaces it.                        *)
(***************************************************************************)
CookiesSettle ==
  <>[][UNCHANGED <<user, group, member, session>>]_cvars => []<>Fits(jar)

=============================================================================
