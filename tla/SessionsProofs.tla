--------------------------- MODULE SessionsProofs ---------------------------
(***************************************************************************)
(* Theorems about Sessions, for every Idle, Absolute and Slide, any number *)
(* of sessions and requests, and histories of any length.                  *)
(***************************************************************************)
EXTENDS Sessions, TLAPS

-----------------------------------------------------------------------------
(* The inductive invariant. *)

Request ==
  {Closed}
    \cup [at : {"start"}, knows : Passwords]
    \cup [at : {"change", "revoke"}, s : SessionIds]
    \cup [at : {"reset"}, of : Passwords]
    \cup [at : {"renew"}, of : Passwords, ids : SUBSET SessionIds]

STypeOK ==
  /\ TypeOK
  /\ req \in [Requests -> Request]
  /\ oneReplica \in BOOLEAN
  /\ torn \in BOOLEAN

\* When a session ends by its last use.
EndByUse(s) ==
  IF used[s] + Idle < AbsoluteEnd(session[s]) THEN used[s] + Idle ELSE AbsoluteEnd(session[s])

\* What is written lags behind the last use by less than Slide.
ExpiryFollowsUse ==
  \A s \in DOMAIN session :
    /\ used[s] <= now
    /\ session[s].expires <= EndByUse(s)
    /\ EndByUse(s) < session[s].expires + Slide

\* On one replica a body is served alone, so what it has read still holds.
BodiesAreAlone ==
  oneReplica =>
    /\ \A q, r \in Requests : req[q].at \in InBody /\ req[r].at \in InBody => q = r
    /\ \A r \in Requests :
         /\ req[r].at = "start" => req[r].knows = password
         /\ req[r].at \in {"reset", "renew"} => req[r].of = password
         /\ req[r].at = "renew" => DOMAIN session \subseteq req[r].ids

\* A request that has yet to revoke changed the password from its session.
ChangersAreKept == \A r \in Requests : req[r].at = "revoke" => req[r].s \in kept

NoneRevokes == \A r \in Requests : req[r].at # "revoke"

\* The table itself follows the password, not only what is live in it.
RowsFollowPassword ==
  oneReplica /\ ~torn /\ NoneRevokes =>
    \A s \in DOMAIN session : ~session[s].revoked => under[s] = password \/ s \in kept

IInv ==
  /\ STypeOK
  /\ ExpiryFollowsUse
  /\ BodiesAreAlone
  /\ ChangersAreKept
  /\ RowsFollowPassword

-----------------------------------------------------------------------------
(* Rows. *)

\* Sliding a session in use writes a deadline that follows the use.
LEMMA SlidFollows ==
  ASSUME IInv, NEW s \in DOMAIN session
  PROVE  /\ Slid(session[s]) \in UserSession
         /\ Slid(session[s]).created = session[s].created
         /\ Slid(session[s]).revoked = session[s].revoked
         /\ Slid(session[s]).expires <= NextExpiry(session[s])
         /\ NextExpiry(session[s]) < Slid(session[s]).expires + Slide
  <1> DEFINE row == session[s]
  <1>1. /\ row \in UserSession
        /\ row.created \in Nat /\ row.created <= bound.time
        /\ row.expires \in Nat /\ now \in Nat /\ bound.time \in Nat
        /\ used[s] \in Nat
    BY BoundsAssumption DEF IInv, STypeOK, TypeOK, Time, UserSession, IsTable
  <1>2. row.expires <= NextExpiry(row)
    BY <1>1, AgesAssumption DEF IInv, ExpiryFollowsUse, EndByUse, NextExpiry, AbsoluteEnd
  <1>3. NextExpiry(row) \in 0..(bound.time + Absolute)
    BY <1>1, AgesAssumption DEF NextExpiry, AbsoluteEnd
  <1>4. CASE NextExpiry(row) - row.expires < Slide
    BY <1>1, <1>2, <1>3, <1>4, AgesAssumption DEF Slid
  <1>5. CASE ~(NextExpiry(row) - row.expires < Slide)
    <2>1. Slid(row) = [row EXCEPT !.expires = NextExpiry(row)]
      BY <1>5 DEF Slid
    <2>2. /\ Slid(row) \in UserSession
          /\ Slid(row).expires = NextExpiry(row)
          /\ Slid(row).created = row.created
          /\ Slid(row).revoked = row.revoked
      BY <1>1, <1>3, <2>1 DEF UserSession
    <2>3. QED BY <1>3, <2>2, AgesAssumption
  <1>6. QED BY <1>4, <1>5

\* Revoking keeps the table and its deadlines; no row is revived.
LEMMA RevokedRows ==
  ASSUME NEW table, IsTable(table, SessionIds, UserSession), NEW ids
  PROVE  /\ IsTable(RevokedIn(table, ids), SessionIds, UserSession)
         /\ DOMAIN RevokedIn(table, ids) = DOMAIN table
         /\ \A s \in DOMAIN table :
              /\ RevokedIn(table, ids)[s].expires = table[s].expires
              /\ RevokedIn(table, ids)[s].created = table[s].created
              /\ table[s].revoked => RevokedIn(table, ids)[s].revoked
              /\ s \in ids => RevokedIn(table, ids)[s].revoked
  BY DEF IsTable, RevokedIn, UserSession

\* The page slides the row of its session and leaves the others.
LEMMA PageSlides ==
  ASSUME IInv, NEW s \in DOMAIN session
  PROVE  LET slid == [session EXCEPT ![s] = Slid(@)]
         IN /\ IsTable(slid, SessionIds, UserSession)
            /\ DOMAIN slid = DOMAIN session
            /\ slid[s] = Slid(session[s])
            /\ \A t \in DOMAIN session : t # s => slid[t] = session[t]
            /\ \A t \in DOMAIN session : slid[t].revoked = session[t].revoked
  BY SlidFollows DEF IInv, STypeOK, TypeOK, IsTable

-----------------------------------------------------------------------------
(* What the steps have in common. *)

\* A step that uses session s, and may revoke some.
Touches(s) ==
  /\ DOMAIN session' = DOMAIN session
  /\ IsTable(session', SessionIds, UserSession)
  /\ used' = [used EXCEPT ![s] = now]
  /\ \A t \in DOMAIN session :
       /\ session'[t].created = session[t].created
       /\ session'[t].expires = IF t = s THEN Slid(session[t]).expires ELSE session[t].expires
       /\ session[t].revoked => session'[t].revoked

\* Using a session keeps the types and the deadlines.
LEMMA TouchKeepsExpiry ==
  ASSUME IInv, NEW s \in DOMAIN session, Touches(s), UNCHANGED <<bound, now>>
  PROVE  used' \in [SessionIds -> Time'] /\ ExpiryFollowsUse'
  <1> USE DEF Touches
  <1>1. /\ used \in [SessionIds -> Time] /\ now \in Time /\ Time \subseteq Nat
        /\ DOMAIN session \subseteq SessionIds
        /\ \A t \in DOMAIN session : session[t] \in UserSession
    BY BoundsAssumption DEF IInv, STypeOK, TypeOK, IsTable, Time
  <1>2. used' \in [SessionIds -> Time']
    BY <1>1 DEF Time
  <1>3. ASSUME NEW t \in DOMAIN session'
        PROVE  /\ used'[t] <= now'
               /\ session'[t].expires <= EndByUse(t)'
               /\ EndByUse(t)' < session'[t].expires + Slide
    <2>1. CASE t = s
      <3>1. used'[s] = now
        BY <1>1
      <3>2. EndByUse(s)' = NextExpiry(session[s])
        BY <3>1 DEF EndByUse, NextExpiry, AbsoluteEnd
      <3>3. QED BY <1>1, <2>1, <3>1, <3>2, SlidFollows
    <2>2. CASE t # s
      <3>1. used'[t] = used[t] /\ EndByUse(t)' = EndByUse(t)
        BY <1>1, <2>2 DEF EndByUse, AbsoluteEnd
      <3>2. QED BY <2>2, <3>1 DEF IInv, ExpiryFollowsUse
    <2>3. QED BY <2>1, <2>2
  <1>4. QED BY <1>2, <1>3 DEF ExpiryFollowsUse

\* Revoking sessions keeps the deadlines.
LEMMA RevokeKeepsExpiry ==
  ASSUME IInv, NEW ids, session' = RevokedIn(session, ids), UNCHANGED <<now, used>>
  PROVE  ExpiryFollowsUse'
  BY RevokedRows DEF IInv, STypeOK, TypeOK, ExpiryFollowsUse, EndByUse, AbsoluteEnd

\* A page touches its session.
LEMMA PageTouches ==
  ASSUME IInv, NEW s, Page(s)
  PROVE  s \in DOMAIN session /\ Touches(s) /\ DOMAIN session \subseteq SessionIds
         /\ \A t \in DOMAIN session : session'[t].revoked = session[t].revoked
  <1>1. s \in DOMAIN session /\ session' = [session EXCEPT ![s] = Slid(@)]
    BY DEF Page, LiveSessions
  <1>2. DOMAIN session \subseteq SessionIds
    BY DEF IInv, STypeOK, TypeOK, IsTable
  <1>3. /\ Slid(session[s]).created = session[s].created
    BY <1>1, SlidFollows
  <1>4. QED BY <1>1, <1>2, <1>3, PageSlides DEF Touches, Page

-----------------------------------------------------------------------------
(* Every step keeps the invariant. *)

LEMMA UseInv ==
  ASSUME IInv, NEW s, Use(s)
  PROVE  IInv'
  <1>1. Page(s) /\ UNCHANGED <<bound, now, password, tokens, req, oneReplica, under, kept, torn>>
    BY DEF Use
  <1>2. /\ s \in DOMAIN session /\ Touches(s) /\ DOMAIN session \subseteq SessionIds
        /\ \A t \in DOMAIN session : session'[t].revoked = session[t].revoked
    BY <1>1, PageTouches
  <1>3. used' \in [SessionIds -> Time'] /\ ExpiryFollowsUse'
    BY <1>1, <1>2, TouchKeepsExpiry
  <1>4. STypeOK'
    BY <1>1, <1>2, <1>3 DEF IInv, STypeOK, TypeOK, Touches, UserSession, Time, Passwords, Request
  <1>5. BodiesAreAlone' /\ ChangersAreKept'
    BY <1>1, <1>2 DEF IInv, BodiesAreAlone, ChangersAreKept, Touches
  <1>6. RowsFollowPassword'
    BY <1>1, <1>2 DEF IInv, RowsFollowPassword, NoneRevokes, Touches
  <1>7. QED BY <1>3, <1>4, <1>5, <1>6 DEF IInv

LEMMA OpenChangeInv ==
  ASSUME IInv, NEW r \in Requests, NEW s, OpenChange(r, s)
  PROVE  IInv'
  <1>1. /\ Page(s) /\ UNCHANGED <<bound, now, password, tokens, oneReplica, under, kept, torn>>
        /\ req[r] = Closed
        /\ req' = [req EXCEPT ![r] = [at |-> "change", s |-> s]]
    BY DEF OpenChange
  <1>2. /\ s \in DOMAIN session /\ Touches(s) /\ DOMAIN session \subseteq SessionIds
        /\ \A t \in DOMAIN session : session'[t].revoked = session[t].revoked
    BY <1>1, PageTouches
  <1>3. used' \in [SessionIds -> Time'] /\ ExpiryFollowsUse'
    BY <1>1, <1>2, TouchKeepsExpiry
  <1>4. /\ req' \in [Requests -> Request]
        /\ req'[r].at = "change"
        /\ \A q \in Requests : q # r => req'[q] = req[q]
    BY <1>1, <1>2 DEF IInv, STypeOK, Request
  <1>5. STypeOK'
    BY <1>1, <1>2, <1>3, <1>4
      DEF IInv, STypeOK, TypeOK, Touches, UserSession, Time, Passwords, Request
  <1>6. BodiesAreAlone'
    BY <1>1, <1>2, <1>4 DEF IInv, BodiesAreAlone, Touches, InBody
  <1>7. ChangersAreKept'
    BY <1>1, <1>4 DEF IInv, ChangersAreKept
  <1>8. RowsFollowPassword'
    <2>1. NoneRevokes' => NoneRevokes
      BY <1>1, <1>4 DEF NoneRevokes, Closed
    <2>2. QED BY <1>1, <1>2, <2>1 DEF IInv, RowsFollowPassword, Touches
  <1>9. QED BY <1>3, <1>5, <1>6, <1>7, <1>8 DEF IInv

LEMMA LogoutInv ==
  ASSUME IInv, NEW s, Logout(s)
  PROVE  IInv'
  <1>1. /\ session' = RevokedIn(session, {s})
        /\ UNCHANGED <<bound, now, password, tokens, req, oneReplica, history>>
    BY DEF Logout
  <1> USE DEF history
  <1>2. ExpiryFollowsUse'
    BY <1>1, RevokeKeepsExpiry
  <1>3. /\ IsTable(session', SessionIds, UserSession) /\ DOMAIN session' = DOMAIN session
        /\ \A t \in DOMAIN session : session[t].revoked => session'[t].revoked
    BY <1>1, RevokedRows DEF IInv, STypeOK, TypeOK
  <1>4. STypeOK'
    BY <1>1, <1>3 DEF IInv, STypeOK, TypeOK, UserSession, Time, Passwords, Request
  <1>5. BodiesAreAlone' /\ ChangersAreKept'
    BY <1>1, <1>3 DEF IInv, BodiesAreAlone, ChangersAreKept
  <1>6. RowsFollowPassword'
    BY <1>1, <1>3 DEF IInv, RowsFollowPassword, NoneRevokes
  <1>7. QED BY <1>2, <1>4, <1>5, <1>6 DEF IInv

LEMMA RevokeInv ==
  ASSUME IInv, NEW s, NEW ids, Revoke(s, ids)
  PROVE  IInv'
  <1> DEFINE slid == [session EXCEPT ![s] = Slid(@)]
  <1>1. /\ s \in DOMAIN session
        /\ session' = RevokedIn(slid, ids)
        /\ used' = [used EXCEPT ![s] = now]
        /\ UNCHANGED <<bound, now, password, tokens, req, oneReplica, under, kept, torn>>
    BY DEF Revoke, LiveSessions
  <1>2. /\ IsTable(slid, SessionIds, UserSession) /\ DOMAIN slid = DOMAIN session
        /\ slid[s] = Slid(session[s])
        /\ \A t \in DOMAIN session : t # s => slid[t] = session[t]
        /\ \A t \in DOMAIN session : slid[t].revoked = session[t].revoked
    BY <1>1, PageSlides
  <1> HIDE DEF slid
  <1>3. /\ IsTable(session', SessionIds, UserSession) /\ DOMAIN session' = DOMAIN session
        /\ \A t \in DOMAIN session :
             /\ session'[t].expires = slid[t].expires
             /\ session'[t].created = slid[t].created
             /\ session[t].revoked => session'[t].revoked
    BY <1>1, <1>2, RevokedRows
  <1>4. Slid(session[s]).created = session[s].created
    BY <1>1, SlidFollows
  <1>5. Touches(s)
    BY <1>1, <1>2, <1>3, <1>4 DEF Touches
  <1>6. used' \in [SessionIds -> Time'] /\ ExpiryFollowsUse'
    BY <1>1, <1>5, TouchKeepsExpiry
  <1>7. STypeOK'
    BY <1>1, <1>3, <1>6 DEF IInv, STypeOK, TypeOK, UserSession, Time, Passwords, Request
  <1>8. BodiesAreAlone' /\ ChangersAreKept'
    BY <1>1, <1>3 DEF IInv, BodiesAreAlone, ChangersAreKept
  <1>9. RowsFollowPassword'
    BY <1>1, <1>3 DEF IInv, RowsFollowPassword, NoneRevokes
  <1>10. QED BY <1>6, <1>7, <1>8, <1>9 DEF IInv

LEMMA ForgotInv ==
  ASSUME IInv, Forgot
  PROVE  IInv'
  <1> USE DEF Forgot, history
  <1>1. STypeOK'
    BY DEF IInv, STypeOK, TypeOK, UserSession, Time, Passwords, Request
  <1>2. ExpiryFollowsUse' /\ BodiesAreAlone' /\ ChangersAreKept' /\ RowsFollowPassword'
    BY DEF IInv, ExpiryFollowsUse, EndByUse, AbsoluteEnd, BodiesAreAlone, ChangersAreKept,
           RowsFollowPassword, NoneRevokes
  <1>3. QED BY <1>1, <1>2 DEF IInv

LEMMA TickInv ==
  ASSUME IInv, Tick
  PROVE  IInv'
  <1> USE DEF Tick, history
  <1>1. STypeOK'
    <2>1. now' \in Time' /\ Time' = Time /\ Passwords' = Passwords /\ UserSession' = UserSession
      BY BoundsAssumption DEF IInv, STypeOK, TypeOK, Time, Passwords, UserSession
    <2>2. Request' = Request
      BY <2>1 DEF Request
    <2>3. QED BY <2>1, <2>2 DEF IInv, STypeOK, TypeOK
  <1>2. ExpiryFollowsUse'
    <2>1. /\ now \in Nat /\ \A s \in DOMAIN session : used[s] \in Nat
      BY BoundsAssumption DEF IInv, STypeOK, TypeOK, IsTable, Time
    <2>2. QED BY <2>1 DEF IInv, ExpiryFollowsUse, EndByUse, AbsoluteEnd
  <1>3. BodiesAreAlone' /\ ChangersAreKept' /\ RowsFollowPassword'
    BY DEF IInv, BodiesAreAlone, ChangersAreKept, RowsFollowPassword, NoneRevokes
  <1>4. QED BY <1>1, <1>2, <1>3 DEF IInv

LEMMA VerifyInv ==
  ASSUME IInv, NEW r \in Requests, Verify(r)
  PROVE  IInv'
  <1> USE DEF history
  <1>1. /\ req'[r] = [at |-> "start", knows |-> password]
        /\ \A q \in Requests : q # r => req'[q] = req[q]
        /\ req' \in [Requests -> Request]
    BY DEF Verify, IInv, STypeOK, TypeOK, Request
  <1>2. STypeOK'
    BY <1>1 DEF Verify, IInv, STypeOK, TypeOK, UserSession, Time, Passwords, Request
  <1>3. ExpiryFollowsUse' /\ ChangersAreKept'
    BY <1>1 DEF Verify, IInv, ExpiryFollowsUse, EndByUse, AbsoluteEnd, ChangersAreKept
  <1>4. BodiesAreAlone'
    BY <1>1 DEF Verify, IInv, BodiesAreAlone, BodyFree, InBody
  <1>5. RowsFollowPassword'
    <2>1. NoneRevokes' => NoneRevokes
      BY <1>1 DEF Verify, NoneRevokes, Closed
    <2>2. QED BY <2>1 DEF Verify, IInv, RowsFollowPassword
  <1>6. QED BY <1>2, <1>3, <1>4, <1>5 DEF IInv

LEMMA StartSessionInv ==
  ASSUME IInv, NEW r \in Requests, NEW s, StartSession(r, s)
  PROVE  IInv'
  <1> DEFINE row == [created |-> now, expires |-> now + Idle, revoked |-> FALSE]
  <1>1. /\ req[r].at = "start" /\ s \in SessionIds /\ s \notin DOMAIN session
        /\ session' = Insert(session, s, row)
        /\ used' = [used EXCEPT ![s] = now]
        /\ under' = [under EXCEPT ![s] = req[r].knows]
        /\ req' = [req EXCEPT ![r] = Closed]
        /\ UNCHANGED <<bound, now, password, tokens, oneReplica, kept, torn>>
    BY DEF StartSession, Reply
  <1>2. now \in Nat /\ bound.time \in Nat /\ now <= bound.time /\ row \in UserSession
    BY BoundsAssumption, AgesAssumption DEF IInv, STypeOK, TypeOK, Time, UserSession
  <1> HIDE DEF row
  <1>3. /\ IsTable(session', SessionIds, UserSession)
        /\ DOMAIN session' = DOMAIN session \cup {s}
        /\ session'[s] = row
        /\ \A t \in DOMAIN session : session'[t] = session[t]
        /\ DOMAIN session \subseteq SessionIds
    <2>1. IsTable(session, SessionIds, UserSession)
      BY DEF IInv, STypeOK, TypeOK
    <2>2. QED BY <1>1, <1>2, <2>1 DEF Insert, IsTable
  <1>4. /\ req' \in [Requests -> Request] /\ req'[r] = Closed
        /\ \A q \in Requests : q # r => req'[q] = req[q]
        /\ req[r].knows \in Passwords
    BY <1>1 DEF IInv, STypeOK, Request, Closed
  <1>5. STypeOK'
    BY <1>1, <1>3, <1>4 DEF IInv, STypeOK, TypeOK, UserSession, Time, Passwords, Request
  <1>6. ExpiryFollowsUse'
    <2>1. used' \in [SessionIds -> Time'] /\ used'[s] = now
          /\ \A t \in DOMAIN session : used'[t] = used[t]
      BY <1>1, <1>3 DEF IInv, STypeOK, TypeOK, Time
    <2>2. /\ used'[s] <= now'
          /\ session'[s].expires <= EndByUse(s)'
          /\ EndByUse(s)' < session'[s].expires + Slide
      BY <1>1, <1>2, <1>3, <2>1, AgesAssumption DEF row, EndByUse, AbsoluteEnd
    <2>3. QED BY <1>1, <1>3, <2>1, <2>2 DEF IInv, ExpiryFollowsUse, EndByUse, AbsoluteEnd
  <1>7. BodiesAreAlone'
    BY <1>1, <1>3, <1>4 DEF IInv, BodiesAreAlone, InBody, Closed
  <1>8. ChangersAreKept'
    BY <1>1, <1>4 DEF IInv, ChangersAreKept, Closed
  <1>9. RowsFollowPassword'
    <2>1. NoneRevokes' => NoneRevokes
      BY <1>1, <1>4 DEF NoneRevokes
    <2>2. under'[s] = req[r].knows /\ \A t \in DOMAIN session : under'[t] = under[t]
      BY <1>1, <1>3 DEF IInv, STypeOK, TypeOK
    <2>3. oneReplica => req[r].knows = password
      BY <1>1 DEF IInv, BodiesAreAlone
    <2>4. QED BY <1>1, <1>3, <2>1, <2>2, <2>3 DEF IInv, RowsFollowPassword
  <1>10. QED BY <1>5, <1>6, <1>7, <1>8, <1>9 DEF IInv

LEMMA ChangePasswordInv ==
  ASSUME IInv, NEW r \in Requests, ChangePassword(r)
  PROVE  IInv'
  <1>1. /\ req[r].at = "change" /\ BodyFree
        /\ password < bound.passwords /\ password' = password + 1
        /\ kept' = kept \cup {req[r].s}
        /\ req' = [req EXCEPT ![r] = [at |-> "revoke", s |-> req[r].s]]
        /\ UNCHANGED <<bound, now, session, tokens, oneReplica, used, under, torn>>
    BY DEF ChangePassword
  <1>2. req[r].s \in SessionIds
    BY <1>1 DEF IInv, STypeOK, Request, Closed
  <1>3. /\ req' \in [Requests -> Request]
        /\ req'[r] = [at |-> "revoke", s |-> req[r].s]
        /\ \A q \in Requests : q # r => req'[q] = req[q]
    BY <1>1, <1>2 DEF IInv, STypeOK, Request
  <1>4. password' \in Passwords'
    BY <1>1, BoundsAssumption DEF IInv, STypeOK, TypeOK, Passwords
  <1>5. STypeOK'
    BY <1>1, <1>2, <1>3, <1>4 DEF IInv, STypeOK, TypeOK, UserSession, Time, Passwords, Request
  <1>6. ExpiryFollowsUse' /\ ChangersAreKept'
    BY <1>1, <1>3 DEF IInv, ExpiryFollowsUse, EndByUse, AbsoluteEnd, ChangersAreKept
  <1>7. BodiesAreAlone'
    BY <1>1, <1>3 DEF IInv, BodiesAreAlone, BodyFree, InBody
  <1>8. RowsFollowPassword'
    BY <1>3 DEF RowsFollowPassword, NoneRevokes
  <1>9. QED BY <1>5, <1>6, <1>7, <1>8 DEF IInv

LEMMA RevokeOthersInv ==
  ASSUME IInv, NEW r \in Requests, RevokeOthers(r)
  PROVE  IInv'
  <1> USE DEF history
  <1>1. /\ req[r].at = "revoke"
        /\ session' = RevokedIn(session, DOMAIN session \ {req[r].s})
        /\ req' = [req EXCEPT ![r] = Closed]
        /\ UNCHANGED <<bound, now, password, tokens, oneReplica, history>>
    BY DEF RevokeOthers, Reply
  <1>2. /\ IsTable(session', SessionIds, UserSession) /\ DOMAIN session' = DOMAIN session
        /\ \A t \in DOMAIN session : t # req[r].s => session'[t].revoked
    BY <1>1, RevokedRows DEF IInv, STypeOK, TypeOK
  <1>3. /\ req' \in [Requests -> Request] /\ req'[r] = Closed
        /\ \A q \in Requests : q # r => req'[q] = req[q]
    BY <1>1 DEF IInv, STypeOK, Request
  <1>4. STypeOK'
    BY <1>1, <1>2, <1>3 DEF IInv, STypeOK, TypeOK, UserSession, Time, Passwords, Request
  <1>5. ExpiryFollowsUse'
    BY <1>1, RevokeKeepsExpiry
  <1>6. BodiesAreAlone'
    BY <1>1, <1>2, <1>3 DEF IInv, BodiesAreAlone, InBody, Closed
  <1>7. ChangersAreKept'
    BY <1>1, <1>3 DEF IInv, ChangersAreKept, Closed
  <1>8. RowsFollowPassword'
    BY <1>1, <1>2 DEF IInv, RowsFollowPassword, ChangersAreKept
  <1>9. QED BY <1>4, <1>5, <1>6, <1>7, <1>8 DEF IInv

LEMMA OpenResetInv ==
  ASSUME IInv, NEW r \in Requests, NEW k, OpenReset(r, k)
  PROVE  IInv'
  <1> USE DEF history
  <1>1. k = password /\ k \in Passwords
    BY DEF OpenReset, TokenFits, IInv, STypeOK, TypeOK
  <1>2. /\ req'[r] = [at |-> "reset", of |-> k]
        /\ \A q \in Requests : q # r => req'[q] = req[q]
        /\ req' \in [Requests -> Request]
    BY <1>1 DEF OpenReset, IInv, STypeOK, Request
  <1>3. STypeOK'
    BY <1>2 DEF OpenReset, IInv, STypeOK, TypeOK, UserSession, Time, Passwords, Request
  <1>4. ExpiryFollowsUse' /\ ChangersAreKept'
    BY <1>2 DEF OpenReset, IInv, ExpiryFollowsUse, EndByUse, AbsoluteEnd, ChangersAreKept
  <1>5. BodiesAreAlone'
    BY <1>1, <1>2 DEF OpenReset, IInv, BodiesAreAlone, BodyFree, InBody
  <1>6. RowsFollowPassword'
    <2>1. NoneRevokes' => NoneRevokes
      BY <1>2 DEF OpenReset, NoneRevokes, Closed
    <2>2. QED BY <2>1 DEF OpenReset, IInv, RowsFollowPassword
  <1>7. QED BY <1>3, <1>4, <1>5, <1>6 DEF IInv

LEMMA ReadSessionsInv ==
  ASSUME IInv, NEW r \in Requests, ReadSessions(r)
  PROVE  IInv'
  <1> USE DEF history
  <1>1. DOMAIN session \subseteq SessionIds
    BY DEF IInv, STypeOK, TypeOK, IsTable
  <1>2. /\ req[r].at = "reset" /\ req[r].of \in Passwords
        /\ req'[r] = [at |-> "renew", of |-> req[r].of, ids |-> DOMAIN session]
        /\ \A q \in Requests : q # r => req'[q] = req[q]
        /\ req' \in [Requests -> Request]
    BY <1>1 DEF ReadSessions, IInv, STypeOK, Request, Closed
  <1>3. STypeOK'
    BY <1>2 DEF ReadSessions, IInv, STypeOK, TypeOK, UserSession, Time, Passwords, Request
  <1>4. ExpiryFollowsUse' /\ ChangersAreKept'
    BY <1>2 DEF ReadSessions, IInv, ExpiryFollowsUse, EndByUse, AbsoluteEnd, ChangersAreKept
  <1>5. BodiesAreAlone'
    BY <1>2 DEF ReadSessions, IInv, BodiesAreAlone, InBody
  <1>6. RowsFollowPassword'
    <2>1. NoneRevokes' => NoneRevokes
      BY <1>2 DEF NoneRevokes
    <2>2. QED BY <2>1 DEF ReadSessions, IInv, RowsFollowPassword
  <1>7. QED BY <1>3, <1>4, <1>5, <1>6 DEF IInv

LEMMA CommitResetInv ==
  ASSUME IInv, NEW r \in Requests, CommitReset(r)
  PROVE  IInv'
  <1> USE DEF history
  <1>1. /\ req[r].at = "renew"
        /\ password < bound.passwords /\ password' = password + 1
        /\ session' = RevokedIn(session, req[r].ids)
        /\ req' = [req EXCEPT ![r] = Closed]
        /\ UNCHANGED <<bound, now, tokens, oneReplica, history>>
    BY DEF CommitReset, Reply
  <1>2. /\ IsTable(session', SessionIds, UserSession) /\ DOMAIN session' = DOMAIN session
        /\ \A t \in DOMAIN session : t \in req[r].ids => session'[t].revoked
    BY <1>1, RevokedRows DEF IInv, STypeOK, TypeOK
  <1>3. /\ req' \in [Requests -> Request] /\ req'[r] = Closed
        /\ \A q \in Requests : q # r => req'[q] = req[q]
    BY <1>1 DEF IInv, STypeOK, Request
  <1>4. password' \in Passwords'
    BY <1>1, BoundsAssumption DEF IInv, STypeOK, TypeOK, Passwords
  <1>5. STypeOK'
    BY <1>1, <1>2, <1>3, <1>4 DEF IInv, STypeOK, TypeOK, UserSession, Time, Passwords, Request
  <1>6. ExpiryFollowsUse'
    BY <1>1, RevokeKeepsExpiry
  <1>7. BodiesAreAlone'
    BY <1>1, <1>2, <1>3 DEF IInv, BodiesAreAlone, InBody, Closed
  <1>8. ChangersAreKept'
    BY <1>1, <1>3 DEF IInv, ChangersAreKept, Closed
  <1>9. RowsFollowPassword'
    BY <1>1, <1>2 DEF IInv, RowsFollowPassword, BodiesAreAlone
  <1>10. QED BY <1>5, <1>6, <1>7, <1>8, <1>9 DEF IInv

LEMMA DieInv ==
  ASSUME IInv, NEW r \in Requests, Die(r)
  PROVE  IInv'
  <1>1. /\ req' = [req EXCEPT ![r] = Closed]
        /\ torn' = (torn \/ req[r].at = "revoke")
        /\ UNCHANGED <<bound, now, password, session, tokens, oneReplica, used, under, kept>>
    BY DEF Die, Reply
  <1>2. /\ req' \in [Requests -> Request] /\ req'[r] = Closed
        /\ \A q \in Requests : q # r => req'[q] = req[q]
    BY <1>1 DEF IInv, STypeOK, Request
  <1>3. STypeOK'
    BY <1>1, <1>2 DEF IInv, STypeOK, TypeOK, UserSession, Time, Passwords, Request
  <1>4. ExpiryFollowsUse' /\ ChangersAreKept'
    BY <1>1, <1>2 DEF IInv, ExpiryFollowsUse, EndByUse, AbsoluteEnd, ChangersAreKept, Closed
  <1>5. BodiesAreAlone'
    BY <1>1, <1>2 DEF IInv, BodiesAreAlone, InBody, Closed
  <1>6. RowsFollowPassword'
    <2>1. ~torn' /\ NoneRevokes' => ~torn /\ NoneRevokes
      BY <1>1, <1>2 DEF NoneRevokes
    <2>2. QED BY <1>1, <2>1 DEF IInv, RowsFollowPassword
  <1>7. QED BY <1>3, <1>4, <1>5, <1>6 DEF IInv

LEMMA InitInv == Init => IInv
  <1> SUFFICES ASSUME Init
               PROVE  IInv
    OBVIOUS
  <1> USE DEF Init
  <1>1. bound.time \in Nat /\ bound.passwords \in Nat
    BY BoundsAssumption
  <1>2. IsTable(session, SessionIds, UserSession) /\ DOMAIN session = {}
    BY DEF IsTable, EmptyTable
  <1>3. STypeOK
    <2>1. req \in [Requests -> Request]
      BY DEF Request
    <2>2. TypeOK
      BY <1>1, <1>2 DEF TypeOK, Time, Passwords
    <2>3. QED BY <2>1, <2>2 DEF STypeOK
  <1>4. ExpiryFollowsUse /\ RowsFollowPassword
    BY <1>2 DEF ExpiryFollowsUse, RowsFollowPassword
  <1>5. BodiesAreAlone /\ ChangersAreKept
    BY DEF BodiesAreAlone, ChangersAreKept, InBody, Closed
  <1>6. QED BY <1>3, <1>4, <1>5 DEF IInv

LEMMA StepInv == IInv /\ [Next]_vars => IInv'
  <1> SUFFICES ASSUME IInv, [Next]_vars
               PROVE  IInv'
    OBVIOUS
  <1>1. CASE Tick \/ Forgot
    BY <1>1, TickInv, ForgotInv
  <1>2. CASE \E s \in SessionIds : SessionStep(s)
    BY <1>2, UseInv, LogoutInv, RevokeInv DEF SessionStep
  <1>3. CASE \E r \in Requests : RequestStep(r)
    <2>1. PICK r \in Requests : RequestStep(r)
      BY <1>3
    <2>2. CASE Verify(r) \/ \E s \in SessionIds : StartSession(r, s) \/ OpenChange(r, s)
      BY <2>2, VerifyInv, StartSessionInv, OpenChangeInv
    <2>3. CASE ChangePassword(r) \/ RevokeOthers(r)
      BY <2>3, ChangePasswordInv, RevokeOthersInv
    <2>4. CASE (\E k \in Passwords : OpenReset(r, k)) \/ ReadSessions(r) \/ CommitReset(r)
      BY <2>4, OpenResetInv, ReadSessionsInv, CommitResetInv
    <2>5. CASE Die(r)
      BY <2>5, DieInv
    <2>6. QED BY <2>1, <2>2, <2>3, <2>4, <2>5 DEF RequestStep
  <1>4. CASE UNCHANGED vars
    <2> USE <1>4 DEF vars, history
    <2>1. STypeOK'
      BY DEF IInv, STypeOK, TypeOK, UserSession, Time, Passwords, Request
    <2>2. ExpiryFollowsUse' /\ BodiesAreAlone' /\ ChangersAreKept' /\ RowsFollowPassword'
      BY DEF IInv, ExpiryFollowsUse, EndByUse, AbsoluteEnd, BodiesAreAlone, ChangersAreKept,
             RowsFollowPassword, NoneRevokes
    <2>3. QED BY <2>1, <2>2 DEF IInv
  <1>5. QED BY <1>1, <1>2, <1>3, <1>4 DEF Next

-----------------------------------------------------------------------------
(* The theorems. *)

\* The inductive invariant holds in every reachable state.
THEOREM Invariance == Spec => []IInv
  BY InitInv, StepInv, PTL DEF Spec

\* The table of sessions, the clock and the requests are well-typed.
THEOREM TypeCorrect == Spec => []TypeOK
  BY Invariance, PTL DEF IInv, STypeOK

\* What the rows of a table are, as numbers.
LEMMA RowTypes ==
  ASSUME IInv, NEW s \in DOMAIN session
  PROVE  /\ session[s].created \in Nat /\ session[s].expires \in Nat
         /\ used[s] \in Nat /\ now \in Nat
  BY BoundsAssumption, AgesAssumption DEF IInv, STypeOK, TypeOK, UserSession, Time, IsTable

\* slide_session_expiry keeps the idle and the absolute end of a session.
THEOREM SessionsExpire == Spec => []SessionsEndInTime
  <1>1. IInv => SessionsEndInTime
    BY RowTypes, AgesAssumption
      DEF SessionsEndInTime, IInv, ExpiryFollowsUse, EndByUse, LiveSessions, IsLive, AbsoluteEnd
  <1>2. QED BY <1>1, Invariance, PTL

\* What slide_session_expiry does not write costs a session less than Slide.
THEOREM SlidingSuffices == Spec => []UsedSessionsLive
  <1>1. IInv => UsedSessionsLive
    BY RowTypes, AgesAssumption
      DEF UsedSessionsLive, IInv, ExpiryFollowsUse, EndByUse, LiveSessions, IsLive, AbsoluteEnd
  <1>2. QED BY <1>1, Invariance, PTL

\* change_password and reset_password end the sessions begun before, on one replica.
THEOREM OldPasswordsEnd == Spec => []SessionsFollowPassword
  <1>1. IInv => SessionsFollowPassword
    BY DEF IInv, RowsFollowPassword, NoneRevokes, SessionsFollowPassword, LiveSessions, IsLive
  <1>2. QED BY <1>1, Invariance, PTL

\* reset_password takes a token only for the password it was made for, on one replica.
THEOREM TokensWorkOnce == Spec => TokensAreSpent
  <1> DEFINE Fits ==
        oneReplica =>
          \A r \in Requests : req[r].at = "renew" /\ password' # password => req[r].of = password
  <1>1. IInv => Fits
    BY DEF IInv, BodiesAreAlone
  <1>2. IInv /\ [Next]_vars => [Fits]_vars
    BY <1>1
  <1>3. [][Fits]_vars => TokensAreSpent
    BY PTL DEF TokensAreSpent
  <1>4. QED BY <1>2, <1>3, Invariance, PTL DEF Spec

=============================================================================
