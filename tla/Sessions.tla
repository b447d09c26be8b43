------------------------------ MODULE Sessions ------------------------------
(***************************************************************************)
(* The sessions and the password of one account.  A session ends when it   *)
(* is revoked, when it was not used for Idle, and in any case Absolute     *)
(* after its login.  Setting a password, knowing the old one or holding a  *)
(* token from a mail, ends the sessions begun under the old one.           *)
(*                                                                         *)
(* A handler body runs on its replica's event loop, one at a time there,   *)
(* and is split at what it commits and at what it reads before.  The user  *)
(* of a page is loaded by a dependency, in a thread, before the body has   *)
(* its turn.  A replica may die between two commits.                       *)
(*                                                                         *)
(* Left out: other accounts, the signature of cookies (which outlasts the  *)
(* session), and the text of passwords: `password` counts how often one    *)
(* was set, and stands for the hash, its fingerprint and the plain text.   *)
(***************************************************************************)
EXTENDS Integers, Tables

CONSTANTS
  SessionIds,     \* keys a table may hand out
  Requests,       \* requests that can be open at once
  Idle,           \* SESSION_IDLE_MAX_AGE
  Absolute,       \* SESSION_ABSOLUTE_MAX_AGE
  Slide,          \* SESSION_SLIDE_INTERVAL
  Bounds          \* bounds: how long a history lasts, and how often it sets a password

ASSUME AgesAssumption ==
  /\ Idle \in Nat /\ Absolute \in Nat /\ Slide \in Nat
  /\ 0 < Slide /\ Slide < Idle /\ Idle <= Absolute

ASSUME BoundsAssumption == Bounds \subseteq [time : Nat, passwords : Nat]

VARIABLES
  bound,          \* the bounds of this history
  now,
  password,       \* users.password_hash
  session,        \* table user_sessions
  tokens,         \* passwords that a mailed reset token, not yet too old, is for
  req,            \* what each open request has in hand
  oneReplica,     \* whether one replica serves all: a fact of the deployment
  \* History only:
  used,           \* when each session was last used
  under,          \* the password each session was begun with
  kept,           \* sessions from which a password was changed
  torn            \* a change died between its two commits

history == <<used, under, kept, torn>>
vars == <<bound, now, password, session, tokens, req, oneReplica, history>>

-----------------------------------------------------------------------------
Time == 0..bound.time

Passwords == 0..bound.passwords

UserSession == [created : Time, expires : 0..(bound.time + Absolute),
                revoked : BOOLEAN]

AbsoluteEnd(row) == row.created + Absolute

IsLive(row) == ~row.revoked /\ row.expires > now /\ AbsoluteEnd(row) > now

LiveSessions == {s \in DOMAIN session : IsLive(session[s])}

\* Faulty variant: sliding knows no absolute end.
NextExpiryUncapped(row) == now + Idle

\* Faulty variant: the deadline is extended from the last one.
NextExpiryFromLast(row) == row.expires + Idle

NextExpiry(row) == IF now + Idle < AbsoluteEnd(row) THEN now + Idle ELSE AbsoluteEnd(row)

\* Faulty variant: a session slides only once the interval is exceeded twice.
SlidSeldom(row) ==
  IF NextExpiry(row) - row.expires < 2 * Slide THEN row
                                               ELSE [row EXCEPT !.expires = NextExpiry(row)]

\* slide_session_expiry: a gain below the interval is not written.
Slid(row) ==
  IF NextExpiry(row) - row.expires < Slide THEN row
                                           ELSE [row EXCEPT !.expires = NextExpiry(row)]

RevokedIn(table, ids) ==
  [s \in DOMAIN table |-> IF s \in ids THEN [table[s] EXCEPT !.revoked = TRUE] ELSE table[s]]

\* Faulty variant: a token is good until it is too old.
TokenFitsAnyPassword(k) == k \in tokens

\* decode_password_reset_token and verify_reset_token_data.
TokenFits(k) == k \in tokens /\ k = password

-----------------------------------------------------------------------------
(* Requests. *)

Closed == [at |-> "closed"]

InBody == {"start", "reset", "renew", "revoke"}

BodyFree == oneReplica => \A q \in Requests : req[q].at \notin InBody

Reply(r) == req' = [req EXCEPT ![r] = Closed]

\* get_current_user: the session is live, and slides.
Page(s) ==
  /\ s \in LiveSessions
  /\ session' = [session EXCEPT ![s] = Slid(@)]
  /\ used' = [used EXCEPT ![s] = now]

Use(s) ==
  /\ Page(s)
  /\ UNCHANGED <<bound, now, password, tokens, req, oneReplica, under, kept, torn>>

\* The password is verified; the session is still to be inserted.
Verify(r) ==
  /\ req[r] = Closed
  /\ BodyFree
  /\ req' = [req EXCEPT ![r] = [at |-> "start", knows |-> password]]
  /\ UNCHANGED <<bound, now, password, session, tokens, oneReplica, history>>

StartSession(r, s) ==
  /\ req[r].at = "start"
  /\ s \in SessionIds \ DOMAIN session
  /\ session' = Insert(session, s, [created |-> now, expires |-> now + Idle, revoked |-> FALSE])
  /\ used' = [used EXCEPT ![s] = now]
  /\ under' = [under EXCEPT ![s] = req[r].knows]
  /\ Reply(r)
  /\ UNCHANGED <<bound, now, password, tokens, oneReplica, kept, torn>>

Logout(s) ==
  /\ s \in DOMAIN session
  /\ BodyFree
  /\ session' = RevokedIn(session, {s})
  /\ UNCHANGED <<bound, now, password, tokens, req, oneReplica, history>>

\* From the profile page, one session or all others are ended.
Revoke(s, ids) ==
  /\ BodyFree
  /\ s \in LiveSessions
  /\ ids \in {{d} : d \in LiveSessions} \cup {DOMAIN session \ {s}}
  /\ session' = RevokedIn([session EXCEPT ![s] = Slid(@)], ids)
  /\ used' = [used EXCEPT ![s] = now]
  /\ UNCHANGED <<bound, now, password, tokens, req, oneReplica, under, kept, torn>>

-----------------------------------------------------------------------------
(* Changing the password. *)

\* The dependency loads the user, whose password the form names; the body has
\* yet to come.  (With any other password the page is a page: Use.)
OpenChange(r, s) ==
  /\ req[r] = Closed
  /\ Page(s)
  /\ req' = [req EXCEPT ![r] = [at |-> "change", s |-> s]]
  /\ UNCHANGED <<bound, now, password, tokens, oneReplica, under, kept, torn>>

\* Verified against the hash as loaded, whatever it is by now, and committed.
ChangePassword(r) ==
  /\ req[r].at = "change"
  /\ BodyFree
  /\ password < bound.passwords
  /\ password' = password + 1
  /\ kept' = kept \cup {req[r].s}
  /\ req' = [req EXCEPT ![r] = [at |-> "revoke", s |-> req[r].s]]
  /\ UNCHANGED <<bound, now, session, tokens, oneReplica, used, under, torn>>

\* Faulty variant: the other sessions are left alone.
RevokeNone(r) ==
  /\ req[r].at = "revoke"
  /\ Reply(r)
  /\ UNCHANGED <<bound, now, password, session, tokens, oneReplica, history>>

RevokeOthers(r) ==
  /\ req[r].at = "revoke"
  /\ session' = RevokedIn(session, DOMAIN session \ {req[r].s})
  /\ Reply(r)
  /\ UNCHANGED <<bound, now, password, tokens, oneReplica, history>>

-----------------------------------------------------------------------------
(* Resetting it with a token. *)

Forgot ==
  /\ BodyFree
  /\ tokens' = tokens \cup {password}
  /\ UNCHANGED <<bound, now, password, session, req, oneReplica, history>>

\* The token is checked; the hash is still to be written.
OpenReset(r, k) ==
  /\ req[r] = Closed
  /\ BodyFree
  /\ TokenFits(k)
  /\ req' = [req EXCEPT ![r] = [at |-> "reset", of |-> k]]
  /\ UNCHANGED <<bound, now, password, session, tokens, oneReplica, history>>

\* The sessions to revoke are read: nothing is flushed by itself before.
ReadSessions(r) ==
  /\ req[r].at = "reset"
  /\ req' = [req EXCEPT ![r] = [at |-> "renew", of |-> req[r].of, ids |-> DOMAIN session]]
  /\ UNCHANGED <<bound, now, password, session, tokens, oneReplica, history>>

\* The hash and the revocations are flushed, under the locks of their rows, and
\* committed; nothing is read in between.
CommitReset(r) ==
  /\ req[r].at = "renew"
  /\ password < bound.passwords
  /\ password' = password + 1
  /\ session' = RevokedIn(session, req[r].ids)
  /\ Reply(r)
  /\ UNCHANGED <<bound, now, tokens, oneReplica, history>>

-----------------------------------------------------------------------------
\* A unit of time is longer than RESET_TOKEN_MAX_AGE.
Tick ==
  /\ now < bound.time
  /\ now' = now + 1
  /\ tokens' = {}
  /\ UNCHANGED <<bound, password, session, req, oneReplica, history>>

\* What is not committed is rolled back; a change may have committed the hash.
Die(r) ==
  /\ req[r] # Closed
  /\ Reply(r)
  /\ torn' = (torn \/ req[r].at = "revoke")
  /\ UNCHANGED <<bound, now, password, session, tokens, oneReplica, used, under, kept>>

Init ==
  /\ bound \in Bounds
  /\ now = 0
  /\ password = 0
  /\ session = EmptyTable
  /\ tokens = {}
  /\ req = [r \in Requests |-> Closed]
  /\ oneReplica \in BOOLEAN
  /\ used = [s \in SessionIds |-> 0]
  /\ under = [s \in SessionIds |-> 0]
  /\ kept = {}
  /\ torn = FALSE

SessionStep(s) ==
  \/ Use(s)
  \/ Logout(s)
  \/ \E ids \in SUBSET SessionIds : Revoke(s, ids)

RequestStep(r) ==
  \/ Verify(r)
  \/ \E s \in SessionIds : StartSession(r, s) \/ OpenChange(r, s)
  \/ ChangePassword(r) \/ RevokeOthers(r)
  \/ \E k \in Passwords : OpenReset(r, k)
  \/ ReadSessions(r) \/ CommitReset(r)
  \/ Die(r)

Next ==
  \/ Tick \/ Forgot
  \/ \E s \in SessionIds : SessionStep(s)
  \/ \E r \in Requests : RequestStep(r)

Spec == Init /\ [][Next]_vars

-----------------------------------------------------------------------------
(* Properties. *)

TypeOK ==
  /\ bound \in Bounds
  /\ now \in Time
  /\ password \in Passwords
  /\ IsTable(session, SessionIds, UserSession)
  /\ tokens \subseteq Passwords
  /\ used \in [SessionIds -> Time]
  /\ under \in [SessionIds -> Passwords]
  /\ kept \subseteq SessionIds

(***************************************************************************)
(* Sliding keeps both deadlines: a session that was not used for Idle is   *)
(* over, and so is one whose login was Absolute ago, however it was used.  *)
(***************************************************************************)
SessionsEndInTime ==
  \A s \in DOMAIN session :
    /\ session[s].expires <= AbsoluteEnd(session[s])
    /\ s \in LiveSessions => now < used[s] + Idle

(***************************************************************************)
(* Not writing every gain costs a session in use no more than Slide: until *)
(* then it lives, whenever it was used and whatever was written.           *)
(***************************************************************************)
UsedSessionsLive ==
  \A s \in DOMAIN session :
    (/\ ~session[s].revoked
     /\ now + Slide <= used[s] + Idle
     /\ now + Slide <= AbsoluteEnd(session[s])) => s \in LiveSessions

(***************************************************************************)
(* A session begun with a password that has been replaced is over, unless  *)
(* the password was changed from it: always on one replica, but for a      *)
(* change that died after committing the password or has yet to revoke.    *)
(***************************************************************************)
SessionsFollowPassword ==
  oneReplica /\ ~torn /\ (\A r \in Requests : req[r].at # "revoke") =>
    \A s \in LiveSessions : under[s] = password \/ s \in kept

(***************************************************************************)
(* A token resets only the password it was made for, so that it is spent   *)
(* by any change of it and works once: always on one replica.              *)
(***************************************************************************)
TokensAreSpent ==
  [][oneReplica =>
       \A r \in Requests : req[r].at = "renew" /\ password' # password => req[r].of = password]_vars

=============================================================================
