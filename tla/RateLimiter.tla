---------------------------- MODULE RateLimiter ----------------------------
(***************************************************************************)
(* How often a password may be tried for one key (host and address): a     *)
(* handler asks the limiter, verifies, and records a failure or clears the *)
(* key.  Each worker keeps its own times in memory, or all share a sorted  *)
(* set in Redis.  Times are those of the worker's monotonic clock, which   *)
(* counts from the boot of its host.                                       *)
(*                                                                         *)
(* A worker runs one handler at a time; Redis serves other workers between *)
(* the two calls of one.                                                   *)
(*                                                                         *)
(* Left out: the other keys and limits, which differ in number only, and   *)
(* the password reset, which records every attempt it lets through.        *)
(***************************************************************************)
EXTENDS FiniteSets, Integers, Sequences

CONSTANTS
  Workers,
  MaxAttempts,    \* max_attempts
  Window,         \* window_seconds
  Second,         \* one second, in the units of time here
  Shared,         \* the set in Redis
  Offsets,        \* how far the clocks of two hosts may be apart
  MaxTime,        \* bound: how long a history lasts
  MaxGuesses      \* bound: how many failures one store sees between two clears

ASSUME LimitAssumption == MaxAttempts \in Nat \ {0} /\ Window \in Nat \ {0}
ASSUME SecondAssumption == Second \in Nat \ {0}
ASSUME OffsetAssumption == Offsets \subseteq Nat /\ 0 \in Offsets
ASSUME WorkersAssumption == IsFiniteSet(Workers) /\ Workers # {} /\ Shared \notin Workers

VARIABLES
  backend,        \* which limiter is deployed
  offset,         \* what the clock of each worker's host showed at time 0
  now,
  attempts,       \* what each store records
  expires,        \* when Redis drops the whole key
  busy,           \* workers that have asked and are verifying
  \* History only, but that it numbers the attempts:
  tried           \* when the failures in each store since the last clear were

gvars == <<backend, offset, now, attempts, expires, busy, tried>>

-----------------------------------------------------------------------------
Store(w) == IF backend = "memory" THEN w ELSE Shared

Clock(w) == now + offset[w]

\* An attempt in a store: its time, and what tells it from others of that time.
Attempt == [nth : Nat \ {0}, time : Nat]

ClocksAgree == \A v, w \in Workers : offset[v] = offset[w]

\* Faulty variant: times leave the window one too early.
OutdatedSoon(w, time) == Clock(w) - time >= Window - 1

\* Memory drops what is older than the window, Redis what is as old, too.
Outdated(w, time) ==
  IF backend = "memory" THEN Clock(w) - time > Window ELSE Clock(w) - time >= Window

\* Faulty variant: Redis keeps the key for ever.
KeyStays(w) == attempts[Store(w)]

Key(w) ==
  IF backend = "redis" /\ now >= expires THEN {} ELSE attempts[Store(w)]

\* The deque is popped from its left end; times of one worker only grow.
Active(w) == {attempt \in Key(w) : ~Outdated(w, attempt.time)}

Limited(w) == Cardinality(Active(w)) >= MaxAttempts

-----------------------------------------------------------------------------
Ask(w) ==
  /\ w \notin busy
  /\ Len(tried[Store(w)]) < MaxGuesses
  /\ attempts' = [attempts EXCEPT ![Store(w)] = Active(w)]
  /\ busy' = IF Limited(w) THEN busy ELSE busy \cup {w}
  /\ UNCHANGED <<backend, offset, now, expires, tried>>

Fail(w) ==
  /\ w \in busy
  /\ busy' = busy \ {w}
  /\ attempts' = [attempts EXCEPT ![Store(w)] =
       Active(w) \cup {[nth |-> Len(tried[Store(w)]) + 1, time |-> Clock(w)]}]
  /\ expires' = IF backend = "redis" THEN now + Window + Second ELSE expires
  /\ tried' = [tried EXCEPT ![Store(w)] = Append(@, now)]
  /\ UNCHANGED <<backend, offset, now>>

\* Faulty variant: a login that succeeds leaves the times.
ClearedNothing(store) ==
  /\ attempts' = attempts
  /\ tried' = [tried EXCEPT ![store] = << >>]

Cleared(store) ==
  /\ attempts' = [attempts EXCEPT ![store] = {}]
  /\ tried' = [tried EXCEPT ![store] = << >>]

Succeed(w) ==
  /\ w \in busy
  /\ busy' = busy \ {w}
  /\ Cleared(Store(w))
  /\ UNCHANGED <<backend, offset, now, expires>>

\* The memory of a worker goes with it; the set in Redis stays.
Restart(w) ==
  /\ busy' = busy \ {w}
  /\ Cleared(w)
  /\ UNCHANGED <<backend, offset, now, expires>>

Pass ==
  /\ now < MaxTime
  /\ now' = now + 1
  /\ UNCHANGED <<backend, offset, attempts, expires, busy, tried>>

-----------------------------------------------------------------------------
Stores == Workers \cup {Shared}

GInit ==
  /\ backend \in {"memory", "redis"}
  /\ offset \in [Workers -> Offsets]
  /\ now = 0
  /\ attempts = [store \in Stores |-> {}]
  /\ expires = 0
  /\ busy = {}
  /\ tried = [store \in Stores |-> << >>]

GNext ==
  \/ Pass
  \/ \E w \in Workers : Ask(w) \/ Fail(w) \/ Succeed(w) \/ Restart(w)

GSpec == GInit /\ [][GNext]_gvars

-----------------------------------------------------------------------------
(* Properties. *)

GTypeOK ==
  /\ backend \in {"memory", "redis"}
  /\ offset \in [Workers -> Offsets]
  /\ now \in Nat
  /\ attempts \in [Stores -> SUBSET Attempt]
  /\ expires \in Nat
  /\ busy \subseteq Workers
  /\ tried \in [Stores -> Seq(Nat)]

\* Workers that have asked before another recorded may go one over, each.
AtOnce == IF backend = "memory" THEN MaxAttempts
                                ELSE MaxAttempts + Cardinality(Workers) - 1

(***************************************************************************)
(* No more passwords are tried within a window than the limit says, worker *)
(* by worker or, in Redis, by all together and one for each other worker.  *)
(* In Redis this needs hosts whose monotonic clocks agree: a worker whose  *)
(* host booted earlier drops the times of the others at once.              *)
(***************************************************************************)
GuessesAreLimited ==
  backend = "memory" \/ ClocksAgree =>
    \A store \in Stores : \A i \in 1..(Len(tried[store]) - AtOnce) :
      tried[store][i + AtOnce] - tried[store][i] >= Window

(***************************************************************************)
(* Who waits is let in again: a window after the last failure nobody is    *)
(* limited, where the clocks agree, and a second later whatever they show. *)
(***************************************************************************)
WaitingHelps ==
  \A w \in Workers :
    LET failures == tried[Store(w)]
        waited == now - failures[Len(failures)]
    IN  \/ failures = << >>
        \/ waited > Window /\ (backend = "memory" \/ ClocksAgree)
        \/ waited >= Window + Second
        => ~Limited(w)

=============================================================================
