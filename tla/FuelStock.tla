----------------------------- MODULE FuelStock -----------------------------
(***************************************************************************)
(* What the tank inventory promises, without rows, kinds or soft deletion: *)
(* every tank has a running balance; a fill takes its litres out of one    *)
(* tank exactly once, gives them back when it is withdrawn, and moves them *)
(* when it is changed; apart from fills only a manual movement changes a   *)
(* balance, and only that of one tank, by what it moves.  The code keeps no balance: it adds *)
(* up the ledger rows that are not deleted whenever somebody looks.        *)
(***************************************************************************)
EXTENDS Integers

CONSTANTS Tanks, FuelEntries, Openings, Litres, None

VARIABLES
  standing,   \* is the tank unopened, open or closed
  balance,    \* litres in each tank
  moved,      \* net litres of the manual movements of each tank
  fill        \* what each fuel entry has taken: [tank, litres] or NoFill

svars == <<standing, balance, moved, fill>>

NoFill == [tank |-> None, litres |-> 0]

Standing == {"unopened", "open", "closed"}

\* What entry e holds of tank t.
Taken(f, e, t) == IF f[e].tank = t THEN f[e].litres ELSE 0

\* Entry e now holds f: what it held before is back, what it holds is gone.
Refill(e, f) ==
  /\ fill' = [fill EXCEPT ![e] = f]
  /\ balance' = [t \in Tanks |-> balance[t] + Taken(fill, e, t) - Taken(fill', e, t)]
  /\ UNCHANGED <<standing, moved>>

Open(t, opening) ==
  /\ standing[t] = "unopened"
  /\ standing' = [standing EXCEPT ![t] = "open"]
  /\ balance' = [balance EXCEPT ![t] = opening]
  /\ UNCHANGED <<moved, fill>>

\* Only a tank that no fill stands on is closed; its balance stays on the book.
Close(t) ==
  /\ standing[t] = "open"
  /\ \A e \in FuelEntries : fill[e].tank # t
  /\ standing' = [standing EXCEPT ![t] = "closed"]
  /\ UNCHANGED <<balance, moved, fill>>

\* A movement is posted, corrected or cancelled; corrections outlive the tank.
Move(t) ==
  /\ standing[t] # "unopened"
  /\ moved'[t] \in Int
  /\ moved' = [moved EXCEPT ![t] = moved'[t]]
  /\ balance' = [balance EXCEPT ![t] = @ + moved'[t] - moved[t]]
  /\ UNCHANGED <<standing, fill>>

Take(e, t, n) == standing[t] = "open" /\ Refill(e, [tank |-> t, litres |-> n])

GiveBack(e) == fill[e] # NoFill /\ Refill(e, NoFill)

Init ==
  /\ standing = [t \in Tanks |-> "unopened"]
  /\ balance = [t \in Tanks |-> 0]
  /\ moved = [t \in Tanks |-> 0]
  /\ fill = [e \in FuelEntries |-> NoFill]

Next ==
  \/ \E t \in Tanks :
       \/ \E opening \in Openings : Open(t, opening)
       \/ Close(t)
       \/ Move(t)
  \/ \E e \in FuelEntries :
       \/ \E t \in Tanks, n \in Litres : Take(e, t, n)
       \/ GiveBack(e)

Spec == Init /\ [][Next]_svars

=============================================================================
