----------------------------- MODULE MCSessions -----------------------------
(* Instances of Sessions for TLC. *)
EXTENDS Sessions, TLC

\* Histories long enough for every deadline, and short ones with many passwords.
LongOrBusy == {[time |-> 6, passwords |-> 0], [time |-> 2, passwords |-> 2]}

Symmetry == Permutations(SessionIds) \cup Permutations(Requests)

=============================================================================
