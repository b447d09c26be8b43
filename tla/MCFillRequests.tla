--------------------------- MODULE MCFillRequests ---------------------------
(* Instances of FillRequests for TLC. *)
EXTENDS FillRequests, TLC

Symmetry ==
  Permutations(Replicas) \cup Permutations(Tanks)
    \cup Permutations(FuelEntries) \cup Permutations(LedgerRows)

=============================================================================
