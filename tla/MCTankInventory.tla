-------------------------- MODULE MCTankInventory --------------------------
(***************************************************************************)
(* Instances of TankInventory for TLC.  Keys are interchangeable, so the   *)
(* instances are symmetric in them.                                        *)
(***************************************************************************)
EXTENDS TankInventory, TLC

Symmetry ==
  Permutations(Groups) \cup Permutations(Vehicles) \cup Permutations(Tanks)
    \cup Permutations(FuelTypes) \cup Permutations(FuelEntries) \cup Permutations(LedgerRows)

=============================================================================
