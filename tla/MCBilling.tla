----------------------------- MODULE MCBilling -----------------------------
(* Instances of Billing for TLC. *)
EXTENDS Billing, TLC

ProOrFarm == [p \in Prices |-> IF p = CHOOSE q \in Prices : TRUE THEN "pro" ELSE "farm"]

Setting(deployed, prices, mappedFirst, changes, sessions, failures) ==
  [replicas |-> deployed, prices |-> prices, mapped |-> mappedFirst, changes |-> changes,
   checkouts |-> sessions, faults |-> failures]

One == CHOOSE r \in Replicas : TRUE
Pro == CHOOSE q \in Prices : TRUE

\* The price may be mapped later or never; three changes are needed for the
\* late event of a subscription after those of the next.
AllSettings ==
  {Setting({One}, {Pro}, {Pro}, 3, 2, 1),
   Setting({One}, {Pro}, {}, 3, 2, 0),
   Setting({One}, Prices, {Pro}, 2, 2, 1),
   Setting(Replicas, {Pro}, {}, 2, 1, 0)}

OneReplicaSettings == {setup \in AllSettings : setup.replicas = {One}}

=============================================================================
