------------------------------ MODULE MCLimits ------------------------------
(* The two limits the program enforces, for TLC.  They share no state, so   *)
(* each is explored with the other at rest.                                 *)
EXTENDS RateLimiter, Entitlements, TLC

VARIABLE subject    \* which of the two moves

lvars == <<gvars, evars, subject>>

TierLimits ==
  [tier \in {"free", "pro", "farm", "partner"} |->
     CASE tier = "free" -> 1 [] tier = "pro" -> 2 [] OTHER -> Unlimited]

LimitsInit == GInit /\ EInit /\ subject \in {"guesses", "vehicles"}

LimitsNext ==
  \/ subject = "guesses" /\ GNext /\ UNCHANGED <<evars, subject>>
  \/ subject = "vehicles" /\ ENext /\ UNCHANGED <<gvars, subject>>

LimitsSpec == LimitsInit /\ [][LimitsNext]_lvars

Symmetry == Permutations(Adders)

=============================================================================
