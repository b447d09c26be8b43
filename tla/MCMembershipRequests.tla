------------------------ MODULE MCMembershipRequests ------------------------
(* Instances of MembershipRequests for TLC. *)
EXTENDS MembershipRequests, TLC

Symmetry == Permutations(Users) \cup Permutations(Groups) \cup Permutations(Requests)

=============================================================================
