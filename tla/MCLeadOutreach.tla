--------------------------- MODULE MCLeadOutreach ---------------------------
(* LeadOutreach for TLC. *)
EXTENDS LeadOutreach, TLC

ActorSymmetry == Permutations(Slots) \cup Permutations(Ids) \cup Permutations(Msgs)

=============================================================================
