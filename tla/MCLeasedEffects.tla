-------------------------- MODULE MCLeasedEffects --------------------------
(* Instance of LeasedEffects for TLC. *)
EXTENDS LeasedEffects, TLC

Symmetry == Permutations(Threads) \cup Permutations(Operations) \cup Permutations(Data)
=============================================================================
