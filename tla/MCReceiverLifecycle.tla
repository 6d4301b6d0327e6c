------------------------ MODULE MCReceiverLifecycle ------------------------
(* Small instances of ReceiverLifecycle.                                   *)
EXTENDS ReceiverLifecycle, TLC

Symmetry == Permutations(Ops) \cup Permutations(Executors)
=============================================================================
