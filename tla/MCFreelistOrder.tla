--------------------------- MODULE MCFreelistOrder ---------------------------
(* FreelistOrder on small instances: interchangeable threads.              *)
EXTENDS FreelistOrder, TLC

Symmetry == Permutations(Threads)
=============================================================================
