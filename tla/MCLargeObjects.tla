---------------------------- MODULE MCLargeObjects ----------------------------
(* Large objects with interchangeable threads, instances and addresses.      *)
EXTENDS LargeObjects, TLC

Symmetry == Permutations(Threads) \cup Permutations(Heaps) \cup Permutations(Maps)
=============================================================================
