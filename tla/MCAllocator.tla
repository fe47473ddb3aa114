----------------------------- MODULE MCAllocator -----------------------------
(* Two nodes of two bags each and two places for mappings; classes of 2, 4     *)
(* and 8 words, bags of 8, pages of 4.  Threads are interchangeable.           *)
EXTENDS Allocator, TLC

MCMaps == {48, 64}
MCSizes == {2, 3, 9}
MCRequests == {<<"zeroed", 1, 1>>, <<"alloc", 9, 4>>}
Symmetry == Permutations(Threads)
=============================================================================
