----------------------------- MODULE MCFreelist -----------------------------
(* Freelist on small instances: interchangeable threads.                   *)
EXTENDS Freelist, TLC

Symmetry == Permutations(Threads)
=============================================================================
