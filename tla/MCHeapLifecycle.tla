--------------------------- MODULE MCHeapLifecycle ---------------------------
(* Instances come and go at a few addresses; threads, instances and addresses *)
(* are interchangeable.                                                       *)
EXTENDS HeapLifecycle, TLC

Symmetry == Permutations(Threads) \cup Permutations(Allocs) \cup Permutations(Addrs)

\* A machine with nodes 0 and 1.
TwoNodes ==
  [cpus |-> (0 :> {0, 1} @@ 1 :> {2, 3} @@ 2 :> {}),
   list |-> (0 :> List({<<0, 1>>}, TRUE, FALSE) @@ 1 :> List({<<2, 3>>}, TRUE, FALSE)
             @@ 2 :> Absent),
   allowed |-> 0 .. 3]

\* Nodes 0 and 2 only; node 2 has CPUs beyond the mask, and some that the
\* process may not use.
SparseNodes ==
  [cpus |-> (0 :> {0} @@ 1 :> {} @@ 2 :> {1, 2} \cup 6 .. 9),
   list |-> (0 :> List({<<0, 0>>}, TRUE, FALSE) @@ 1 :> Absent
             @@ 2 :> List({<<1, 2>>, <<6, 9>>}, TRUE, FALSE)),
   allowed |-> {0, 1, 6, 8}]

\* Every CPU of node 1 and some of node 2's lie beyond the mask, and the process may
\* use them: threads of node 1 are not pinned.
WideNodes ==
  [cpus |-> (0 :> {0, 1} @@ 1 :> {8, 9} @@ 2 :> {7, 10}),
   list |-> (0 :> List({<<0, 1>>}, TRUE, FALSE) @@ 1 :> List({<<8, 9>>}, TRUE, FALSE)
             @@ 2 :> List({<<7, 7>>, <<10, 10>>}, TRUE, FALSE)),
   allowed |-> {0, 1} \cup 7 .. 10]

\* Node 0's list fills the buffer and is cut inside a number (7 for 73), node 1
\* has no CPUs, node 2 is regular.
OddNodes ==
  [cpus |-> (0 :> {0, 73} @@ 1 :> {} @@ 2 :> {1, 7}),
   list |-> (0 :> List({<<0, 0>>, <<7, 7>>}, TRUE, TRUE) @@ 1 :> List({}, FALSE, FALSE)
             @@ 2 :> List({<<1, 1>>, <<7, 7>>}, TRUE, FALSE)),
   allowed |-> {0, 1, 7}]

\* No sysfs.
NoNodes ==
  [cpus |-> [n \in NodeId |-> {}], list |-> [n \in NodeId |-> Absent], allowed |-> {0}]

AllMachines == {TwoNodes, SparseNodes, WideNodes, OddNodes, NoNodes}
OneMachine == {TwoNodes}
=============================================================================
