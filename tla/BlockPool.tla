------------------------------ MODULE BlockPool ------------------------------
(***************************************************************************)
(* What the small-object path of one size class promises, with neither     *)
(* pointers nor compare-and-swap: every block of the region is in exactly  *)
(* one place, and moves only when its owner moves it.                      *)
(***************************************************************************)
CONSTANTS Threads, Block

VARIABLES
  fresh,   \* blocks of the region never carved
  pool,    \* blocks anyone may collect
  held,    \* blocks each thread owns: cached, or in transit
  live     \* blocks the program owns

vars == <<fresh, pool, held, live>>

Init ==
  /\ fresh = Block
  /\ pool = {}
  /\ held = [t \in Threads |-> {}]
  /\ live = {}

\* A thread without blocks carves a bag out of the region.
Carve(t) ==
  \E bag \in SUBSET fresh :
    /\ fresh' = fresh \ bag
    /\ held' = [held EXCEPT ![t] = @ \cup bag]
    /\ UNCHANGED <<pool, live>>

\* A refill takes the pool as a whole, never a part of it.
Collect(t) ==
  /\ pool' = {}
  /\ held' = [held EXCEPT ![t] = @ \cup pool]
  /\ UNCHANGED <<fresh, live>>

\* Allocation hands out a block the thread owns.
HandOut(t) ==
  \E b \in held[t] :
    /\ held' = [held EXCEPT ![t] = @ \ {b}]
    /\ live' = live \cup {b}
    /\ UNCHANGED <<fresh, pool>>

\* Deallocation makes a live block the freeing thread's.
Free(t) ==
  \E b \in live :
    /\ live' = live \ {b}
    /\ held' = [held EXCEPT ![t] = @ \cup {b}]
    /\ UNCHANGED <<fresh, pool>>

\* A thread gives up some of its blocks.
Publish(t) ==
  \E given \in SUBSET held[t] :
    /\ pool' = pool \cup given
    /\ held' = [held EXCEPT ![t] = @ \ given]
    /\ UNCHANGED <<fresh, live>>

Next == \E t \in Threads :
  Carve(t) \/ Collect(t) \/ HandOut(t) \/ Free(t) \/ Publish(t)

Spec == Init /\ [][Next]_vars
=============================================================================
