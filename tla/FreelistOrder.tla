---------------------------- MODULE FreelistOrder ----------------------------
(***************************************************************************)
(* The memory orderings of the TreiberStack.  Links and user data are      *)
(* plain memory: two threads may touch the same block only if the earlier  *)
(* access happens before the later one, and the only synchronisation the   *)
(* allocator has is the Acquire load and the AcqRel compare_exchange_weak  *)
(* of the stack's head.                                                    *)
(*                                                                         *)
(* The specification adds to Freelist a history of the happens-before      *)
(* relation, restricted to the last access of every block.  Every store to *)
(* the head is a read-modify-write, so each one continues the release      *)
(* sequences before it: what has been released to the head stays with it.  *)
(***************************************************************************)
EXTENDS Freelist

VARIABLE seen   \* per block, who comes after its last access; "head" when a
                \* thread that acquires the head would, too

\* The stack is not a thread.
ASSUME OrderAssumption == "head" \notin Threads

orderVars == <<vars, seen>>

Observers == Threads \cup {"head"}

\* Nobody has accessed an uncarved block: the kernel mapped it zeroed.
OrderInit == Init /\ seen = [b \in Block |-> Observers]

\* Faulty variant of Acquired: Ordering::Relaxed loads.
AcquiredRelaxed(s, t) == s

\* Ordering::Acquire: thread t now comes after all that is released to the head.
Acquired(s, t) == [b \in Block |-> IF "head" \in s[b] THEN s[b] \cup {t} ELSE s[b]]

\* Ordering::Release: all that t comes after is released to the head.
Released(s, t) == [b \in Block |-> IF t \in s[b] THEN s[b] \cup {"head"} ELSE s[b]]

\* Thread t reads or writes the first word of the blocks in B.
Touched(s, t, B) == [b \in Block |-> IF b \in B THEN {t} ELSE s[b]]

\* From here on the program accesses the block, whoever its threads are.
Passed(s, b) == [s EXCEPT ![b] = {}]

\* A new thread comes after nothing that its predecessor came after; only the
\* memory nobody has touched is ordered for everyone.
Forgotten(s, t) == [b \in Block |-> IF b \in Fresh THEN s[b] ELSE s[b] \ {t}]

\* Every step of Freelist with the accesses its code makes.
OrderStep(t) ==
  \/ /\ InitThreadHeap(t) \/ AllocMiss(t) \/ DropList(t) \/ DropSpare(t)
     /\ UNCHANGED seen
  \/ ThreadStart(t) /\ seen' = Forgotten(seen, t)
  \/ Pop(t) /\ seen' = Passed(seen, fl[t].head)
  \/ Carve(t) /\ seen' = Touched(seen, t, bump .. bump' - 1)
  \/ /\ Refill(t) \/ Drain(t) \/ DropWalk(t)
     /\ seen' = Touched(seen, t, {chain[t].last})
  \/ \E b \in live :
       /\ DeallocLocal(t, b) \/ DeallocRemote(t, b)
       /\ seen' = Touched(seen, t, {b})
  \/ PushChainLoad(t) /\ seen' = Touched(Acquired(seen, t), t, {chain[t].last})
  \/ /\ TakeAllLoad(t) \/ CasLost(t) \/ CasSpurious(t)
     /\ seen' = Acquired(seen, t)
  \/ /\ TakeAllCas(t) \/ PushChainCas(t)
     /\ seen' = Released(Acquired(seen, t), t)

OrderNext == \E t \in Threads : OrderStep(t)

OrderSpec == OrderInit /\ [][OrderNext]_orderVars

-----------------------------------------------------------------------------
\* The links are free of data races: every block a thread can follow or write a
\* link of, or hand out, was last touched before that thread got hold of it, by
\* the acquire and release operations of push, push_chain and take_all alone.
\* (Ordering the program's own accesses before the free is the program's duty.)
OrderedAccesses == \A t \in Threads : \A b \in Held(t) : t \in seen[b]
=============================================================================
