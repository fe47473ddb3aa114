---------------------------- MODULE HeapLifecycle ----------------------------
(***************************************************************************)
(* Who keeps a GlobalHeap alive: the OnceLock of each NumaAlloc instance,  *)
(* the reference count behind HeapHandle, and the TLS slot of each thread, *)
(* which a call on another instance replaces and a thread's exit destroys. *)
(*                                                                         *)
(* Heaps live at addresses of the system allocator, which hands a freed    *)
(* address out again: thread_heap compares heaps by address.  A step is at *)
(* most one access to the OnceLock, to a reference count, or to a heap.    *)
(*                                                                         *)
(* A new slot also moves its thread: init_thread_heap assigns a node round *)
(* robin and pins the thread to the node's CPUs, which the threads it      *)
(* spawns inherit.                                                         *)
(***************************************************************************)
EXTENDS Platform, FiniteSets

CONSTANTS
  Threads,
  Allocs,          \* NumaAlloc instances
  Addrs,           \* addresses of SharedHeap boxes
  Machines,        \* the NUMA topologies considered
  CounterModulus,  \* 2^64 in the code: next_node wraps
  NULL

ASSUME LifecycleAssumption ==
  /\ IsFiniteSet(Threads) /\ IsFiniteSet(Allocs)
  /\ CounterModulus \in Nat \ {0}
  /\ NULL \notin Addrs \cup Allocs

\* The kernel lets the process run on some CPU, whatever its number, and a list
\* that was read whole names just the node's CPUs.
ASSUME MachineAssumption ==
  \A m \in Machines :
    /\ m.allowed \subseteq Nat /\ m.allowed # {}
    /\ \A n \in NodeId : Truthful(m.list[n], m.cpus[n])

VARIABLES
  machine,   \* the machine the process runs on
  cpus,      \* the CPUs each thread may run on
  once,      \* the OnceLock of each instance
  heapOf,    \* the handle in it
  nextNode,  \* the instance's round-robin counter
  refs,      \* SharedHeap::references
  alive,     \* addresses at which a SharedHeap is allocated and not dropped
  slot,      \* TH_PTR: the slot's state, its heap and its node
  pc,        \* where each thread is inside a call, an exit or a drop
  on,        \* the instance the thread is calling
  old        \* the handle the thread is dropping

place == <<machine, cpus>>
vars == <<place, once, heapOf, nextNode, refs, alive, slot, pc, on, old>>

Unbound(state) == [state |-> state, heap |-> NULL, node |-> 0]

\* The nodes of every heap: GlobalHeap::new is given the topology's.
NumNodes == DetectNodes(machine)

Init ==
  /\ machine \in Machines
  /\ cpus = [t \in Threads |-> machine.allowed]
  /\ once = [a \in Allocs |-> "empty"]
  /\ heapOf = [a \in Allocs |-> NULL]
  /\ nextNode = [a \in Allocs |-> 0]
  /\ refs = [x \in Addrs |-> 0]
  /\ alive = {}
  /\ slot = [t \in Threads |-> Unbound("none")]
  /\ pc = [t \in Threads |-> "idle"]
  /\ on = [t \in Threads |-> NULL]
  /\ old = [t \in Threads |-> NULL]

Goto(t, label) == pc' = [pc EXCEPT ![t] = label]

\* The call is over.
Return(t) == Goto(t, "idle") /\ on' = [on EXCEPT ![t] = NULL]

-----------------------------------------------------------------------------
(* NumaAlloc::heap.                                                        *)

\* An allocation or deallocation on an instance that has not been dropped.
Enter(t, a) ==
  /\ pc[t] = "idle" /\ once[a] # "gone"
  /\ on' = [on EXCEPT ![t] = a]
  /\ Goto(t, "once")
  /\ UNCHANGED <<place, once, heapOf, nextNode, refs, alive, slot, old>>

\* Faulty variant of MayClaim: a second thread does not wait for the first.
MayClaimTwice(a) == once[a] \in {"empty", "running"}

\* get_or_init: the first thread runs the closure, the others wait.
MayClaim(a) == once[a] = "empty"

OnceClaim(t) ==
  /\ pc[t] = "once" /\ MayClaim(on[t])
  /\ once' = [once EXCEPT ![on[t]] = "running"]
  /\ Goto(t, "create")
  /\ UNCHANGED <<place, heapOf, nextNode, refs, alive, slot, on, old>>

\* Faulty variant of OnceFilled: the threads that wait are not told.
OnceFilledSilently(a) == once

OnceFilled(a) == [once EXCEPT ![a] = "full"]

\* HeapHandle::new, stored in the OnceLock.  Without memory the process aborts.
Create(t) ==
  /\ pc[t] = "create"
  /\ \E x \in Addrs \ alive :
       /\ alive' = alive \cup {x}
       /\ refs' = [refs EXCEPT ![x] = 1]
       /\ heapOf' = [heapOf EXCEPT ![on[t]] = x]
  /\ once' = OnceFilled(on[t])
  /\ Goto(t, "slot")
  /\ UNCHANGED <<place, nextNode, slot, on, old>>

OnceReady(t) ==
  /\ pc[t] = "once" /\ once[on[t]] = "full"
  /\ Goto(t, "slot")
  /\ UNCHANGED <<place, once, heapOf, nextNode, refs, alive, slot, on, old>>

-----------------------------------------------------------------------------
(* NumaAlloc::thread_heap and init_thread_heap.                            *)

\* The slot's heap is this instance's, or the slot is gone and the call works on
\* the instance's heap without a cache.
SlotHit(t) ==
  /\ pc[t] = "slot"
  /\ slot[t].state = "destroyed" \/ slot[t].heap = heapOf[on[t]]
  /\ Return(t)
  /\ UNCHANGED <<place, once, heapOf, nextNode, refs, alive, slot, old>>

\* slot.set(None): the cache of another instance starts to drop.
SlotMiss(t) ==
  /\ pc[t] = "slot"
  /\ slot[t].state # "destroyed" /\ slot[t].heap # heapOf[on[t]]
  /\ slot' = [slot EXCEPT ![t] = Unbound("none")]
  /\ old' = [old EXCEPT ![t] = slot[t].heap]
  /\ Goto(t, IF slot[t].state = "bound" THEN "drain" ELSE "assign")
  /\ UNCHANGED <<place, once, heapOf, nextNode, refs, alive, on>>

\* Faulty variant of Cloned: the handle is copied without counting it.
ClonedUncounted(x) == refs

\* HeapHandle::clone.
Cloned(x) == [refs EXCEPT ![x] = @ + 1]

\* Faulty variant of NextNode: the counter is used as the node.
NextNodeRaw(a) == nextNode[a]

\* The node the round-robin counter of an instance names.
NextNode(a) == nextNode[a] % NumNodes

\* The round-robin fetch_add, HeapHandle::clone and slot.set(Some): the two
\* atomic additions are to different words, and nobody else reads the slot.
Bind(t) ==
  /\ pc[t] = "assign"
  /\ LET a == on[t] IN
       /\ nextNode' = [nextNode EXCEPT ![a] = (@ + 1) % CounterModulus]
       /\ refs' = Cloned(heapOf[a])
       /\ slot' = [slot EXCEPT ![t] =
            [state |-> "bound", heap |-> heapOf[a], node |-> NextNode(a)]]
  /\ Goto(t, "affinity")
  /\ UNCHANGED <<place, once, heapOf, alive, on, old>>

\* bind_thread_to_node, after the slot is registered; its result is ignored.
Affinity(t) ==
  /\ pc[t] = "affinity"
  /\ cpus' = [cpus EXCEPT ![t] = BindThreadToNode(machine, slot[t].node, @)]
  /\ Return(t)
  /\ UNCHANGED <<machine, once, heapOf, nextNode, refs, alive, slot, old>>

-----------------------------------------------------------------------------
(* Dropping a PerThreadHeap, an instance, a handle.                        *)

\* The TLS destructor: from here on try_with fails in this thread.
ThreadExit(t) ==
  /\ pc[t] = "idle" /\ slot[t].state # "destroyed"
  /\ slot' = [slot EXCEPT ![t] = Unbound("destroyed")]
  /\ IF slot[t].state = "bound"
       THEN old' = [old EXCEPT ![t] = slot[t].heap] /\ Goto(t, "drain")
       ELSE UNCHANGED <<old, pc>>
  /\ UNCHANGED <<place, once, heapOf, nextNode, refs, alive, on>>

\* A new thread takes the place of one that has exited; it inherits the CPUs of
\* the thread that spawned it, which may be pinned.
ThreadStart(t) ==
  /\ pc[t] = "idle" /\ slot[t].state = "destroyed"
  /\ slot' = [slot EXCEPT ![t] = Unbound("none")]
  /\ \E u \in Threads : cpus' = [cpus EXCEPT ![t] = cpus[u]]
  /\ UNCHANGED <<machine, once, heapOf, nextNode, refs, alive, pc, on, old>>

\* PerThreadHeap::drop pushes the cached blocks to the stacks of its heap.
Drain(t) ==
  /\ pc[t] = "drain"
  /\ Goto(t, "release")
  /\ UNCHANGED <<place, once, heapOf, nextNode, refs, alive, slot, on, old>>

\* NumaAlloc::new, in the place of an instance that has been dropped.
NewAlloc(a) ==
  /\ once[a] = "gone"
  /\ once' = [once EXCEPT ![a] = "empty"]
  /\ nextNode' = [nextNode EXCEPT ![a] = 0]
  /\ UNCHANGED <<place, heapOf, refs, alive, slot, pc, on, old>>

\* The instance goes out of scope, so no call on it is under way.
DropAlloc(t, a) ==
  /\ pc[t] = "idle" /\ once[a] \in {"empty", "full"}
  /\ \A u \in Threads : on[u] # a
  /\ once' = [once EXCEPT ![a] = "gone"]
  /\ heapOf' = [heapOf EXCEPT ![a] = NULL]
  /\ IF once[a] = "full"
       THEN old' = [old EXCEPT ![t] = heapOf[a]] /\ Goto(t, "release")
       ELSE UNCHANGED <<old, pc>>
  /\ UNCHANGED <<place, nextNode, refs, alive, slot, on>>

\* Where a thread goes on after a handle is gone.
After(t) == IF on[t] = NULL THEN "idle" ELSE "assign"

\* Faulty variants of WasLast: recognised one too early, and never.
WasLastEarly(x) == refs[x] <= 2
WasLastNever(x) == FALSE

WasLast(x) == refs[x] = 1

\* HeapHandle::drop: the fetch_sub, and who was the last.
Release(t) ==
  /\ pc[t] = "release"
  /\ refs' = [refs EXCEPT ![old[t]] = @ - 1]
  /\ IF WasLast(old[t])
       THEN Goto(t, "free") /\ UNCHANGED old
       ELSE Goto(t, After(t)) /\ old' = [old EXCEPT ![t] = NULL]
  /\ UNCHANGED <<place, once, heapOf, nextNode, alive, slot, on>>

\* The last handle unmaps the region and frees the box.
FreeHeap(t) ==
  /\ pc[t] = "free"
  /\ alive' = alive \ {old[t]}
  /\ old' = [old EXCEPT ![t] = NULL]
  /\ Goto(t, After(t))
  /\ UNCHANGED <<place, once, heapOf, nextNode, refs, slot, on>>

-----------------------------------------------------------------------------
\* What a thread does by itself once a call, an exit or a drop has started.
Step(t) ==
  \/ OnceClaim(t) \/ Create(t) \/ OnceReady(t)
  \/ SlotHit(t) \/ SlotMiss(t) \/ Bind(t) \/ Affinity(t)
  \/ Drain(t) \/ Release(t) \/ FreeHeap(t)

Next ==
  \/ \E t \in Threads :
       \/ Step(t)
       \/ ThreadExit(t) \/ ThreadStart(t)
       \/ \E a \in Allocs : Enter(t, a) \/ DropAlloc(t, a)
  \/ \E a \in Allocs : NewAlloc(a)

Spec == Init /\ [][Next]_vars

\* A thread in the middle of a call keeps running; a waiter of the OnceLock is
\* woken when it is full.
FairSpec == Spec /\ \A t \in Threads : WF_vars(Step(t))

-----------------------------------------------------------------------------
(* Properties.                                                             *)

\* The handles on the heap at x: those of instances, of TLS slots, and those
\* that are being dropped and not subtracted yet.
Handles(x) ==
  {<<"instance", a>> : a \in {b \in Allocs : heapOf[b] = x}}
    \cup {<<"slot", t>> : t \in {u \in Threads : slot[u].heap = x}}
    \cup {<<"dropping", t>> : t \in {u \in Threads : old[u] = x /\ pc[u] # "free"}}

\* Every variable keeps to its values, and the node init_thread_heap assigns is
\* one the heap has.
TypeOK ==
  /\ machine \in Machines
  /\ cpus \in [Threads -> SUBSET machine.allowed]
  /\ once \in [Allocs -> {"empty", "running", "full", "gone"}]
  /\ heapOf \in [Allocs -> Addrs \cup {NULL}]
  /\ nextNode \in [Allocs -> 0 .. CounterModulus - 1]
  /\ refs \in [Addrs -> Nat]
  /\ alive \subseteq Addrs
  /\ slot \in [Threads -> [state : {"none", "bound", "destroyed"},
                           heap : Addrs \cup {NULL}, node : 0 .. NumNodes - 1]]
  /\ pc \in [Threads -> {"idle", "once", "create", "slot", "assign", "affinity", "drain", "release", "free"}]
  /\ on \in [Threads -> Allocs \cup {NULL}]
  /\ old \in [Threads -> Addrs \cup {NULL}]

\* The reference count is the number of handles, whatever clones and drops are
\* under way.
RefsAreHandles == \A x \in alive : refs[x] = Cardinality(Handles(x))

\* Nobody touches a heap that is gone: every handle's heap is allocated, the one
\* a thread drains its cache to included, and the thread that frees a heap is
\* alone with it.  So a slot's address cannot have been reused for another
\* instance's heap, and comparing addresses in thread_heap is sound.
HeapOutlivesHandles ==
  /\ \A x \in Addrs : Handles(x) # {} => x \in alive
  /\ \A t \in Threads : pc[t] = "free" =>
       /\ old[t] \in alive /\ Handles(old[t]) = {}
       /\ \A u \in Threads \ {t} : pc[u] = "free" => old[u] # old[t]

\* The node's cpulist was there, parsed, and fitted the buffer.
ReadWhole(n) ==
  LET l == machine.list[n] IN l.readable /\ l.numeric /\ ~l.full

\* The CPUs of a node that the kernel lets the process use and that a cpu_set_t
\* has a bit for.
PinCpus(n) == machine.cpus[n] \cap machine.allowed \cap Cpu

\* A thread can be pinned to the node.  To a node whose CPUs are all numbered from
\* CPU_SETSIZE on it cannot, although the kernel would run it there.
Pinnable(n) == ReadWhole(n) /\ PinCpus(n) # {}

\* Threads run where their memory is, if they can be pinned there.  Every node with
\* a list is one that threads are assigned to, whatever gaps there are in the
\* numbering.  A thread whose slot names a pinnable node runs on exactly that
\* node's CPUs, as far as cpu_set_t goes, however often it switched instances and
\* whatever CPUs it inherited.  A thread whose slot names another node keeps the
\* CPUs it had: all of them, or, after a switch or inherited, those of a pinnable
\* node that is not its own; never those a cut-off list would name.
RunsOnItsNode ==
  /\ \A n \in NodeId : ReadWhole(n) => n < NumNodes
  /\ \A t \in Threads :
       /\ cpus[t] = machine.allowed
            \/ \E n \in NodeId : Pinnable(n) /\ cpus[t] = PinCpus(n)
       /\ slot[t].state = "bound" /\ pc[t] # "affinity" /\ Pinnable(slot[t].node) =>
            cpus[t] = PinCpus(slot[t].node)

\* The heap of an instance is created once: the reference heap() returned stays
\* good until the instance is dropped.
HeapIsCreatedOnce ==
  [][\A a \in Allocs :
       once[a] = "full" => heapOf'[a] = heapOf[a] \/ once'[a] = "gone"]_vars

\* A heap without handles is freed.
HeapIsFreed == \A x \in Addrs : (x \in alive /\ Handles(x) = {}) ~> x \notin alive

\* Every call returns, the ones that wait for another thread to create the heap
\* included, and so does every drop.
CallsReturn == \A t \in Threads : pc[t] # "idle" ~> pc[t] = "idle"
=============================================================================
