----------------------------- MODULE HeapProofs -----------------------------
(***************************************************************************)
(* Proofs about HeapLifecycle, for any threads, instances, addresses and   *)
(* machines: a reference count is the number of handles, nobody touches a  *)
(* heap that is gone, an instance's heap is created once, and threads run  *)
(* where their memory is.                                                  *)
(***************************************************************************)
EXTENDS HeapLifecycle, FiniteSetTheorems, TLAPS

(* The inductive invariant: besides the properties, where a thread is says *)
(* what the OnceLock of its instance, its slot and its hands hold.         *)

Dropping(t) == pc[t] \in {"drain", "release", "free"}

\* The instance a thread calls, by where it is in the call.
CallOK ==
  \A t \in Threads :
    /\ pc[t] = "idle" => on[t] = NULL
    /\ pc[t] \in {"once", "create", "slot", "assign", "affinity"} => on[t] \in Allocs
    /\ on[t] # NULL => once[on[t]] # "gone"
    /\ pc[t] = "create" => once[on[t]] = "running"
    /\ pc[t] \notin {"once", "create"} /\ on[t] # NULL => once[on[t]] = "full"

\* One thread runs the closure of get_or_init.
CreatesAlone ==
  \A t, u \in Threads :
    pc[t] = "create" /\ pc[u] = "create" /\ on[t] = on[u] => t = u

\* The OnceLock is full exactly if it holds a handle.
OnceOK == \A a \in Allocs : once[a] = "full" <=> heapOf[a] # NULL

\* A slot holds a handle exactly if it is bound, and is empty before Bind; a
\* thread has a handle in its hands exactly while it drops one.
SlotOK ==
  \A t \in Threads :
    /\ slot[t].state = "bound" <=> slot[t].heap # NULL
    /\ pc[t] = "assign" \/ Dropping(t) => slot[t].heap = NULL \/ on[t] = NULL
    /\ pc[t] = "affinity" => slot[t].state = "bound"
    /\ old[t] # NULL <=> Dropping(t)

Control == CallOK /\ CreatesAlone /\ OnceOK /\ SlotOK

Inv ==
  /\ TypeOK /\ Control
  /\ RefsAreHandles /\ HeapOutlivesHandles
  /\ RunsOnItsNode

-----------------------------------------------------------------------------
(* What the platform layer computes.                                       *)

\* A bounded set of numbers has a greatest one.
LEMMA MaxIs ==
  ASSUME NEW n \in Nat, NEW S \in SUBSET (0 .. n), S # {}
  PROVE  Max(S) \in S /\ \A y \in S : Max(S) >= y
<1> DEFINE D == {d \in Nat : n - d \in S}
           R == OpToRel(<, Nat)
<1>1. D \subseteq Nat /\ D # {}
  <2>1. PICK y \in S : TRUE
    OBVIOUS
  <2>2. n - y \in Nat /\ n - (n - y) = y
    BY <2>1
  <2> QED BY <2>2
<1>2. IsWellFoundedOn(R, Nat)
  BY NatLessThanWellFounded
<1>3. PICK d \in D : \A e \in D : ~ (<<e, d>> \in R)
  <2> HIDE DEF R, D
  <2> QED BY <1>1, <1>2, WFMin
<1>4. \A e \in D : ~ (e < d)
  BY <1>3 DEF OpToRel
<1>5. ASSUME NEW y \in S PROVE n - d >= y
  <2>1. n - y \in Nat /\ n - (n - y) = y
    OBVIOUS
  <2>2. n - y \in D
    BY <2>1
  <2>3. ~ (n - y < d)
    BY <1>4, <2>2
  <2> QED BY <2>1, <2>3
<1>6. \E x \in S : \A y \in S : x >= y
  BY <1>5
<1> QED BY <1>6, Zenon DEF Max

\* So has a pair a least one.
LEMMA MinIs ==
  ASSUME NEW a \in Int, NEW b \in Int
  PROVE  Min({a, b}) = IF a <= b THEN a ELSE b
<1> DEFINE S == {a, b}
           m == IF a <= b THEN a ELSE b
<1>1. m \in S /\ \A y \in S : m <= y
  OBVIOUS
<1>2. \E x \in S : \A y \in S : x <= y
  BY <1>1
<1> HIDE DEF S
<1>3. Min(S) \in S /\ \A y \in S : Min(S) <= y
  BY <1>2, Zenon DEF Min
<1>4. Min(S) = m
  BY <1>1, <1>3 DEF S
<1> QED BY <1>4 DEF S

\* The nodes found are one to MaxNodes, and with them every node with a list.
LEMMA NodesFound ==
  ASSUME machine \in Machines
  PROVE  /\ NumNodes \in 1 .. MaxNodes
         /\ \A n \in NodeId : ReadWhole(n) => n < NumNodes
<1> DEFINE S == {1} \cup {n + 1 : n \in {m \in NodeId : machine.list[m].readable}}
<1>1. MaxNodes \in Nat \ {0}
  BY PlatformAssumption
<1>2. S \in SUBSET (0 .. MaxNodes) /\ 1 \in S /\ S \subseteq 1 .. MaxNodes
  BY <1>1 DEF NodeId
<1>3. NumNodes = Max(S)
  BY DEF NumNodes, DetectNodes
<1>4. ASSUME NEW n \in NodeId, ReadWhole(n) PROVE n + 1 \in S
  BY <1>4 DEF ReadWhole
<1> HIDE DEF S
<1>5. Max(S) \in S /\ \A y \in S : Max(S) >= y
  BY <1>1, <1>2, MaxIs
<1>6. Max(S) \in 1 .. MaxNodes
  BY <1>2, <1>5
<1>7. ASSUME NEW n \in NodeId, ReadWhole(n) PROVE n < Max(S)
  <2>1. n \in Int /\ Max(S) \in Int
    BY <1>6, <1>1 DEF NodeId
  <2>2. Max(S) >= n + 1
    BY <1>4, <1>5, <1>7
  <2> QED BY <2>1, <2>2
<1> QED BY <1>3, <1>6, <1>7

\* The mask of a list read whole is the node's CPUs, as far as the mask goes.
LEMMA MaskIs ==
  ASSUME machine \in Machines, NEW n \in NodeId, ReadWhole(n)
  PROVE  CpuMask(machine.list[n]) = machine.cpus[n] \cap Cpu
<1> DEFINE l == machine.list[n]
<1>1. /\ Truthful(l, machine.cpus[n])
      /\ l.readable /\ l.numeric /\ ~ l.full
  BY MachineAssumption DEF ReadWhole
<1> HIDE DEF l
<1>2. /\ \A r \in l.ranges : r[1] \in Nat /\ r[2] \in Nat /\ r[1] <= r[2]
      /\ machine.cpus[n] = UNION {r[1] .. r[2] : r \in l.ranges}
  BY <1>1 DEF Truthful
<1>3. ~ \E r \in l.ranges : r[1] > r[2]
  BY <1>2
<1>4. CpuMask(l) = UNION {r[1] .. Min({r[2], CpuSetSize - 1}) : r \in l.ranges}
  BY <1>1, <1>3, Zenon DEF CpuMask
<1>5. CpuSetSize \in Nat \ {0} /\ CpuSetSize - 1 \in Int
  BY PlatformAssumption
<1>6. ASSUME NEW r \in l.ranges, NEW c
      PROVE  c \in r[1] .. r[2] /\ c \in Cpu <=> c \in r[1] .. Min({r[2], CpuSetSize - 1})
  <2>1. r[1] \in Int /\ r[2] \in Int
    BY <1>2
  <2> HIDE DEF Cpu
  <2>2. Min({r[2], CpuSetSize - 1}) = IF r[2] <= CpuSetSize - 1 THEN r[2] ELSE CpuSetSize - 1
    BY <1>5, <2>1, MinIs
  <2>3. ASSUME NEW d \in Int
        PROVE  d \in r[1] .. r[2] /\ d \in Cpu <=> d \in r[1] .. Min({r[2], CpuSetSize - 1})
    BY <1>2, <1>5, <2>1, <2>2 DEF Cpu
  <2>4. (c \in r[1] .. r[2] => c \in Int) /\ (c \in r[1] .. Min({r[2], CpuSetSize - 1}) => c \in Int)
    OBVIOUS
  <2> QED BY <2>3, <2>4, Zenon
<1>7. ASSUME NEW c PROVE c \in CpuMask(l) <=> c \in machine.cpus[n] /\ c \in Cpu
  BY <1>2, <1>4, <1>6, Zenon
<1> QED BY <1>7 DEF l

\* bind_thread_to_node moves a thread to the node's CPUs if the mask can name one,
\* and leaves it alone if not.
LEMMA BindIs ==
  ASSUME machine \in Machines, NEW n \in NodeId, NEW c
  PROVE  BindThreadToNode(machine, n, c) =
           IF Pinnable(n) THEN PinCpus(n) ELSE c
<1> DEFINE l == machine.list[n]
           mask == CpuMask(l)
<1>1. BindThreadToNode(machine, n, c) =
        IF mask \cap machine.allowed = {} THEN c ELSE mask \cap machine.allowed
  BY DEF BindThreadToNode, SetAffinity
<1>2. CASE ReadWhole(n)
  <2>1. mask \cap machine.allowed = PinCpus(n)
    BY <1>2, MaskIs DEF PinCpus
  <2> HIDE DEF mask
  <2> QED BY <1>1, <1>2, <2>1 DEF Pinnable
<1>3. CASE ~ ReadWhole(n)
  <2>1. mask = {}
    BY <1>3, Zenon DEF CpuMask, ReadWhole
  <2> HIDE DEF mask
  <2> QED BY <1>1, <1>3, <2>1 DEF Pinnable
<1> QED BY <1>2, <1>3

-----------------------------------------------------------------------------
(* Handles, as a function of the variables that hold them, so that what is *)
(* said of them can be said of the next state too.                         *)

HandleSet(hs, ss, os, ps, x) ==
  {<<"instance", a>> : a \in {b \in Allocs : hs[b] = x}}
    \cup {<<"slot", t>> : t \in {u \in Threads : ss[u].heap = x}}
    \cup {<<"dropping", t>> : t \in {u \in Threads : os[u] = x /\ ps[u] # "free"}}

\* The handles of this state and of the next.
LEMMA HandlesAre ==
  \A x : /\ Handles(x) = HandleSet(heapOf, slot, old, pc, x)
         /\ Handles(x)' = HandleSet(heapOf', slot', old', pc', x)
BY DEF Handles, HandleSet

\* What is a handle, by its kind.
LEMMA InHandleSet ==
  ASSUME NEW hs, NEW ss, NEW os, NEW ps, NEW x
  PROVE  /\ \A a : <<"instance", a>> \in HandleSet(hs, ss, os, ps, x) <=>
                     a \in Allocs /\ hs[a] = x
         /\ \A t : <<"slot", t>> \in HandleSet(hs, ss, os, ps, x) <=>
                     t \in Threads /\ ss[t].heap = x
         /\ \A t : <<"dropping", t>> \in HandleSet(hs, ss, os, ps, x) <=>
                     t \in Threads /\ os[t] = x /\ ps[t] # "free"
         /\ \A h \in HandleSet(hs, ss, os, ps, x) :
              \/ \E a \in Allocs : h = <<"instance", a>>
              \/ \E t \in Threads : h = <<"slot", t>>
              \/ \E t \in Threads : h = <<"dropping", t>>
BY DEF HandleSet

\* They are finitely many.
LEMMA FiniteHandles ==
  ASSUME NEW hs, NEW ss, NEW os, NEW ps, NEW x
  PROVE  IsFiniteSet(HandleSet(hs, ss, os, ps, x))
<1> DEFINE kinds == {"instance", "slot", "dropping"}
           owners == Threads \cup Allocs
<1>1. HandleSet(hs, ss, os, ps, x) \in SUBSET (kinds \X owners)
  BY InHandleSet
<1>2. IsFiniteSet(owners)
  BY LifecycleAssumption, FS_Union
<1>3. IsFiniteSet(kinds)
  <2>1. IsFiniteSet({"instance"}) /\ IsFiniteSet({"slot"}) /\ IsFiniteSet({"dropping"})
    BY FS_Singleton
  <2>2. IsFiniteSet({"instance"} \cup {"slot"})
    BY <2>1, FS_Union
  <2>3. IsFiniteSet(({"instance"} \cup {"slot"}) \cup {"dropping"})
    BY <2>1, <2>2, FS_Union
  <2>4. ({"instance"} \cup {"slot"}) \cup {"dropping"} = kinds
    OBVIOUS
  <2> QED BY <2>3, <2>4
<1> HIDE DEF kinds, owners
<1>4. IsFiniteSet(kinds \X owners)
  BY <1>2, <1>3, FS_Product
<1> QED BY <1>1, <1>4, FS_Subset

\* Two states have the same handles on a heap if each kind is the same.
LEMMA SameHandles ==
  ASSUME NEW hs, NEW ss, NEW os, NEW ps, NEW hs2, NEW ss2, NEW os2, NEW ps2, NEW x,
         \A a \in Allocs : hs[a] = x <=> hs2[a] = x,
         \A t \in Threads : ss[t].heap = x <=> ss2[t].heap = x,
         \A t \in Threads : (os[t] = x /\ ps[t] # "free") <=> (os2[t] = x /\ ps2[t] # "free")
  PROVE  HandleSet(hs, ss, os, ps, x) = HandleSet(hs2, ss2, os2, ps2, x)
BY DEF HandleSet

\* Adding, removing and replacing an element.
LEMMA Counting ==
  ASSUME NEW S, NEW T, NEW a, NEW b, IsFiniteSet(S)
  PROVE  /\ a \notin S /\ T = S \cup {a} => Cardinality(T) = Cardinality(S) + 1
         /\ a \in S /\ T = S \ {a} => Cardinality(T) = Cardinality(S) - 1
         /\ a \in S /\ b \notin S /\ T = (S \ {a}) \cup {b} => Cardinality(T) = Cardinality(S)
<1>1. Cardinality(S) \in Nat
  BY FS_CardinalityType
<1>2. a \notin S => Cardinality(S \cup {a}) = Cardinality(S) + 1
  BY FS_AddElement
<1>3. a \in S => Cardinality(S \ {a}) = Cardinality(S) - 1
  BY FS_RemoveElement
<1>4. IsFiniteSet(S \ {a})
  BY FS_RemoveElement
<1>5. b \notin S => Cardinality((S \ {a}) \cup {b}) = Cardinality(S \ {a}) + 1
  BY <1>4, FS_AddElement
<1>6. a \in S /\ b \notin S => Cardinality((S \ {a}) \cup {b}) = Cardinality(S)
  BY <1>1, <1>3, <1>5
<1> QED BY <1>2, <1>3, <1>6, Zenon

-----------------------------------------------------------------------------
(* Types and control.                                                      *)

\* The number of nodes is positive, and stays what it is.
LEMMA NodesStay ==
  ASSUME machine \in Machines
  PROVE  NumNodes \in Nat \ {0} /\ (machine' = machine => NumNodes' = NumNodes)
<1>1. NumNodes \in 1 .. MaxNodes /\ MaxNodes \in Nat
  BY NodesFound, PlatformAssumption
<1> QED BY <1>1 DEF NumNodes

\* Counts that are not zero can be subtracted from.
LEMMA Subtracted ==
  ASSUME NEW f \in [Addrs -> Nat], NEW x, f[x] \in Nat \ {0}
  PROVE  [f EXCEPT ![x] = @ - 1] \in [Addrs -> Nat]
<1> DEFINE n == f[x] - 1
<1>1. n \in Nat
  OBVIOUS
<1> HIDE DEF n
<1>2. [f EXCEPT ![x] = n] \in [Addrs -> Nat]
  BY <1>1
<1> QED BY <1>2 DEF n

\* A count that is subtracted from is not zero.
LEMMA CountPositive ==
  ASSUME Inv, NEW t \in Threads, pc[t] \in {"drain", "release"}
  PROVE  /\ old[t] \in alive /\ old[t] \in Addrs
         /\ <<"dropping", t>> \in Handles(old[t])
         /\ refs[old[t]] = Cardinality(Handles(old[t])) /\ refs[old[t]] \in Nat \ {0}
<1>1. old[t] \in Addrs
  BY DEF Inv, TypeOK, Control, SlotOK, Dropping
<1>2. <<"dropping", t>> \in Handles(old[t])
  BY HandlesAre, InHandleSet
<1>3. old[t] \in alive
  BY <1>1, <1>2 DEF Inv, HeapOutlivesHandles
<1>4. refs[old[t]] = Cardinality(Handles(old[t]))
  BY <1>3 DEF Inv, RefsAreHandles
<1>5. IsFiniteSet(Handles(old[t]))
  BY HandlesAre, FiniteHandles
<1>6. Cardinality(Handles(old[t])) \in Nat \ {0}
  BY <1>2, <1>5, FS_CardinalityType, FS_EmptySet
<1> QED BY <1>1, <1>2, <1>3, <1>4, <1>6

\* The node of a slot is one that can be asked for.
LEMMA SlotNode ==
  ASSUME Inv, NEW t \in Threads
  PROVE  slot[t].node \in NodeId
<1>1. NumNodes \in 1 .. MaxNodes /\ MaxNodes \in Nat
  BY NodesFound, PlatformAssumption DEF Inv, TypeOK
<1>2. slot[t].node \in 0 .. NumNodes - 1
  BY DEF Inv, TypeOK
<1> QED BY <1>1, <1>2 DEF NodeId

\* Steps that keep threads, instances and handles in the order of a call.
LEMMA StepControl ==
  ASSUME Inv, NEW t \in Threads, Step(t) \/ ThreadExit(t) \/ ThreadStart(t)
  PROVE  TypeOK' /\ Control'
<1> USE LifecycleAssumption
<1>0. machine' = machine /\ NumNodes' = NumNodes /\ NumNodes \in Nat \ {0}
  BY NodesStay DEF Inv, TypeOK, Step, ThreadExit, ThreadStart, OnceClaim, Create, OnceReady,
       SlotHit, SlotMiss, Bind, Affinity, Drain, Release, FreeHeap, place
<1> HIDE DEF NumNodes
<1>1. CASE OnceClaim(t)
  <2> USE <1>1 DEF OnceClaim, Goto, Return, place, Unbound, MayClaim
  <2>1. TypeOK'
    BY <1>0 DEF Inv, Control, TypeOK, CallOK, SlotOK, OnceOK, Dropping
  <2>2. CallOK'
    BY DEF Inv, TypeOK, Control, CallOK, SlotOK, CreatesAlone, Dropping
  <2>3. CreatesAlone'
    BY DEF Inv, TypeOK, Control, CallOK, CreatesAlone
  <2>4. OnceOK'
    BY DEF Inv, TypeOK, Control, CallOK, OnceOK
  <2>5. SlotOK'
    BY DEF Inv, TypeOK, Control, CallOK, OnceOK, SlotOK, Dropping
  <2> QED BY <2>1, <2>2, <2>3, <2>4, <2>5 DEF Control
<1>2. CASE Create(t)
  <2> USE <1>2 DEF Create, Goto, Return, place, Unbound, OnceFilled
  <2>1. TypeOK'
    BY <1>0 DEF Inv, Control, TypeOK, CallOK, SlotOK, OnceOK, Dropping
  <2>2. CallOK'
    BY DEF Inv, TypeOK, Control, CallOK, SlotOK, CreatesAlone, Dropping
  <2>3. CreatesAlone'
    BY DEF Inv, TypeOK, Control, CallOK, CreatesAlone
  <2>4. OnceOK'
    BY DEF Inv, TypeOK, Control, CallOK, OnceOK
  <2>5. SlotOK'
    BY DEF Inv, TypeOK, Control, CallOK, OnceOK, SlotOK, Dropping
  <2> QED BY <2>1, <2>2, <2>3, <2>4, <2>5 DEF Control
<1>3. CASE OnceReady(t)
  BY <1>0, <1>3 DEF OnceReady, Inv, TypeOK, Control, CallOK, CreatesAlone, OnceOK, SlotOK, Dropping,
       Goto, Return, place, Unbound
<1>4. CASE SlotHit(t)
  BY <1>0, <1>4 DEF SlotHit, Inv, TypeOK, Control, CallOK, CreatesAlone, OnceOK, SlotOK, Dropping,
       Goto, Return, place, Unbound
<1>5. CASE SlotMiss(t)
  BY <1>0, <1>5 DEF SlotMiss, Inv, TypeOK, Control, CallOK, CreatesAlone, OnceOK, SlotOK, Dropping,
       Goto, Return, place, Unbound
<1>6. CASE Bind(t)
  <2> USE <1>6 DEF Bind, Goto, Return, place, Unbound, Cloned, NextNode
  <2>1. TypeOK'
    BY <1>0 DEF Inv, Control, TypeOK, CallOK, SlotOK, OnceOK, Dropping
  <2>2. CallOK'
    BY DEF Inv, TypeOK, Control, CallOK, SlotOK, CreatesAlone, Dropping
  <2>3. CreatesAlone'
    BY DEF Inv, TypeOK, Control, CallOK, CreatesAlone
  <2>4. OnceOK'
    BY DEF Inv, TypeOK, Control, CallOK, OnceOK
  <2>5. SlotOK'
    BY DEF Inv, TypeOK, Control, CallOK, OnceOK, SlotOK, Dropping
  <2> QED BY <2>1, <2>2, <2>3, <2>4, <2>5 DEF Control
<1>7. CASE Affinity(t)
  <2> USE <1>7 DEF Affinity, Goto, Return, place, Unbound
  <2>1. TypeOK'
    <3>1. BindThreadToNode(machine, slot[t].node, cpus[t]) \in SUBSET machine.allowed
      <4>1. slot[t].node \in NodeId
        BY SlotNode
      <4> QED BY <4>1, BindIs DEF Inv, TypeOK, PinCpus
    <3>2. cpus' \in [Threads -> SUBSET machine.allowed]
      BY <3>1 DEF Inv, TypeOK
    <3> QED BY <1>0, <3>2 DEF Inv, TypeOK
  <2>2. CallOK'
    BY DEF Inv, TypeOK, Control, CallOK, SlotOK, CreatesAlone, Dropping
  <2>3. CreatesAlone'
    BY DEF Inv, TypeOK, Control, CallOK, CreatesAlone
  <2>4. OnceOK'
    BY DEF Inv, TypeOK, Control, CallOK, OnceOK
  <2>5. SlotOK'
    BY DEF Inv, TypeOK, Control, CallOK, OnceOK, SlotOK, Dropping
  <2> QED BY <2>1, <2>2, <2>3, <2>4, <2>5 DEF Control
<1>8. CASE Drain(t)
  BY <1>0, <1>8 DEF Drain, Inv, TypeOK, Control, CallOK, CreatesAlone, OnceOK, SlotOK, Dropping,
       Goto, Return, place, Unbound
<1>9. CASE Release(t)
  <2> USE <1>9 DEF Release, Goto, Return, place, Unbound, WasLast, After
  <2>1. TypeOK'
    <3>1. refs' \in [Addrs -> Nat]
      <4>1. pc[t] \in {"drain", "release"} /\ refs' = [refs EXCEPT ![old[t]] = @ - 1]
        OBVIOUS
      <4>2. refs[old[t]] \in Nat \ {0}
        BY <4>1, CountPositive
      <4>3. refs \in [Addrs -> Nat]
        BY DEF Inv, TypeOK
      <4> QED BY <4>1, <4>2, <4>3, Subtracted
    <3>2. pc' \in [Threads -> {"idle", "once", "create", "slot", "assign", "affinity",
                              "drain", "release", "free"}]
      BY DEF Inv, TypeOK
    <3>3. old' \in [Threads -> Addrs \cup {NULL}]
      BY DEF Inv, TypeOK
    <3> QED BY <1>0, <3>1, <3>2, <3>3 DEF Inv, TypeOK
  <2>2. CallOK'
    BY DEF Inv, TypeOK, Control, CallOK, SlotOK, CreatesAlone, Dropping
  <2>3. CreatesAlone'
    BY DEF Inv, TypeOK, Control, CallOK, CreatesAlone
  <2>4. OnceOK'
    BY DEF Inv, TypeOK, Control, CallOK, OnceOK
  <2>5. SlotOK'
    BY DEF Inv, TypeOK, Control, CallOK, OnceOK, SlotOK, Dropping
  <2> QED BY <2>1, <2>2, <2>3, <2>4, <2>5 DEF Control
<1>10. CASE FreeHeap(t)
  <2> USE <1>10 DEF FreeHeap, Goto, Return, place, Unbound, After
  <2>1. TypeOK'
    BY <1>0 DEF Inv, Control, TypeOK, CallOK, SlotOK, OnceOK, Dropping
  <2>2. CallOK'
    BY DEF Inv, TypeOK, Control, CallOK, SlotOK, CreatesAlone, Dropping
  <2>3. CreatesAlone'
    BY DEF Inv, TypeOK, Control, CallOK, CreatesAlone
  <2>4. OnceOK'
    BY DEF Inv, TypeOK, Control, CallOK, OnceOK
  <2>5. SlotOK'
    BY DEF Inv, TypeOK, Control, CallOK, OnceOK, SlotOK, Dropping
  <2> QED BY <2>1, <2>2, <2>3, <2>4, <2>5 DEF Control
<1>11. CASE ThreadExit(t)
  <2> USE <1>11 DEF ThreadExit, Goto, Return, place, Unbound
  <2>1. TypeOK'
    <3>1. 0 \in 0 .. NumNodes - 1
      BY <1>0
    <3>2. slot' \in [Threads -> [state : {"none", "bound", "destroyed"},
                                heap : Addrs \cup {NULL}, node : 0 .. NumNodes - 1]]
      BY <3>1 DEF Inv, TypeOK
    <3>3. pc' \in [Threads -> {"idle", "once", "create", "slot", "assign", "affinity",
                              "drain", "release", "free"}]
      BY DEF Inv, TypeOK
    <3>4. old' \in [Threads -> Addrs \cup {NULL}]
      BY DEF Inv, TypeOK
    <3> QED BY <1>0, <3>2, <3>3, <3>4 DEF Inv, TypeOK
  <2>2. CallOK'
    BY DEF Inv, TypeOK, Control, CallOK, SlotOK, CreatesAlone, Dropping
  <2>3. CreatesAlone'
    BY DEF Inv, TypeOK, Control, CallOK, CreatesAlone
  <2>4. OnceOK'
    BY DEF Inv, TypeOK, Control, CallOK, OnceOK
  <2>5. SlotOK'
    BY DEF Inv, TypeOK, Control, CallOK, OnceOK, SlotOK, Dropping
  <2> QED BY <2>1, <2>2, <2>3, <2>4, <2>5 DEF Control
<1>12. CASE ThreadStart(t)
  BY <1>0, <1>12 DEF ThreadStart, Inv, TypeOK, Control, CallOK, CreatesAlone, OnceOK, SlotOK, Dropping,
       Goto, Return, place, Unbound
<1> QED BY <1>1, <1>2, <1>3, <1>4, <1>5, <1>6, <1>7, <1>8, <1>9, <1>10, <1>11, <1>12 DEF Step

\* A call on an instance, and the comings and goings of instances.
LEMMA AllocControl ==
  ASSUME Inv, NEW a \in Allocs,
         NewAlloc(a) \/ \E t \in Threads : Enter(t, a) \/ DropAlloc(t, a)
  PROVE  TypeOK' /\ Control'
<1> USE LifecycleAssumption
<1>0. machine' = machine /\ NumNodes' = NumNodes
  BY NodesStay DEF Inv, TypeOK, NewAlloc, Enter, DropAlloc, place
<1> HIDE DEF NumNodes
<1>1. CASE NewAlloc(a)
  BY <1>0, <1>1 DEF NewAlloc, Inv, TypeOK, Control, CallOK, CreatesAlone, OnceOK, SlotOK, Dropping, place
<1>2. ASSUME NEW t \in Threads, Enter(t, a) PROVE TypeOK' /\ Control'
  BY <1>0, <1>2 DEF Enter, Inv, TypeOK, Control, CallOK, CreatesAlone, OnceOK, SlotOK, Dropping,
       Goto, place
<1>3. ASSUME NEW t \in Threads, DropAlloc(t, a) PROVE TypeOK' /\ Control'
  <2> USE <1>3 DEF DropAlloc, Goto, place
  <2>1. TypeOK'
    <3>1. once' \in [Allocs -> {"empty", "running", "full", "gone"}]
      BY DEF Inv, TypeOK
    <3>2. pc' \in [Threads -> {"idle", "once", "create", "slot", "assign", "affinity",
                              "drain", "release", "free"}]
      BY DEF Inv, TypeOK
    <3>3. old' \in [Threads -> Addrs \cup {NULL}]
      BY DEF Inv, TypeOK
    <3>4. heapOf' \in [Allocs -> Addrs \cup {NULL}]
      BY DEF Inv, TypeOK
    <3> QED BY <1>0, <3>1, <3>2, <3>3, <3>4 DEF Inv, TypeOK
  <2>2. CallOK'
    BY DEF Inv, TypeOK, Control, CallOK, SlotOK, CreatesAlone, Dropping
  <2>3. CreatesAlone'
    BY DEF Inv, TypeOK, Control, CallOK, CreatesAlone
  <2>4. OnceOK'
    BY DEF Inv, TypeOK, Control, CallOK, OnceOK
  <2>5. SlotOK'
    BY DEF Inv, TypeOK, Control, CallOK, OnceOK, SlotOK, Dropping
  <2> QED BY <2>1, <2>2, <2>3, <2>4, <2>5 DEF Control
<1> QED BY <1>1, <1>2, <1>3

-----------------------------------------------------------------------------
(* Counts.                                                                 *)

Counted == RefsAreHandles /\ HeapOutlivesHandles

\* A step that neither counts nor frees, and after which every heap has as many
\* handles as before.
LEMMA CountKept ==
  ASSUME Inv, refs' = refs, alive' = alive,
         \A x \in Addrs : Cardinality(Handles(x)') = Cardinality(Handles(x)),
         \A t \in Threads : pc[t] = "free" <=> pc'[t] = "free",
         \A t \in Threads : pc[t] = "free" => old'[t] = old[t]
  PROVE  Counted'
<1>1. \A x \in Addrs : Handles(x)' = {} <=> Handles(x) = {}
  BY HandlesAre, FiniteHandles, FS_EmptySet
<1>2. RefsAreHandles'
  BY DEF Inv, TypeOK, RefsAreHandles
<1>3. HeapOutlivesHandles'
  BY <1>1 DEF Inv, TypeOK, HeapOutlivesHandles
<1> QED BY <1>2, <1>3 DEF Counted

\* A handle that changes hands: from an instance's or a slot to a thread that
\* drops it.
LEMMA HandOver ==
  ASSUME Inv, NEW x \in Addrs, NEW h, NEW t \in Threads,
         h \in Handles(x), <<"dropping", t>> \notin Handles(x),
         Handles(x)' = (Handles(x) \ {h}) \cup {<<"dropping", t>>},
         \A y \in Addrs \ {x} : Handles(y)' = Handles(y)
  PROVE  \A y \in Addrs : Cardinality(Handles(y)') = Cardinality(Handles(y))
<1>1. IsFiniteSet(Handles(x))
  BY HandlesAre, FiniteHandles
<1>2. Cardinality(Handles(x)') = Cardinality(Handles(x))
  BY <1>1, Counting
<1> QED BY <1>2

\* Steps that move no handle.
LEMMA QuietCount ==
  ASSUME Inv, NEW t \in Threads,
         \/ OnceClaim(t) \/ OnceReady(t) \/ SlotHit(t) \/ Affinity(t) \/ Drain(t)
         \/ ThreadStart(t) \/ \E a \in Allocs : Enter(t, a) \/ NewAlloc(a)
  PROVE  Counted'
<1>1. heapOf' = heapOf /\ old' = old /\ refs' = refs /\ alive' = alive
  BY DEF OnceClaim, OnceReady, SlotHit, Affinity, Drain, ThreadStart, Enter, NewAlloc, Return
<1>2. \A u \in Threads : pc[u] = "free" <=> pc'[u] = "free"
  BY DEF OnceClaim, OnceReady, SlotHit, Affinity, Drain, ThreadStart, Enter, NewAlloc,
         Return, Goto, Inv, TypeOK
<1>3. \A u \in Threads : slot'[u].heap = slot[u].heap
  BY DEF OnceClaim, OnceReady, SlotHit, Affinity, Drain, ThreadStart, Enter, NewAlloc,
         Return, Goto, Inv, TypeOK, Control, SlotOK, Unbound
<1>4. \A x : Handles(x)' = Handles(x)
  BY <1>1, <1>2, <1>3, HandlesAre, SameHandles
<1> QED BY <1>1, <1>2, <1>4, CountKept

\* A slot given up: its handle goes to the hands of its thread.
LEMMA GiveUpCount ==
  ASSUME Inv, NEW t \in Threads, SlotMiss(t) \/ ThreadExit(t)
  PROVE  Counted'
<1>1. /\ heapOf' = heapOf /\ refs' = refs /\ alive' = alive
      /\ pc[t] # "free" /\ pc'[t] # "free" /\ old[t] = NULL
      /\ old' = [old EXCEPT ![t] = slot[t].heap]
      /\ slot'[t].heap = NULL
      /\ \A u \in Threads \ {t} : slot'[u] = slot[u] /\ pc'[u] = pc[u]
  BY DEF SlotMiss, ThreadExit, Unbound, Inv, TypeOK, Control, SlotOK, Dropping, Goto
<1>2. \A u \in Threads : pc[u] = "free" <=> pc'[u] = "free"
  BY <1>1
<1>3. \A u \in Threads : pc[u] = "free" => old'[u] = old[u]
  BY <1>1 DEF Inv, TypeOK
<1>4. CASE slot[t].heap = NULL
  <2>1. old' = old
    BY <1>1, <1>4 DEF Inv, TypeOK
  <2>2. \A u \in Threads : slot'[u].heap = slot[u].heap
    BY <1>1, <1>4
  <2>3. \A x : Handles(x)' = Handles(x)
    BY <1>1, <1>2, <2>1, <2>2, HandlesAre, SameHandles
  <2> QED BY <1>1, <1>2, <1>3, <2>3, CountKept
<1>5. CASE slot[t].heap # NULL
  <2>1. PICK x \in Addrs : x = slot[t].heap
    BY <1>5 DEF Inv, TypeOK
  <2>2. /\ <<"slot", t>> \in Handles(x) /\ <<"dropping", t>> \notin Handles(x)
        /\ x # NULL
    BY <1>1, <1>5, <2>1, HandlesAre, InHandleSet
  <2>3. /\ \A u \in Threads \ {t} : old'[u] = old[u]
        /\ old'[t] = x
    BY <1>1, <2>1 DEF Inv, TypeOK
  <2>4. ASSUME NEW y \in Addrs \ {x} PROVE Handles(y)' = Handles(y)
    <3>1. y # NULL /\ y # x
      BY LifecycleAssumption
    <3>2. \A u \in Threads : slot[u].heap = y <=> slot'[u].heap = y
      BY <1>1, <2>1, <3>1
    <3>3. \A u \in Threads : (old[u] = y /\ pc[u] # "free") <=> (old'[u] = y /\ pc'[u] # "free")
      BY <1>1, <2>3, <3>1
    <3>4. \A a \in Allocs : heapOf[a] = y <=> heapOf'[a] = y
      BY <1>1
    <3>5. HandleSet(heapOf, slot, old, pc, y) = HandleSet(heapOf', slot', old', pc', y)
      BY <3>2, <3>3, <3>4, SameHandles
    <3> QED BY <3>5, HandlesAre
  <2>5. Handles(x)' = (Handles(x) \ {<<"slot", t>>}) \cup {<<"dropping", t>>}
    <3>1. slot'[t].heap # x
      BY <1>1, <2>2
    <3> QED BY <1>1, <2>1, <2>2, <2>3, <3>1, HandlesAre DEF HandleSet
  <2>6. \A y \in Addrs : Cardinality(Handles(y)') = Cardinality(Handles(y))
    BY <2>1, <2>2, <2>4, <2>5, HandOver
  <2> QED BY <1>1, <1>2, <1>3, <2>6, CountKept
<1> QED BY <1>4, <1>5

\* A dropped instance hands its handle to the thread that drops it.
LEMMA DropCount ==
  ASSUME Inv, NEW t \in Threads, NEW b \in Allocs, DropAlloc(t, b)
  PROVE  Counted'
<1>1. /\ slot' = slot /\ refs' = refs /\ alive' = alive
      /\ pc[t] # "free" /\ pc'[t] # "free" /\ old[t] = NULL
      /\ old' = [old EXCEPT ![t] = heapOf[b]]
      /\ heapOf' = [heapOf EXCEPT ![b] = NULL]
      /\ \A u \in Threads \ {t} : pc'[u] = pc[u]
  BY DEF DropAlloc, Inv, TypeOK, Control, SlotOK, OnceOK, Dropping, Goto
<1>2. \A u \in Threads : pc[u] = "free" <=> pc'[u] = "free"
  BY <1>1
<1>3. \A u \in Threads : pc[u] = "free" => old'[u] = old[u]
  BY <1>1 DEF Inv, TypeOK
<1>4. CASE heapOf[b] = NULL
  <2>1. old' = old /\ heapOf' = heapOf
    BY <1>1, <1>4 DEF Inv, TypeOK
  <2>2. \A x : Handles(x)' = Handles(x)
    BY <1>1, <1>2, <2>1, HandlesAre, SameHandles
  <2> QED BY <1>1, <1>2, <1>3, <2>2, CountKept
<1>5. CASE heapOf[b] # NULL
  <2>1. PICK x \in Addrs : x = heapOf[b]
    BY <1>5 DEF Inv, TypeOK
  <2>2. /\ <<"instance", b>> \in Handles(x) /\ <<"dropping", t>> \notin Handles(x)
        /\ x # NULL
    BY <1>1, <1>5, <2>1, HandlesAre, InHandleSet
  <2>3. /\ \A u \in Threads \ {t} : old'[u] = old[u]
        /\ old'[t] = x
        /\ \A a \in Allocs \ {b} : heapOf'[a] = heapOf[a]
        /\ heapOf'[b] = NULL
    BY <1>1, <2>1 DEF Inv, TypeOK
  <2>4. ASSUME NEW y \in Addrs \ {x} PROVE Handles(y)' = Handles(y)
    <3>1. y # NULL /\ y # x
      BY LifecycleAssumption
    <3>2. \A a \in Allocs : heapOf[a] = y <=> heapOf'[a] = y
      BY <2>1, <2>3, <3>1
    <3>3. \A u \in Threads : (old[u] = y /\ pc[u] # "free") <=> (old'[u] = y /\ pc'[u] # "free")
      BY <1>1, <2>3, <3>1
    <3>4. \A u \in Threads : slot[u].heap = y <=> slot'[u].heap = y
      BY <1>1
    <3>5. HandleSet(heapOf, slot, old, pc, y) = HandleSet(heapOf', slot', old', pc', y)
      BY <3>2, <3>3, <3>4, SameHandles
    <3> QED BY <3>5, HandlesAre
  <2>5. Handles(x)' = (Handles(x) \ {<<"instance", b>>}) \cup {<<"dropping", t>>}
    BY <1>1, <2>1, <2>2, <2>3, HandlesAre DEF HandleSet
  <2>6. \A y \in Addrs : Cardinality(Handles(y)') = Cardinality(Handles(y))
    BY <2>1, <2>2, <2>4, <2>5, HandOver
  <2> QED BY <1>1, <1>2, <1>3, <2>6, CountKept
<1> QED BY <1>4, <1>5

\* The first handle of a heap.
LEMMA CreateCount ==
  ASSUME Inv, NEW t \in Threads, Create(t)
  PROVE  Counted'
<1>1. PICK x \in Addrs \ alive :
        /\ alive' = alive \cup {x}
        /\ refs' = [refs EXCEPT ![x] = 1]
        /\ heapOf' = [heapOf EXCEPT ![on[t]] = x]
  BY DEF Create
<1>2. /\ on[t] \in Allocs /\ heapOf[on[t]] = NULL
      /\ slot' = slot /\ old' = old /\ pc[t] # "free" /\ pc'[t] # "free"
      /\ \A u \in Threads \ {t} : pc'[u] = pc[u]
  BY DEF Create, Inv, TypeOK, Control, CallOK, OnceOK, Goto
<1>3. PICK b \in Allocs : b = on[t]
  BY <1>2
<1>4. Handles(x) = {} /\ x # NULL
  BY LifecycleAssumption DEF Inv, HeapOutlivesHandles
<1>5. /\ \A a \in Allocs \ {b} : heapOf'[a] = heapOf[a]
      /\ heapOf'[b] = x /\ heapOf[b] = NULL
  BY <1>1, <1>2, <1>3 DEF Inv, TypeOK
<1>6. \A u \in Threads : pc[u] = "free" <=> pc'[u] = "free"
  BY <1>2
<1>7. ASSUME NEW y \in Addrs \ {x} PROVE Handles(y)' = Handles(y)
  <2>1. y # NULL /\ y # x
    BY LifecycleAssumption
  <2>2. \A a \in Allocs : heapOf[a] = y <=> heapOf'[a] = y
    BY <1>5, <2>1
  <2>3. \A u \in Threads : (old[u] = y /\ pc[u] # "free") <=> (old'[u] = y /\ pc'[u] # "free")
    BY <1>2, <1>6
  <2>4. \A u \in Threads : slot[u].heap = y <=> slot'[u].heap = y
    BY <1>2
  <2>5. HandleSet(heapOf, slot, old, pc, y) = HandleSet(heapOf', slot', old', pc', y)
    BY <2>2, <2>3, <2>4, SameHandles
  <2> QED BY <2>5, HandlesAre
<1>8. Handles(x)' = {<<"instance", b>>}
  <2>1. /\ \A a \in Allocs : heapOf[a] # x
        /\ \A u \in Threads : slot[u].heap # x /\ ~ (old[u] = x /\ pc[u] # "free")
    <3>1. HandleSet(heapOf, slot, old, pc, x) = {}
      BY <1>4, HandlesAre
    <3>2. /\ \A a \in Allocs : <<"instance", a>> \notin HandleSet(heapOf, slot, old, pc, x)
          /\ \A u \in Threads : /\ <<"slot", u>> \notin HandleSet(heapOf, slot, old, pc, x)
                               /\ <<"dropping", u>> \notin HandleSet(heapOf, slot, old, pc, x)
      BY <3>1
    <3> QED BY <3>2, InHandleSet
  <2>2. /\ \A a \in Allocs : heapOf'[a] = x <=> a = b
        /\ \A u \in Threads : slot'[u].heap # x /\ ~ (old'[u] = x /\ pc'[u] # "free")
    BY <1>2, <1>5, <1>6, <2>1
  <2> QED BY <2>2, HandlesAre DEF HandleSet
<1>9. Cardinality(Handles(x)') = 1
  BY <1>8, FS_Singleton
<1>10. RefsAreHandles'
  BY <1>1, <1>7, <1>9 DEF Inv, TypeOK, RefsAreHandles
<1>11. HeapOutlivesHandles'
  <2>1. ASSUME NEW y \in Addrs, Handles(y)' # {} PROVE y \in alive'
    BY <1>1, <1>7, <2>1 DEF Inv, HeapOutlivesHandles
  <2>2. ASSUME NEW u \in Threads, pc'[u] = "free"
        PROVE  /\ old'[u] \in alive' /\ Handles(old[u])' = {}
               /\ \A v \in Threads \ {u} : pc'[v] = "free" => old'[v] # old'[u]
    <3>1. /\ pc[u] = "free" /\ old'[u] = old[u] /\ old[u] \in alive
          /\ Handles(old[u]) = {}
      BY <1>2, <1>6, <2>2 DEF Inv, HeapOutlivesHandles
    <3>2. PICK y \in Addrs \ {x} : y = old[u]
      BY <1>1, <3>1 DEF Inv, TypeOK
    <3>3. Handles(old[u])' = {}
      BY <1>7, <3>1, <3>2
    <3>4. \A v \in Threads \ {u} : pc'[v] = "free" => old'[v] # old'[u]
      BY <1>2, <1>6, <3>1 DEF Inv, HeapOutlivesHandles
    <3> QED BY <1>1, <3>1, <3>3, <3>4
  <2> QED BY <2>1, <2>2 DEF HeapOutlivesHandles
<1> QED BY <1>10, <1>11 DEF Counted

\* init_thread_heap clones the instance's handle into the slot.
LEMMA BindCount ==
  ASSUME Inv, NEW t \in Threads, Bind(t)
  PROVE  Counted'
<1>1. /\ on[t] \in Allocs /\ heapOf[on[t]] \in Addrs
      /\ slot[t].heap = NULL /\ slot'[t].heap = heapOf[on[t]]
      /\ refs' = [refs EXCEPT ![heapOf[on[t]]] = @ + 1]
      /\ heapOf' = heapOf /\ old' = old /\ alive' = alive
      /\ pc[t] # "free" /\ pc'[t] # "free"
      /\ \A u \in Threads \ {t} : pc'[u] = pc[u] /\ slot'[u] = slot[u]
  BY LifecycleAssumption
     DEF Bind, Cloned, Goto, Inv, TypeOK, Control, CallOK, OnceOK, SlotOK, Dropping
<1>2. PICK x \in Addrs : x = heapOf[on[t]]
  BY <1>1
<1>3. \A u \in Threads : pc[u] = "free" <=> pc'[u] = "free"
  BY <1>1
<1>4. /\ <<"instance", on[t]>> \in Handles(x) /\ <<"slot", t>> \notin Handles(x)
      /\ x # NULL
  BY <1>1, <1>2, LifecycleAssumption, HandlesAre, InHandleSet
<1>5. ASSUME NEW y \in Addrs \ {x} PROVE Handles(y)' = Handles(y)
  <2>1. y # NULL /\ y # x
    BY LifecycleAssumption
  <2>2. \A a \in Allocs : heapOf[a] = y <=> heapOf'[a] = y
    BY <1>1
  <2>3. \A u \in Threads : (old[u] = y /\ pc[u] # "free") <=> (old'[u] = y /\ pc'[u] # "free")
    BY <1>1, <1>3
  <2>4. \A u \in Threads : slot[u].heap = y <=> slot'[u].heap = y
    BY <1>1, <1>2, <2>1
  <2>5. HandleSet(heapOf, slot, old, pc, y) = HandleSet(heapOf', slot', old', pc', y)
    BY <2>2, <2>3, <2>4, SameHandles
  <2> QED BY <2>5, HandlesAre
<1>6. Handles(x)' = Handles(x) \cup {<<"slot", t>>}
  BY <1>1, <1>2, <1>3, HandlesAre DEF HandleSet
<1>7. Cardinality(Handles(x)') = Cardinality(Handles(x)) + 1
  <2>1. IsFiniteSet(Handles(x))
    BY HandlesAre, FiniteHandles
  <2> QED BY <1>4, <1>6, <2>1, Counting
<1>8. x \in alive
  BY <1>4 DEF Inv, HeapOutlivesHandles
<1>9. RefsAreHandles'
  <2>1. refs'[x] = refs[x] + 1 /\ \A y \in Addrs \ {x} : refs'[y] = refs[y]
    BY <1>1, <1>2 DEF Inv, TypeOK
  <2> QED BY <1>1, <1>5, <1>7, <2>1 DEF Inv, TypeOK, RefsAreHandles
<1>10. HeapOutlivesHandles'
  <2>1. ASSUME NEW y \in Addrs, Handles(y)' # {} PROVE y \in alive'
    BY <1>1, <1>5, <1>8, <2>1 DEF Inv, HeapOutlivesHandles
  <2>2. ASSUME NEW u \in Threads, pc'[u] = "free"
        PROVE  /\ old'[u] \in alive' /\ Handles(old[u])' = {}
               /\ \A v \in Threads \ {u} : pc'[v] = "free" => old'[v] # old'[u]
    <3>1. /\ pc[u] = "free" /\ old'[u] = old[u] /\ old[u] \in alive
          /\ Handles(old[u]) = {}
      BY <1>1, <1>3, <2>2 DEF Inv, HeapOutlivesHandles
    <3>2. PICK y \in Addrs \ {x} : y = old[u]
      BY <1>4, <3>1 DEF Inv, TypeOK
    <3>3. Handles(old[u])' = {}
      BY <1>5, <3>1, <3>2
    <3>4. \A v \in Threads \ {u} : pc'[v] = "free" => old'[v] # old'[u]
      BY <1>1, <1>3, <3>1 DEF Inv, HeapOutlivesHandles
    <3> QED BY <1>1, <3>1, <3>3, <3>4
  <2> QED BY <2>1, <2>2 DEF HeapOutlivesHandles
<1> QED BY <1>9, <1>10 DEF Counted

\* HeapHandle::drop subtracts one: the thread that finds a one was the last.
LEMMA ReleaseCount ==
  ASSUME Inv, NEW t \in Threads, Release(t)
  PROVE  Counted'
<1>1. PICK x \in Addrs : x = old[t] /\ x \in alive
  BY CountPositive DEF Release
<1>2. /\ pc[t] = "release" /\ <<"dropping", t>> \in Handles(x)
      /\ refs[x] = Cardinality(Handles(x)) /\ refs[x] \in Nat \ {0} /\ x # NULL
  BY <1>1, CountPositive, LifecycleAssumption DEF Release
<1>3. /\ slot' = slot /\ heapOf' = heapOf /\ alive' = alive
      /\ refs' = [refs EXCEPT ![x] = @ - 1]
      /\ \A u \in Threads \ {t} : pc'[u] = pc[u] /\ old'[u] = old[u]
      /\ IF refs[x] = 1 THEN pc'[t] = "free" /\ old'[t] = x
                        ELSE pc'[t] # "free" /\ old'[t] = NULL
  BY <1>1 DEF Release, WasLast, After, Goto, Inv, TypeOK
<1>4. ASSUME NEW y \in Addrs \ {x} PROVE Handles(y)' = Handles(y)
  <2>1. y # NULL /\ y # x
    BY LifecycleAssumption
  <2>2. \A a \in Allocs : heapOf[a] = y <=> heapOf'[a] = y
    BY <1>3
  <2>3. \A u \in Threads : (old[u] = y /\ pc[u] # "free") <=> (old'[u] = y /\ pc'[u] # "free")
    BY <1>1, <1>3, <2>1
  <2>4. \A u \in Threads : slot[u].heap = y <=> slot'[u].heap = y
    BY <1>3
  <2>5. HandleSet(heapOf, slot, old, pc, y) = HandleSet(heapOf', slot', old', pc', y)
    BY <2>2, <2>3, <2>4, SameHandles
  <2> QED BY <2>5, HandlesAre
<1>5. Handles(x)' = Handles(x) \ {<<"dropping", t>>}
  <2>1. \A u \in Threads : (old'[u] = x /\ pc'[u] # "free") <=> (old[u] = x /\ pc[u] # "free" /\ u # t)
    BY <1>1, <1>2, <1>3
  <2> QED BY <1>1, <1>3, <2>1, HandlesAre DEF HandleSet
<1>6. IsFiniteSet(Handles(x)) /\ IsFiniteSet(Handles(x)')
  BY HandlesAre, FiniteHandles
<1>7. Cardinality(Handles(x)') = refs[x] - 1
  BY <1>2, <1>5, <1>6, Counting
<1>8. RefsAreHandles'
  <2>1. refs'[x] = refs[x] - 1 /\ \A y \in Addrs \ {x} : refs'[y] = refs[y]
    BY <1>3 DEF Inv, TypeOK
  <2> QED BY <1>3, <1>4, <1>7, <2>1 DEF Inv, TypeOK, RefsAreHandles
<1>9. HeapOutlivesHandles'
  <2>1. ASSUME NEW y \in Addrs, Handles(y)' # {} PROVE y \in alive'
    BY <1>1, <1>3, <1>4, <2>1 DEF Inv, HeapOutlivesHandles
  <2>2. refs[x] = 1 => Handles(x)' = {}
    BY <1>6, <1>7, FS_EmptySet
  <2>3. \A u \in Threads : pc[u] = "free" => old[u] # x
    BY <1>2 DEF Inv, HeapOutlivesHandles
  <2>4. ASSUME NEW u \in Threads, pc'[u] = "free"
        PROVE  /\ old'[u] \in alive' /\ Handles(old[u])' = {}
               /\ \A v \in Threads \ {u} : pc'[v] = "free" => old'[v] # old'[u]
    <3>1. CASE u = t
      <4>1. old'[u] = x /\ Handles(x)' = {}
        BY <1>3, <2>2, <2>4, <3>1
      <4>2. \A v \in Threads \ {u} : pc'[v] = "free" => old'[v] # x
        BY <1>3, <2>3, <3>1
      <4> QED BY <1>1, <1>3, <4>1, <4>2
    <3>2. CASE u # t
      <4>1. /\ pc[u] = "free" /\ old'[u] = old[u] /\ old[u] \in alive
            /\ Handles(old[u]) = {} /\ old[u] # x
        BY <1>3, <2>3, <2>4, <3>2 DEF Inv, HeapOutlivesHandles
      <4>2. PICK y \in Addrs \ {x} : y = old[u]
        BY <4>1 DEF Inv, TypeOK
      <4>3. Handles(y)' = {}
        BY <1>4, <4>1, <4>2
      <4>4. ASSUME NEW v \in Threads \ {u}, pc'[v] = "free" PROVE old'[v] # y
        <5>1. CASE v = t
          BY <1>3, <4>4, <5>1
        <5>2. CASE v # t
          BY <1>3, <4>1, <4>2, <4>4, <5>2 DEF Inv, HeapOutlivesHandles
        <5> QED BY <5>1, <5>2
      <4> QED BY <1>3, <4>1, <4>2, <4>3, <4>4
    <3> QED BY <3>1, <3>2
  <2> QED BY <2>1, <2>4 DEF HeapOutlivesHandles
<1> QED BY <1>8, <1>9 DEF Counted

\* The last one frees a heap that has no handle.
LEMMA FreeCount ==
  ASSUME Inv, NEW t \in Threads, FreeHeap(t)
  PROVE  Counted'
<1>1. /\ pc[t] = "free" /\ old[t] \in alive /\ Handles(old[t]) = {}
      /\ \A u \in Threads \ {t} : pc[u] = "free" => old[u] # old[t]
  BY DEF FreeHeap, Inv, HeapOutlivesHandles
<1>2. PICK x \in Addrs : x = old[t]
  BY <1>1 DEF Inv, TypeOK
<1>3. /\ slot' = slot /\ heapOf' = heapOf /\ refs' = refs /\ alive' = alive \ {x}
      /\ \A u \in Threads \ {t} : pc'[u] = pc[u] /\ old'[u] = old[u]
      /\ pc'[t] # "free" /\ old'[t] = NULL
  BY <1>2 DEF FreeHeap, After, Goto, Inv, TypeOK
<1>4. ASSUME NEW y \in Addrs PROVE Handles(y)' = Handles(y)
  <2>1. y # NULL
    BY LifecycleAssumption
  <2>2. \A a \in Allocs : heapOf[a] = y <=> heapOf'[a] = y
    BY <1>3
  <2>3. \A u \in Threads : (old[u] = y /\ pc[u] # "free") <=> (old'[u] = y /\ pc'[u] # "free")
    BY <1>1, <1>3, <2>1
  <2>4. \A u \in Threads : slot[u].heap = y <=> slot'[u].heap = y
    BY <1>3
  <2>5. HandleSet(heapOf, slot, old, pc, y) = HandleSet(heapOf', slot', old', pc', y)
    BY <2>2, <2>3, <2>4, SameHandles
  <2> QED BY <2>5, HandlesAre
<1>5. RefsAreHandles'
  BY <1>3, <1>4 DEF Inv, TypeOK, RefsAreHandles
<1>6. HeapOutlivesHandles'
  <2>1. ASSUME NEW y \in Addrs, Handles(y)' # {} PROVE y \in alive'
    BY <1>1, <1>2, <1>3, <1>4, <2>1 DEF Inv, HeapOutlivesHandles
  <2>2. ASSUME NEW u \in Threads, pc'[u] = "free"
        PROVE  /\ old'[u] \in alive' /\ Handles(old[u])' = {}
               /\ \A v \in Threads \ {u} : pc'[v] = "free" => old'[v] # old'[u]
    <3>1. /\ u # t /\ pc[u] = "free" /\ old'[u] = old[u] /\ old[u] \in alive
          /\ Handles(old[u]) = {} /\ old[u] # x
      BY <1>1, <1>2, <1>3, <2>2 DEF Inv, HeapOutlivesHandles
    <3>2. PICK y \in Addrs : y = old[u]
      BY <3>1 DEF Inv, TypeOK
    <3>3. Handles(y)' = {}
      BY <1>4, <3>1, <3>2
    <3>4. \A v \in Threads \ {u} : pc'[v] = "free" => old'[v] # y
      BY <1>3, <3>1, <3>2 DEF Inv, HeapOutlivesHandles
    <3> QED BY <1>3, <3>1, <3>2, <3>3, <3>4
  <2> QED BY <2>1, <2>2 DEF HeapOutlivesHandles
<1> QED BY <1>5, <1>6 DEF Counted

-----------------------------------------------------------------------------
(* CPUs.                                                                   *)

\* Every step keeps threads on CPUs of their node.
LEMMA CpusKept ==
  ASSUME Inv, TypeOK', Control', [Next]_vars
  PROVE  RunsOnItsNode'
<1> DEFINE Possible(c) == c = machine.allowed \/ \E n \in NodeId : Pinnable(n) /\ c = PinCpus(n)
<1>1. machine' = machine /\ machine \in Machines
  BY DEF Next, Step, OnceClaim, Create, OnceReady, SlotHit, SlotMiss, Bind, Affinity, Drain,
         Release, FreeHeap, ThreadExit, ThreadStart, Enter, DropAlloc, NewAlloc, place, vars,
         Inv, TypeOK
<1>2. \A n : /\ ReadWhole(n)' = ReadWhole(n) /\ PinCpus(n)' = PinCpus(n)
             /\ Pinnable(n)' = Pinnable(n)
  BY <1>1 DEF ReadWhole, PinCpus, Pinnable
<1>3. NumNodes' = NumNodes
  BY <1>1, NodesStay
<1>4. \A n \in NodeId : ReadWhole(n) => n < NumNodes
  BY <1>1, NodesFound
<1>5. \A t \in Threads : Possible(cpus[t])
  BY DEF Inv, RunsOnItsNode
<1> DEFINE Settled(c, n) == Pinnable(n) => c = PinCpus(n)
<1>6. \A t \in Threads :
         slot[t].state = "bound" /\ pc[t] # "affinity" => Settled(cpus[t], slot[t].node)
  BY DEF Inv, RunsOnItsNode
<1>7. SUFFICES ASSUME NEW u \in Threads
               PROVE  /\ Possible(cpus'[u])
                      /\ slot'[u].state = "bound" /\ pc'[u] # "affinity" =>
                           Settled(cpus'[u], slot'[u].node)
  BY <1>1, <1>2, <1>3, <1>4 DEF RunsOnItsNode
<1> HIDE DEF Possible, Settled
<1>9. CASE cpus'[u] = cpus[u] /\ slot'[u] = slot[u] /\ (pc'[u] # "affinity" => pc[u] # "affinity")
  BY <1>5, <1>6, <1>9
<1>10. CASE cpus'[u] = cpus[u] /\ (slot'[u].state # "bound" \/ pc'[u] = "affinity")
  BY <1>5, <1>10
<1>11. CASE Affinity(u)
  <2>1. slot[u].node \in NodeId
    BY SlotNode
  <2>2. cpus'[u] = IF Pinnable(slot[u].node) THEN PinCpus(slot[u].node) ELSE cpus[u]
    BY <1>1, <1>11, <2>1, BindIs DEF Affinity, Inv, TypeOK
  <2>3. slot' = slot
    BY <1>11 DEF Affinity
  <2> QED BY <1>5, <2>1, <2>2, <2>3 DEF Possible, Settled
<1>12. CASE ThreadStart(u)
  <2>1. PICK v \in Threads : cpus' = [cpus EXCEPT ![u] = cpus[v]]
    BY <1>12 DEF ThreadStart
  <2>2. cpus'[u] = cpus[v] /\ slot'[u].state # "bound"
    BY <1>12, <2>1 DEF ThreadStart, Unbound, Inv, TypeOK
  <2> QED BY <1>5, <2>2
<1>13. CASE UNCHANGED vars
  BY <1>9, <1>13 DEF vars, place
<1>14. ASSUME NEW t \in Threads, Step(t), ~ Affinity(u) PROVE
          \/ cpus'[u] = cpus[u] /\ slot'[u] = slot[u] /\ (pc'[u] # "affinity" => pc[u] # "affinity")
          \/ cpus'[u] = cpus[u] /\ (slot'[u].state # "bound" \/ pc'[u] = "affinity")
  BY <1>14 DEF Step, OnceClaim, Create, OnceReady, SlotHit, SlotMiss, Bind, Affinity, Drain,
         Release, FreeHeap, place, Goto, Return, Unbound, Inv, TypeOK
<1>15. ASSUME NEW t \in Threads, ThreadExit(t) PROVE
          \/ cpus'[u] = cpus[u] /\ slot'[u] = slot[u] /\ (pc'[u] # "affinity" => pc[u] # "affinity")
          \/ cpus'[u] = cpus[u] /\ (slot'[u].state # "bound" \/ pc'[u] = "affinity")
  BY <1>15 DEF ThreadExit, place, Goto, Unbound, Inv, TypeOK
<1>16. ASSUME NEW t \in Threads, ThreadStart(t), t # u PROVE
          cpus'[u] = cpus[u] /\ slot'[u] = slot[u] /\ (pc'[u] # "affinity" => pc[u] # "affinity")
  BY <1>16 DEF ThreadStart, Unbound, Inv, TypeOK
<1>17. ASSUME NEW a \in Allocs,
              NewAlloc(a) \/ \E t \in Threads : Enter(t, a) \/ DropAlloc(t, a)
       PROVE  cpus'[u] = cpus[u] /\ slot'[u] = slot[u] /\ (pc'[u] # "affinity" => pc[u] # "affinity")
  BY <1>17 DEF NewAlloc, Enter, DropAlloc, place, Goto, Inv, TypeOK
<1> QED BY <1>9, <1>10, <1>11, <1>12, <1>13, <1>14, <1>15, <1>16, <1>17 DEF Next

-----------------------------------------------------------------------------
(* The theorems.                                                           *)

\* No instance has a heap, no slot a handle, and every thread may run anywhere.
LEMMA InitInv == Init => Inv
<1> SUFFICES ASSUME Init PROVE Inv
  OBVIOUS
<1>1. machine \in Machines /\ NumNodes \in Nat \ {0} /\ 0 \in 0 .. NumNodes - 1
  BY NodesStay DEF Init
<1>2. CounterModulus \in Nat \ {0} /\ NULL \notin Addrs \cup Allocs
  BY LifecycleAssumption
<1>3. TypeOK
  <2> HIDE DEF NumNodes
  <2> QED BY <1>1, <1>2 DEF Init, TypeOK, Unbound
<1>4. Control
  BY <1>2 DEF Init, Control, CallOK, CreatesAlone, OnceOK, SlotOK, Dropping, Unbound
<1>5. RefsAreHandles
  BY DEF Init, RefsAreHandles
<1>6. ASSUME NEW x \in Addrs PROVE Handles(x) = {}
  BY <1>2 DEF Init, Handles, Unbound
<1>7. HeapOutlivesHandles
  BY <1>6 DEF Init, HeapOutlivesHandles
<1>8. RunsOnItsNode
  BY <1>1, NodesFound DEF Init, RunsOnItsNode, Unbound
<1> QED BY <1>3, <1>4, <1>5, <1>7, <1>8 DEF Inv

\* Every step keeps the invariant.
LEMMA NextInv == Inv /\ [Next]_vars => Inv'
<1> SUFFICES ASSUME Inv, [Next]_vars PROVE Inv'
  OBVIOUS
<1>1. CASE UNCHANGED vars
  <2>1. TypeOK' /\ Control'
    BY <1>1 DEF vars, place, Inv, TypeOK, NumNodes, Control, CallOK, CreatesAlone, OnceOK,
                SlotOK, Dropping
  <2>2. \A x : Handles(x)' = Handles(x)
    BY <1>1, HandlesAre DEF vars
  <2>3. Counted'
    BY <1>1, <2>2, CountKept DEF vars
  <2>4. RunsOnItsNode'
    BY <2>1, CpusKept
  <2> QED BY <2>1, <2>3, <2>4 DEF Inv, Counted
<1>2. CASE Next
  <2>1. TypeOK' /\ Control'
    BY <1>2, StepControl, AllocControl DEF Next
  <2>2. RunsOnItsNode'
    BY <2>1, CpusKept
  <2>3. Counted'
    <3>1. ASSUME NEW t \in Threads, Step(t) PROVE Counted'
      BY <3>1, QuietCount, CreateCount, GiveUpCount, BindCount, ReleaseCount, FreeCount DEF Step
    <3>2. ASSUME NEW t \in Threads, ThreadExit(t) \/ ThreadStart(t) PROVE Counted'
      BY <3>2, QuietCount, GiveUpCount
    <3>3. ASSUME NEW t \in Threads, NEW a \in Allocs, Enter(t, a) \/ DropAlloc(t, a)
          PROVE  Counted'
      BY <3>3, QuietCount, DropCount
    <3>4. ASSUME NEW a \in Allocs, NewAlloc(a) PROVE Counted'
      <4>1. heapOf' = heapOf /\ old' = old /\ refs' = refs /\ alive' = alive /\ slot' = slot /\ pc' = pc
        BY <3>4 DEF NewAlloc
      <4>2. \A x : Handles(x)' = Handles(x)
        BY <4>1, HandlesAre
      <4> QED BY <4>1, <4>2, CountKept
    <3> QED BY <1>2, <3>1, <3>2, <3>3, <3>4 DEF Next
  <2> QED BY <2>1, <2>2, <2>3 DEF Inv, Counted
<1> QED BY <1>1, <1>2

\* The inductive invariant holds throughout.
THEOREM Safety == Spec => []Inv
BY InitInv, NextInv, PTL DEF Spec

\* Every variable keeps to its values, and init_thread_heap only assigns nodes the
\* heap has.
THEOREM TypeCorrect == Spec => []TypeOK
<1>1. Inv => TypeOK
  BY DEF Inv
<1> QED BY <1>1, Safety, PTL

\* SharedHeap::references is the number of handles in every state.
THEOREM CountCorrect == Spec => []RefsAreHandles
<1>1. Inv => RefsAreHandles
  BY DEF Inv
<1> QED BY <1>1, Safety, PTL

\* Nobody holds a handle on a heap that HeapHandle::drop has freed, and a heap is
\* freed by one thread that is alone with it.
THEOREM NoUseAfterFree == Spec => []HeapOutlivesHandles
<1>1. Inv => HeapOutlivesHandles
  BY DEF Inv
<1> QED BY <1>1, Safety, PTL

\* On every machine whose lists are right, a thread runs on exactly the allowed CPUs
\* of the node init_thread_heap assigned to it that a cpu_set_t can name, if it can
\* name any, and keeps the CPUs it had if not.
THEOREM Locality == Spec => []RunsOnItsNode
<1>1. Inv => RunsOnItsNode
  BY DEF Inv
<1> QED BY <1>1, Safety, PTL

\* get_or_init fills a OnceLock once.
THEOREM CreatedOnce == Spec => HeapIsCreatedOnce
<1> DEFINE Kept == \A a \in Allocs :
             once[a] = "full" => heapOf'[a] = heapOf[a] \/ once'[a] = "gone"
<1>1. ASSUME Inv, [Next]_vars PROVE [Kept]_vars
  <2> SUFFICES ASSUME Next, NEW a \in Allocs, once[a] = "full"
               PROVE  heapOf'[a] = heapOf[a] \/ once'[a] = "gone"
    BY <1>1
  <2>1. ASSUME NEW t \in Threads, Step(t), ~ Create(t) PROVE heapOf' = heapOf
    BY <2>1 DEF Step, OnceClaim, OnceReady, SlotHit, SlotMiss, Bind, Affinity, Drain, Release, FreeHeap
  <2>2. ASSUME NEW t \in Threads, Create(t) PROVE heapOf'[a] = heapOf[a]
    <3>1. on[t] # a
      BY <1>1, <2>2 DEF Create, Inv, Control, CallOK
    <3> QED BY <1>1, <2>2, <3>1 DEF Create, Inv, TypeOK
  <2>3. ASSUME NEW t \in Threads, ThreadExit(t) \/ ThreadStart(t) PROVE heapOf' = heapOf
    BY <2>3 DEF ThreadExit, ThreadStart
  <2>4. ASSUME NEW t \in Threads, NEW b \in Allocs, Enter(t, b) \/ DropAlloc(t, b)
        PROVE  heapOf'[a] = heapOf[a] \/ once'[a] = "gone"
    BY <1>1, <2>4 DEF Enter, DropAlloc, Inv, TypeOK
  <2>5. ASSUME NEW b \in Allocs, NewAlloc(b) PROVE heapOf' = heapOf
    BY <2>5 DEF NewAlloc
  <2> QED BY <2>1, <2>2, <2>3, <2>4, <2>5 DEF Next
<1> QED BY <1>1, Safety, PTL DEF Spec, HeapIsCreatedOnce
=============================================================================
