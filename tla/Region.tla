-------------------------------- MODULE Region --------------------------------
(***************************************************************************)
(* The address space of one GlobalHeap: how `new' lays the regions of the  *)
(* NUMA nodes out in one mapping, how allocate_bag carves bags out of them *)
(* with a compare-and-swap on the bump offset, and how node_for_ptr finds  *)
(* the node of an address again.                                           *)
(*                                                                         *)
(* An address is a number of pages; the mapping may start anywhere.        *)
(***************************************************************************)
EXTENDS Integers, FiniteSets

CONSTANTS
  Threads,
  NumNodes,        \* nodes of the topology, clamped already
  RegionSize,      \* pages per node asked for
  MinRegionSize,   \* MIN_REGION_SIZE, the largest bag
  BagSizes,        \* bag sizes of the size classes
  MapBases         \* addresses the kernel may return

ASSUME RegionAssumption ==
  /\ NumNodes \in Nat \ {0}
  /\ RegionSize \in Nat
  /\ MinRegionSize \in Nat \ {0}
  /\ BagSizes \subseteq 1 .. MinRegionSize
  /\ \A s \in BagSizes : MinRegionSize % s = 0
  /\ MapBases \subseteq Nat

VARIABLES
  mapBase,   \* where the kernel put the mapping
  bump,      \* bump offset of every node's region
  pc,        \* where each thread is inside allocate_bag
  req,       \* each thread's node, bag size and loaded offset
  bags       \* every hand-out of a bag: its node, which of the node's, address and size

vars == <<mapBase, bump, pc, req, bags>>

Node == 0 .. NumNodes - 1

\* (x + unit - 1) & !(unit - 1): the next multiple of unit.
AlignUp(x, unit) == (x + unit - 1) - ((x + unit - 1) % unit)

-----------------------------------------------------------------------------
(* GlobalHeap::new.                                                        *)

SizeOfRegion ==
  AlignUp(IF RegionSize > MinRegionSize THEN RegionSize ELSE MinRegionSize, MinRegionSize)

TotalSize == SizeOfRegion * NumNodes

\* One alignment unit more is mapped, so that the base can be aligned up.
MapSize == TotalSize + MinRegionSize

\* Faulty variant of Base: the base is where the kernel put the mapping.
BaseUnaligned == mapBase

\* First page of node 0.
Base == AlignUp(mapBase, MinRegionSize)

NodeBase(node) == Base + node * SizeOfRegion

\* Faulty variant of NodeForPtr: the offset is taken from the raw mapping.
NodeForPtrRaw(addr) ==
  IF addr < mapBase \/ addr - mapBase >= TotalSize THEN NumNodes
  ELSE (addr - mapBase) \div SizeOfRegion

\* node_for_ptr, NumNodes standing for None: an address below the base wraps to
\* a huge offset.
NodeForPtr(addr) ==
  IF addr < Base \/ addr - Base >= TotalSize THEN NumNodes
  ELSE (addr - Base) \div SizeOfRegion

Idle == [node |-> 0, size |-> 0, offset |-> 0]

Init ==
  /\ mapBase \in MapBases
  /\ bump = [n \in Node |-> 0]
  /\ pc = [t \in Threads |-> "idle"]
  /\ req = [t \in Threads |-> Idle]
  /\ bags = {}

-----------------------------------------------------------------------------
(* allocate_bag.                                                           *)

\* Faulty variant of Aligned: bags follow each other without a gap.
AlignedNot(node, size, offset) == offset

\* Offset at which a bag of `size' would start, given the loaded bump offset.
Aligned(node, size, offset) ==
  AlignUp(NodeBase(node) + offset, size) - NodeBase(node)

\* alloc or a test asks for a bag of some class on the thread's node.
Call(t) ==
  /\ pc[t] = "idle"
  /\ \E n \in Node, s \in BagSizes :
       req' = [req EXCEPT ![t] = [node |-> n, size |-> s, offset |-> 0]]
  /\ pc' = [pc EXCEPT ![t] = "load"]
  /\ UNCHANGED <<mapBase, bump, bags>>

\* Faulty variant of Fits: the end of the bag is not compared with the region's.
FitsUnbounded(node, size, offset) == offset <= SizeOfRegion

\* The bag ends inside the region.
Fits(node, size, offset) == Aligned(node, size, offset) + size <= SizeOfRegion

\* The load of bump, and the early return when the bag does not fit.
Load(t) ==
  /\ pc[t] = "load"
  /\ LET n == req[t].node
         s == req[t].size
     IN IF ~ Fits(n, s, bump[n])
          THEN /\ pc' = [pc EXCEPT ![t] = "idle"]
               /\ req' = [req EXCEPT ![t] = Idle]
          ELSE /\ pc' = [pc EXCEPT ![t] = "cas"]
               /\ req' = [req EXCEPT ![t].offset = bump[n]]
  /\ UNCHANGED <<mapBase, bump, bags>>

\* Faulty variant of Matches: nothing is compared.
MatchesBlind(t) == TRUE

\* The bump offset is still the one loaded.
Matches(t) == bump[req[t].node] = req[t].offset

\* How many bags of the node were handed out: it numbers them, so that a bag handed
\* out twice is two elements of `bags'.
HandedOut(n) == Cardinality({b \in bags : b.node = n})

\* The compare_exchange_weak that succeeds.
Cas(t) ==
  /\ pc[t] = "cas" /\ Matches(t)
  /\ LET n == req[t].node
         s == req[t].size
         at == Aligned(n, s, req[t].offset)
     IN /\ bump' = [bump EXCEPT ![n] = at + s]
        /\ bags' = bags \cup {[node |-> n, nth |-> HandedOut(n),
                           addr |-> NodeBase(n) + at, size |-> s]}
  /\ pc' = [pc EXCEPT ![t] = "idle"]
  /\ req' = [req EXCEPT ![t] = Idle]
  /\ UNCHANGED mapBase

\* Faulty variant of Retry: the loop does not load the offset again.
RetryStale(t) == UNCHANGED vars

\* Back to the load.
Retry(t) ==
  /\ pc' = [pc EXCEPT ![t] = "load"]
  /\ req' = [req EXCEPT ![t].offset = 0]
  /\ UNCHANGED <<mapBase, bump, bags>>

\* The compare_exchange_weak that finds another offset.
CasLost(t) == pc[t] = "cas" /\ ~ Matches(t) /\ Retry(t)

\* The one that fails for no reason.
CasSpurious(t) == pc[t] = "cas" /\ Matches(t) /\ Retry(t)

Next == \E t \in Threads :
  Call(t) \/ Load(t) \/ Cas(t) \/ CasLost(t) \/ CasSpurious(t)

Spec == Init /\ [][Next]_vars

\* A thread inside allocate_bag keeps running, and a repeated
\* compare_exchange_weak does not fail spuriously for ever.
FairSpec ==
  Spec /\ \A t \in Threads : WF_vars(Load(t)) /\ SF_vars(Cas(t) \/ CasLost(t))

-----------------------------------------------------------------------------
(* Properties.                                                             *)

Pages(bag) == bag.addr .. bag.addr + bag.size - 1

\* Every variable keeps to its values; no offset is past the end of its region.
TypeOK ==
  /\ mapBase \in MapBases
  /\ bump \in [Node -> 0 .. SizeOfRegion]
  /\ pc \in [Threads -> {"idle", "load", "cas"}]
  /\ req \in [Threads -> [node : Node, size : Nat, offset : 0 .. SizeOfRegion]]
  /\ bags \subseteq [node : Node, nth : Nat, addr : Nat, size : BagSizes]
  /\ IsFiniteSet(bags)

\* Two hand-outs never share a page, whichever threads carve at once: no bag is
\* handed out twice, and none reaches into another.
BagsDisjoint ==
  \A a, b \in bags : a # b => Pages(a) \cap Pages(b) = {}

\* Every page of a bag is found again as its node's by node_for_ptr, and lies in
\* the mapping that Drop unmaps: a free is never routed to another node's stack
\* nor mistaken for a large object.
BagsFoundAgain ==
  \A a \in bags : \A p \in Pages(a) :
    NodeForPtr(p) = a.node /\ p >= mapBase /\ p < mapBase + MapSize

\* A bag is aligned to its size in absolute addresses, which is what gives every
\* object carved from it the alignment its layout asked for.
BagsAligned == \A a \in bags : a.addr % a.size = 0

\* Where bags end up inside their region, and so how many fit, does not depend
\* on where the kernel put the mapping: offsets are aligned as addresses are.
PlacementIndependent ==
  \A n \in Node, s \in BagSizes : Aligned(n, s, bump[n]) = AlignUp(bump[n], s)

\* allocate_bag ends, even with other threads carving all the time: a lost race
\* means the region has shrunk, and it does so finitely often.
CarveEnds == \A t \in Threads : pc[t] # "idle" ~> pc[t] = "idle"
=============================================================================
