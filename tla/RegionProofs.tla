---------------------------- MODULE RegionProofs ----------------------------
(***************************************************************************)
(* Proofs about Region: wherever the kernel puts the mapping, whatever bag *)
(* sizes divide the alignment unit, and however many threads carve at      *)
(* once, bags are apart, aligned, and found again by address.              *)
(***************************************************************************)
EXTENDS Region, FiniteSetTheorems, TLAPS

-----------------------------------------------------------------------------
(* Multiples and remainders.                                               *)

\* A remainder and a quotient are what they are said to be.
LEMMA Remainder ==
  ASSUME NEW x \in Int, NEW s \in Nat \ {0}, NEW k \in Int, NEW r \in 0 .. s - 1,
         x = k * s + r
  PROVE  x % s = r /\ x \div s = k
OBVIOUS

\* Every number is a multiple and a remainder.
LEMMA Division ==
  ASSUME NEW x \in Int, NEW s \in Nat \ {0}
  PROVE  \E k \in Int, r \in 0 .. s - 1 : x = k * s + r /\ x % s = r
OBVIOUS

\* One without a remainder is a multiple.
LEMMA Multiple ==
  ASSUME NEW x \in Int, NEW s \in Nat \ {0}, x % s = 0
  PROVE  \E k \in Int : x = k * s
OBVIOUS

\* And the other way round.
LEMMA NoRemainder ==
  ASSUME NEW s \in Nat \ {0}, NEW k \in Int
  PROVE  k * s \in Int /\ (k * s) % s = 0
OBVIOUS

\* What the provers are to know of products.
LEMMA Products ==
  /\ \A a, b, c \in Int : (a + b) * c = a * c + b * c
  /\ \A a, b, c \in Int : (a * b) * c = a * (b * c)
OBVIOUS

\* A sum of multiples is a multiple.
LEMMA SumOfMultiples ==
  ASSUME NEW x \in Int, NEW y \in Int, NEW s \in Nat \ {0}, x % s = 0, y % s = 0
  PROVE  (x + y) % s = 0
<1>1. PICK j \in Int : x = j * s
  BY Multiple
<1>2. PICK k \in Int : y = k * s
  BY Multiple
<1>3. x + y = (j + k) * s /\ j + k \in Int
  BY <1>1, <1>2, Products
<1> QED BY <1>3, NoRemainder

\* So is a multiple of a multiple.
LEMMA MultipleOfMultiple ==
  ASSUME NEW x \in Int, NEW m \in Nat \ {0}, NEW s \in Nat \ {0}, x % m = 0, m % s = 0
  PROVE  x % s = 0
<1>1. PICK j \in Int : x = j * m
  BY Multiple
<1>2. PICK k \in Int : m = k * s
  BY Multiple
<1>3. x = (j * k) * s /\ j * k \in Int
  BY <1>1, <1>2, Products
<1> QED BY <1>3, NoRemainder

\* The least multiple of s that is not below x, as the code computes it.
LEMMA NextMultiple ==
  ASSUME NEW x \in Int, NEW s \in Nat \ {0}
  PROVE  LET y == (x + s - 1) - ((x + s - 1) % s)
         IN y \in Int /\ y % s = 0 /\ x <= y /\ y < x + s
<1>1. PICK k \in Int, r \in 0 .. s - 1 : x + s - 1 = k * s + r /\ (x + s - 1) % s = r
  <2>1. x + s - 1 \in Int
    OBVIOUS
  <2> QED BY <2>1, Division
<1>2. x + s - 1 - r = k * s + 0 /\ 0 \in 0 .. s - 1 /\ x + s - 1 - r \in Int
  BY <1>1
<1>3. (x + s - 1 - r) % s = 0
  BY <1>2, Remainder
<1> QED BY <1>1, <1>2, <1>3

-----------------------------------------------------------------------------
(* Arithmetic of alignment.                                                *)

\* AlignUp goes to the next multiple.
LEMMA AlignUpIs ==
  ASSUME NEW x \in Int, NEW s \in Nat \ {0}
  PROVE  /\ AlignUp(x, s) \in Int
         /\ AlignUp(x, s) % s = 0
         /\ x <= AlignUp(x, s) /\ AlignUp(x, s) < x + s
BY NextMultiple DEF AlignUp

\* Aligning commutes with moving by a multiple.
LEMMA AlignUpShift ==
  ASSUME NEW b \in Int, NEW x \in Int, NEW s \in Nat \ {0}, b % s = 0
  PROVE  AlignUp(b + x, s) = b + AlignUp(x, s)
<1>1. PICK j \in Int : b = j * s
  BY Multiple
<1>2. PICK k \in Int, r \in 0 .. s - 1 : x + s - 1 = k * s + r /\ (x + s - 1) % s = r
  <2>1. x + s - 1 \in Int
    OBVIOUS
  <2> QED BY <2>1, Division
<1>3. b + x + s - 1 = (j + k) * s + r /\ b + x + s - 1 \in Int /\ j + k \in Int
  <2>1. (j + k) * s = j * s + k * s
    BY Products
  <2> QED BY <1>1, <1>2, <2>1
<1>4. (b + x + s - 1) % s = r
  BY <1>3, Remainder
<1>5. AlignUp(b + x, s) = b + x + s - 1 - r
  BY <1>4 DEF AlignUp
<1>6. AlignUp(x, s) = x + s - 1 - r
  BY <1>2 DEF AlignUp
<1> QED BY <1>5, <1>6

-----------------------------------------------------------------------------
(* The layout that GlobalHeap::new chooses.                                *)

\* The region of a node is a positive multiple of the alignment unit.
LEMMA RegionSizeIs ==
  SizeOfRegion \in Nat /\ SizeOfRegion >= MinRegionSize /\ SizeOfRegion % MinRegionSize = 0
<1> DEFINE want == IF RegionSize > MinRegionSize THEN RegionSize ELSE MinRegionSize
<1>1. want \in Int /\ want >= MinRegionSize /\ MinRegionSize \in Nat \ {0}
  BY RegionAssumption
<1>2. SizeOfRegion = AlignUp(want, MinRegionSize)
  BY DEF SizeOfRegion
<1> HIDE DEF want
<1>3. /\ AlignUp(want, MinRegionSize) \in Int
      /\ AlignUp(want, MinRegionSize) % MinRegionSize = 0
      /\ want <= AlignUp(want, MinRegionSize)
  BY <1>1, AlignUpIs
<1> QED BY <1>1, <1>2, <1>3

\* A bag size is positive, no larger than the unit, and divides it.
LEMMA BagSizeIs ==
  ASSUME NEW s \in BagSizes
  PROVE  s \in Nat \ {0} /\ s <= MinRegionSize /\ MinRegionSize % s = 0
BY RegionAssumption

\* The base is aligned and inside the slack that was mapped for it.
LEMMA BaseIs ==
  ASSUME mapBase \in MapBases
  PROVE  /\ Base \in Nat /\ Base % MinRegionSize = 0
         /\ mapBase <= Base /\ Base < mapBase + MinRegionSize
<1>1. mapBase \in Nat /\ MinRegionSize \in Nat \ {0}
  BY RegionAssumption
<1>2. mapBase \in Int
  BY <1>1
<1> QED BY <1>1, <1>2, AlignUpIs DEF Base

\* So is the first page of every node.
LEMMA NodeBaseIs ==
  ASSUME mapBase \in MapBases, NEW n \in Node
  PROVE  /\ NodeBase(n) \in Nat /\ NodeBase(n) % MinRegionSize = 0
         /\ NodeBase(n) = Base + n * SizeOfRegion
         /\ NodeBase(n) >= Base
<1>1. n \in Nat /\ MinRegionSize \in Nat \ {0}
  BY RegionAssumption DEF Node
<1>2. Base \in Nat /\ Base % MinRegionSize = 0
  BY BaseIs
<1>3. SizeOfRegion \in Nat /\ SizeOfRegion % MinRegionSize = 0
  BY RegionSizeIs
<1>4. PICK k \in Int : SizeOfRegion = k * MinRegionSize
  <2>1. SizeOfRegion \in Int
    BY <1>3
  <2> QED BY <1>1, <1>3, <2>1, Multiple
<1>5. n * SizeOfRegion = (n * k) * MinRegionSize /\ n * k \in Int /\ n * SizeOfRegion \in Nat
  BY <1>1, <1>3, <1>4, Products
<1>6. (n * SizeOfRegion) % MinRegionSize = 0
  BY <1>1, <1>5, NoRemainder
<1>7. (Base + n * SizeOfRegion) % MinRegionSize = 0
  <2>1. Base \in Int /\ n * SizeOfRegion \in Int
    BY <1>2, <1>5
  <2> QED BY <1>1, <1>2, <1>6, <2>1, SumOfMultiples
<1> QED BY <1>2, <1>5, <1>7 DEF NodeBase

\* Where a bag would start, given a bump offset: at or after the offset, aligned
\* as an address and as an offset alike.
LEMMA AlignedIs ==
  ASSUME mapBase \in MapBases, NEW n \in Node, NEW s \in BagSizes, NEW o \in Nat
  PROVE  /\ Aligned(n, s, o) \in Nat /\ Aligned(n, s, o) >= o
         /\ (NodeBase(n) + Aligned(n, s, o)) % s = 0
         /\ Aligned(n, s, o) = AlignUp(o, s)
<1>1. s \in Nat \ {0} /\ MinRegionSize % s = 0 /\ MinRegionSize \in Nat \ {0}
  BY BagSizeIs, RegionAssumption
<1>2. NodeBase(n) \in Int /\ NodeBase(n) % MinRegionSize = 0
  BY NodeBaseIs
<1>3. NodeBase(n) % s = 0
  BY <1>1, <1>2, MultipleOfMultiple
<1>4. AlignUp(NodeBase(n) + o, s) = NodeBase(n) + AlignUp(o, s)
  <2>1. o \in Int
    OBVIOUS
  <2> QED BY <1>1, <1>2, <1>3, <2>1, AlignUpShift
<1>5. AlignUp(o, s) \in Int /\ o <= AlignUp(o, s)
  <2>1. o \in Int
    OBVIOUS
  <2> QED BY <1>1, <2>1, AlignUpIs
<1>6. AlignUp(NodeBase(n) + o, s) % s = 0
  <2>1. NodeBase(n) + o \in Int
    BY <1>2
  <2> QED BY <1>1, <2>1, AlignUpIs
<1> QED BY <1>2, <1>4, <1>5, <1>6 DEF Aligned

-----------------------------------------------------------------------------
(* The invariant.                                                          *)

\* A thread about to swap has checked that its bag fits at the offset it loaded.
RequestOK ==
  \A t \in Threads :
    /\ pc[t] # "idle" => req[t].size \in BagSizes
    /\ pc[t] = "cas" => Fits(req[t].node, req[t].size, req[t].offset)

\* A bag lies in the part of its node's region that is carved.
BagsCarved ==
  \A a \in bags : /\ NodeBase(a.node) <= a.addr
                  /\ a.addr + a.size <= NodeBase(a.node) + bump[a.node]

Inv == TypeOK /\ RequestOK /\ BagsCarved /\ BagsAligned /\ BagsDisjoint

\* The invariant holds of an empty region.
LEMMA InitInv == Init => Inv
<1>1. SizeOfRegion \in Nat /\ 0 \in Node
  BY RegionSizeIs, RegionAssumption DEF Node
<1> QED BY <1>1, FS_EmptySet
        DEF Init, Idle, Inv, TypeOK, RequestOK, BagsCarved, BagsAligned, BagsDisjoint

\* The two halves of a call that do not carve leave the bags alone.
LEMMA PrivateInv ==
  ASSUME Inv, NEW t \in Threads, Call(t) \/ Load(t) \/ CasLost(t) \/ CasSpurious(t)
  PROVE  Inv'
<1>1. UNCHANGED <<mapBase, bump, bags>>
  BY DEF Call, Load, CasLost, CasSpurious, Retry
<1>2. BagsCarved' /\ BagsAligned' /\ BagsDisjoint'
  BY <1>1 DEF Inv, BagsCarved, BagsAligned, BagsDisjoint, NodeBase, Base, Pages
<1>3. SizeOfRegion \in Nat /\ BagSizes \subseteq Nat
  BY RegionSizeIs, BagSizeIs
<1>4. \A n, s, o : Fits(n, s, o)' = Fits(n, s, o)
  BY <1>1 DEF Fits, Aligned, NodeBase, Base
<1> USE DEF Inv, TypeOK, RequestOK
<1>5. CASE Call(t)
  BY <1>1, <1>2, <1>3, <1>4, <1>5 DEF Call
<1>6. CASE Load(t)
  <2>1. bump[req[t].node] \in 0 .. SizeOfRegion /\ 0 \in Node
    BY RegionAssumption DEF Node
  <2>2. CASE Fits(req[t].node, req[t].size, bump[req[t].node])
    <3>1. /\ pc' = [pc EXCEPT ![t] = "cas"]
          /\ req' = [req EXCEPT ![t].offset = bump[req[t].node]]
          /\ req[t].size \in BagSizes
      BY <1>6, <2>2 DEF Load
    <3> QED BY <1>1, <1>2, <1>3, <1>4, <2>1, <2>2, <3>1
  <2>3. CASE ~ Fits(req[t].node, req[t].size, bump[req[t].node])
    <3>1. pc' = [pc EXCEPT ![t] = "idle"] /\ req' = [req EXCEPT ![t] = Idle]
      BY <1>6, <2>3 DEF Load
    <3> QED BY <1>1, <1>2, <1>3, <1>4, <2>1, <3>1 DEF Idle
  <2> QED BY <2>2, <2>3
<1>7. CASE CasLost(t) \/ CasSpurious(t)
  BY <1>1, <1>2, <1>3, <1>4, <1>7 DEF CasLost, CasSpurious, Retry
<1> QED BY <1>5, <1>6, <1>7

\* The bag a successful compare-and-swap carves begins after everything carved on
\* its node, and ends inside the node's region.
LEMMA CarvedBag ==
  ASSUME Inv, NEW t \in Threads, Cas(t)
  PROVE  LET n == req[t].node
             s == req[t].size
             at == Aligned(n, s, bump[n])
         IN /\ n \in Node /\ s \in BagSizes /\ s \in Nat \ {0}
            /\ at \in Nat /\ bump[n] \in Nat /\ bump[n] <= at /\ at + s <= SizeOfRegion
            /\ (NodeBase(n) + at) % s = 0
            /\ bump' = [bump EXCEPT ![n] = at + s]
            /\ bags' = bags \cup {[node |-> n, nth |-> HandedOut(n),
                                   addr |-> NodeBase(n) + at, size |-> s]}
<1> DEFINE n == req[t].node
           s == req[t].size
<1>1. n \in Node /\ s \in BagSizes /\ bump[n] \in Nat /\ mapBase \in MapBases
  BY RegionSizeIs DEF Cas, Inv, TypeOK, RequestOK
<1>2. req[t].offset = bump[n]
  BY DEF Cas, Matches
<1>3. Aligned(n, s, bump[n]) + s <= SizeOfRegion
  BY <1>2 DEF Cas, Inv, RequestOK, Fits
<1>4. /\ Aligned(n, s, bump[n]) \in Nat /\ bump[n] <= Aligned(n, s, bump[n])
      /\ (NodeBase(n) + Aligned(n, s, bump[n])) % s = 0
  BY <1>1, AlignedIs
<1>5. s \in Nat \ {0}
  BY <1>1, BagSizeIs
<1> QED BY <1>1, <1>2, <1>3, <1>4, <1>5 DEF Cas

\* Regions of different nodes are apart.
LEMMA NodesApart ==
  ASSUME mapBase \in MapBases, NEW m \in Node, NEW n \in Node, m < n
  PROVE  NodeBase(m) + SizeOfRegion <= NodeBase(n)
<1>1. m \in Nat /\ n \in Nat /\ SizeOfRegion \in Nat /\ Base \in Nat
  BY RegionSizeIs, BaseIs DEF Node
<1>2. PICK d \in Nat : n = m + 1 + d
  <2>1. n - m - 1 \in Nat /\ n = m + 1 + (n - m - 1)
    BY <1>1
  <2> QED BY <2>1
<1>3. n * SizeOfRegion = m * SizeOfRegion + SizeOfRegion + d * SizeOfRegion
  <2>1. (m + 1 + d) * SizeOfRegion = (m + 1) * SizeOfRegion + d * SizeOfRegion
    BY <1>1, Products
  <2>2. (m + 1) * SizeOfRegion = m * SizeOfRegion + 1 * SizeOfRegion
    BY <1>1, Products
  <2> QED BY <1>1, <1>2, <2>1, <2>2
<1>4. m * SizeOfRegion \in Nat /\ d * SizeOfRegion \in Nat
  BY <1>1
<1> QED BY <1>1, <1>3, <1>4 DEF NodeBase

\* A successful compare-and-swap carves a bag that touches no other.
LEMMA CasInv ==
  ASSUME Inv, NEW t \in Threads, Cas(t)
  PROVE  Inv'
<1> DEFINE n == req[t].node
           s == req[t].size
           at == Aligned(n, s, bump[n])
           new == [node |-> n, nth |-> HandedOut(n), addr |-> NodeBase(n) + at, size |-> s]
<1>1. /\ n \in Node /\ s \in BagSizes /\ s \in Nat \ {0}
      /\ at \in Nat /\ bump[n] \in Nat /\ bump[n] <= at /\ at + s <= SizeOfRegion
      /\ (NodeBase(n) + at) % s = 0
      /\ bump' = [bump EXCEPT ![n] = at + s]
      /\ bags' = bags \cup {new}
  BY CarvedBag
<1>2. /\ mapBase \in MapBases /\ UNCHANGED mapBase
      /\ bump \in [Node -> 0 .. SizeOfRegion] /\ SizeOfRegion \in Nat
      /\ bags \subseteq [node : Node, nth : Nat, addr : Nat, size : BagSizes]
      /\ IsFiniteSet(bags)
      /\ pc' = [pc EXCEPT ![t] = "idle"] /\ req' = [req EXCEPT ![t] = Idle]
      /\ \A m \in Node : NodeBase(m) \in Nat
  BY RegionSizeIs, NodeBaseIs DEF Cas, Inv, TypeOK
<1> HIDE DEF n, s, at
<1>3. \A m : NodeBase(m)' = NodeBase(m)
  BY <1>2 DEF NodeBase, Base
<1>4. new \in [node : Node, nth : Nat, addr : Nat, size : BagSizes]
  <2>1. {b \in bags : b.node = n} \subseteq bags
    OBVIOUS
  <2>2. HandedOut(n) \in Nat
    BY <1>2, <2>1, FS_Subset, FS_CardinalityType DEF HandedOut
  <2> QED BY <1>1, <1>2, <2>2
<1>5. TypeOK'
  <2>1. at + s \in 0 .. SizeOfRegion
    BY <1>1, <1>2
  <2>2. Idle \in [node : Node, size : Nat, offset : 0 .. SizeOfRegion]
    BY <1>2, RegionAssumption DEF Idle, Node
  <2>3. IsFiniteSet(bags')
    BY <1>1, <1>2, FS_AddElement
  <2> QED BY <1>1, <1>2, <1>4, <2>1, <2>2, <2>3 DEF Inv, TypeOK
<1>6. RequestOK'
  BY <1>2 DEF Inv, RequestOK, TypeOK, Fits, Aligned, NodeBase, Base
<1>7. ASSUME NEW a \in bags
      PROVE  /\ a.node \in Node /\ a.addr \in Nat /\ a.size \in Nat \ {0}
             /\ NodeBase(a.node) <= a.addr
             /\ a.addr + a.size <= NodeBase(a.node) + bump[a.node]
             /\ bump[a.node] \in Nat /\ bump[a.node] <= SizeOfRegion
  BY <1>2, BagSizeIs DEF Inv, BagsCarved
<1>8. BagsCarved'
  <2> SUFFICES ASSUME NEW a \in bags'
               PROVE  /\ NodeBase(a.node) <= a.addr
                      /\ a.addr + a.size <= NodeBase(a.node) + bump'[a.node]
    BY <1>3 DEF BagsCarved
  <2>1. CASE a = new
    BY <1>1, <1>2, <2>1
  <2>2. CASE a \in bags
    <3>1. bump[a.node] <= bump'[a.node] /\ bump'[a.node] \in Nat
      BY <1>1, <1>2, <1>7, <2>2
    <3> QED BY <1>2, <1>7, <2>2, <3>1
  <2> QED BY <1>1, <2>1, <2>2
<1>9. BagsAligned'
  BY <1>1 DEF Inv, BagsAligned
<1>10. ASSUME NEW a \in bags PROVE Pages(a) \cap Pages(new) = {}
  <2>1. CASE a.node = n
    <3>1. a.addr + a.size <= NodeBase(n) + at
      BY <1>1, <1>2, <1>7, <2>1
    <3> QED BY <1>1, <1>2, <1>7, <3>1 DEF Pages
  <2>2. CASE a.node < n
    <3>1. NodeBase(a.node) + SizeOfRegion <= NodeBase(n)
      BY <1>1, <1>2, <1>7, <2>2, NodesApart
    <3>2. a.addr + a.size <= NodeBase(n) + at
      BY <1>1, <1>2, <1>7, <3>1
    <3> QED BY <1>1, <1>2, <1>7, <3>2 DEF Pages
  <2>3. CASE n < a.node
    <3>1. NodeBase(n) + SizeOfRegion <= NodeBase(a.node)
      BY <1>1, <1>2, <1>7, <2>3, NodesApart
    <3>2. NodeBase(n) + at + s <= a.addr
      BY <1>1, <1>2, <1>7, <3>1
    <3> QED BY <1>1, <1>2, <1>7, <3>2 DEF Pages
  <2>4. a.node \in Int /\ n \in Int
    BY <1>1, <1>7 DEF Node
  <2> QED BY <2>1, <2>2, <2>3, <2>4
<1>11. BagsDisjoint'
  <2>1. \A a : Pages(a)' = Pages(a)
    BY DEF Pages
  <2> SUFFICES ASSUME NEW a \in bags', NEW b \in bags', a # b
               PROVE  Pages(a) \cap Pages(b) = {}
    BY <2>1 DEF BagsDisjoint
  <2>2. CASE a \in bags /\ b \in bags
    BY <2>2 DEF Inv, BagsDisjoint
  <2>3. CASE a = new /\ b \in bags
    BY <1>10, <2>3
  <2>4. CASE b = new /\ a \in bags
    BY <1>10, <2>4
  <2> QED BY <1>1, <2>2, <2>3, <2>4
<1> QED BY <1>5, <1>6, <1>8, <1>9, <1>11 DEF Inv

\* Every step keeps the invariant.
LEMMA NextInv == Inv /\ [Next]_vars => Inv'
<1> SUFFICES ASSUME Inv, [Next]_vars PROVE Inv'
  OBVIOUS
<1>1. CASE UNCHANGED vars
  BY <1>1 DEF vars, Inv, TypeOK, RequestOK, BagsCarved, BagsAligned, BagsDisjoint, Pages,
              Fits, Aligned, NodeBase, Base
<1>2. CASE Next
  BY <1>2, PrivateInv, CasInv DEF Next
<1> QED BY <1>1, <1>2

-----------------------------------------------------------------------------
(* The theorems.                                                           *)

\* The inductive invariant: every bag lies in the carved part of its node's
\* region, aligned, apart from the others, and a pending compare-and-swap fits.
THEOREM Safety == Spec => []Inv
BY InitInv, NextInv, PTL DEF Spec

\* The bump offsets of allocate_bag never leave their region.
THEOREM TypeCorrect == Spec => []TypeOK
<1>1. Inv => TypeOK
  BY DEF Inv
<1> QED BY <1>1, Safety, PTL

\* No page is in two bags: allocate_bag's compare-and-swap never gives the same
\* part of a region to two threads, and a bag never runs into the next node's.
THEOREM Disjointness == Spec => []BagsDisjoint
<1>1. Inv => BagsDisjoint
  BY DEF Inv
<1> QED BY <1>1, Safety, PTL

\* Every bag that allocate_bag returns is aligned to its size.
THEOREM Alignment == Spec => []BagsAligned
<1>1. Inv => BagsAligned
  BY DEF Inv
<1> QED BY <1>1, Safety, PTL

\* node_for_ptr finds the node of every page of every bag, and the page is inside
\* the mapping.
THEOREM FoundAgain == Spec => []BagsFoundAgain
<1>1. Inv => BagsFoundAgain
  <2> SUFFICES ASSUME Inv, NEW a \in bags, NEW p \in Pages(a)
               PROVE  NodeForPtr(p) = a.node /\ p >= mapBase /\ p < mapBase + MapSize
    BY DEF BagsFoundAgain
  <2> DEFINE n == a.node
             offset == p - NodeBase(n)
  <2>1. /\ n \in Node /\ a.addr \in Nat /\ a.size \in Nat \ {0} /\ mapBase \in MapBases
        /\ bump[n] \in Nat /\ bump[n] <= SizeOfRegion
    BY RegionSizeIs, BagSizeIs DEF Inv, TypeOK
  <2>2. /\ NodeBase(n) \in Nat /\ Base \in Nat /\ SizeOfRegion \in Nat \ {0} /\ mapBase \in Nat
        /\ NodeBase(n) = Base + n * SizeOfRegion /\ NodeBase(n) >= Base
        /\ mapBase <= Base /\ Base < mapBase + MinRegionSize
        /\ MinRegionSize \in Nat \ {0} /\ NumNodes \in Nat \ {0} /\ n \in Nat
    <3>1. /\ NodeBase(n) \in Nat /\ NodeBase(n) >= Base
          /\ NodeBase(n) = Base + n * SizeOfRegion
      BY <2>1, NodeBaseIs
    <3>2. Base \in Nat /\ mapBase <= Base /\ Base < mapBase + MinRegionSize
      BY <2>1, BaseIs
    <3>3. /\ SizeOfRegion \in Nat \ {0} /\ mapBase \in Nat
          /\ MinRegionSize \in Nat \ {0} /\ NumNodes \in Nat \ {0} /\ n \in Nat
      BY <2>1, RegionSizeIs, RegionAssumption DEF Node
    <3> QED BY <3>1, <3>2, <3>3
  <2>3. NodeBase(n) <= a.addr /\ a.addr + a.size <= NodeBase(n) + bump[n]
    BY DEF Inv, BagsCarved
  <2> HIDE DEF n
  <2>4. p \in Nat /\ offset \in 0 .. SizeOfRegion - 1
    BY <2>1, <2>2, <2>3 DEF Pages
  <2>5. p = Base + n * SizeOfRegion + offset /\ n * SizeOfRegion \in Nat
    BY <2>2, <2>4
  <2> HIDE DEF offset
  <2>6. p - Base = n * SizeOfRegion + offset /\ p - Base \in Int /\ p >= Base
    BY <2>2, <2>4, <2>5
  <2>7. (p - Base) \div SizeOfRegion = n
    <3>1. n \in Int
      BY <2>2
    <3> QED BY <2>2, <2>4, <2>6, <3>1, Remainder
  <2>8. NodeBase(n) + SizeOfRegion <= Base + TotalSize /\ TotalSize \in Nat
    <3>1. n + 1 <= NumNodes
      BY <2>1, <2>2 DEF Node
    <3>2. PICK d \in Nat : NumNodes = n + 1 + d
      <4>1. NumNodes - n - 1 \in Nat /\ NumNodes = n + 1 + (NumNodes - n - 1)
        BY <2>2, <3>1
      <4> QED BY <4>1
    <3>3. (n + 1 + d) * SizeOfRegion = (n + 1) * SizeOfRegion + d * SizeOfRegion
      BY <2>2, Products
    <3>4. (n + 1) * SizeOfRegion = n * SizeOfRegion + 1 * SizeOfRegion
      BY <2>2, Products
    <3>5. TotalSize = (n + 1 + d) * SizeOfRegion /\ d * SizeOfRegion \in Nat
      BY <2>2, <3>2 DEF TotalSize
    <3> QED BY <2>2, <2>5, <3>3, <3>4, <3>5
  <2>9. p - Base < TotalSize
    BY <2>2, <2>4, <2>5, <2>8
  <2>10. NodeForPtr(p) = n
    <3>1. ~ (p < Base) /\ ~ (p - Base >= TotalSize)
      BY <2>2, <2>4, <2>6, <2>8, <2>9
    <3> QED BY <2>7, <3>1, Zenon DEF NodeForPtr
  <2>11. p >= mapBase /\ p < mapBase + MapSize
    BY <2>2, <2>4, <2>6, <2>8, <2>9 DEF MapSize
  <2> QED BY <2>10, <2>11 DEF n
<1> QED BY <1>1, Safety, PTL

\* Offsets are aligned as addresses are, so where the kernel puts the mapping does
\* not change how many bags a region holds.
THEOREM Placement == Spec => []PlacementIndependent
<1>1. Inv => PlacementIndependent
  <2> SUFFICES ASSUME Inv, NEW n \in Node, NEW s \in BagSizes
               PROVE  Aligned(n, s, bump[n]) = AlignUp(bump[n], s)
    BY DEF PlacementIndependent
  <2>1. bump[n] \in Nat /\ mapBase \in MapBases
    BY RegionSizeIs DEF Inv, TypeOK
  <2> QED BY <2>1, AlignedIs
<1> QED BY <1>1, Safety, PTL
=============================================================================
