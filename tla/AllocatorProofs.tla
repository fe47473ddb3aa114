--------------------------- MODULE AllocatorProofs ---------------------------
(***************************************************************************)
(* The allocator as a whole keeps its memory apart, whatever the number of *)
(* threads and nodes, the sizes of regions, bags, classes and pages, the   *)
(* limits of the lists and caches and the places the kernel maps at.       *)
(*                                                                         *)
(* Memory is divided into chunks: the blocks of the bags carved so far and *)
(* the mappings.  Three functions of addresses, which the program does not *)
(* have, say what becomes of them: `kind' and `who' give the place of the  *)
(* chunk that starts at an address, `cls' the class of a block.            *)
(***************************************************************************)
EXTENDS Allocator, LayoutProofs, CacheProofs

-----------------------------------------------------------------------------
(* The invariant.                                                          *)

Kinds == {"none", "stack", "list", "spare", "cache", "obj", "new"}

\* A chunk that is on a list, and one that the program has or is about to get.
Listed(k) == k \in {"stack", "list", "spare"}
Used(k) == k \in {"obj", "new"}

\* The words of the chunk at a, and the bag of the block at a.
Ext(a, mp, cls) == IF InRegion(a) THEN SizeForClass(cls[a]) ELSE mp[a].len
Bag(a, cls) == a - (a % BagSizeForClass(cls[a]))

\* A block lies on its boundary, in a bag that was carved from its node's region.
BlockOK(a, bu, cls) ==
  LET n == NodeForPtr(a)
  IN /\ a % SizeForClass(cls[a]) = 0
     /\ NodeBase(n) <= Bag(a, cls)
     /\ Bag(a, cls) + BagSizeForClass(cls[a]) <= NodeBase(n) + bu[n]

\* Two blocks share a bag and a class, or their bags are apart.
SameBag(a, b, cls) == Bag(a, cls) = Bag(b, cls) /\ cls[a] = cls[b]
BagsApart(a, b, cls) ==
  \/ Bag(a, cls) + BagSizeForClass(cls[a]) <= Bag(b, cls)
  \/ Bag(b, cls) + BagSizeForClass(cls[b]) <= Bag(a, cls)

MapOK(a, mp) ==
  /\ a \in Maps
  /\ mp[a].len \in Nat \ {0} /\ mp[a].len % PageSize = 0 /\ a + mp[a].len <= Top

MapsApart(a, b, mp) == a + mp[a].len <= b \/ b + mp[b].len <= a

\* The chunks are where they can be, and apart.
ChunksOK(bu, mp, kind, cls) ==
  /\ bu \in [Nodes -> 0 .. RegionSize] /\ mp \in [Maps -> [len : Nat, node : Nodes]]
  /\ kind \in [Addr -> Kinds] /\ cls \in [Addr -> Classes]
  /\ \A a \in Addr : kind[a] # "none" =>
       IF InRegion(a) THEN kind[a] # "cache" /\ BlockOK(a, bu, cls)
       ELSE ~ Listed(kind[a]) /\ MapOK(a, mp)
  /\ \A a, b \in Addr : kind[a] # "none" /\ kind[b] # "none" /\ a # b =>
       /\ InRegion(a) /\ InRegion(b) => SameBag(a, b, cls) \/ BagsApart(a, b, cls)
       /\ ~ InRegion(a) /\ ~ InRegion(b) => MapsApart(a, b, mp)
  /\ \A raw \in Maps : mp[raw].len = 0 <=> kind[raw] = "none"

Elems(s) == {s[i] : i \in DOMAIN s}

\* s lists the addresses of S, each once.
Lists(s, S) ==
  /\ s \in Seq(Addr)
  /\ \A i, j \in DOMAIN s : s[i] = s[j] => i = j
  /\ Elems(s) = S

Of(k, w, c, kind, who, cls) == {a \in Addr : kind[a] = k /\ who[a] = w /\ cls[a] = c}

\* The lists and stacks hold the blocks that are said to be on them, of their node.
ListsOK(st, hp, kind, who, cls) ==
  /\ \A n \in Nodes, c \in Classes : Lists(st[n][c], Of("stack", n, c, kind, who, cls))
  /\ \A t \in Threads, c \in Classes :
       /\ Lists(hp[t].list[c], Of("list", t, c, kind, who, cls))
       /\ Lists(hp[t].spare[c], Of("spare", t, c, kind, who, cls))
  /\ \A a \in Addr :
       /\ kind[a] = "stack" => who[a] = NodeForPtr(a)
       /\ kind[a] \in {"list", "spare"} => who[a] \in Threads /\ NodeForPtr(a) = hp[who[a]].node

\* A LargeCache: its entries are the mappings said to be in it, its counter is right.
CacheOK(t, h, mp, kind, who) ==
  /\ h.cache \in Seq(Entries) /\ Distinct(h.cache)
  /\ MapsOf(h.cache) = {a \in Addr : kind[a] = "cache" /\ who[a] = t}
  /\ \A i \in DOMAIN h.cache : h.cache[i].size = mp[h.cache[i].map].len
  /\ h.bytes = Pages(h.cache, Len(h.cache))
  /\ h.bytes <= MaxCacheBytes /\ Len(h.cache) <= CacheSlots

CachesOK(hp, mp, kind, who) ==
  /\ \A t \in Threads : CacheOK(t, hp[t], mp, kind, who)
  /\ \A a \in Addr : kind[a] = "cache" => who[a] \in Threads

Heap == [state : {"none", "bound", "gone"}, node : Nodes, bytes : Nat, cache : Seq(Entries),
         list : [Classes -> Seq(Addr)], spare : [Classes -> Seq(Addr)]]

\* A thread without a PerThreadHeap has nothing.
HeapsOK(hp) ==
  /\ hp \in [Threads -> Heap]
  /\ \A t \in Threads : hp[t].state # "bound" => hp[t] = NoHeap(hp[t].state)

\* What the allocator has.
PlacesOK(bu, st, hp, mp, kind, who, cls) ==
  /\ st \in [Nodes -> [Classes -> Seq(Addr)]]
  /\ ChunksOK(bu, mp, kind, cls)
  /\ ListsOK(st, hp, kind, who, cls)
  /\ CachesOK(hp, mp, kind, who)
  /\ HeapsOK(hp)

\* An object of this size and alignment, at p, fills the chunk at a: a block of its
\* class, or a mapping whose header says which.
Lies(a, p, size, align, m, mp, cls) ==
  /\ size \in Nat \ {0} /\ align \in Powers
  /\ IF InRegion(a) THEN p = a /\ IsSmall(size, align) /\ cls[a] = ClassOf(size, align)
     ELSE /\ p = PayloadAddr(a, align)
          /\ HeaderSize + Maximum(align, HeaderAlign) - 1 + size <= mp[a].len
          /\ Read(m, p - 2) = a /\ Read(m, p - 1) = mp[a].len

\* Every object has its chunk.
ObjsOK(ob, m, mp, kind, who, cls) ==
  /\ \A p \in DOMAIN ob : ob[p] \in [size : Nat, align : Nat]
  /\ \A p \in DOMAIN ob : \E a \in Addr : kind[a] = "obj" /\ who[a] = p
  /\ \A a \in Addr : kind[a] = "obj" =>
       /\ who[a] \in DOMAIN ob
       /\ Lies(a, who[a], ob[who[a]].size, ob[who[a]].align, m, mp, cls)

\* So has every object that a realloc has allocated.
NewsOK(jb, m, mp, kind, who, cls) ==
  /\ \A t \in Threads : jb[t].pc = "move" => \E a \in Addr : kind[a] = "new" /\ who[a] = t
  /\ \A a \in Addr : kind[a] = "new" =>
       /\ who[a] \in Threads /\ jb[who[a]].pc = "move"
       /\ Lies(a, jb[who[a]].new, jb[who[a]].size, jb[who[a]].align, m, mp, cls)

Job == [pc : {"idle", "carve", "move"}, op : {"none", "alloc", "zeroed", "realloc"},
        size : Nat, align : Nat, old : Nat, new : Nat]

\* A call that goes on after its first step: to carve, with an empty list, or to
\* move an object, which no other call is about.
JobOK(j, h, ob) ==
  /\ j.pc = "idle" => j = Idle
  /\ j.pc # "idle" => j.op # "none" /\ j.size \in Nat \ {0} /\ j.align \in Powers
  /\ j.pc = "carve" => /\ h.state = "bound" /\ IsSmall(j.size, j.align)
                       /\ h.list[ClassOf(j.size, j.align)] = <<>>
  /\ j.pc = "move" => j.op = "realloc"
  /\ j.op = "realloc" => j.old \in DOMAIN ob /\ j.align = ob[j.old].align

JobsOK(jb, hp, ob) ==
  /\ jb \in [Threads -> Job]
  /\ \A t \in Threads : JobOK(jb[t], hp[t], ob)
  /\ \A t, u \in Threads :
       t # u /\ jb[t].op = "realloc" /\ jb[u].op = "realloc" => jb[t].old # jb[u].old

MemOK(m) == DOMAIN m \subseteq Addr /\ \A a \in DOMAIN m : m[a] \in Nat

\* What the program has.
UsesOK(hp, mp, m, ob, jb, kind, who, cls) ==
  /\ MemOK(m)
  /\ ObjsOK(ob, m, mp, kind, who, cls)
  /\ NewsOK(jb, m, mp, kind, who, cls)
  /\ JobsOK(jb, hp, ob)

CountsOK == nextNode \in Nodes /\ calls \in 0 .. MaxCalls /\ exits \in 0 .. MaxExits

Placed(kind, who, cls) ==
  /\ PlacesOK(bump, stack, heap, maps, kind, who, cls)
  /\ UsesOK(heap, maps, mem, objs, job, kind, who, cls)

Inv == CountsOK /\ \E kind, who, cls : Placed(kind, who, cls)

-----------------------------------------------------------------------------
(* Where things are.                                                       *)

\* The constants are numbers.
LEMMA ConstantsAre ==
  /\ NumNodes \in Nat \ {0} /\ RegionBase \in Nat \ {0} /\ RegionSize \in Nat \ {0}
  /\ RegionEnd \in Nat /\ Top \in Nat /\ RegionEnd <= Top /\ RegionBase <= RegionEnd
  /\ PageSize \in Nat \ {0} /\ HeaderAlign \in Nat \ {0} /\ SmallLimit \in Nat \ {0}
  /\ NumClasses \in Nat \ {0} /\ 0 \in Classes /\ BagSize \in Nat \ {0} /\ 0 \in Nodes
<1>1. NumNodes \in Nat \ {0} /\ RegionBase \in Nat \ {0} /\ RegionSize \in Nat \ {0}
  BY AllocatorAssumption
<1>2. NumNodes * RegionSize \in Nat
  BY <1>1
<1>3. NumClasses \in Nat \ {0}
  BY LayoutsAssumption
<1>4. 0 \in 0 .. NumClasses - 1
  BY <1>3
<1>5. SmallLimit \in Nat \ {0}
  BY <1>4, ClassSizeIs
<1>6. HeaderAlign \in Nat \ {0} /\ BagSize \in Nat \ {0}
  <2>1. \A x \in Powers : x \in Nat \ {0}
    BY Pow2Is DEF Powers
  <2> QED BY <2>1, LayoutsAssumption
<1> QED BY <1>1, <1>2, <1>3, <1>4, <1>5, <1>6, AllocatorAssumption, LayoutsAssumption
      DEF RegionEnd, Classes, Nodes

\* A bag is a number of blocks, and a region and its start are a number of bags.
LEMMA BagIs ==
  ASSUME NEW c \in Classes, NEW s, NEW bag, s = SizeForClass(c), bag = BagSizeForClass(c)
  PROVE  /\ s \in Nat \ {0} /\ bag \in Nat \ {0} /\ s <= bag /\ bag % s = 0
         /\ bag % BagSize = 0 /\ BagSize <= bag
         /\ SmallLimit % bag = 0 /\ RegionBase % bag = 0 /\ RegionSize % bag = 0
<1>1. s \in Powers /\ s \in Nat \ {0} /\ s <= SmallLimit /\ SmallLimit \in Nat \ {0}
  BY ClassSizeIs DEF Classes
<1>2. BagSize \in Powers /\ BagSize \in Nat \ {0} /\ BagSize <= SmallLimit
  BY ConstantsAre, LayoutsAssumption, AllocatorAssumption
<1>3. bag \in Powers /\ s <= bag /\ BagSize <= bag /\ bag <= SmallLimit /\ bag \in Nat \ {0}
  <2>1. bag = Maximum(s, BagSize)
    BY DEF BagSizeForClass
  <2>2. bag \in {s, BagSize} /\ s <= bag /\ BagSize <= bag
    BY <1>1, <1>2, <2>1, MaximumIs
  <2> QED BY <1>1, <1>2, <2>2
<1>4. bag % s = 0 /\ bag % BagSize = 0
  BY <1>1, <1>2, <1>3, PowersDivide
<1>5. SmallLimit \in Powers
  <2>1. MinShift + NumClasses - 1 \in 0 .. WordBits
    BY LayoutsAssumption
  <2> QED BY <2>1 DEF SmallLimit, Powers
<1>6. SmallLimit % bag = 0
  BY <1>3, <1>5, PowersDivide
<1>7. RegionBase % bag = 0 /\ RegionSize % bag = 0
  <2>1. RegionBase \in Int /\ RegionSize \in Int /\ RegionBase % SmallLimit = 0 /\ RegionSize % SmallLimit = 0
    BY ConstantsAre, AllocatorAssumption
  <2> QED BY <1>1, <1>3, <1>6, <2>1, MultipleOfMultiple
<1> QED BY <1>1, <1>3, <1>4, <1>6, <1>7

\* A node's region, and that regions follow each other.
LEMMA NodeBaseIs ==
  ASSUME NEW n \in Nodes
  PROVE  /\ NodeBase(n) \in Nat /\ RegionBase <= NodeBase(n)
         /\ NodeBase(n) + RegionSize <= RegionEnd
         /\ \A i \in Nodes : n < i => NodeBase(n) + RegionSize <= NodeBase(i)
<1>1. n \in Nat /\ n <= NumNodes - 1 /\ RegionBase \in Nat /\ RegionSize \in Nat /\ NumNodes \in Nat
  BY ConstantsAre DEF Nodes
<1>2. ASSUME NEW i \in Nat, n < i PROVE n * RegionSize + RegionSize <= i * RegionSize
  <2>1. PICK d \in Nat : i = n + (1 + d)
    <3>1. i - n - 1 \in Nat /\ i = n + (1 + (i - n - 1))
      BY <1>1, <1>2
    <3> QED BY <3>1
  <2>2. i * RegionSize = n * RegionSize + (1 + d) * RegionSize
    BY <1>1, <2>1, Products
  <2>3. (1 + d) * RegionSize = 1 * RegionSize + d * RegionSize
    BY <1>1, Products
  <2>4. n * RegionSize \in Nat /\ d * RegionSize \in Nat /\ 1 * RegionSize = RegionSize
    BY <1>1
  <2> QED BY <1>1, <2>2, <2>3, <2>4
<1>3. n * RegionSize \in Nat /\ \A i \in Nodes : i \in Nat /\ i * RegionSize \in Nat
  BY <1>1 DEF Nodes
<1>4. n * RegionSize + RegionSize <= NumNodes * RegionSize
  BY <1>1, <1>2
<1>5. NumNodes * RegionSize \in Nat
  BY <1>1
<1> QED BY <1>1, <1>2, <1>3, <1>4, <1>5 DEF NodeBase, RegionEnd

\* node_for_ptr finds the node of an address.
LEMMA NodeIs ==
  ASSUME NEW n \in Nodes, NEW p \in Int, NodeBase(n) <= p, p < NodeBase(n) + RegionSize
  PROVE  InRegion(p) /\ NodeForPtr(p) = n /\ p \in Addr
<1>1. /\ n \in Int /\ RegionBase \in Nat \ {0} /\ RegionSize \in Nat \ {0} /\ RegionEnd <= Top
      /\ RegionEnd \in Nat /\ Top \in Nat
  BY ConstantsAre DEF Nodes
<1>2. NodeBase(n) \in Nat /\ RegionBase <= NodeBase(n) /\ NodeBase(n) + RegionSize <= RegionEnd
  BY NodeBaseIs
<1>3. PICK r : r = p - NodeBase(n)
  OBVIOUS
<1>4. r \in 0 .. RegionSize - 1 /\ p - RegionBase \in Int
  BY <1>1, <1>2, <1>3
<1>5. p - RegionBase = n * RegionSize + r
  <2>1. n * RegionSize \in Int
    BY <1>1
  <2> QED BY <1>1, <1>3, <2>1 DEF NodeBase
<1>6. (p - RegionBase) \div RegionSize = n
  BY <1>1, <1>4, <1>5, Remainder
<1> QED BY <1>1, <1>2, <1>6 DEF InRegion, NodeForPtr, Addr

\* And an address in the region has one.
LEMMA NodeOf ==
  ASSUME NEW p \in Int, InRegion(p), NEW n, n = NodeForPtr(p)
  PROVE  n \in Nodes /\ NodeBase(n) <= p /\ p < NodeBase(n) + RegionSize
<1>1. RegionBase \in Nat /\ RegionSize \in Nat \ {0} /\ NumNodes \in Nat \ {0}
  BY ConstantsAre
<1>2. p - RegionBase \in Nat /\ p - RegionBase < NumNodes * RegionSize
  <2>1. NumNodes * RegionSize \in Nat
    BY <1>1
  <2> QED BY <1>1, <2>1 DEF InRegion, RegionEnd
<1>3. PICK k \in Int, r \in 0 .. RegionSize - 1 : p - RegionBase = k * RegionSize + r
  <2>1. p - RegionBase \in Int
    BY <1>2
  <2> QED BY <1>1, <2>1, Division
<1>4. n = k
  <2>1. p - RegionBase \in Int
    BY <1>2
  <2> QED BY <1>1, <1>3, <2>1, Remainder DEF NodeForPtr
<1>5. k >= 0
  <2> SUFFICES ASSUME k < 0 PROVE FALSE
    OBVIOUS
  <2>1. PICK d \in Nat : k = (-1) - d
    <3>1. (-1) - k \in Nat /\ k = (-1) - ((-1) - k)
      OBVIOUS
    <3> QED BY <3>1
  <2>2. d * RegionSize \in Nat /\ k * RegionSize = - RegionSize - d * RegionSize
    <3>1. d * RegionSize \in Nat
      BY <1>1
    <3>2. k * RegionSize + (1 + d) * RegionSize = (k + (1 + d)) * RegionSize
      BY <1>1, Products
    <3>3. (1 + d) * RegionSize = 1 * RegionSize + d * RegionSize
      BY <1>1, Products
    <3>4. k + (1 + d) = 0 /\ 0 * RegionSize = 0 /\ 1 * RegionSize = RegionSize /\ k * RegionSize \in Int
      BY <1>1, <2>1
    <3> QED BY <1>1, <3>1, <3>2, <3>3, <3>4
  <2> QED BY <1>1, <1>2, <1>3, <2>2
<1>6. k < NumNodes
  <2> SUFFICES ASSUME k >= NumNodes PROVE FALSE
    BY <1>1
  <2>1. PICK d \in Nat : k = NumNodes + d
    <3>1. k - NumNodes \in Nat /\ k = NumNodes + (k - NumNodes)
      BY <1>1
    <3> QED BY <3>1
  <2>2. k * RegionSize = NumNodes * RegionSize + d * RegionSize
    BY <1>1, <2>1, Products
  <2>3. d * RegionSize \in Nat /\ NumNodes * RegionSize \in Nat
    BY <1>1
  <2> QED BY <1>1, <1>2, <1>3, <2>2, <2>3
<1>7. n \in Nodes
  BY <1>1, <1>4, <1>5, <1>6 DEF Nodes
<1>8. NodeBase(n) = RegionBase + k * RegionSize /\ k * RegionSize \in Int
  BY <1>1, <1>4 DEF NodeBase
<1> QED BY <1>1, <1>3, <1>7, <1>8

\* Two multiples of s are s apart.
LEMMA MultiplesApart ==
  ASSUME NEW a \in Int, NEW b \in Int, NEW s \in Nat \ {0}, a % s = 0, b % s = 0, a < b
  PROVE  a + s <= b
<1>1. PICK i \in Int : a = i * s
  BY Multiple
<1>2. PICK j \in Int : b = j * s
  BY Multiple
<1>3. i < j
  <2> SUFFICES ASSUME i >= j PROVE FALSE
    OBVIOUS
  <2>1. PICK d \in Nat : i = j + d
    <3>1. i - j \in Nat /\ i = j + (i - j)
      OBVIOUS
    <3> QED BY <3>1
  <2>2. i * s = j * s + d * s /\ d * s \in Nat
    BY <2>1, Products
  <2> QED BY <1>1, <1>2, <2>2
<1>4. PICK d \in Nat : j = (i + 1) + d
  <2>1. j - (i + 1) \in Nat /\ j = (i + 1) + (j - (i + 1))
    BY <1>3
  <2> QED BY <2>1
<1>5. j * s = (i + 1) * s + d * s /\ (i + 1) * s = i * s + 1 * s /\ 1 * s = s /\ d * s \in Nat
  BY <1>4, Products
<1> QED BY <1>1, <1>2, <1>5

\* The start of a bag, and that a block stays inside.
LEMMA BagHolds ==
  ASSUME NEW a \in Nat, NEW s \in Nat \ {0}, NEW bag \in Nat \ {0}, bag % s = 0, a % s = 0,
         NEW first, first = a - (a % bag)
  PROVE  /\ first \in Nat /\ first % bag = 0 /\ first % s = 0
         /\ first <= a /\ a + s <= first + bag
<1>1. PICK k \in Int, r \in 0 .. bag - 1 : a = k * bag + r /\ a % bag = r
  <2>1. a \in Int
    OBVIOUS
  <2> QED BY <2>1, Division
<1>2. first = k * bag /\ k * bag \in Int /\ first <= a /\ a < first + bag
  BY <1>1
<1>3. first % bag = 0
  BY <1>2, NoRemainder
<1>4. first % s = 0
  BY <1>2, <1>3, MultipleOfMultiple
<1>5. first + bag \in Int /\ bag \in Int /\ a \in Int
  BY <1>2
<1>6. (first + bag) % s = 0
  BY <1>2, <1>4, <1>5, SumOfMultiples
<1>7. a + s <= first + bag
  BY <1>2, <1>5, <1>6, MultiplesApart
<1>8. first \in Nat
  <2> SUFFICES ASSUME first < 0 PROVE FALSE
    BY <1>2
  <2>1. 0 \in Int /\ 0 % bag = 0
    <3>1. 0 * bag = 0
      OBVIOUS
    <3> QED BY <3>1, NoRemainder
  <2>2. first + bag <= 0
    BY <1>2, <1>3, <2>1, MultiplesApart
  <2> QED BY <1>2, <2>2
<1> QED BY <1>2, <1>3, <1>4, <1>7, <1>8

\* The words of a chunk.
IsChunk(a, bu, mp, cls) ==
  /\ a \in Nat /\ RegionBase <= a
  /\ Ext(a, mp, cls) \in Nat \ {0} /\ a + Ext(a, mp, cls) <= Top
  /\ InRegion(a) => LET n == NodeForPtr(a)
                    IN /\ n \in Nodes /\ NodeBase(n) <= a
                       /\ a + Ext(a, mp, cls) <= NodeBase(n) + bu[n]
                       /\ a + Ext(a, mp, cls) <= RegionEnd
  /\ ~ InRegion(a) => RegionEnd <= a /\ a \in Maps

\* A block is in its bag.
LEMMA BlockIs ==
  ASSUME NEW bu, NEW mp, NEW kind, NEW cls, ChunksOK(bu, mp, kind, cls),
         NEW a \in Addr, kind[a] # "none", InRegion(a)
  PROVE  /\ a \in Nat /\ cls[a] \in Classes /\ BlockOK(a, bu, cls)
         /\ Bag(a, cls) \in Nat /\ Bag(a, cls) % BagSizeForClass(cls[a]) = 0
         /\ Bag(a, cls) <= a /\ a + SizeForClass(cls[a]) <= Bag(a, cls) + BagSizeForClass(cls[a])
         /\ SizeForClass(cls[a]) \in Nat \ {0} /\ BagSizeForClass(cls[a]) \in Nat \ {0}
<1>1. cls[a] \in Classes /\ BlockOK(a, bu, cls)
  BY DEF ChunksOK
<1>2. a \in Nat
  BY ConstantsAre DEF Addr
<1>3. PICK s, bag : s = SizeForClass(cls[a]) /\ bag = BagSizeForClass(cls[a])
  OBVIOUS
<1>4. s \in Nat \ {0} /\ bag \in Nat \ {0} /\ bag % s = 0
  BY <1>1, <1>3, BagIs
<1>5. PICK first : first = a - (a % bag)
  OBVIOUS
<1>6. a % s = 0 /\ Bag(a, cls) = first
  BY <1>1, <1>3, <1>5 DEF BlockOK, Bag
<1>7. first \in Nat /\ first % bag = 0 /\ first <= a /\ a + s <= first + bag
  BY <1>2, <1>4, <1>5, <1>6, BagHolds
<1> QED BY <1>1, <1>2, <1>3, <1>4, <1>6, <1>7

\* A chunk is in memory.
LEMMA ChunkIs ==
  ASSUME NEW bu, NEW mp, NEW kind, NEW cls, ChunksOK(bu, mp, kind, cls),
         NEW a \in Addr, kind[a] # "none"
  PROVE  IsChunk(a, bu, mp, cls)
<1>1. a \in Nat /\ RegionBase <= a
  BY ConstantsAre DEF Addr
<1>2. CASE InRegion(a)
  <2>1. PICK s, bag, first, n : /\ s = SizeForClass(cls[a]) /\ bag = BagSizeForClass(cls[a])
                                /\ first = Bag(a, cls) /\ n = NodeForPtr(a)
    OBVIOUS
  <2>2. /\ first \in Nat /\ first <= a /\ a + s <= first + bag
        /\ s \in Nat \ {0} /\ bag \in Nat \ {0} /\ BlockOK(a, bu, cls)
    BY <1>2, <2>1, BlockIs
  <2>3. n \in Nodes /\ NodeBase(n) <= a
    BY <1>1, <1>2, <2>1, NodeOf
  <2>4. bu[n] \in 0 .. RegionSize
    BY <2>3 DEF ChunksOK
  <2>5. first + bag <= NodeBase(n) + bu[n]
    BY <2>1, <2>2 DEF BlockOK
  <2>6. NodeBase(n) \in Nat /\ NodeBase(n) + RegionSize <= RegionEnd
    BY <2>3, NodeBaseIs
  <2>7. a + s <= NodeBase(n) + bu[n] /\ a + s <= RegionEnd /\ a + s <= Top
    BY <1>1, <2>2, <2>4, <2>5, <2>6, ConstantsAre
  <2>8. Ext(a, mp, cls) = s
    BY <1>2, <2>1 DEF Ext
  <2> QED BY <1>1, <1>2, <2>1, <2>2, <2>3, <2>7, <2>8 DEF IsChunk
<1>3. CASE ~ InRegion(a)
  <2>1. MapOK(a, mp)
    BY <1>3 DEF ChunksOK
  <2>2. Ext(a, mp, cls) = mp[a].len
    BY <1>3 DEF Ext
  <2>3. RegionEnd <= a
    BY <2>1, ConstantsAre, AllocatorAssumption DEF MapOK
  <2> QED BY <1>1, <1>3, <2>1, <2>2, <2>3 DEF IsChunk, MapOK
<1> QED BY <1>2, <1>3

\* Two chunks have no word in common.
LEMMA ChunksApart ==
  ASSUME NEW bu, NEW mp, NEW kind, NEW cls, ChunksOK(bu, mp, kind, cls),
         NEW a \in Addr, kind[a] # "none", NEW b \in Addr, kind[b] # "none", a # b
  PROVE  a + Ext(a, mp, cls) <= b \/ b + Ext(b, mp, cls) <= a
<1>1. IsChunk(a, bu, mp, cls) /\ IsChunk(b, bu, mp, cls)
  BY ChunkIs
<1>2. CASE InRegion(a) /\ InRegion(b)
  <2>1. SameBag(a, b, cls) \/ BagsApart(a, b, cls)
    BY <1>2 DEF ChunksOK
  <2>2. PICK s, bag, first : /\ s = SizeForClass(cls[a]) /\ bag = BagSizeForClass(cls[a])
                             /\ first = Bag(a, cls)
    OBVIOUS
  <2>3. PICK s2, bag2, first2 : /\ s2 = SizeForClass(cls[b]) /\ bag2 = BagSizeForClass(cls[b])
                                /\ first2 = Bag(b, cls)
    OBVIOUS
  <2>4. /\ first \in Nat /\ first <= a /\ a + s <= first + bag /\ a \in Nat
        /\ s \in Nat \ {0} /\ bag \in Nat \ {0} /\ a % s = 0
    BY <1>2, <2>2, BlockIs DEF BlockOK
  <2>5. /\ first2 \in Nat /\ first2 <= b /\ b + s2 <= first2 + bag2 /\ b \in Nat
        /\ s2 \in Nat \ {0} /\ bag2 \in Nat \ {0} /\ b % s2 = 0
    BY <1>2, <2>3, BlockIs DEF BlockOK
  <2>6. Ext(a, mp, cls) = s /\ Ext(b, mp, cls) = s2
    BY <1>2, <2>2, <2>3 DEF Ext
  <2>7. CASE SameBag(a, b, cls)
    <3>1. s = s2
      BY <2>2, <2>3, <2>7 DEF SameBag
    <3>2. a < b \/ b < a
      BY <2>4, <2>5
    <3>3. a \in Int /\ b \in Int
      BY <2>4, <2>5
    <3> QED BY <2>4, <2>5, <2>6, <3>1, <3>2, <3>3, MultiplesApart
  <2>8. CASE BagsApart(a, b, cls)
    <3>1. first + bag <= first2 \/ first2 + bag2 <= first
      BY <2>2, <2>3, <2>8 DEF BagsApart
    <3> QED BY <2>4, <2>5, <2>6, <3>1
  <2> QED BY <2>1, <2>7, <2>8
<1>3. CASE ~ InRegion(a) /\ ~ InRegion(b)
  <2>1. MapsApart(a, b, mp)
    BY <1>3 DEF ChunksOK
  <2> QED BY <1>3, <2>1 DEF MapsApart, Ext
<1>4. CASE InRegion(a) /\ ~ InRegion(b)
  <2>1. a + Ext(a, mp, cls) <= RegionEnd /\ RegionEnd <= b
    BY <1>1, <1>4 DEF IsChunk
  <2>2. Ext(a, mp, cls) \in Nat /\ a \in Nat /\ b \in Nat /\ RegionEnd \in Nat
    BY <1>1, ConstantsAre DEF IsChunk
  <2> QED BY <2>1, <2>2
<1>5. CASE ~ InRegion(a) /\ InRegion(b)
  <2>1. b + Ext(b, mp, cls) <= RegionEnd /\ RegionEnd <= a
    BY <1>1, <1>5 DEF IsChunk
  <2>2. Ext(b, mp, cls) \in Nat /\ a \in Nat /\ b \in Nat /\ RegionEnd \in Nat
    BY <1>1, ConstantsAre DEF IsChunk
  <2> QED BY <2>1, <2>2
<1> QED BY <1>2, <1>3, <1>4, <1>5

-----------------------------------------------------------------------------
(* Objects in their chunks.                                                *)

\* What a payload is, in its chunk.
IsPayload(a, p, size, align, e) ==
  /\ p \in Nat /\ size \in Nat \ {0} /\ align \in Nat \ {0}
  /\ a <= p /\ p + size <= a + e /\ p % align = 0
  /\ InRegion(p) <=> InRegion(a)
  /\ ~ InRegion(a) => a <= p - 2
  /\ p \in Addr

\* An object is within its chunk, behind the header if there is one, and aligned.
LEMMA LiesIs ==
  ASSUME NEW bu, NEW mp, NEW kind, NEW cls, ChunksOK(bu, mp, kind, cls),
         NEW a \in Addr, kind[a] # "none",
         NEW p, NEW size, NEW align, NEW m, Lies(a, p, size, align, m, mp, cls)
  PROVE  IsPayload(a, p, size, align, Ext(a, mp, cls))
<1>1. IsChunk(a, bu, mp, cls)
  BY ChunkIs
<1>2. size \in Nat \ {0} /\ align \in Powers
  BY DEF Lies
<1>3. align \in Nat \ {0}
  BY <1>2, Pow2Is DEF Powers
<1>4. CASE InRegion(a)
  <2>1. p = a /\ IsSmall(size, align) /\ cls[a] = ClassOf(size, align)
    BY <1>4 DEF Lies
  <2>2. PICK e : e = Effective(size, align)
    OBVIOUS
  <2>3. e \in Nat \ {0} /\ size <= e /\ align <= e /\ e \in {size, align}
    BY <1>2, <1>3, <2>2, MaximumIs DEF Effective
  <2>4. e <= SmallLimit
    BY <2>1, <2>2 DEF IsSmall
  <2>5. PICK c : c = cls[a]
    OBVIOUS
  <2>6. c = SizeClassIndex(e)
    BY <2>1, <2>2, <2>5 DEF ClassOf
  <2>7. c \in 0 .. NumClasses - 1 /\ e <= SizeForClass(c)
    BY <2>3, <2>4, <2>6, ClassIs
  <2>8. PICK s : s = SizeForClass(c)
    OBVIOUS
  <2>9. s \in Powers /\ s \in Nat \ {0}
    BY <2>7, <2>8, ClassSizeIs
  <2>10. s % align = 0
    <3>1. align <= s
      BY <1>3, <2>3, <2>7, <2>8, <2>9
    <3> QED BY <1>2, <2>9, <3>1, PowersDivide
  <2>11. a % s = 0 /\ a \in Nat
    BY <1>4, <2>5, <2>8, BlockIs DEF BlockOK
  <2>12. a % align = 0
    <3>1. a \in Int
      BY <2>11
    <3> QED BY <1>3, <2>9, <2>10, <2>11, <3>1, MultipleOfMultiple
  <2>13. Ext(a, mp, cls) = s
    BY <1>4, <2>5, <2>8 DEF Ext
  <2>14. size <= s
    BY <1>2, <2>3, <2>7, <2>8, <2>9
  <2> QED BY <1>2, <1>3, <1>4, <2>1, <2>11, <2>12, <2>13, <2>14, <2>9 DEF IsPayload
<1>5. CASE ~ InRegion(a)
  <2>1. /\ p = PayloadAddr(a, align)
        /\ HeaderSize + Maximum(align, HeaderAlign) - 1 + size <= mp[a].len
    BY <1>5 DEF Lies
  <2>2. PICK u : u = Maximum(align, HeaderAlign)
    OBVIOUS
  <2>3. HeaderAlign \in Powers /\ HeaderAlign \in Nat \ {0} /\ HeaderSize = 2
    BY ConstantsAre, LayoutsAssumption, AllocatorAssumption
  <2>4. u \in {align, HeaderAlign} /\ align <= u /\ HeaderAlign <= u
    BY <1>3, <2>2, <2>3, MaximumIs
  <2>5. u \in Powers /\ u \in Nat \ {0}
    BY <1>2, <1>3, <2>3, <2>4
  <2>6. u % align = 0
    BY <1>2, <2>4, <2>5, PowersDivide
  <2>7. a \in Nat /\ RegionEnd <= a /\ a + 2 \in Int
    BY <1>1, <1>5 DEF IsChunk
  <2>8. p = (a + 2 + u - 1) - ((a + 2 + u - 1) % u)
    BY <2>1, <2>2, <2>3 DEF PayloadAddr, AlignUp
  <2>9. p \in Int /\ p % u = 0 /\ a + 2 <= p /\ p < a + 2 + u
    BY <2>5, <2>7, <2>8, NextMultiple
  <2>10. p % align = 0
    BY <1>3, <2>5, <2>6, <2>9, MultipleOfMultiple
  <2>11. 2 + u - 1 + size <= mp[a].len /\ Ext(a, mp, cls) = mp[a].len
    BY <1>5, <2>1, <2>2, <2>3 DEF Ext
  <2>12. mp[a].len \in Nat /\ a + mp[a].len <= Top
    BY <1>1, <2>11 DEF IsChunk
  <2>13. p + size <= a + mp[a].len
    BY <1>2, <2>5, <2>7, <2>9, <2>11, <2>12
  <2>14. ~ InRegion(p) /\ p \in Addr
    BY <1>1, <1>2, <2>7, <2>9, <2>12, <2>13, ConstantsAre DEF InRegion, Addr, IsChunk
  <2> QED BY <1>2, <1>3, <1>5, <2>7, <2>9, <2>10, <2>11, <2>13, <2>14 DEF IsPayload
<1> QED BY <1>4, <1>5

-----------------------------------------------------------------------------
(* Memory.                                                                 *)

\* m2 and m agree on all words but the n from lo on.
Outside(m2, m, lo, n) == \A q \in Int : q < lo \/ q >= lo + n => Read(m2, q) = Read(m, q)

\* They may agree on more than that, and another m3 with m2.
LEMMA OutsideMore ==
  ASSUME NEW m, NEW m2, NEW lo \in Int, NEW n \in Int, Outside(m2, m, lo, n),
         NEW lo2 \in Int, NEW n2 \in Int, lo2 <= lo, lo + n <= lo2 + n2
  PROVE  Outside(m2, m, lo2, n2)
BY DEF Outside

LEMMA OutsideTwice ==
  ASSUME NEW m, NEW m2, NEW m3, NEW lo \in Int, NEW n \in Int,
         Outside(m2, m, lo, n), Outside(m3, m2, lo, n)
  PROVE  Outside(m3, m, lo, n)
BY DEF Outside

LEMMA OutsideNone ==
  ASSUME NEW m, NEW lo, NEW n
  PROVE  Outside(m, m, lo, n)
BY DEF Outside

\* Words that are given up.
LEMMA ForgetIs ==
  ASSUME NEW m, MemOK(m), NEW p \in Int, NEW n \in Int, NEW m2, m2 = Forget(m, p, n)
  PROVE  MemOK(m2) /\ Outside(m2, m, p, n)
<1>1. DOMAIN m2 = DOMAIN m \ (p .. p + n - 1) /\ \A a \in DOMAIN m2 : m2[a] = m[a]
  BY DEF Forget
<1>2. MemOK(m2)
  BY <1>1 DEF MemOK
<1>3. ASSUME NEW q \in Int, q < p \/ q >= p + n PROVE Read(m2, q) = Read(m, q)
  <2>1. q \notin p .. p + n - 1
    BY <1>3
  <2> QED BY <1>1, <2>1 DEF Read
<1> QED BY <1>2, <1>3 DEF Outside

\* Words that are written.
LEMMA WrittenIs ==
  ASSUME NEW m, MemOK(m), NEW p \in Nat, NEW n \in Nat, RegionBase <= p, p + n <= Top,
         NEW w, DOMAIN w \subseteq 0 .. n - 1, \A i \in DOMAIN w : w[i] \in Nat,
         NEW m2, m2 = Written(m, p, w)
  PROVE  /\ MemOK(m2) /\ Outside(m2, m, p, n)
         /\ \A i \in DOMAIN w : Read(m2, p + i) = w[i]
         /\ \A i \in Int : i \notin DOMAIN w => Read(m2, p + i) = Read(m, p + i)
<1>1. /\ DOMAIN m2 = DOMAIN m \cup {p + i : i \in DOMAIN w}
      /\ \A a \in DOMAIN m2 : m2[a] = IF a - p \in DOMAIN w THEN w[a - p] ELSE m[a]
  BY Zenon DEF Written
<1>2. RegionBase \in Nat /\ Top \in Nat
  BY ConstantsAre
<1>3. \A i \in DOMAIN w : i \in Nat /\ p + i \in Addr /\ (p + i) - p = i
  BY <1>2 DEF Addr
<1>4. \A a \in DOMAIN m : a \in Int
  BY <1>2 DEF MemOK, Addr
<1>5. MemOK(m2)
  <2>1. ASSUME NEW a \in DOMAIN m2 PROVE a \in Addr /\ m2[a] \in Nat
    <3>1. CASE a - p \in DOMAIN w
      <4>1. a \in Addr
        BY <1>1, <1>3 DEF MemOK
      <4> QED BY <1>1, <3>1, <4>1
    <3>2. CASE a - p \notin DOMAIN w
      <4>1. a \in DOMAIN m
        BY <1>1, <1>3, <3>2
      <4> QED BY <1>1, <3>2, <4>1 DEF MemOK
    <3> QED BY <3>1, <3>2
  <2> QED BY <2>1 DEF MemOK
<1>6. ASSUME NEW i \in DOMAIN w PROVE Read(m2, p + i) = w[i]
  BY <1>1, <1>3 DEF Read
<1>7. ASSUME NEW i \in Int, i \notin DOMAIN w PROVE Read(m2, p + i) = Read(m, p + i)
  <2>1. (p + i) - p = i
    OBVIOUS
  <2>2. p + i \in DOMAIN m2 <=> p + i \in DOMAIN m
    <3>1. \A k \in DOMAIN w : p + k # p + i
      BY <1>3, <1>7
    <3> QED BY <1>1, <3>1
  <2> QED BY <1>1, <1>7, <2>1, <2>2 DEF Read
<1>8. ASSUME NEW q \in Int, q < p \/ q >= p + n PROVE Read(m2, q) = Read(m, q)
  <2>1. q - p \in Int /\ p + (q - p) = q /\ q - p \notin DOMAIN w
    BY <1>8
  <2> QED BY <1>7, <2>1
<1> QED BY <1>5, <1>6, <1>7, <1>8 DEF Outside

\* The words of an object.
Words(p, size, m) == [i \in 0 .. size - 1 |-> Read(m, p + i)]

\* An object's record.
LEMMA StoredIs ==
  ASSUME NEW ob, NEW m
  PROVE  /\ DOMAIN Stored(ob, m) = DOMAIN ob
         /\ \A p \in DOMAIN ob : /\ Stored(ob, m)[p].size = ob[p].size
                                 /\ Stored(ob, m)[p].align = ob[p].align
                                 /\ Stored(ob, m)[p].words = Words(p, ob[p].size, m)
                                 /\ Stored(ob, m)[p] = [size |-> ob[p].size, align |-> ob[p].align,
                                                        words |-> Words(p, ob[p].size, m)]
<1>1. DOMAIN Stored(ob, m) = DOMAIN ob
  BY DEF Stored
<1>2. ASSUME NEW p \in DOMAIN ob
      PROVE  Stored(ob, m)[p] = [size |-> ob[p].size, align |-> ob[p].align,
                                 words |-> Words(p, ob[p].size, m)]
  BY Zenon DEF Stored, Words
<1>3. ASSUME NEW p \in DOMAIN ob
      PROVE  /\ Stored(ob, m)[p].size = ob[p].size
             /\ Stored(ob, m)[p].align = ob[p].align
             /\ Stored(ob, m)[p].words = Words(p, ob[p].size, m)
  <2>1. PICK w : w = Words(p, ob[p].size, m)
    OBVIOUS
  <2>2. Stored(ob, m)[p] = [size |-> ob[p].size, align |-> ob[p].align, words |-> w]
    BY <1>2, <2>1
  <2> HIDE DEF Stored
  <2> QED BY <2>1, <2>2
<1> QED BY <1>1, <1>2, <1>3

\* An object is the same when its layout and its words are.
LEMMA StoredSame ==
  ASSUME NEW ob, NEW m, NEW ob2, NEW m2, NEW q \in DOMAIN ob, q \in DOMAIN ob2, ob2[q] = ob[q],
         Words(q, ob[q].size, m2) = Words(q, ob[q].size, m)
  PROVE  Stored(ob2, m2)[q] = Stored(ob, m)[q]
<1>1. Stored(ob, m)[q] = [size |-> ob[q].size, align |-> ob[q].align,
                          words |-> Words(q, ob[q].size, m)]
  BY StoredIs
<1>2. Stored(ob2, m2)[q] = [size |-> ob2[q].size, align |-> ob2[q].align,
                            words |-> Words(q, ob2[q].size, m2)]
  BY StoredIs
<1> QED BY <1>1, <1>2

\* Words outside a stretch are as they were.
LEMMA WordsKept ==
  ASSUME NEW p \in Int, NEW size \in Nat, NEW m, NEW m2, NEW lo \in Int, NEW n \in Int,
         Outside(m2, m, lo, n), p + size <= lo \/ lo + n <= p
  PROVE  Words(p, size, m2) = Words(p, size, m)
<1>1. ASSUME NEW i \in 0 .. size - 1 PROVE Read(m2, p + i) = Read(m, p + i)
  <2>1. p + i \in Int /\ (p + i < lo \/ p + i >= lo + n)
    OBVIOUS
  <2> QED BY <2>1 DEF Outside
<1> QED BY <1>1 DEF Words

\* A step that changes the words of one chunk leaves the objects in the others alone.
LEMMA LiesKept ==
  ASSUME NEW bu, NEW mp, NEW kind, NEW cls, ChunksOK(bu, mp, kind, cls),
         NEW a \in Addr, kind[a] # "none", NEW x \in Addr, kind[x] # "none", a # x,
         NEW m, NEW m2, Outside(m2, m, x, Ext(x, mp, cls)),
         NEW p, NEW size, NEW align, Lies(a, p, size, align, m, mp, cls)
  PROVE  Lies(a, p, size, align, m2, mp, cls) /\ Words(p, size, m2) = Words(p, size, m)
<1>1. PICK e, y : e = Ext(a, mp, cls) /\ y = Ext(x, mp, cls)
  OBVIOUS
<1>2. a + e <= x \/ x + y <= a
  BY <1>1, ChunksApart
<1>3. a \in Nat /\ e \in Nat /\ x \in Nat /\ y \in Nat
  BY <1>1, ChunkIs DEF IsChunk
<1>4. /\ p \in Nat /\ size \in Nat /\ a <= p /\ p + size <= a + e
      /\ ~ InRegion(a) => a <= p - 2
  BY <1>1, LiesIs DEF IsPayload
<1>5. p + size <= x \/ x + y <= p
  BY <1>2, <1>3, <1>4
<1>6. Words(p, size, m2) = Words(p, size, m)
  <2>1. p \in Int /\ x \in Int /\ y \in Int
    BY <1>3, <1>4
  <2> QED BY <1>1, <1>4, <1>5, <2>1, WordsKept
<1>7. ~ InRegion(a) => Read(m2, p - 2) = Read(m, p - 2) /\ Read(m2, p - 1) = Read(m, p - 1)
  <2> SUFFICES ASSUME ~ InRegion(a)
               PROVE  Read(m2, p - 2) = Read(m, p - 2) /\ Read(m2, p - 1) = Read(m, p - 1)
    OBVIOUS
  <2>1. size # 0
    BY DEF Lies
  <2>2. /\ p - 2 \in Int /\ (p - 2 < x \/ p - 2 >= x + y)
        /\ p - 1 \in Int /\ (p - 1 < x \/ p - 1 >= x + y)
    BY <1>2, <1>3, <1>4, <2>1
  <2> QED BY <1>1, <2>2 DEF Outside
<1> QED BY <1>6, <1>7 DEF Lies

\* Where an object lies depends on its own chunk only.
LEMMA LiesSame ==
  ASSUME NEW a, NEW mp, NEW cls, NEW mp2, NEW cls2, cls2[a] = cls[a], ~ InRegion(a) => mp2[a] = mp[a],
         NEW p, NEW size, NEW align, NEW m
  PROVE  Lies(a, p, size, align, m, mp2, cls2) <=> Lies(a, p, size, align, m, mp, cls)
BY DEF Lies

\* One chunk holds one object's payload.
LEMMA OneChunk ==
  ASSUME NEW bu, NEW mp, NEW kind, NEW cls, ChunksOK(bu, mp, kind, cls),
         NEW a \in Addr, kind[a] # "none", NEW b \in Addr, kind[b] # "none",
         NEW p, NEW size, NEW align, NEW m, Lies(a, p, size, align, m, mp, cls),
         NEW size2, NEW align2, NEW m2, Lies(b, p, size2, align2, m2, mp, cls)
  PROVE  a = b
<1> SUFFICES ASSUME a # b PROVE FALSE
  OBVIOUS
<1>1. PICK e, y : e = Ext(a, mp, cls) /\ y = Ext(b, mp, cls)
  OBVIOUS
<1>2. a + e <= b \/ b + y <= a
  BY <1>1, ChunksApart
<1>3. a \in Nat /\ e \in Nat /\ b \in Nat /\ y \in Nat
  BY <1>1, ChunkIs DEF IsChunk
<1>4. p \in Nat /\ size \in Nat \ {0} /\ a <= p /\ p + size <= a + e
  BY <1>1, LiesIs DEF IsPayload
<1>5. size2 \in Nat \ {0} /\ b <= p /\ p + size2 <= b + y
  BY <1>1, LiesIs DEF IsPayload
<1> QED BY <1>2, <1>3, <1>4, <1>5

-----------------------------------------------------------------------------
(* Objects that come and go.                                               *)

\* The chunks other than x that the program has are as before.
SameUses(x, mp, kind, who, cls, mp2, kind2, who2, cls2) ==
  \A a \in Addr \ {x} : Used(kind[a]) \/ Used(kind2[a]) =>
    /\ kind2[a] = kind[a] /\ who2[a] = who[a] /\ cls2[a] = cls[a]
    /\ ~ InRegion(a) => mp2[a] = mp[a]

\* They are chunks of the same size.
SameChunks(x, mp, kind, cls, mp2, kind2, cls2) ==
  \A a \in Addr \ {x} : Used(kind[a]) =>
    kind2[a] # "none" /\ cls2[a] = cls[a] /\ (~ InRegion(a) => mp2[a] = mp[a])

\* The objects in those chunks are as before.
KeptUses(x, ob, jb, m, kind, who, mp2, m2, kind2, who2, cls2) ==
  \A a \in Addr \ {x} :
    /\ kind[a] = "obj" =>
         /\ kind2[a] = "obj" /\ who2[a] = who[a] /\ who[a] \in DOMAIN ob
         /\ Lies(a, who[a], ob[who[a]].size, ob[who[a]].align, m2, mp2, cls2)
         /\ Words(who[a], ob[who[a]].size, m2) = Words(who[a], ob[who[a]].size, m)
    /\ kind[a] = "new" =>
         /\ kind2[a] = "new" /\ who2[a] = who[a] /\ who[a] \in Threads /\ jb[who[a]].pc = "move"
         /\ Lies(a, jb[who[a]].new, jb[who[a]].size, jb[who[a]].align, m2, mp2, cls2)

\* They are when nothing but x is written.  The chunks may
\* be looked at before the step or after it.
LEMMA UsesKept ==
  ASSUME NEW mp, NEW m, NEW ob, NEW jb, NEW kind, NEW who, NEW cls,
         ObjsOK(ob, m, mp, kind, who, cls), NewsOK(jb, m, mp, kind, who, cls),
         NEW x \in Addr, NEW mp2, NEW m2, NEW kind2, NEW who2, NEW cls2,
         SameUses(x, mp, kind, who, cls, mp2, kind2, who2, cls2),
         NEW bu3, NEW mp3, NEW kind3, NEW cls3, ChunksOK(bu3, mp3, kind3, cls3), kind3[x] # "none",
         Outside(m2, m, x, Ext(x, mp3, cls3)),
         SameChunks(x, mp, kind, cls, mp3, kind3, cls3)
  PROVE  KeptUses(x, ob, jb, m, kind, who, mp2, m2, kind2, who2, cls2)
<1> SUFFICES ASSUME NEW a \in Addr \ {x}
             PROVE  /\ kind[a] = "obj" =>
                         /\ kind2[a] = "obj" /\ who2[a] = who[a] /\ who[a] \in DOMAIN ob
                         /\ Lies(a, who[a], ob[who[a]].size, ob[who[a]].align, m2, mp2, cls2)
                         /\ Words(who[a], ob[who[a]].size, m2) = Words(who[a], ob[who[a]].size, m)
                    /\ kind[a] = "new" =>
                         /\ kind2[a] = "new" /\ who2[a] = who[a]
                         /\ who[a] \in Threads /\ jb[who[a]].pc = "move"
                         /\ Lies(a, jb[who[a]].new, jb[who[a]].size, jb[who[a]].align, m2, mp2, cls2)
  BY Zenon DEF KeptUses
<1>1. ASSUME Used(kind[a]), NEW p, NEW size, NEW align, Lies(a, p, size, align, m, mp, cls)
      PROVE  /\ kind2[a] = kind[a] /\ who2[a] = who[a]
             /\ Lies(a, p, size, align, m2, mp2, cls2)
             /\ Words(p, size, m2) = Words(p, size, m)
  <2>1. /\ kind2[a] = kind[a] /\ who2[a] = who[a] /\ cls2[a] = cls[a]
        /\ ~ InRegion(a) => mp2[a] = mp[a]
    BY <1>1 DEF SameUses
  <2>2. kind3[a] # "none" /\ cls3[a] = cls[a] /\ (~ InRegion(a) => mp3[a] = mp[a])
    BY <1>1 DEF SameChunks
  <2>3. Lies(a, p, size, align, m, mp3, cls3)
    BY <1>1, <2>2, LiesSame
  <2>4. Lies(a, p, size, align, m2, mp3, cls3) /\ Words(p, size, m2) = Words(p, size, m)
    BY <2>2, <2>3, LiesKept
  <2>5. cls2[a] = cls3[a] /\ (~ InRegion(a) => mp2[a] = mp3[a])
    BY <2>1, <2>2
  <2>6. Lies(a, p, size, align, m2, mp2, cls2)
    BY <2>4, <2>5, LiesSame
  <2> QED BY <2>1, <2>4, <2>6
<1>2. CASE kind[a] = "obj"
  <2>1. who[a] \in DOMAIN ob /\ Lies(a, who[a], ob[who[a]].size, ob[who[a]].align, m, mp, cls)
    BY <1>2 DEF ObjsOK
  <2>2. Used(kind[a])
    BY <1>2 DEF Used
  <2> QED BY <1>1, <1>2, <2>1, <2>2
<1>3. CASE kind[a] = "new"
  <2>1. /\ who[a] \in Threads /\ jb[who[a]].pc = "move"
        /\ Lies(a, jb[who[a]].new, jb[who[a]].size, jb[who[a]].align, m, mp, cls)
    BY <1>3 DEF NewsOK
  <2>2. Used(kind[a])
    BY <1>3 DEF Used
  <2> QED BY <1>1, <1>3, <2>1, <2>2
<1> QED BY <1>2, <1>3

\* The chunk x comes to be the object at p, for thread t, whose call ends.
Gains(x, p, t, kind, who, kind2, who2, jb, jb2) ==
  /\ kind[x] # "obj" /\ (kind[x] = "new" => who[x] = t) /\ kind2[x] = "obj" /\ who2[x] = p
  /\ \A a \in Addr \ {x} : kind[a] = "new" => who[a] # t
  /\ jb2[t].pc # "move" /\ \A u \in Threads \ {t} : jb2[u] = jb[u]

\* The objects are as before, but for one more.
Gained(ob, m, p, size, align, ob2, m2) ==
  /\ p \notin DOMAIN ob /\ DOMAIN ob2 = DOMAIN ob \cup {p}
  /\ ob2[p] = [size |-> size, align |-> align]
  /\ \A q \in DOMAIN ob : ob2[q] = ob[q] /\ Stored(ob2, m2)[q] = Stored(ob, m)[q]

\* The objects of ob, and one of this layout at p.
Joined(ob, p, size, align, ob2) ==
  /\ DOMAIN ob2 = DOMAIN ob \cup {p} /\ ob2[p] = [size |-> size, align |-> align]
  /\ \A q \in DOMAIN ob \ {p} : ob2[q] = ob[q]

\* Thread t's call ends with an object of this layout at p, in the chunk x.
LEMMA ObjGained ==
  ASSUME NEW mp, NEW m, NEW ob, NEW jb, NEW kind, NEW who, NEW cls,
         ObjsOK(ob, m, mp, kind, who, cls), NewsOK(jb, m, mp, kind, who, cls),
         NEW x \in Addr, NEW bu2, NEW mp2, NEW m2, NEW kind2, NEW who2, NEW cls2,
         SameUses(x, mp, kind, who, cls, mp2, kind2, who2, cls2),
         ChunksOK(bu2, mp2, kind2, cls2), Outside(m2, m, x, Ext(x, mp2, cls2)),
         NEW t \in Threads, NEW p, NEW size, NEW align, NEW jb2, Gains(x, p, t, kind, who, kind2, who2, jb, jb2),
         Lies(x, p, size, align, m2, mp2, cls2),
         NEW ob2, Joined(ob, p, size, align, ob2)
  PROVE  /\ Gained(ob, m, p, size, align, ob2, m2)
         /\ ObjsOK(ob2, m2, mp2, kind2, who2, cls2) /\ NewsOK(jb2, m2, mp2, kind2, who2, cls2)
<1> USE DEF Gains
<1>1. SameChunks(x, mp, kind, cls, mp2, kind2, cls2)
  BY DEF SameUses, SameChunks, Used
<1>2. KeptUses(x, ob, jb, m, kind, who, mp2, m2, kind2, who2, cls2)
  <2>1. kind2[x] # "none"
    OBVIOUS
  <2> QED BY <1>1, <2>1, UsesKept, Zenon
<1> USE DEF KeptUses
<1>3. \A a \in Addr \ {x} : (kind2[a] = "obj" => kind[a] = "obj") /\ (kind2[a] = "new" => kind[a] = "new")
  BY DEF SameUses, Used
<1>4. \A q \in DOMAIN ob : \E a \in Addr \ {x} : kind[a] = "obj" /\ who[a] = q
  BY DEF ObjsOK
<1>5. p \notin DOMAIN ob
  <2> SUFFICES ASSUME p \in DOMAIN ob PROVE FALSE
    OBVIOUS
  <2>1. PICK a \in Addr \ {x} : kind[a] = "obj" /\ who[a] = p
    BY <1>4
  <2>2. kind2[a] = "obj" /\ Lies(a, p, ob[p].size, ob[p].align, m2, mp2, cls2)
    BY <1>2, <2>1
  <2>3. kind2[a] # "none" /\ kind2[x] # "none"
    BY <2>2
  <2>4. a = x
    BY <2>2, <2>3, OneChunk
  <2> QED BY <2>4
<1>6. /\ DOMAIN ob2 = DOMAIN ob \cup {p} /\ ob2[p] = [size |-> size, align |-> align]
      /\ \A q \in DOMAIN ob : ob2[q] = ob[q]
  BY <1>5 DEF Joined
<1>7. size \in Nat /\ align \in Nat
  <2>1. kind2[x] # "none"
    OBVIOUS
  <2> QED BY <2>1, LiesIs DEF IsPayload
<1>8. ob2[p] \in [size : Nat, align : Nat] /\ ob2[p].size = size /\ ob2[p].align = align
  BY <1>6, <1>7
<1>9. ObjsOK(ob2, m2, mp2, kind2, who2, cls2)
  <2>1. \A q \in DOMAIN ob2 : ob2[q] \in [size : Nat, align : Nat]
    <3>1. \A q \in DOMAIN ob : ob[q] \in [size : Nat, align : Nat]
      BY DEF ObjsOK
    <3> QED BY <1>6, <1>8, <3>1
  <2>2. \A q \in DOMAIN ob2 : \E a \in Addr : kind2[a] = "obj" /\ who2[a] = q
    BY <1>2, <1>4, <1>6
  <2>3. ASSUME NEW a \in Addr, kind2[a] = "obj"
        PROVE  /\ who2[a] \in DOMAIN ob2
               /\ Lies(a, who2[a], ob2[who2[a]].size, ob2[who2[a]].align, m2, mp2, cls2)
    <3>1. CASE a = x
      BY <1>6, <1>8, <3>1
    <3>2. CASE a # x
      <4>1. kind[a] = "obj"
        BY <1>3, <2>3, <3>2
      <4> QED BY <1>2, <1>6, <3>2, <4>1
    <3> QED BY <3>1, <3>2
  <2> QED BY <2>1, <2>2, <2>3 DEF ObjsOK
<1>10. NewsOK(jb2, m2, mp2, kind2, who2, cls2)
  <2>1. ASSUME NEW u \in Threads, jb2[u].pc = "move"
        PROVE  \E a \in Addr : kind2[a] = "new" /\ who2[a] = u
    <3>1. u # t /\ jb[u].pc = "move"
      BY <2>1
    <3>2. PICK a \in Addr : kind[a] = "new" /\ who[a] = u
      BY <3>1 DEF NewsOK
    <3>3. a # x
      <4> SUFFICES ASSUME a = x PROVE FALSE
        OBVIOUS
      <4> QED BY <3>1, <3>2
    <3> QED BY <1>2, <3>2, <3>3
  <2>2. ASSUME NEW a \in Addr, kind2[a] = "new"
        PROVE  /\ who2[a] \in Threads /\ jb2[who2[a]].pc = "move"
               /\ Lies(a, jb2[who2[a]].new, jb2[who2[a]].size, jb2[who2[a]].align, m2, mp2, cls2)
    <3>1. a # x
      BY <2>2
    <3>2. kind[a] = "new" /\ who[a] # t
      BY <1>3, <2>2, <3>1
    <3>3. PICK u : u = who[a]
      OBVIOUS
    <3>4. /\ who2[a] = u /\ u \in Threads /\ jb[u].pc = "move"
          /\ Lies(a, jb[u].new, jb[u].size, jb[u].align, m2, mp2, cls2)
      BY <1>2, <3>1, <3>2, <3>3
    <3>5. jb2[u] = jb[u]
      BY <3>2, <3>3, <3>4
    <3> QED BY <3>4, <3>5
  <2> QED BY <2>1, <2>2 DEF NewsOK
<1>11. ASSUME NEW q \in DOMAIN ob PROVE Stored(ob2, m2)[q] = Stored(ob, m)[q]
  <2>1. PICK a \in Addr \ {x} : kind[a] = "obj" /\ who[a] = q
    BY <1>4
  <2>2. Words(q, ob[q].size, m2) = Words(q, ob[q].size, m)
    BY <1>2, <2>1
  <2>3. q \in DOMAIN ob2 /\ ob2[q] = ob[q]
    BY <1>6
  <2> QED BY <2>2, <2>3, StoredSame
<1> QED BY <1>5, <1>6, <1>9, <1>10, <1>11 DEF Gained

\* Two functions on the same set are the same when their values are.
LEMMA StoredAll ==
  ASSUME NEW ob, NEW m, NEW m2, \A q \in DOMAIN ob : Stored(ob, m2)[q] = Stored(ob, m)[q]
  PROVE  Stored(ob, m2) = Stored(ob, m)
<1>1. \A n : Stored(ob, n) = [q \in DOMAIN ob |-> Stored(ob, n)[q]]
  BY DEF Stored
<1> HIDE DEF Stored
<1> QED BY <1>1

\* Thread t's realloc has found room for its new object in the chunk x.
LEMMA NewGained ==
  ASSUME NEW mp, NEW m, NEW ob, NEW jb, NEW kind, NEW who, NEW cls,
         ObjsOK(ob, m, mp, kind, who, cls), NewsOK(jb, m, mp, kind, who, cls),
         NEW x \in Addr, NEW bu2, NEW mp2, NEW m2, NEW kind2, NEW who2, NEW cls2,
         SameUses(x, mp, kind, who, cls, mp2, kind2, who2, cls2),
         ChunksOK(bu2, mp2, kind2, cls2), Outside(m2, m, x, Ext(x, mp2, cls2)),
         NEW t \in Threads, NEW jb2,
         ~ Used(kind[x]), kind2[x] = "new", who2[x] = t,
         jb[t].pc # "move", jb2[t].pc = "move", \A u \in Threads \ {t} : jb2[u] = jb[u],
         Lies(x, jb2[t].new, jb2[t].size, jb2[t].align, m2, mp2, cls2)
  PROVE  /\ ObjsOK(ob, m2, mp2, kind2, who2, cls2) /\ NewsOK(jb2, m2, mp2, kind2, who2, cls2)
         /\ Stored(ob, m2) = Stored(ob, m)
<1>1. SameChunks(x, mp, kind, cls, mp2, kind2, cls2)
  BY DEF SameUses, SameChunks, Used
<1>2. KeptUses(x, ob, jb, m, kind, who, mp2, m2, kind2, who2, cls2)
  <2>1. kind2[x] # "none"
    OBVIOUS
  <2> QED BY <1>1, <2>1, UsesKept, Zenon
<1> USE DEF KeptUses
<1>3. \A a \in Addr \ {x} : (kind2[a] = "obj" => kind[a] = "obj") /\ (kind2[a] = "new" => kind[a] = "new")
  BY DEF SameUses, Used
<1>4. \A q \in DOMAIN ob : \E a \in Addr \ {x} : kind[a] = "obj" /\ who[a] = q
  BY DEF ObjsOK, Used
<1>5. ObjsOK(ob, m2, mp2, kind2, who2, cls2)
  <2>1. \A q \in DOMAIN ob : ob[q] \in [size : Nat, align : Nat]
    BY DEF ObjsOK
  <2>2. \A q \in DOMAIN ob : \E a \in Addr : kind2[a] = "obj" /\ who2[a] = q
    BY <1>2, <1>4
  <2>3. ASSUME NEW a \in Addr, kind2[a] = "obj"
        PROVE  /\ who2[a] \in DOMAIN ob
               /\ Lies(a, who2[a], ob[who2[a]].size, ob[who2[a]].align, m2, mp2, cls2)
    <3>1. a # x
      BY <2>3
    <3>2. kind[a] = "obj"
      BY <1>3, <2>3, <3>1
    <3> QED BY <1>2, <3>1, <3>2
  <2> QED BY <2>1, <2>2, <2>3 DEF ObjsOK
<1>6. NewsOK(jb2, m2, mp2, kind2, who2, cls2)
  <2>1. ASSUME NEW u \in Threads, jb2[u].pc = "move"
        PROVE  \E a \in Addr : kind2[a] = "new" /\ who2[a] = u
    <3>1. CASE u = t
      BY <3>1
    <3>2. CASE u # t
      <4>1. jb[u].pc = "move"
        BY <2>1, <3>2
      <4>2. PICK a \in Addr : kind[a] = "new" /\ who[a] = u
        BY <4>1 DEF NewsOK
      <4>3. a # x
        BY <4>2 DEF Used
      <4> QED BY <1>2, <4>2, <4>3
    <3> QED BY <3>1, <3>2
  <2>2. ASSUME NEW a \in Addr, kind2[a] = "new"
        PROVE  /\ who2[a] \in Threads /\ jb2[who2[a]].pc = "move"
               /\ Lies(a, jb2[who2[a]].new, jb2[who2[a]].size, jb2[who2[a]].align, m2, mp2, cls2)
    <3>1. CASE a = x
      BY <3>1
    <3>2. CASE a # x
      <4>1. kind[a] = "new"
        BY <1>3, <2>2, <3>2
      <4>2. PICK u : u = who[a]
        OBVIOUS
      <4>3. /\ who2[a] = u /\ u \in Threads /\ jb[u].pc = "move"
            /\ Lies(a, jb[u].new, jb[u].size, jb[u].align, m2, mp2, cls2)
        BY <1>2, <3>2, <4>1, <4>2
      <4>4. jb2[u] = jb[u]
        BY <4>3
      <4> QED BY <4>3, <4>4
    <3> QED BY <3>1, <3>2
  <2> QED BY <2>1, <2>2 DEF NewsOK
<1>7. ASSUME NEW q \in DOMAIN ob PROVE Stored(ob, m2)[q] = Stored(ob, m)[q]
  <2>1. PICK a \in Addr \ {x} : kind[a] = "obj" /\ who[a] = q
    BY <1>4
  <2>2. Words(q, ob[q].size, m2) = Words(q, ob[q].size, m)
    BY <1>2, <2>1
  <2> QED BY <2>2, StoredSame
<1>8. Stored(ob, m2) = Stored(ob, m)
  BY <1>7, StoredAll
<1> QED BY <1>5, <1>6, <1>8

\* The program gives up its object at p, in the chunk x.
Dropped(ob, p, ob2) == ob2 = [q \in DOMAIN ob \ {p} |-> ob[q]]

Loses(x, p, kind, who, kind2) == kind[x] = "obj" /\ who[x] = p /\ ~ Used(kind2[x])

\* The others are as before.
Lost(ob, m, p, ob2, m2) ==
  /\ p \in DOMAIN ob /\ DOMAIN ob2 = DOMAIN ob \ {p}
  /\ \A q \in DOMAIN ob2 : ob2[q] = ob[q] /\ Stored(ob2, m2)[q] = Stored(ob, m)[q]

LEMMA ObjLost ==
  ASSUME NEW mp, NEW m, NEW ob, NEW jb, NEW kind, NEW who, NEW cls, NEW bu,
         ObjsOK(ob, m, mp, kind, who, cls), NewsOK(jb, m, mp, kind, who, cls),
         ChunksOK(bu, mp, kind, cls),
         NEW x \in Addr, NEW mp2, NEW m2, NEW kind2, NEW who2, NEW cls2,
         SameUses(x, mp, kind, who, cls, mp2, kind2, who2, cls2),
         Outside(m2, m, x, Ext(x, mp, cls)),
         NEW p, Loses(x, p, kind, who, kind2), NEW ob2, Dropped(ob, p, ob2)
  PROVE  /\ ObjsOK(ob2, m2, mp2, kind2, who2, cls2) /\ NewsOK(jb, m2, mp2, kind2, who2, cls2)
         /\ Lost(ob, m, p, ob2, m2)
<1> USE DEF Loses, Dropped
<1>1. SameChunks(x, mp, kind, cls, mp, kind, cls)
  BY DEF SameChunks, Used
<1>2. KeptUses(x, ob, jb, m, kind, who, mp2, m2, kind2, who2, cls2)
  <2>1. kind[x] # "none"
    OBVIOUS
  <2> QED BY <1>1, <2>1, UsesKept, Zenon
<1> USE DEF KeptUses
<1>3. \A a \in Addr \ {x} : (kind2[a] = "obj" => kind[a] = "obj") /\ (kind2[a] = "new" => kind[a] = "new")
  BY DEF SameUses, Used
<1>4. p \in DOMAIN ob /\ Lies(x, p, ob[p].size, ob[p].align, m, mp, cls)
  BY DEF ObjsOK
<1>5. ASSUME NEW a \in Addr \ {x}, kind[a] = "obj" PROVE who[a] # p
  <2> SUFFICES ASSUME who[a] = p PROVE FALSE
    OBVIOUS
  <2>1. Lies(a, p, ob[p].size, ob[p].align, m, mp, cls)
    BY <1>5 DEF ObjsOK
  <2>2. kind[a] # "none" /\ kind[x] # "none"
    BY <1>5
  <2>3. a = x
    BY <1>4, <2>1, <2>2, OneChunk
  <2> QED BY <2>3
<1>6. DOMAIN ob2 = DOMAIN ob \ {p} /\ \A q \in DOMAIN ob2 : ob2[q] = ob[q]
  OBVIOUS
<1>7. \A q \in DOMAIN ob2 : \E a \in Addr \ {x} : kind[a] = "obj" /\ who[a] = q
  BY <1>6 DEF ObjsOK
<1>8. ObjsOK(ob2, m2, mp2, kind2, who2, cls2)
  <2>1. \A q \in DOMAIN ob2 : ob2[q] \in [size : Nat, align : Nat]
    BY <1>6 DEF ObjsOK
  <2>2. \A q \in DOMAIN ob2 : \E a \in Addr : kind2[a] = "obj" /\ who2[a] = q
    BY <1>2, <1>7
  <2>3. ASSUME NEW a \in Addr, kind2[a] = "obj"
        PROVE  /\ who2[a] \in DOMAIN ob2
               /\ Lies(a, who2[a], ob2[who2[a]].size, ob2[who2[a]].align, m2, mp2, cls2)
    <3>1. a # x
      BY <2>3 DEF Used
    <3>2. kind[a] = "obj"
      BY <1>3, <2>3, <3>1
    <3>3. PICK q : q = who[a]
      OBVIOUS
    <3>4. who2[a] = q /\ q \in DOMAIN ob /\ Lies(a, q, ob[q].size, ob[q].align, m2, mp2, cls2)
      BY <1>2, <3>1, <3>2, <3>3
    <3>5. q \in DOMAIN ob2 /\ ob2[q] = ob[q]
      BY <1>5, <1>6, <3>1, <3>2, <3>3, <3>4
    <3> QED BY <3>4, <3>5
  <2> QED BY <2>1, <2>2, <2>3 DEF ObjsOK
<1>9. NewsOK(jb, m2, mp2, kind2, who2, cls2)
  <2>1. ASSUME NEW u \in Threads, jb[u].pc = "move"
        PROVE  \E a \in Addr : kind2[a] = "new" /\ who2[a] = u
    <3>2. PICK a \in Addr : kind[a] = "new" /\ who[a] = u
      BY <2>1 DEF NewsOK
    <3>3. a # x
      BY <3>2
    <3> QED BY <1>2, <3>2, <3>3
  <2>2. ASSUME NEW a \in Addr, kind2[a] = "new"
        PROVE  /\ who2[a] \in Threads /\ jb[who2[a]].pc = "move"
               /\ Lies(a, jb[who2[a]].new, jb[who2[a]].size, jb[who2[a]].align, m2, mp2, cls2)
    <3>1. a # x
      BY <2>2 DEF Used
    <3>2. kind[a] = "new"
      BY <1>3, <2>2, <3>1
    <3> QED BY <1>2, <3>1, <3>2
  <2> QED BY <2>1, <2>2 DEF NewsOK
<1>10. ASSUME NEW q \in DOMAIN ob2 PROVE Stored(ob2, m2)[q] = Stored(ob, m)[q]
  <2>1. PICK a \in Addr \ {x} : kind[a] = "obj" /\ who[a] = q
    BY <1>7
  <2>2. Words(q, ob[q].size, m2) = Words(q, ob[q].size, m)
    BY <1>2, <2>1
  <2>3. q \in DOMAIN ob /\ ob2[q] = ob[q]
    BY <1>6
  <2> QED BY <2>2, <2>3, StoredSame
<1> QED BY <1>4, <1>6, <1>8, <1>9, <1>10 DEF Lost

\* The program's object at p, in the block x, gets another size of the same class.
Resizes(x, p, n, ob, ob2, kind, who) ==
  kind[x] = "obj" /\ who[x] = p /\ ob2 = [ob EXCEPT ![p].size = n]

Resized(ob, m, p, n, ob2, m2) ==
  /\ p \in DOMAIN ob /\ DOMAIN ob2 = DOMAIN ob
  /\ ob2[p].size = n /\ ob2[p].align = ob[p].align
  /\ \A q \in DOMAIN ob \ {p} : ob2[q] = ob[q] /\ Stored(ob2, m2)[q] = Stored(ob, m)[q]

LEMMA ObjResized ==
  ASSUME NEW bu, NEW mp, NEW m, NEW ob, NEW jb, NEW kind, NEW who, NEW cls,
         ObjsOK(ob, m, mp, kind, who, cls), NewsOK(jb, m, mp, kind, who, cls),
         ChunksOK(bu, mp, kind, cls),
         NEW x \in Addr, NEW p, NEW m2, Outside(m2, m, x, Ext(x, mp, cls)),
         NEW n, NEW ob2, Resizes(x, p, n, ob, ob2, kind, who), Lies(x, p, n, ob[p].align, m2, mp, cls)
  PROVE  /\ ObjsOK(ob2, m2, mp, kind, who, cls) /\ NewsOK(jb, m2, mp, kind, who, cls)
         /\ Resized(ob, m, p, n, ob2, m2)
<1> USE DEF Resizes, Resized
<1>1. SameUses(x, mp, kind, who, cls, mp, kind, who, cls) /\ SameChunks(x, mp, kind, cls, mp, kind, cls)
  BY DEF SameUses, SameChunks, Used
<1>2. KeptUses(x, ob, jb, m, kind, who, mp, m2, kind, who, cls)
  <2>1. kind[x] # "none"
    OBVIOUS
  <2> QED BY <1>1, <2>1, UsesKept, Zenon
<1> USE DEF KeptUses
<1>4. p \in DOMAIN ob /\ Lies(x, p, ob[p].size, ob[p].align, m, mp, cls)
  BY DEF ObjsOK
<1>5. ASSUME NEW a \in Addr \ {x}, kind[a] = "obj" PROVE who[a] # p
  <2> SUFFICES ASSUME who[a] = p PROVE FALSE
    OBVIOUS
  <2>1. Lies(a, p, ob[p].size, ob[p].align, m, mp, cls)
    BY <1>5 DEF ObjsOK
  <2>2. kind[a] # "none" /\ kind[x] # "none"
    BY <1>5
  <2>3. a = x
    BY <1>4, <2>1, <2>2, OneChunk
  <2> QED BY <2>3
<1>6. n \in Nat
  BY DEF Lies
<1>7. \A q \in DOMAIN ob : ob[q] \in [size : Nat, align : Nat]
  BY DEF ObjsOK
<1>8. /\ DOMAIN ob2 = DOMAIN ob /\ \A q \in DOMAIN ob \ {p} : ob2[q] = ob[q]
      /\ ob2[p] \in [size : Nat, align : Nat] /\ ob2[p].size = n /\ ob2[p].align = ob[p].align
  BY <1>4, <1>6, <1>7
<1>9. ObjsOK(ob2, m2, mp, kind, who, cls)
  <2>1. \A q \in DOMAIN ob2 : ob2[q] \in [size : Nat, align : Nat]
    BY <1>7, <1>8
  <2>2. \A q \in DOMAIN ob2 : \E a \in Addr : kind[a] = "obj" /\ who[a] = q
    BY <1>8 DEF ObjsOK
  <2>3. ASSUME NEW a \in Addr, kind[a] = "obj"
        PROVE  /\ who[a] \in DOMAIN ob2
               /\ Lies(a, who[a], ob2[who[a]].size, ob2[who[a]].align, m2, mp, cls)
    <3>1. CASE a = x
      BY <1>4, <1>8, <3>1
    <3>2. CASE a # x
      BY <1>2, <1>5, <1>8, <2>3, <3>2
    <3> QED BY <3>1, <3>2
  <2> QED BY <2>1, <2>2, <2>3 DEF ObjsOK
<1>10. NewsOK(jb, m2, mp, kind, who, cls)
  <2>1. ASSUME NEW a \in Addr, kind[a] = "new"
        PROVE  /\ who[a] \in Threads /\ jb[who[a]].pc = "move"
               /\ Lies(a, jb[who[a]].new, jb[who[a]].size, jb[who[a]].align, m2, mp, cls)
    <3>1. a # x
      BY <2>1
    <3> QED BY <1>2, <2>1, <3>1
  <2>2. \A u \in Threads : jb[u].pc = "move" => \E a \in Addr : kind[a] = "new" /\ who[a] = u
    BY DEF NewsOK
  <2> QED BY <2>1, <2>2 DEF NewsOK
<1>11. ASSUME NEW q \in DOMAIN ob \ {p} PROVE Stored(ob2, m2)[q] = Stored(ob, m)[q]
  <2>1. PICK a \in Addr \ {x} : kind[a] = "obj" /\ who[a] = q
    BY DEF ObjsOK
  <2>2. Words(q, ob[q].size, m2) = Words(q, ob[q].size, m)
    BY <1>2, <2>1
  <2>3. q \in DOMAIN ob /\ q \in DOMAIN ob2 /\ ob2[q] = ob[q]
    BY <1>8
  <2> HIDE DEF KeptUses
  <2>4. PICK r : r = ob2
    OBVIOUS
  <2>5. q \in DOMAIN r /\ r[q] = ob[q]
    BY <2>3, <2>4
  <2>6. Stored(r, m2)[q] = Stored(ob, m)[q]
    BY <2>2, <2>3, <2>5, StoredSame
  <2> QED BY <2>4, <2>6
<1> QED BY <1>4, <1>8, <1>9, <1>10, <1>11

\* A step that changes neither memory nor what the program has.
LEMMA UsesStay ==
  ASSUME NEW mp, NEW m, NEW ob, NEW jb, NEW kind, NEW who, NEW cls,
         ObjsOK(ob, m, mp, kind, who, cls), NewsOK(jb, m, mp, kind, who, cls),
         NEW mp2, NEW kind2, NEW who2, NEW cls2, NEW jb2,
         SameUses(Junk, mp, kind, who, cls, mp2, kind2, who2, cls2),
         \A t \in Threads : jb2[t] = jb[t] \/ (jb[t].pc # "move" /\ jb2[t].pc # "move")
  PROVE  ObjsOK(ob, m, mp2, kind2, who2, cls2) /\ NewsOK(jb2, m, mp2, kind2, who2, cls2)
<1>0. Junk \notin Addr
  BY ConstantsAre DEF Junk, Addr
<1>1. ASSUME NEW a \in Addr, Used(kind[a]) \/ Used(kind2[a])
      PROVE  /\ kind2[a] = kind[a] /\ who2[a] = who[a]
             /\ \A p, size, align : Lies(a, p, size, align, m, mp2, cls2) <=> Lies(a, p, size, align, m, mp, cls)
  <2>1. kind2[a] = kind[a] /\ who2[a] = who[a] /\ cls2[a] = cls[a] /\ (~ InRegion(a) => mp2[a] = mp[a])
    BY <1>0, <1>1 DEF SameUses
  <2>2. \A p, size, align : Lies(a, p, size, align, m, mp2, cls2) <=> Lies(a, p, size, align, m, mp, cls)
    <3> TAKE p, size, align
    <3> QED BY <2>1, LiesSame, Zenon
  <2> QED BY <2>1, <2>2
<1>2. ObjsOK(ob, m, mp2, kind2, who2, cls2)
  <2>1. \A q \in DOMAIN ob : ob[q] \in [size : Nat, align : Nat]
    BY DEF ObjsOK
  <2>2. ASSUME NEW q \in DOMAIN ob PROVE \E a \in Addr : kind2[a] = "obj" /\ who2[a] = q
    <3>1. PICK a \in Addr : kind[a] = "obj" /\ who[a] = q
      BY DEF ObjsOK
    <3> QED BY <1>1, <3>1 DEF Used
  <2>3. ASSUME NEW a \in Addr, kind2[a] = "obj"
        PROVE  /\ who2[a] \in DOMAIN ob
               /\ Lies(a, who2[a], ob[who2[a]].size, ob[who2[a]].align, m, mp2, cls2)
    <3>1. Used(kind2[a])
      BY <2>3 DEF Used
    <3>2. kind[a] = "obj" /\ who2[a] = who[a]
      BY <1>1, <2>3, <3>1
    <3>3. who[a] \in DOMAIN ob /\ Lies(a, who[a], ob[who[a]].size, ob[who[a]].align, m, mp, cls)
      BY <3>2 DEF ObjsOK
    <3> QED BY <1>1, <3>1, <3>2, <3>3
  <2> QED BY <2>1, <2>2, <2>3 DEF ObjsOK
<1>3. NewsOK(jb2, m, mp2, kind2, who2, cls2)
  <2>1. ASSUME NEW u \in Threads, jb2[u].pc = "move"
        PROVE  \E a \in Addr : kind2[a] = "new" /\ who2[a] = u
    <3>1. jb[u].pc = "move"
      BY <2>1
    <3>2. PICK a \in Addr : kind[a] = "new" /\ who[a] = u
      BY <3>1 DEF NewsOK
    <3> QED BY <1>1, <3>2 DEF Used
  <2>2. ASSUME NEW a \in Addr, kind2[a] = "new"
        PROVE  /\ who2[a] \in Threads /\ jb2[who2[a]].pc = "move"
               /\ Lies(a, jb2[who2[a]].new, jb2[who2[a]].size, jb2[who2[a]].align, m, mp2, cls2)
    <3>1. Used(kind2[a])
      BY <2>2 DEF Used
    <3>2. PICK u : u = who[a]
      OBVIOUS
    <3>3. kind[a] = "new" /\ who2[a] = u
      BY <1>1, <2>2, <3>1, <3>2
    <3>4. u \in Threads /\ jb[u].pc = "move" /\ Lies(a, jb[u].new, jb[u].size, jb[u].align, m, mp, cls)
      BY <3>2, <3>3 DEF NewsOK
    <3>5. jb2[u] = jb[u]
      BY <3>4
    <3>6. Lies(a, jb[u].new, jb[u].size, jb[u].align, m, mp2, cls2)
      BY <1>1, <3>1, <3>4
    <3> QED BY <3>3, <3>4, <3>5, <3>6
  <2> QED BY <2>1, <2>2 DEF NewsOK
<1> QED BY <1>2, <1>3

-----------------------------------------------------------------------------
(* Lists.                                                                  *)

\* Lists of nothing.
LEMMA ListsNone ==
  /\ Lists(<<>>, {})
  /\ \A S : Lists(<<>>, S) => S = {}
  /\ \A s : Lists(s, {}) => s = <<>>
<1>1. <<>> \in Seq(Addr) /\ DOMAIN <<>> = {} /\ Elems(<<>>) = {}
  BY DEF Elems
<1>2. Lists(<<>>, {}) /\ \A S : Lists(<<>>, S) => S = {}
  BY <1>1 DEF Lists
<1>3. ASSUME NEW s, Lists(s, {}) PROVE s = <<>>
  <2>1. s \in Seq(Addr) /\ DOMAIN s = {}
    BY <1>3 DEF Lists, Elems
  <2>2. Len(s) = 0
    BY <2>1
  <2> QED BY <2>1, <2>2
<1> QED BY <1>2, <1>3

\* A list of one address.
LEMMA ListsOne ==
  ASSUME NEW a \in Addr
  PROVE  Lists(<<a>>, {a})
<1>1. <<a>> \in Seq(Addr) /\ DOMAIN <<a>> = 1 .. 1 /\ <<a>>[1] = a
  OBVIOUS
<1>2. \A i \in 1 .. 1 : i = 1
  OBVIOUS
<1> QED BY <1>1, <1>2 DEF Lists, Elems

\* One list after another.
LEMMA ListsJoin ==
  ASSUME NEW s, NEW t, NEW A, NEW B, Lists(s, A), Lists(t, B), A \cap B = {}
  PROVE  Lists(s \o t, A \cup B)
<1>1. PICK k, n : k = Len(s) /\ n = Len(t)
  OBVIOUS
<1>2. /\ s \in Seq(Addr) /\ t \in Seq(Addr) /\ k \in Nat /\ n \in Nat
      /\ DOMAIN s = 1 .. k /\ DOMAIN t = 1 .. n
      /\ \A i, j \in 1 .. k : s[i] = s[j] => i = j
      /\ \A i, j \in 1 .. n : t[i] = t[j] => i = j
  BY <1>1 DEF Lists
<1>3. PICK r : r = s \o t
  OBVIOUS
<1>4. /\ r \in Seq(Addr) /\ DOMAIN r = 1 .. k + n
      /\ \A i \in 1 .. k : r[i] = s[i]
      /\ \A i \in k + 1 .. k + n : r[i] = t[i - k]
  BY <1>1, <1>2, <1>3
<1>5. /\ \A a : a \in A <=> \E i \in 1 .. k : s[i] = a
      /\ \A a : a \in B <=> \E i \in 1 .. n : t[i] = a
      /\ \A a : a \in Elems(r) <=> \E i \in 1 .. k + n : r[i] = a
  BY <1>2, <1>4 DEF Lists, Elems
<1>6. \A i \in k + 1 .. k + n : i - k \in 1 .. n
  BY <1>2
<1>7. \A i \in 1 .. k + n : i \in 1 .. k \/ i \in k + 1 .. k + n
  BY <1>2
<1>8. (\A i \in 1 .. k : i \in 1 .. k + n) /\ (\A i \in k + 1 .. k + n : i \in 1 .. k + n)
  BY <1>2
<1>9. ASSUME NEW i \in 1 .. k + n, NEW j \in 1 .. k + n, r[i] = r[j] PROVE i = j
  <2>1. CASE i \in 1 .. k /\ j \in 1 .. k
    BY <1>2, <1>4, <1>9, <2>1
  <2>2. CASE i \in k + 1 .. k + n /\ j \in k + 1 .. k + n
    <3>1. i - k = j - k
      BY <1>2, <1>4, <1>6, <1>9, <2>2
    <3> QED BY <1>2, <3>1
  <2>3. ASSUME NEW x \in 1 .. k, NEW y \in k + 1 .. k + n PROVE r[x] # r[y]
    <3>1. r[x] \in A /\ r[y] \in B
      BY <1>4, <1>5, <1>6
    <3> QED BY <3>1
  <2> QED BY <1>7, <1>9, <2>1, <2>2, <2>3
<1>10. Elems(r) = A \cup B
  <2>1. ASSUME NEW i \in 1 .. k + n PROVE r[i] \in A \cup B
    BY <1>4, <1>5, <1>6, <1>7
  <2>2. ASSUME NEW i \in 1 .. k PROVE s[i] \in Elems(r)
    BY <1>4, <1>5, <1>8
  <2>3. ASSUME NEW i \in 1 .. n PROVE t[i] \in Elems(r)
    <3>1. PICK x : x = i + k
      OBVIOUS
    <3>2. x \in k + 1 .. k + n /\ x - k = i
      BY <1>2, <3>1
    <3>3. r[x] = t[x - k] /\ x \in 1 .. k + n
      BY <1>4, <1>8, <3>2
    <3> QED BY <1>5, <3>2, <3>3
  <2> QED BY <1>5, <2>1, <2>2, <2>3
<1>11. Lists(r, A \cup B)
  BY <1>4, <1>9, <1>10 DEF Lists
<1> QED BY <1>3, <1>11

\* A part of a list.
LEMMA ListsPart ==
  ASSUME NEW s, NEW S, Lists(s, S), NEW a \in 1 .. Len(s) + 1, NEW b \in 0 .. Len(s), a <= b + 1
  PROVE  /\ Lists(SubSeq(s, a, b), Elems(SubSeq(s, a, b)))
         /\ \A x : x \in Elems(SubSeq(s, a, b)) <=> \E i \in a .. b : s[i] = x
<1>1. PICK r, n : r = SubSeq(s, a, b) /\ n = Len(s)
  OBVIOUS
<1>2. /\ s \in Seq(Addr) /\ n \in Nat /\ DOMAIN s = 1 .. n
      /\ \A i, j \in 1 .. n : s[i] = s[j] => i = j
  BY <1>1 DEF Lists
<1>3. /\ r \in Seq(Addr) /\ DOMAIN r = 1 .. b + 1 - a
      /\ \A i \in 1 .. b + 1 - a : r[i] = s[a + i - 1]
  BY <1>1, <1>2
<1>4. \A i \in 1 .. b + 1 - a : a + i - 1 \in a .. b /\ a + i - 1 \in 1 .. n
  BY <1>1, <1>2
<1>5. \A i \in a .. b : i + 1 - a \in 1 .. b + 1 - a /\ a + (i + 1 - a) - 1 = i
  BY <1>1, <1>2
<1>6. \A x : x \in Elems(r) <=> \E i \in 1 .. b + 1 - a : r[i] = x
  BY <1>3 DEF Elems
<1>7. \A x : x \in Elems(r) <=> \E i \in a .. b : s[i] = x
  <2>1. ASSUME NEW i \in 1 .. b + 1 - a PROVE \E k \in a .. b : s[k] = r[i]
    BY <1>3, <1>4
  <2>2. ASSUME NEW i \in a .. b PROVE s[i] \in Elems(r)
    <3>1. r[i + 1 - a] = s[i] /\ i + 1 - a \in 1 .. b + 1 - a
      BY <1>3, <1>5
    <3> QED BY <1>6, <3>1
  <2> QED BY <1>6, <2>1, <2>2
<1>8. ASSUME NEW i \in 1 .. b + 1 - a, NEW j \in 1 .. b + 1 - a, r[i] = r[j] PROVE i = j
  <2>1. a + i - 1 = a + j - 1
    BY <1>2, <1>3, <1>4, <1>8
  <2> QED BY <1>2, <2>1
<1>9. Lists(r, Elems(r))
  BY <1>3, <1>8 DEF Lists
<1> QED BY <1>1, <1>7, <1>9

\* A list in two parts.
IsSplit(s, S, k) ==
  LET A == Elems(SubSeq(s, 1, k))
      B == Elems(SubSeq(s, k + 1, Len(s)))
  IN Lists(SubSeq(s, 1, k), A) /\ Lists(SubSeq(s, k + 1, Len(s)), B) /\ A \cap B = {} /\ S = A \cup B

LEMMA ListsSplit ==
  ASSUME NEW s, NEW S, Lists(s, S), NEW k \in 0 .. Len(s)
  PROVE  IsSplit(s, S, k)
<1>1. s \in Seq(Addr) /\ Len(s) \in Nat /\ DOMAIN s = 1 .. Len(s)
  BY DEF Lists
<1>2. PICK A, B, n : A = Elems(SubSeq(s, 1, k)) /\ B = Elems(SubSeq(s, k + 1, Len(s))) /\ n = Len(s)
  OBVIOUS
<1>3. 1 \in 1 .. n + 1 /\ k + 1 \in 1 .. n + 1 /\ n \in 0 .. n /\ 1 <= k + 1 /\ k + 1 <= n + 1 /\ k \in 0 .. n
  BY <1>1, <1>2
<1>4. Lists(SubSeq(s, 1, k), A) /\ \A x : x \in A <=> \E i \in 1 .. k : s[i] = x
  BY <1>2, <1>3, ListsPart
<1>5. Lists(SubSeq(s, k + 1, n), B) /\ \A x : x \in B <=> \E i \in k + 1 .. n : s[i] = x
  BY <1>2, <1>3, ListsPart
<1>6. \A i, j \in 1 .. n : s[i] = s[j] => i = j
  BY <1>1, <1>2 DEF Lists
<1>7. \A x : x \in S <=> \E i \in 1 .. n : s[i] = x
  BY <1>1, <1>2 DEF Lists, Elems
<1>8. \A i \in 1 .. k, j \in k + 1 .. n : i \in 1 .. n /\ j \in 1 .. n /\ i # j
  BY <1>1, <1>2
<1>9. A \cap B = {}
  BY <1>4, <1>5, <1>6, <1>8
<1>10. S = A \cup B
  <2>1. \A i \in 1 .. n : i \in 1 .. k \/ i \in k + 1 .. n
    BY <1>1, <1>2
  <2>2. (\A i \in 1 .. k : i \in 1 .. n) /\ (\A i \in k + 1 .. n : i \in 1 .. n)
    BY <1>1, <1>2
  <2> QED BY <1>4, <1>5, <1>7, <2>1, <2>2
<1> QED BY <1>2, <1>4, <1>5, <1>9, <1>10 DEF IsSplit

\* A list whose first address is taken, and whose rest is divided.
IsPopped(s, S, k) ==
  LET A == Elems(SubSeq(s, 2, k))
      B == Elems(SubSeq(s, k + 1, Len(s)))
  IN /\ Lists(SubSeq(s, 2, k), A) /\ Lists(SubSeq(s, k + 1, Len(s)), B)
     /\ Head(s) \in Addr /\ Head(s) \notin A \cup B /\ A \cap B = {} /\ S = {Head(s)} \cup A \cup B

LEMMA ListsPop ==
  ASSUME NEW s, NEW S, Lists(s, S), NEW k \in 1 .. Len(s)
  PROVE  IsPopped(s, S, k)
<1>1. s \in Seq(Addr) /\ Len(s) \in Nat /\ DOMAIN s = 1 .. Len(s)
  BY DEF Lists
<1>2. PICK A, B, n, p : /\ A = Elems(SubSeq(s, 2, k)) /\ B = Elems(SubSeq(s, k + 1, Len(s)))
                        /\ n = Len(s) /\ p = Head(s)
  OBVIOUS
<1>3. 2 \in 1 .. n + 1 /\ k + 1 \in 1 .. n + 1 /\ n \in 0 .. n /\ 2 <= k + 1 /\ k + 1 <= n + 1 /\ k \in 0 .. n
  BY <1>1, <1>2
<1>4. Lists(SubSeq(s, 2, k), A) /\ \A x : x \in A <=> \E i \in 2 .. k : s[i] = x
  BY <1>2, <1>3, ListsPart
<1>5. Lists(SubSeq(s, k + 1, n), B) /\ \A x : x \in B <=> \E i \in k + 1 .. n : s[i] = x
  BY <1>2, <1>3, ListsPart
<1>6. \A i, j \in 1 .. n : s[i] = s[j] => i = j
  BY <1>1, <1>2 DEF Lists
<1>7. \A x : x \in S <=> \E i \in 1 .. n : s[i] = x
  BY <1>1, <1>2 DEF Lists, Elems
<1>8. p = s[1] /\ 1 \in 1 .. n /\ p \in Addr
  BY <1>1, <1>2
<1>9. \A i \in 2 .. k, j \in k + 1 .. n : i \in 1 .. n /\ j \in 1 .. n /\ i # j /\ i # 1 /\ j # 1
  BY <1>1, <1>2
<1>10. (\A i \in 2 .. k : i \in 1 .. n /\ i # 1) /\ (\A i \in k + 1 .. n : i \in 1 .. n /\ i # 1)
  BY <1>1, <1>2
<1>11. A \cap B = {}
  BY <1>4, <1>5, <1>6, <1>9
<1>12. p \notin A \cup B
  BY <1>4, <1>5, <1>6, <1>8, <1>10
<1>13. S = {p} \cup A \cup B
  <2>1. \A i \in 1 .. n : i = 1 \/ i \in 2 .. k \/ i \in k + 1 .. n
    BY <1>1, <1>2
  <2> QED BY <1>4, <1>5, <1>7, <1>8, <1>10, <2>1
<1> QED BY <1>2, <1>4, <1>5, <1>8, <1>11, <1>12, <1>13 DEF IsPopped

-----------------------------------------------------------------------------
(* What stays the same.                                                    *)

\* Chunks that change hands stay where they are.
LEMMA ChunksRelabelled ==
  ASSUME NEW bu, NEW mp, NEW kind, NEW cls, ChunksOK(bu, mp, kind, cls),
         NEW kind2 \in [Addr -> Kinds],
         \A a \in Addr : kind2[a] = "none" <=> kind[a] = "none",
         \A a \in Addr : kind2[a] = "none" \/ kind2[a] = kind[a] \/ Used(kind2[a])
                         \/ IF InRegion(a) THEN kind2[a] # "cache" ELSE ~ Listed(kind2[a])
  PROVE  ChunksOK(bu, mp, kind2, cls)
<1>1. ASSUME NEW a \in Addr, kind2[a] # "none"
      PROVE  IF InRegion(a) THEN kind2[a] # "cache" /\ BlockOK(a, bu, cls)
             ELSE ~ Listed(kind2[a]) /\ MapOK(a, mp)
  <2>1. IF InRegion(a) THEN kind[a] # "cache" /\ BlockOK(a, bu, cls)
        ELSE ~ Listed(kind[a]) /\ MapOK(a, mp)
    BY <1>1 DEF ChunksOK
  <2> QED BY <1>1, <2>1 DEF Used, Listed
<1>2. ASSUME NEW a \in Addr, NEW b \in Addr, kind2[a] # "none", kind2[b] # "none", a # b
      PROVE  /\ InRegion(a) /\ InRegion(b) => SameBag(a, b, cls) \/ BagsApart(a, b, cls)
             /\ ~ InRegion(a) /\ ~ InRegion(b) => MapsApart(a, b, mp)
  BY <1>2 DEF ChunksOK
<1>3. \A raw \in Maps : raw \in Addr
  BY ConstantsAre, AllocatorAssumption DEF Addr
<1>4. \A raw \in Maps : mp[raw].len = 0 <=> kind2[raw] = "none"
  BY <1>3 DEF ChunksOK
<1>5. /\ bu \in [Nodes -> 0 .. RegionSize] /\ mp \in [Maps -> [len : Nat, node : Nodes]]
      /\ cls \in [Addr -> Classes]
  BY DEF ChunksOK
<1> QED BY <1>1, <1>2, <1>4, <1>5 DEF ChunksOK

\* The caches.
SameCaches(hp, hp2) == \A t \in Threads : hp2[t].cache = hp[t].cache /\ hp2[t].bytes = hp[t].bytes
SameCached(mp, kind, who, mp2, kind2, who2) ==
  \A a \in Addr : kind[a] = "cache" \/ kind2[a] = "cache" =>
    kind2[a] = kind[a] /\ who2[a] = who[a] /\ mp2[a] = mp[a]

LEMMA CachesStay ==
  ASSUME NEW hp, NEW mp, NEW kind, NEW who, CachesOK(hp, mp, kind, who),
         NEW hp2, NEW mp2, NEW kind2, NEW who2,
         SameCaches(hp, hp2), SameCached(mp, kind, who, mp2, kind2, who2)
  PROVE  CachesOK(hp2, mp2, kind2, who2)
<1> USE DEF SameCaches, SameCached
<1>1. ASSUME NEW t \in Threads PROVE CacheOK(t, hp2[t], mp2, kind2, who2)
  <2>1. CacheOK(t, hp[t], mp, kind, who)
    BY DEF CachesOK
  <2>2. PICK es : es = hp[t].cache
    OBVIOUS
  <2>3. /\ es \in Seq(Entries) /\ Distinct(es)
        /\ MapsOf(es) = {a \in Addr : kind[a] = "cache" /\ who[a] = t}
        /\ \A i \in DOMAIN es : es[i].size = mp[es[i].map].len
        /\ hp[t].bytes = Pages(es, Len(es)) /\ hp[t].bytes <= MaxCacheBytes /\ Len(es) <= CacheSlots
    BY <2>1, <2>2 DEF CacheOK
  <2>4. \A a : a \in {b \in Addr : kind2[b] = "cache" /\ who2[b] = t} <=> a \in MapsOf(es)
    BY <2>3
  <2>5. MapsOf(es) = {a \in Addr : kind2[a] = "cache" /\ who2[a] = t}
    BY <2>4, Zenon
  <2>6. \A i \in DOMAIN es : es[i].map \in MapsOf(es)
    BY DEF MapsOf
  <2>7. \A i \in DOMAIN es : es[i].size = mp2[es[i].map].len
    BY <2>3, <2>6
  <2>8. hp2[t].cache = es /\ hp2[t].bytes = hp[t].bytes
    BY <2>2
  <2> QED BY <2>3, <2>5, <2>7, <2>8 DEF CacheOK
<1>2. \A a \in Addr : kind2[a] = "cache" => who2[a] \in Threads
  BY DEF CachesOK
<1> QED BY <1>1, <1>2 DEF CachesOK

\* The lists.
SameLists(hp, hp2) ==
  \A t \in Threads : hp2[t].list = hp[t].list /\ hp2[t].spare = hp[t].spare /\ hp2[t].node = hp[t].node
SameListed(kind, who, cls, kind2, who2, cls2) ==
  \A a \in Addr : Listed(kind[a]) \/ Listed(kind2[a]) =>
    kind2[a] = kind[a] /\ who2[a] = who[a] /\ cls2[a] = cls[a]

LEMMA ListsStay ==
  ASSUME NEW st, NEW hp, NEW kind, NEW who, NEW cls, ListsOK(st, hp, kind, who, cls),
         NEW hp2, NEW kind2, NEW who2, NEW cls2,
         SameLists(hp, hp2), SameListed(kind, who, cls, kind2, who2, cls2)
  PROVE  ListsOK(st, hp2, kind2, who2, cls2)
<1> USE DEF SameLists, SameListed
<1>1. ASSUME NEW k, Listed(k), NEW w, NEW c PROVE Of(k, w, c, kind2, who2, cls2) = Of(k, w, c, kind, who, cls)
  <2>1. \A a : a \in Of(k, w, c, kind2, who2, cls2) <=> a \in Of(k, w, c, kind, who, cls)
    BY <1>1 DEF Of
  <2> QED BY <2>1, Zenon
<1>2. \A n \in Nodes, c \in Classes : Lists(st[n][c], Of("stack", n, c, kind2, who2, cls2))
  <2> TAKE n \in Nodes, c \in Classes
  <2>1. Listed("stack")
    BY DEF Listed
  <2>2. Of("stack", n, c, kind2, who2, cls2) = Of("stack", n, c, kind, who, cls)
    BY <1>1, <2>1
  <2>3. Lists(st[n][c], Of("stack", n, c, kind, who, cls))
    BY Zenon DEF ListsOK
  <2> QED BY <2>2, <2>3
<1>3. \A t \in Threads, c \in Classes :
        /\ Lists(hp2[t].list[c], Of("list", t, c, kind2, who2, cls2))
        /\ Lists(hp2[t].spare[c], Of("spare", t, c, kind2, who2, cls2))
  <2> TAKE t \in Threads, c \in Classes
  <2>1. Listed("list") /\ Listed("spare")
    BY DEF Listed
  <2>2. /\ Of("list", t, c, kind2, who2, cls2) = Of("list", t, c, kind, who, cls)
        /\ Of("spare", t, c, kind2, who2, cls2) = Of("spare", t, c, kind, who, cls)
    BY <1>1, <2>1
  <2>3. /\ Lists(hp[t].list[c], Of("list", t, c, kind, who, cls))
        /\ Lists(hp[t].spare[c], Of("spare", t, c, kind, who, cls))
    BY Zenon DEF ListsOK
  <2> QED BY <2>2, <2>3
<1>4. ASSUME NEW a \in Addr
      PROVE  /\ kind2[a] = "stack" => who2[a] = NodeForPtr(a)
             /\ kind2[a] \in {"list", "spare"} => who2[a] \in Threads /\ NodeForPtr(a) = hp2[who2[a]].node
  <2>1. /\ kind[a] = "stack" => who[a] = NodeForPtr(a)
        /\ kind[a] \in {"list", "spare"} => who[a] \in Threads /\ NodeForPtr(a) = hp[who[a]].node
    BY DEF ListsOK
  <2>2. Listed(kind2[a]) => kind2[a] = kind[a] /\ who2[a] = who[a]
    OBVIOUS
  <2> QED BY <2>1, <2>2 DEF Listed
<1> QED BY <1>2, <1>3, <1>4 DEF ListsOK

\* The PerThreadHeap of t has another list and spare chain of class c.
HeapChanged(h2, h, c, l, s) ==
  /\ h2 \in Heap
  /\ h2.state = h.state /\ h2.node = h.node /\ h2.cache = h.cache /\ h2.bytes = h.bytes
  /\ h2.list[c] = l /\ h2.spare[c] = s
  /\ \A d \in Classes \ {c} : h2.list[d] = h.list[d] /\ h2.spare[d] = h.spare[d]

LEMMA HeapWith ==
  ASSUME NEW h \in Heap, NEW c \in Classes, NEW l \in Seq(Addr), NEW s \in Seq(Addr),
         NEW h2, h2 = [h EXCEPT !.list[c] = l, !.spare[c] = s]
  PROVE  HeapChanged(h2, h, c, l, s)
<1>1. h.list \in [Classes -> Seq(Addr)] /\ h.spare \in [Classes -> Seq(Addr)]
  BY DEF Heap
<1>2. /\ h2.list = [h.list EXCEPT ![c] = l] /\ h2.spare = [h.spare EXCEPT ![c] = s]
      /\ h2.state = h.state /\ h2.node = h.node /\ h2.cache = h.cache /\ h2.bytes = h.bytes
  BY DEF Heap
<1>3. h2 \in Heap
  BY <1>1, <1>2 DEF Heap
<1> QED BY <1>1, <1>2, <1>3 DEF HeapChanged

-----------------------------------------------------------------------------
(* Blocks that change hands.                                               *)

\* Of thread t, node n and class c: blocks P come to be of kind kk for ww, L are on
\* the thread's list, S on its spare chain and K on the node's stack.
NewKind(kind, P, kk, L, S, K) ==
  [a \in Addr |-> IF a \in P THEN kk ELSE IF a \in L THEN "list" ELSE IF a \in S THEN "spare"
                  ELSE IF a \in K THEN "stack" ELSE kind[a]]
NewWho(who, P, ww, L, S, K, t, n) ==
  [a \in Addr |-> IF a \in P THEN ww ELSE IF a \in L \cup S THEN t ELSE IF a \in K THEN n ELSE who[a]]
NewCls(cls, P, L, S, K, c) == [a \in Addr |-> IF a \in P \cup L \cup S \cup K THEN c ELSE cls[a]]

\* The three places the blocks may come from, if they come from a list.
Spot(a, t, n, c, kind, who, cls) ==
  /\ cls[a] = c
  /\ \/ kind[a] \in {"list", "spare"} /\ who[a] = t
     \/ kind[a] = "stack" /\ who[a] = n

Disjoint(P, L, S, K) ==
  /\ P \cap L = {} /\ P \cap S = {} /\ P \cap K = {}
  /\ L \cap S = {} /\ L \cap K = {} /\ S \cap K = {}

\* The blocks at these places are divided anew, and others may join them.
Redivided(P, L, S, K, t, n, c, kind, who, cls) ==
  /\ P \cup L \cup S \cup K \subseteq Addr /\ Disjoint(P, L, S, K)
  /\ \A a \in Addr : Spot(a, t, n, c, kind, who, cls) => a \in P \cup L \cup S \cup K
  /\ \A a \in P \cup L \cup S \cup K : Listed(kind[a]) => Spot(a, t, n, c, kind, who, cls)

\* What they are said to be changes accordingly.
Marked(P, kk, ww, L, S, K, t, n, c, kind, who, cls, kind2, who2, cls2) ==
  /\ Redivided(P, L, S, K, t, n, c, kind, who, cls) /\ ~ Listed(kk)
  /\ kind2 = NewKind(kind, P, kk, L, S, K) /\ who2 = NewWho(who, P, ww, L, S, K, t, n)
  /\ cls2 = NewCls(cls, P, L, S, K, c)

\* The places are then these, and the others as before.
LEMMA RedividedIs ==
  ASSUME NEW P, NEW kk, NEW ww, NEW L, NEW S, NEW K, NEW t, NEW n, NEW c, NEW kind, NEW who, NEW cls,
         NEW kind2, NEW who2, NEW cls2,
         Marked(P, kk, ww, L, S, K, t, n, c, kind, who, cls, kind2, who2, cls2)
  PROVE  /\ Of("list", t, c, kind2, who2, cls2) = L /\ Of("spare", t, c, kind2, who2, cls2) = S
         /\ Of("stack", n, c, kind2, who2, cls2) = K
         /\ \A k \in {"list", "spare"} : \A w, d : w # t \/ d # c =>
              Of(k, w, d, kind2, who2, cls2) = Of(k, w, d, kind, who, cls)
         /\ \A w, d : w # n \/ d # c =>
              Of("stack", w, d, kind2, who2, cls2) = Of("stack", w, d, kind, who, cls)
<1> USE DEF Marked
<1>1. PICK U : U = P \cup L \cup S \cup K
  OBVIOUS
<1>2. /\ U \subseteq Addr
      /\ \A a \in Addr \ U : ~ Spot(a, t, n, c, kind, who, cls)
      /\ \A a \in U : Listed(kind[a]) => Spot(a, t, n, c, kind, who, cls)
  BY <1>1 DEF Redivided
<1>3. \A a \in Addr \ U : kind2[a] = kind[a] /\ who2[a] = who[a] /\ cls2[a] = cls[a]
  BY <1>1 DEF NewKind, NewWho, NewCls
<1>4. \A a \in U : cls2[a] = c
  BY <1>1, <1>2 DEF NewCls
<1>5. \A a \in P : kind2[a] = kk
  BY <1>1, <1>2 DEF NewKind
<1>6. \A a \in L : kind2[a] = "list" /\ who2[a] = t /\ a \in U
  BY <1>1, <1>2 DEF NewKind, NewWho, Redivided, Disjoint
<1>7. \A a \in S : kind2[a] = "spare" /\ who2[a] = t /\ a \in U
  BY <1>1, <1>2 DEF NewKind, NewWho, Redivided, Disjoint
<1>8. \A a \in K : kind2[a] = "stack" /\ who2[a] = n /\ a \in U
  <2>1. ASSUME NEW a \in K PROVE a \notin P /\ a \notin L /\ a \notin S /\ a \in U
    BY <1>1 DEF Redivided, Disjoint
  <2> QED BY <1>1, <1>2, <2>1 DEF NewKind, NewWho
<1>9. kk # "list" /\ kk # "spare" /\ kk # "stack"
  BY DEF Listed
<1>10. \A a \in U : a \in P \/ a \in L \/ a \in S \/ a \in K
  BY <1>1
<1>11. Of("list", t, c, kind2, who2, cls2) = L
  <2>1. \A a \in Addr : a \in Of("list", t, c, kind2, who2, cls2) <=> a \in L
    BY <1>2, <1>3, <1>4, <1>5, <1>6, <1>7, <1>8, <1>9, <1>10 DEF Of, Spot
  <2>2. Of("list", t, c, kind2, who2, cls2) \subseteq Addr /\ L \subseteq Addr
    BY <1>2, <1>6 DEF Of
  <2> QED BY <2>1, <2>2
<1>12. Of("spare", t, c, kind2, who2, cls2) = S
  <2>1. \A a \in Addr : a \in Of("spare", t, c, kind2, who2, cls2) <=> a \in S
    BY <1>2, <1>3, <1>4, <1>5, <1>6, <1>7, <1>8, <1>9, <1>10 DEF Of, Spot
  <2>2. Of("spare", t, c, kind2, who2, cls2) \subseteq Addr /\ S \subseteq Addr
    BY <1>2, <1>7 DEF Of
  <2> QED BY <2>1, <2>2
<1>13. Of("stack", n, c, kind2, who2, cls2) = K
  <2>1. \A a \in Addr : a \in Of("stack", n, c, kind2, who2, cls2) <=> a \in K
    BY <1>2, <1>3, <1>4, <1>5, <1>6, <1>7, <1>8, <1>9, <1>10 DEF Of, Spot
  <2>2. Of("stack", n, c, kind2, who2, cls2) \subseteq Addr /\ K \subseteq Addr
    BY <1>2, <1>8 DEF Of
  <2> QED BY <2>1, <2>2
<1>14. ASSUME NEW k \in {"list", "spare"}, NEW w, NEW d, w # t \/ d # c
       PROVE  Of(k, w, d, kind2, who2, cls2) = Of(k, w, d, kind, who, cls)
  <2>1. \A a \in Addr : a \in Of(k, w, d, kind2, who2, cls2) <=> a \in Of(k, w, d, kind, who, cls)
    <3> TAKE a \in Addr
    <3>1. CASE a \in U
      <4>1. ~ (kind2[a] = k /\ who2[a] = w /\ cls2[a] = d)
        BY <1>4, <1>5, <1>6, <1>7, <1>8, <1>9, <1>10, <1>14, <3>1
      <4>2. ~ (kind[a] = k /\ who[a] = w /\ cls[a] = d)
        BY <1>2, <1>14, <3>1 DEF Listed, Spot
      <4> QED BY <4>1, <4>2 DEF Of
    <3>2. CASE a \notin U
      BY <1>3, <3>2 DEF Of
    <3> QED BY <3>1, <3>2
  <2>2. Of(k, w, d, kind2, who2, cls2) \subseteq Addr /\ Of(k, w, d, kind, who, cls) \subseteq Addr
    BY DEF Of
  <2> QED BY <2>1, <2>2
<1>15. ASSUME NEW w, NEW d, w # n \/ d # c
       PROVE  Of("stack", w, d, kind2, who2, cls2) = Of("stack", w, d, kind, who, cls)
  <2>1. \A a \in Addr : a \in Of("stack", w, d, kind2, who2, cls2) <=> a \in Of("stack", w, d, kind, who, cls)
    <3> TAKE a \in Addr
    <3>1. CASE a \in U
      <4>1. ~ (kind2[a] = "stack" /\ who2[a] = w /\ cls2[a] = d)
        BY <1>4, <1>5, <1>6, <1>7, <1>8, <1>9, <1>10, <1>15, <3>1
      <4>2. ~ (kind[a] = "stack" /\ who[a] = w /\ cls[a] = d)
        BY <1>2, <1>15, <3>1 DEF Listed, Spot
      <4> QED BY <4>1, <4>2 DEF Of
    <3>2. CASE a \notin U
      BY <1>3, <3>2 DEF Of
    <3> QED BY <3>1, <3>2
  <2>2. Of("stack", w, d, kind2, who2, cls2) \subseteq Addr /\ Of("stack", w, d, kind, who, cls) \subseteq Addr
    BY DEF Of
  <2> QED BY <2>1, <2>2
<1> QED BY <1>11, <1>12, <1>13, <1>14, <1>15, Zenon

\* Blocks of one node.
OnNode(L, n) == \A a \in L : NodeForPtr(a) = n

\* The lists and the stack hold the blocks they are to hold, of their node.
Refilled(st, hp, t, n, c, L, S, K, st2, hp2) ==
  \E h2, l, s, k :
    /\ HeapChanged(h2, hp[t], c, l, s)
    /\ hp2 = [hp EXCEPT ![t] = h2] /\ st2 = [st EXCEPT ![n][c] = k]
    /\ Lists(l, L) /\ Lists(s, S) /\ Lists(k, K)
    /\ OnNode(L \cup S, hp[t].node) /\ OnNode(K, n)

\* Then the lists are right again.
LEMMA ListsRedivided ==
  ASSUME NEW P, NEW L, NEW S, NEW K, NEW t \in Threads, NEW n \in Nodes, NEW c \in Classes,
         NEW kind, NEW who, NEW cls, NEW kk, NEW ww, NEW kind2, NEW who2, NEW cls2,
         Marked(P, kk, ww, L, S, K, t, n, c, kind, who, cls, kind2, who2, cls2),
         NEW bu, NEW st, NEW hp, NEW mp, PlacesOK(bu, st, hp, mp, kind, who, cls),
         NEW hp2, NEW st2, Refilled(st, hp, t, n, c, L, S, K, st2, hp2)
  PROVE  /\ ListsOK(st2, hp2, kind2, who2, cls2)
         /\ st2 \in [Nodes -> [Classes -> Seq(Addr)]]
<1>0. PICK h2, l, s, k :
        /\ HeapChanged(h2, hp[t], c, l, s)
        /\ hp2 = [hp EXCEPT ![t] = h2] /\ st2 = [st EXCEPT ![n][c] = k]
        /\ Lists(l, L) /\ Lists(s, S) /\ Lists(k, K)
        /\ OnNode(L \cup S, hp[t].node) /\ OnNode(K, n)
  BY DEF Refilled
<1>1. /\ Of("list", t, c, kind2, who2, cls2) = L /\ Of("spare", t, c, kind2, who2, cls2) = S
      /\ Of("stack", n, c, kind2, who2, cls2) = K
      /\ \A x \in {"list", "spare"} : \A w, d : w # t \/ d # c =>
           Of(x, w, d, kind2, who2, cls2) = Of(x, w, d, kind, who, cls)
      /\ \A w, d : w # n \/ d # c =>
           Of("stack", w, d, kind2, who2, cls2) = Of("stack", w, d, kind, who, cls)
  BY RedividedIs
<1> USE DEF Marked
<1>a. ListsOK(st, hp, kind, who, cls) /\ hp \in [Threads -> Heap] /\ st \in [Nodes -> [Classes -> Seq(Addr)]]
  BY DEF PlacesOK, HeapsOK
<1>2. k \in Seq(Addr)
  BY <1>0 DEF Lists
<1>3. /\ st2 \in [Nodes -> [Classes -> Seq(Addr)]]
      /\ st2[n][c] = k /\ \A m \in Nodes, d \in Classes : m # n \/ d # c => st2[m][d] = st[m][d]
  BY <1>0, <1>a, <1>2
<1>4. hp2[t] = h2 /\ \A u \in Threads \ {t} : hp2[u] = hp[u]
  BY <1>0, <1>a
<1>5. \A m \in Nodes, d \in Classes : Lists(st2[m][d], Of("stack", m, d, kind2, who2, cls2))
  <2> TAKE m \in Nodes, d \in Classes
  <2>1. CASE m = n /\ d = c
    BY <1>0, <1>1, <1>3, <2>1
  <2>2. CASE m # n \/ d # c
    <3>1. Lists(st[m][d], Of("stack", m, d, kind, who, cls))
      BY <1>a, Zenon DEF ListsOK
    <3>2. Of("stack", m, d, kind2, who2, cls2) = Of("stack", m, d, kind, who, cls) /\ st2[m][d] = st[m][d]
      BY <1>1, <1>3, <2>2
    <3> QED BY <3>1, <3>2
  <2> QED BY <2>1, <2>2
<1>6. \A u \in Threads, d \in Classes :
        /\ Lists(hp2[u].list[d], Of("list", u, d, kind2, who2, cls2))
        /\ Lists(hp2[u].spare[d], Of("spare", u, d, kind2, who2, cls2))
  <2> TAKE u \in Threads, d \in Classes
  <2>1. CASE u = t /\ d = c
    BY <1>0, <1>1, <1>4, <2>1 DEF HeapChanged
  <2>2. CASE u # t \/ d # c
    <3>1. /\ Lists(hp[u].list[d], Of("list", u, d, kind, who, cls))
          /\ Lists(hp[u].spare[d], Of("spare", u, d, kind, who, cls))
      BY <1>a, Zenon DEF ListsOK
    <3>2. /\ Of("list", u, d, kind2, who2, cls2) = Of("list", u, d, kind, who, cls)
          /\ Of("spare", u, d, kind2, who2, cls2) = Of("spare", u, d, kind, who, cls)
      BY <1>1, <2>2
    <3>3. hp2[u].list[d] = hp[u].list[d] /\ hp2[u].spare[d] = hp[u].spare[d]
      <4>1. CASE u = t
        BY <1>0, <1>4, <2>2, <4>1 DEF HeapChanged
      <4>2. CASE u # t
        BY <1>4, <4>2
      <4> QED BY <4>1, <4>2
    <3> QED BY <3>1, <3>2, <3>3
  <2> QED BY <2>1, <2>2
<1>7. ASSUME NEW a \in Addr
      PROVE  /\ kind2[a] = "stack" => who2[a] = NodeForPtr(a)
             /\ kind2[a] \in {"list", "spare"} => who2[a] \in Threads /\ NodeForPtr(a) = hp2[who2[a]].node
  <2>1. /\ kind[a] = "stack" => who[a] = NodeForPtr(a)
        /\ kind[a] \in {"list", "spare"} => who[a] \in Threads /\ NodeForPtr(a) = hp[who[a]].node
    BY <1>a DEF ListsOK
  <2>2. \A u \in Threads : hp2[u].node = hp[u].node
    BY <1>0, <1>4 DEF HeapChanged
  <2>3. CASE a \in P \cup L \cup S \cup K
    <3>1. a \in P => kind2[a] = kk
      BY DEF NewKind
    <3>2. a \in L \cup S => kind2[a] \in {"list", "spare"} /\ who2[a] = t
      BY DEF NewKind, NewWho, Redivided, Disjoint
    <3>3. a \in K => kind2[a] = "stack" /\ who2[a] = n
      <4> SUFFICES ASSUME a \in K PROVE kind2[a] = "stack" /\ who2[a] = n
        OBVIOUS
      <4>1. a \notin P /\ a \notin L /\ a \notin S
        BY DEF Redivided, Disjoint
      <4> QED BY <4>1 DEF NewKind, NewWho
    <3> QED BY <1>0, <2>2, <2>3, <3>1, <3>2, <3>3 DEF Listed, OnNode
  <2>4. CASE a \notin P \cup L \cup S \cup K
    <3>1. kind2[a] = kind[a] /\ who2[a] = who[a]
      BY <2>4 DEF NewKind, NewWho
    <3> QED BY <2>1, <2>2, <3>1
  <2> QED BY <2>3, <2>4
<1> QED BY <1>3, <1>5, <1>6, <1>7 DEF ListsOK

\* A block that was carved stays one.
Grows(kind, cls, kind2, cls2) ==
  \A a \in Addr : InRegion(a) /\ kind[a] # "none" => kind2[a] # "none" /\ cls2[a] = cls[a]

\* A step after which the allocator's places are right, and the program's but for x
\* as before.
Stepped(x, mp, kind, who, cls, bu2, st2, hp2, mp2, kind2, who2, cls2) ==
  /\ PlacesOK(bu2, st2, hp2, mp2, kind2, who2, cls2)
  /\ SameUses(x, mp, kind, who, cls, mp2, kind2, who2, cls2)
  /\ Grows(kind, cls, kind2, cls2)

\* A change of one PerThreadHeap.
Others(t, f, g) == \A u \in Threads \ {t} : g[u] = f[u]
Turns(t, v, f, g) == g = [f EXCEPT ![t] = v]

LEMMA HeapsChanged ==
  ASSUME NEW hp, NEW hp2, HeapsOK(hp), NEW t \in Threads, hp[t].state = "bound" \/ hp2 = hp,
         NEW st, NEW st2, NEW n, NEW c, NEW L, NEW S, NEW K,
         Refilled(st, hp, t, n, c, L, S, K, st2, hp2)
  PROVE  /\ HeapsOK(hp2) /\ Others(t, hp, hp2) /\ SameCaches(hp, hp2)
         /\ hp2[t].state = hp[t].state /\ hp2[t].node = hp[t].node
<1>0. PICK h2, l, s : HeapChanged(h2, hp[t], c, l, s) /\ hp2 = [hp EXCEPT ![t] = h2]
  BY DEF Refilled
<1>1. hp \in [Threads -> Heap] /\ \A u \in Threads : hp[u].state # "bound" => hp[u] = NoHeap(hp[u].state)
  BY DEF HeapsOK
<1>2. /\ h2 \in Heap /\ h2.state = hp[t].state /\ h2.cache = hp[t].cache /\ h2.bytes = hp[t].bytes
      /\ h2.node = hp[t].node
  BY <1>0 DEF HeapChanged
<1>3. hp2 \in [Threads -> Heap] /\ hp2[t] = h2 /\ \A u \in Threads \ {t} : hp2[u] = hp[u]
  BY <1>0, <1>1, <1>2
<1>4. ASSUME NEW u \in Threads PROVE hp2[u].state # "bound" => hp2[u] = NoHeap(hp2[u].state)
  <2>1. CASE u = t /\ hp[t].state = "bound"
    BY <1>2, <1>3, <2>1
  <2>2. CASE u # t \/ hp2 = hp
    <3>1. hp2[u] = hp[u]
      BY <1>3, <2>2
    <3> QED BY <1>1, <3>1
  <2> QED BY <2>1, <2>2
<1>5. \A u \in Threads : hp2[u].cache = hp[u].cache /\ hp2[u].bytes = hp[u].bytes
  BY <1>2, <1>3
<1> QED BY <1>2, <1>3, <1>4, <1>5 DEF HeapsOK, Others, SameCaches

\* Blocks of class c, which the program does not have but for x.
OldBlocks(U, x, c, kind, cls) ==
  \A a \in U : /\ InRegion(a) /\ kind[a] # "none" /\ cls[a] = c
               /\ a # x => ~ Used(kind[a])

\* Only the blocks' kinds and owners change.
Renamed(P, kk, ww, L, S, K, t, n, kind, who, kind2, who2) ==
  /\ Used(kk)
  /\ kind2 = NewKind(kind, P, kk, L, S, K) /\ who2 = NewWho(who, P, ww, L, S, K, t, n)

\* Blocks of one class that change hands.
LEMMA PlacesRedivided ==
  ASSUME NEW bu, NEW st, NEW hp, NEW mp, NEW kind, NEW who, NEW cls,
         PlacesOK(bu, st, hp, mp, kind, who, cls),
         NEW P, NEW L, NEW S, NEW K, NEW t \in Threads, NEW n \in Nodes, NEW c \in Classes,
         Redivided(P, L, S, K, t, n, c, kind, who, cls),
         NEW st2, NEW hp2, hp[t].state = "bound" \/ hp2 = hp, Refilled(st, hp, t, n, c, L, S, K, st2, hp2),
         NEW x, OldBlocks(P \cup L \cup S \cup K, x, c, kind, cls),
         P \subseteq {x}, NEW kk, NEW ww, NEW kind2, NEW who2,
         Renamed(P, kk, ww, L, S, K, t, n, kind, who, kind2, who2)
  PROVE  Stepped(x, mp, kind, who, cls, bu, st2, hp2, mp, kind2, who2, cls)
<1> USE DEF OldBlocks, Renamed
<1>1. PICK U : U = P \cup L \cup S \cup K
  OBVIOUS
<1>2. U \subseteq Addr
  BY <1>1 DEF Redivided
<1>3. kind \in [Addr -> Kinds] /\ cls \in [Addr -> Classes] /\ ChunksOK(bu, mp, kind, cls)
  BY DEF PlacesOK, ChunksOK
<1>4. kk \in Kinds /\ ~ Listed(kk) /\ kk \notin {"none", "cache"}
  BY DEF Used, Listed, Kinds
<1>5. NewCls(cls, P, L, S, K, c) = cls
  BY <1>3 DEF NewCls
<1>6. kind2 \in [Addr -> Kinds]
  <2>1. \A a \in Addr : kind2[a] \in Kinds
    BY <1>3, <1>4 DEF NewKind, Kinds
  <2>2. kind2 = [a \in Addr |-> kind2[a]]
    BY DEF NewKind
  <2> QED BY <2>1, <2>2
<1>7. \A a \in Addr \ U : kind2[a] = kind[a] /\ who2[a] = who[a]
  BY <1>1 DEF NewKind, NewWho
<1>8. \A a \in U : kind2[a] \notin {"none", "cache"}
  BY <1>1, <1>2, <1>4 DEF NewKind
<1>9. \A a \in U : InRegion(a) /\ kind[a] \notin {"none", "cache"}
  BY <1>1, <1>2, <1>3 DEF ChunksOK
<1>10. ChunksOK(bu, mp, kind2, cls)
  <2>1. \A a \in Addr : kind2[a] = "none" <=> kind[a] = "none"
    BY <1>7, <1>8, <1>9
  <2>2. \A a \in Addr : kind2[a] = "none" \/ kind2[a] = kind[a] \/ Used(kind2[a])
                         \/ IF InRegion(a) THEN kind2[a] # "cache" ELSE ~ Listed(kind2[a])
    BY <1>7, <1>8, <1>9
  <2> QED BY <1>3, <1>6, <2>1, <2>2, ChunksRelabelled
<1>11. ListsOK(st2, hp2, kind2, who2, cls) /\ st2 \in [Nodes -> [Classes -> Seq(Addr)]]
  <2>1. Marked(P, kk, ww, L, S, K, t, n, c, kind, who, cls, kind2, who2, cls)
    BY <1>4, <1>5 DEF Marked
  <2> QED BY <2>1, ListsRedivided
<1>12. HeapsOK(hp2) /\ SameCaches(hp, hp2)
  <2>1. HeapsOK(hp)
    BY DEF PlacesOK
  <2> QED BY <2>1, HeapsChanged
<1>13. CachesOK(hp2, mp, kind2, who2)
  <2>1. CachesOK(hp, mp, kind, who)
    BY DEF PlacesOK
  <2>2. SameCached(mp, kind, who, mp, kind2, who2)
    BY <1>7, <1>8, <1>9 DEF SameCached
  <2> QED BY <1>12, <2>1, <2>2, CachesStay
<1>14. PlacesOK(bu, st2, hp2, mp, kind2, who2, cls)
  BY <1>10, <1>11, <1>12, <1>13 DEF PlacesOK
<1>15. SameUses(x, mp, kind, who, cls, mp, kind2, who2, cls)
  <2>1. ASSUME NEW a \in Addr \ {x}, a \in U PROVE ~ Used(kind2[a]) /\ ~ Used(kind[a])
    <3>1. a \notin P
      OBVIOUS
    <3>2. a \in L \/ a \in S \/ a \in K
      BY <1>1, <2>1, <3>1
    <3>3. kind2[a] \in {"list", "spare", "stack"}
      BY <3>1, <3>2 DEF NewKind
    <3> QED BY <1>1, <2>1, <3>3 DEF Used
  <2> QED BY <1>7, <2>1 DEF SameUses
<1>16. Grows(kind, cls, kind2, cls)
  BY <1>7, <1>8 DEF Grows
<1> QED BY <1>14, <1>15, <1>16 DEF Stepped

\* The blocks on the lists of a thread and on a stack.
AreSpots(A, B, C, t, n, c, st, hp, kind, who, cls) ==
  /\ Lists(hp[t].list[c], A) /\ Lists(hp[t].spare[c], B) /\ Lists(st[n][c], C)
  /\ A \cup B \cup C \subseteq Addr /\ A \cap B = {} /\ A \cap C = {} /\ B \cap C = {}
  /\ \A a \in Addr : Spot(a, t, n, c, kind, who, cls) <=> a \in A \cup B \cup C
  /\ OnNode(A \cup B, hp[t].node) /\ OnNode(C, n)
  /\ \A a \in A \cup B \cup C : InRegion(a) /\ kind[a] # "none" /\ cls[a] = c /\ ~ Used(kind[a])

LEMMA SpotsAre ==
  ASSUME NEW bu, NEW st, NEW hp, NEW mp, NEW kind, NEW who, NEW cls,
         PlacesOK(bu, st, hp, mp, kind, who, cls),
         NEW t \in Threads, NEW n \in Nodes, NEW c \in Classes
  PROVE  AreSpots(Of("list", t, c, kind, who, cls), Of("spare", t, c, kind, who, cls),
                  Of("stack", n, c, kind, who, cls), t, n, c, st, hp, kind, who, cls)
<1> DEFINE A == Of("list", t, c, kind, who, cls)
           B == Of("spare", t, c, kind, who, cls)
           C == Of("stack", n, c, kind, who, cls)
<1>1. ListsOK(st, hp, kind, who, cls) /\ ChunksOK(bu, mp, kind, cls)
  BY DEF PlacesOK
<1>2. /\ Lists(hp[t].list[c], A) /\ Lists(hp[t].spare[c], B) /\ Lists(st[n][c], C)
  BY <1>1, Zenon DEF ListsOK
<1>3. A \cup B \cup C \subseteq Addr /\ A \cap B = {} /\ A \cap C = {} /\ B \cap C = {}
  BY DEF Of
<1>4. \A a \in Addr : Spot(a, t, n, c, kind, who, cls) <=> a \in A \cup B \cup C
  BY DEF Of, Spot
<1>5. OnNode(A \cup B, hp[t].node) /\ OnNode(C, n)
  BY <1>1 DEF Of, OnNode, ListsOK
<1>6. \A a \in A \cup B \cup C : InRegion(a) /\ kind[a] # "none" /\ cls[a] = c /\ ~ Used(kind[a])
  <2> TAKE a \in A \cup B \cup C
  <2>1. a \in Addr /\ cls[a] = c /\ kind[a] \in {"list", "spare", "stack"}
    BY DEF Of
  <2>2. InRegion(a)
    BY <1>1, <2>1 DEF ChunksOK, Listed
  <2> QED BY <2>1, <2>2 DEF Used
<1> HIDE DEF A, B, C
<1>7. AreSpots(A, B, C, t, n, c, st, hp, kind, who, cls)
  BY <1>2, <1>3, <1>4, <1>5, <1>6 DEF AreSpots
<1> QED BY <1>7 DEF A, B, C

\* Room for an object of this layout in the chunk x.
Room(x, size, align, mp, cls) ==
  IF InRegion(x) THEN IsSmall(size, align) /\ cls[x] = ClassOf(size, align)
  ELSE HeaderSize + Maximum(align, HeaderAlign) - 1 + size <= mp[x].len

\* alloc finds the chunk x for thread t, which comes to be of kind kk for ww.
Obtains(x, kk, ww, t, size, align, hp, mp, kind, who, cls, bu2, st2, hp2, mp2) ==
  \E kind2, who2, cls2 :
    /\ Stepped(x, mp, kind, who, cls, bu2, st2, hp2, mp2, kind2, who2, cls2)
    /\ x \in Addr /\ ~ Used(kind[x]) /\ kind2[x] = kk /\ who2[x] = ww
    /\ Room(x, size, align, mp2, cls2)
    /\ InRegion(x) => NodeForPtr(x) = hp2[t].node
    /\ Others(t, hp, hp2)

\* A PerThreadHeap h with a list, spare chain or stack of class c that has a block:
\* the chain the block is taken from, and what is made of the rest.
Takes(h, st, c, chain, st2, h2) ==
  \E own, batch :
    /\ own = IF h.list[c] # <<>> THEN h.list[c] ELSE h.spare[c]
    /\ chain = IF own # <<>> THEN own ELSE st[h.node][c]
    /\ batch = IF h.list[c] # <<>> \/ Len(chain) < RefillBatch THEN Len(chain) ELSE RefillBatch
    /\ chain # <<>>
    /\ st2 = IF own # <<>> THEN st ELSE [st EXCEPT ![h.node][c] = <<>>]
    /\ h2 = [h EXCEPT !.list[c] = SubSeq(chain, 2, batch),
                      !.spare[c] = IF h.list[c] # <<>> THEN @ ELSE SubSeq(chain, batch + 1, Len(chain))]

\* Thread t takes the first block of a list: its own, its spare chain or the stack.
LEMMA TakeKeeps ==
  ASSUME NEW bu, NEW st, NEW hp, NEW mp, NEW kind, NEW who, NEW cls,
         PlacesOK(bu, st, hp, mp, kind, who, cls),
         NEW t \in Threads, hp[t].state = "bound",
         NEW size, NEW align, IsSmall(size, align), NEW c \in Classes, c = ClassOf(size, align),
         NEW chain, NEW st2, NEW h2, Takes(hp[t], st, c, chain, st2, h2),
         NEW hp2, Turns(t, h2, hp, hp2),
         NEW kk, Used(kk), NEW ww
  PROVE  Obtains(Head(chain), kk, ww, t, size, align, hp, mp, kind, who, cls, bu, st2, hp2, mp)
<1> USE DEF Turns
<1>0. PICK h, n, p, A, B, C :
        /\ h = hp[t] /\ n = h.node /\ p = Head(chain)
        /\ A = Of("list", t, c, kind, who, cls) /\ B = Of("spare", t, c, kind, who, cls)
        /\ C = Of("stack", n, c, kind, who, cls)
  OBVIOUS
<1>a. Takes(h, st, c, chain, st2, h2)
  BY <1>0
<1>1. PICK own, batch :
        /\ own = IF h.list[c] # <<>> THEN h.list[c] ELSE h.spare[c]
        /\ chain = IF own # <<>> THEN own ELSE st[h.node][c]
        /\ batch = IF h.list[c] # <<>> \/ Len(chain) < RefillBatch THEN Len(chain) ELSE RefillBatch
        /\ chain # <<>>
        /\ st2 = IF own # <<>> THEN st ELSE [st EXCEPT ![h.node][c] = <<>>]
        /\ h2 = [h EXCEPT !.list[c] = SubSeq(chain, 2, batch),
                          !.spare[c] = IF h.list[c] # <<>> THEN @ ELSE SubSeq(chain, batch + 1, Len(chain))]
  BY <1>a DEF Takes
<1>2. h \in Heap /\ hp \in [Threads -> Heap] /\ st \in [Nodes -> [Classes -> Seq(Addr)]] /\ HeapsOK(hp)
  BY <1>0 DEF PlacesOK, HeapsOK
<1>3. n \in Nodes /\ h.list \in [Classes -> Seq(Addr)] /\ h.spare \in [Classes -> Seq(Addr)]
  BY <1>0, <1>2 DEF Heap
<1>4. /\ Lists(h.list[c], A) /\ Lists(h.spare[c], B) /\ Lists(st[n][c], C)
      /\ A \cup B \cup C \subseteq Addr /\ A \cap B = {} /\ A \cap C = {} /\ B \cap C = {}
      /\ \A a \in Addr : Spot(a, t, n, c, kind, who, cls) <=> a \in A \cup B \cup C
      /\ OnNode(A \cup B, n) /\ OnNode(C, n)
      /\ \A a \in A \cup B \cup C : InRegion(a) /\ kind[a] # "none" /\ cls[a] = c /\ ~ Used(kind[a])
  <2>1. AreSpots(A, B, C, t, n, c, st, hp, kind, who, cls)
    BY <1>0, <1>3, SpotsAre
  <2> QED BY <1>0, <2>1 DEF AreSpots
<1>5. PICK D : /\ D = IF h.list[c] # <<>> THEN A ELSE IF h.spare[c] # <<>> THEN B ELSE C
  OBVIOUS
<1>6. Lists(chain, D)
  BY <1>0, <1>1, <1>4, <1>5, Zenon
<1>7. chain \in Seq(Addr) /\ Len(chain) \in Nat \ {0}
  <2>1. chain \in Seq(Addr) /\ chain # <<>>
    BY <1>1, <1>6, Zenon DEF Lists
  <2> QED BY <2>1
<1>8. batch \in 1 .. Len(chain)
  <2>1. \/ batch = Len(chain)
        \/ batch = RefillBatch /\ ~ (Len(chain) < RefillBatch)
    BY <1>1, Zenon
  <2>2. RefillBatch \in Nat \ {0}
    BY AllocatorAssumption
  <2> QED BY <1>7, <2>1, <2>2
<1>9. PICK L, R : L = Elems(SubSeq(chain, 2, batch)) /\ R = Elems(SubSeq(chain, batch + 1, Len(chain)))
  OBVIOUS
<1>10. /\ Lists(SubSeq(chain, 2, batch), L) /\ Lists(SubSeq(chain, batch + 1, Len(chain)), R)
       /\ p \in Addr /\ p \notin L \cup R /\ L \cap R = {} /\ D = {p} \cup L \cup R
  <2>1. IsPopped(chain, D, batch)
    BY <1>6, <1>8, ListsPop
  <2> QED BY <1>0, <1>9, <2>1 DEF IsPopped
<1>11. PICK S, K, s, k : /\ S = IF h.list[c] # <<>> THEN B ELSE R
                         /\ K = IF own # <<>> THEN C ELSE {}
                         /\ s = IF h.list[c] # <<>> THEN h.spare[c] ELSE SubSeq(chain, batch + 1, Len(chain))
                         /\ k = IF own # <<>> THEN st[n][c] ELSE <<>>
  OBVIOUS
<1>12. h.list[c] # <<>> => R = {}
  <2> SUFFICES ASSUME h.list[c] # <<>> PROVE R = {}
    OBVIOUS
  <2>1. batch = Len(chain)
    BY <1>1
  <2>2. SubSeq(chain, batch + 1, Len(chain)) = <<>>
    BY <1>7, <2>1
  <2> QED BY <1>10, <2>2, ListsNone
<1>13. (h.list[c] = <<>> => A = {}) /\ (h.spare[c] = <<>> => B = {})
  BY <1>4, ListsNone
<1>14. {p} \cup L \cup S \cup K = A \cup B \cup C /\ Disjoint({p}, L, S, K)
  <2>1. CASE h.list[c] # <<>>
    <3>1. S = B /\ K = C /\ A = {p} \cup L
      BY <1>1, <1>5, <1>10, <1>11, <1>12, <2>1
    <3> QED BY <1>4, <1>10, <3>1 DEF Disjoint
  <2>2. CASE h.list[c] = <<>> /\ h.spare[c] # <<>>
    <3>1. S = R /\ K = C /\ B = {p} \cup L \cup R /\ A = {}
      BY <1>1, <1>5, <1>10, <1>11, <1>13, <2>2
    <3> QED BY <1>4, <1>10, <3>1 DEF Disjoint
  <2>3. CASE h.list[c] = <<>> /\ h.spare[c] = <<>>
    <3>1. S = R /\ K = {} /\ C = {p} \cup L \cup R /\ A = {} /\ B = {}
      BY <1>1, <1>5, <1>10, <1>11, <1>13, <2>3
    <3> QED BY <1>4, <1>10, <3>1 DEF Disjoint
  <2> QED BY <2>1, <2>2, <2>3
<1>15. Redivided({p}, L, S, K, t, n, c, kind, who, cls)
  BY <1>4, <1>14 DEF Redivided
<1>16. Lists(s, S) /\ Lists(k, K)
  BY <1>4, <1>10, <1>11, ListsNone
<1>17. OnNode(L \cup S, n) /\ OnNode(K, n) /\ NodeForPtr(p) = n
  <2>1. \A a \in A \cup B \cup C : NodeForPtr(a) = n
    BY <1>4 DEF OnNode
  <2> QED BY <1>14, <2>1 DEF OnNode
<1>18. PICK l : l = SubSeq(chain, 2, batch)
  OBVIOUS
<1>19. HeapChanged(h2, h, c, l, s) /\ h2.node = n
  <2>1. l \in Seq(Addr) /\ s \in Seq(Addr)
    BY <1>10, <1>16, <1>18 DEF Lists
  <2>2. h2 = [h EXCEPT !.list[c] = l, !.spare[c] = s]
    BY <1>1, <1>2, <1>3, <1>11, <1>18 DEF Heap
  <2>3. HeapChanged(h2, h, c, l, s)
    BY <1>2, <2>1, <2>2, HeapWith
  <2> QED BY <1>0, <2>3 DEF HeapChanged
<1>20. st2 = [st EXCEPT ![n][c] = k]
  BY <1>0, <1>1, <1>2, <1>3, <1>11
<1>21. Refilled(st, hp, t, n, c, L, S, K, st2, hp2)
  <2>1. Lists(l, L) /\ OnNode(L \cup S, hp[t].node) /\ HeapChanged(h2, hp[t], c, l, s)
    BY <1>0, <1>10, <1>17, <1>18, <1>19
  <2> QED BY <1>16, <1>17, <1>20, <2>1 DEF Refilled
<1>22. OldBlocks({p} \cup L \cup S \cup K, p, c, kind, cls)
  BY <1>4, <1>14 DEF OldBlocks
<1>23. PICK kind2, who2 : kind2 = NewKind(kind, {p}, kk, L, S, K) /\ who2 = NewWho(who, {p}, ww, L, S, K, t, n)
  OBVIOUS
<1>24. Stepped(p, mp, kind, who, cls, bu, st2, hp2, mp, kind2, who2, cls)
  <2>1. Renamed({p}, kk, ww, L, S, K, t, n, kind, who, kind2, who2)
    BY <1>23 DEF Renamed
  <2>2. {p} \subseteq {p}
    OBVIOUS
  <2> QED BY <1>3, <1>15, <1>21, <1>22, <2>1, <2>2, PlacesRedivided
<1>25. kind2[p] = kk /\ who2[p] = ww
  BY <1>10, <1>23 DEF NewKind, NewWho
<1>26. ~ Used(kind[p]) /\ InRegion(p) /\ cls[p] = c
  BY <1>4, <1>14
<1>27. Others(t, hp, hp2) /\ hp2[t] = h2
  BY <1>2 DEF Others
<1>28. Room(p, size, align, mp, cls) /\ NodeForPtr(p) = hp2[t].node
  BY <1>17, <1>19, <1>26, <1>27 DEF Room
<1> QED BY <1>0, <1>10, <1>24, <1>25, <1>26, <1>27, <1>28 DEF Obtains

-----------------------------------------------------------------------------
(* A bag is carved.                                                        *)

\* A block of class c in the bag that starts at first, in node n's region.
InBag(a, first, c, n) ==
  /\ a \in Nat /\ a \in Addr /\ InRegion(a) /\ NodeForPtr(a) = n
  /\ a % SizeForClass(c) = 0 /\ a - (a % BagSizeForClass(c)) = first

\* There is room for a bag of class c at first, above what was carved from node n.
IsFresh(first, c, n, bu) ==
  /\ first \in Nat /\ first % BagSizeForClass(c) = 0
  /\ NodeBase(n) + bu[n] <= first /\ first + BagSizeForClass(c) <= NodeBase(n) + RegionSize

\* The blocks of the bag.
LEMMA BagBlocksAre ==
  ASSUME NEW c \in Classes, NEW n \in Nodes, NEW bu, bu[n] \in Nat,
         NEW first, IsFresh(first, c, n, bu)
  PROVE  \E S : /\ Lists(BagBlocks(first, c), S) /\ BagBlocks(first, c) # <<>>
                /\ \A a \in S : InBag(a, first, c, n)
<1>1. PICK s, bag, cnt, b : /\ s = SizeForClass(c) /\ bag = BagSizeForClass(c) /\ cnt = bag \div s
                            /\ b = BagBlocks(first, c)
  OBVIOUS
<1>2. s \in Nat \ {0} /\ bag \in Nat \ {0} /\ s <= bag /\ bag % s = 0
  BY <1>1, BagIs
<1>3. /\ first \in Nat /\ first % bag = 0 /\ first % s = 0
      /\ NodeBase(n) \in Nat /\ NodeBase(n) <= first /\ first + bag <= NodeBase(n) + RegionSize
  <2>1. first \in Nat /\ first % bag = 0 /\ NodeBase(n) + bu[n] <= first /\ first + bag <= NodeBase(n) + RegionSize
    BY <1>1 DEF IsFresh
  <2>2. NodeBase(n) \in Nat
    BY NodeBaseIs
  <2>3. first \in Int
    BY <2>1
  <2>4. first % s = 0
    BY <1>2, <2>1, <2>3, MultipleOfMultiple
  <2> QED BY <2>1, <2>2, <2>4
<1>4. cnt \in Nat \ {0}
  <2>1. PICK k \in Int : bag = k * s
    <3>1. bag \in Int
      BY <1>2
    <3> QED BY <1>2, <3>1, Multiple
  <2>2. cnt = k
    <3>1. bag \in Int /\ bag = k * s + 0 /\ 0 \in 0 .. s - 1
      BY <1>2, <2>1
    <3> QED BY <1>1, <1>2, <3>1, Remainder
  <2>3. k > 0
    <3> SUFFICES ASSUME k <= 0 PROVE FALSE
      OBVIOUS
    <3>1. PICK d \in Nat : d = 0 - k
      OBVIOUS
    <3>2. d * s \in Nat /\ k * s = 0 - d * s
      <4>1. (k + d) * s = k * s + d * s
        BY <1>2, Products
      <4>2. k + d = 0 /\ 0 * s = 0 /\ k * s \in Int /\ d * s \in Nat
        BY <1>2, <3>1
      <4> QED BY <4>1, <4>2
    <3> QED BY <1>2, <2>1, <3>2
  <2> QED BY <2>2, <2>3
<1>5. b = [i \in 1 .. cnt |-> first + (cnt - i) * s]
  BY <1>1 DEF BagBlocks
<1>6. ASSUME NEW i \in 1 .. cnt
      PROVE  /\ (cnt - i) * s \in Nat /\ (cnt - i) * s + s <= bag
             /\ b[i] = first + (cnt - i) * s /\ InBag(b[i], first, c, n)
  <2>1. PICK k : k = cnt - i
    OBVIOUS
  <2>2. k \in 0 .. bag \div s - 1 /\ k \in Int
    BY <1>1, <1>4, <2>1
  <2>3. k * s \in Nat /\ k * s + s <= bag
    <3>1. bag \in Nat
      BY <1>2
    <3> QED BY <1>2, <2>2, <3>1, QuotientFits
  <2>4. PICK a : a = first + k * s
    OBVIOUS
  <2>5. a \in Nat /\ a \in Int /\ NodeBase(n) <= a /\ a < NodeBase(n) + RegionSize
    <3>1. RegionSize \in Nat
      BY ConstantsAre
    <3> QED BY <1>2, <1>3, <2>3, <2>4, <3>1
  <2>6. InRegion(a) /\ NodeForPtr(a) = n /\ a \in Addr
    BY <2>5, NodeIs
  <2>7. a % s = 0
    <3>1. k * s \in Int /\ (k * s) % s = 0
      BY <1>2, <2>2, NoRemainder
    <3>2. first \in Int
      BY <1>3
    <3> QED BY <1>2, <1>3, <2>4, <3>1, <3>2, SumOfMultiples
  <2>8. a % bag = k * s
    <3>1. PICK q \in Int : first = q * bag
      <4>1. first \in Int
        BY <1>3
      <4> QED BY <1>2, <1>3, <4>1, Multiple
    <3>2. PICK r : r = k * s
      OBVIOUS
    <3>3. r \in 0 .. bag - 1
      BY <1>2, <2>3, <3>2
    <3>4. a = q * bag + r
      BY <2>4, <3>1, <3>2
    <3> QED BY <1>2, <2>5, <3>2, <3>3, <3>4, Remainder
  <2>9. a - (a % bag) = first
    BY <1>3, <2>3, <2>4, <2>8
  <2>10. b[i] = a
    BY <1>5, <2>1, <2>4
  <2> QED BY <1>1, <2>1, <2>3, <2>4, <2>5, <2>6, <2>7, <2>9, <2>10 DEF InBag
<1>7. ASSUME NEW i \in 1 .. cnt, NEW j \in 1 .. cnt, b[i] = b[j], i < j PROVE FALSE
  <2>1. PICK x, y, d : x = cnt - i /\ y = cnt - j /\ d = j - i
    OBVIOUS
  <2>2. x \in Int /\ y \in Int /\ d \in Nat \ {0} /\ x = y + d
    BY <1>4, <1>7, <2>1
  <2>3. x * s = y * s + d * s
    BY <1>2, <2>2, Products
  <2>4. x * s = y * s
    <3>1. PICK u, v : u = x * s /\ v = y * s
      OBVIOUS
    <3>2. b[i] = first + u /\ b[j] = first + v /\ u \in Nat /\ v \in Nat
      BY <1>6, <2>1, <3>1
    <3>3. first + u = first + v /\ first \in Nat
      BY <1>3, <1>7, <3>2, Zenon
    <3>4. u = v
      BY <3>2, <3>3
    <3> QED BY <3>1, <3>4
  <2>5. d * s \in Nat \ {0}
    BY <1>2, <2>2
  <2>6. x * s \in Nat /\ y * s \in Nat
    BY <1>6, <2>1
  <2> QED BY <2>3, <2>4, <2>5, <2>6
<1>8. b \in Seq(Addr) /\ DOMAIN b = 1 .. cnt /\ Len(b) = cnt
  <2>1. \A i \in 1 .. cnt : b[i] \in Addr
    BY <1>6 DEF InBag
  <2> QED BY <1>4, <1>5, <2>1
<1>9. \A i, j \in DOMAIN b : b[i] = b[j] => i = j
  <2> SUFFICES ASSUME NEW i \in 1 .. cnt, NEW j \in 1 .. cnt, b[i] = b[j] PROVE i = j
    BY <1>8
  <2>1. i < j \/ j < i \/ i = j
    BY <1>4
  <2> QED BY <1>7, <2>1
<1>10. Lists(b, Elems(b)) /\ b # <<>>
  BY <1>4, <1>8, <1>9 DEF Lists
<1>11. \A a \in Elems(b) : InBag(a, first, c, n)
  BY <1>6, <1>8 DEF Elems
<1> QED BY <1>1, <1>10, <1>11

\* Carving changes no block there was, and none of the new ones were.
LEMMA FreshIsFree ==
  ASSUME NEW bu, NEW mp, NEW kind, NEW cls, ChunksOK(bu, mp, kind, cls),
         NEW c \in Classes, NEW n \in Nodes, NEW first, IsFresh(first, c, n, bu),
         NEW a, InBag(a, first, c, n)
  PROVE  kind[a] = "none"
<1> SUFFICES ASSUME kind[a] # "none" PROVE FALSE
  OBVIOUS
<1>1. a \in Addr /\ InRegion(a) /\ NodeForPtr(a) = n /\ a \in Nat /\ first <= a
  <2>1. BagSizeForClass(c) \in Nat \ {0}
    BY BagIs
  <2> QED BY <2>1 DEF InBag
<1>2. IsChunk(a, bu, mp, cls)
  BY <1>1, ChunkIs
<1>3. a + Ext(a, mp, cls) <= NodeBase(n) + bu[n] /\ Ext(a, mp, cls) \in Nat \ {0}
  BY <1>1, <1>2 DEF IsChunk
<1>4. NodeBase(n) \in Nat /\ bu[n] \in Nat /\ NodeBase(n) + bu[n] <= first /\ first \in Nat
  BY NodeBaseIs DEF IsFresh, ChunksOK
<1> QED BY <1>1, <1>3, <1>4

\* The blocks N of a new bag are kept apart from the old chunks.
NewBag(N, first, c, n, bu, bu2, kind, cls, kind2, cls2) ==
  /\ IsFresh(first, c, n, bu)
  /\ bu2 = [bu EXCEPT ![n] = first - NodeBase(n) + BagSizeForClass(c)]
  /\ \A a \in N : InBag(a, first, c, n) /\ kind2[a] # "cache" /\ cls2[a] = c
  /\ \A a \in Addr \ N : kind2[a] = kind[a] /\ cls2[a] = cls[a]
  /\ kind2 \in [Addr -> Kinds] /\ cls2 \in [Addr -> Classes]

LEMMA CarvedChunks ==
  ASSUME NEW bu, NEW mp, NEW kind, NEW cls, ChunksOK(bu, mp, kind, cls),
         NEW N, NEW first, NEW c \in Classes, NEW n \in Nodes, NEW bu2, NEW kind2, NEW cls2,
         NewBag(N, first, c, n, bu, bu2, kind, cls, kind2, cls2)
  PROVE  ChunksOK(bu2, mp, kind2, cls2)
<1>1. PICK bag : bag = BagSizeForClass(c)
  OBVIOUS
<1>2. bag \in Nat \ {0} /\ RegionSize \in Nat
  BY <1>1, BagIs, ConstantsAre
<1>3. /\ first \in Nat /\ NodeBase(n) + bu[n] <= first /\ first + bag <= NodeBase(n) + RegionSize
      /\ bu2 = [bu EXCEPT ![n] = first - NodeBase(n) + bag]
  BY <1>1 DEF NewBag, IsFresh
<1>4. bu \in [Nodes -> 0 .. RegionSize] /\ NodeBase(n) \in Nat
  BY NodeBaseIs DEF ChunksOK
<1>5. bu2 \in [Nodes -> 0 .. RegionSize] /\ NodeBase(n) + bu2[n] = first + bag /\ \A i \in Nodes : bu[i] <= bu2[i]
  <2>1. bu[n] \in 0 .. RegionSize
    BY <1>4
  <2>2. PICK v : v = first - NodeBase(n) + bag
    OBVIOUS
  <2>3. v \in 0 .. RegionSize /\ bu[n] <= v /\ NodeBase(n) + v = first + bag
    BY <1>2, <1>3, <1>4, <2>1, <2>2
  <2>4. bu2 = [bu EXCEPT ![n] = v]
    BY <1>3, <2>2
  <2> QED BY <1>4, <2>3, <2>4
<1>6. \A a \in Addr \ N : kind2[a] # "none" => kind[a] # "none" /\ cls2[a] = cls[a]
  BY DEF NewBag
<1>7. \A a \in N : /\ a \in Addr /\ InRegion(a) /\ NodeForPtr(a) = n /\ cls2[a] = c /\ kind2[a] # "cache"
                   /\ a % SizeForClass(c) = 0 /\ a - (a % BagSizeForClass(c)) = first
  BY DEF NewBag, InBag
<1>8. \A a \in N : Bag(a, cls2) = first
  BY <1>7 DEF Bag
<1>9. \A a \in Addr \ N : kind2[a] # "none" => Bag(a, cls2) = Bag(a, cls)
  BY <1>6 DEF Bag
<1>10. ASSUME NEW a \in Addr, kind2[a] # "none"
       PROVE  IF InRegion(a) THEN kind2[a] # "cache" /\ BlockOK(a, bu2, cls2)
              ELSE ~ Listed(kind2[a]) /\ MapOK(a, mp)
  <2>1. CASE a \in N
    <3>1. InRegion(a) /\ NodeForPtr(a) = n /\ cls2[a] = c /\ a % SizeForClass(c) = 0 /\ kind2[a] # "cache"
      BY <1>7, <2>1
    <3>2. Bag(a, cls2) = first /\ NodeBase(n) <= first /\ first + bag <= NodeBase(n) + bu2[n]
      <4>1. Bag(a, cls2) = first
        BY <1>8, <2>1
      <4>2. bu[n] \in Nat
        BY <1>4
      <4> QED BY <1>2, <1>3, <1>4, <1>5, <4>1, <4>2
    <3>3. BlockOK(a, bu2, cls2)
      BY <1>1, <3>1, <3>2 DEF BlockOK
    <3> QED BY <3>1, <3>3
  <2>2. CASE a \notin N
    <3>1. kind[a] # "none" /\ cls2[a] = cls[a] /\ Bag(a, cls2) = Bag(a, cls)
      BY <1>6, <1>9, <1>10, <2>2
    <3>2. IF InRegion(a) THEN kind[a] # "cache" /\ BlockOK(a, bu, cls)
          ELSE ~ Listed(kind[a]) /\ MapOK(a, mp)
      BY <3>1 DEF ChunksOK
    <3>3. kind2[a] = kind[a]
      BY <2>2 DEF NewBag
    <3>4. CASE InRegion(a)
      <4>1. kind[a] # "cache" /\ BlockOK(a, bu, cls)
        BY <3>2, <3>4
      <4>2. kind2[a] # "cache"
        BY <3>3, <4>1 DEF Listed
      <4>3. PICK i, z, e : i = NodeForPtr(a) /\ z = NodeBase(i) /\ e = Bag(a, cls) + BagSizeForClass(cls[a])
        OBVIOUS
      <4>4. a \in Int
        BY ConstantsAre DEF Addr
      <4>5. i \in Nodes /\ z \in Nat
        BY <3>4, <4>3, <4>4, NodeOf, NodeBaseIs
      <4>6. e \in Nat
        <5>1. Bag(a, cls) \in Nat /\ BagSizeForClass(cls[a]) \in Nat
          BY <3>1, <3>4, BlockIs
        <5> QED BY <4>3, <5>1
      <4>7. a % SizeForClass(cls[a]) = 0 /\ z <= Bag(a, cls) /\ e <= z + bu[i]
        BY <4>1, <4>3 DEF BlockOK
      <4>8. bu[i] \in Nat /\ bu2[i] \in Nat /\ bu[i] <= bu2[i]
        BY <1>4, <1>5, <4>5
      <4>9. e <= z + bu2[i]
        BY <4>5, <4>6, <4>7, <4>8
      <4>10. BlockOK(a, bu2, cls2)
        BY <3>1, <4>3, <4>7, <4>9 DEF BlockOK
      <4> QED BY <3>4, <4>2, <4>10
    <3>5. CASE ~ InRegion(a)
      BY <3>2, <3>3, <3>5
    <3> QED BY <3>4, <3>5
  <2> QED BY <2>1, <2>2
<1>11. ASSUME NEW a \in N, NEW b \in Addr \ N, kind2[b] # "none", InRegion(b)
       PROVE  BagsApart(a, b, cls2) /\ BagsApart(b, a, cls2)
  <2>1. kind[b] # "none" /\ cls2[b] = cls[b] /\ Bag(b, cls2) = Bag(b, cls)
    BY <1>6, <1>9, <1>11
  <2>2. PICK d, w, i, z : d = Bag(b, cls) /\ w = BagSizeForClass(cls[b]) /\ i = NodeForPtr(b) /\ z = NodeBase(i)
    OBVIOUS
  <2>3. d \in Nat /\ w \in Nat /\ z <= d /\ d + w <= z + bu[i]
    BY <1>11, <2>1, <2>2, BlockIs DEF BlockOK
  <2>4. b \in Int
    BY ConstantsAre DEF Addr
  <2>5. i \in Nodes
    BY <1>11, <2>2, <2>4, NodeOf
  <2>6. z \in Nat /\ \A k \in Nodes : i < k => z + RegionSize <= NodeBase(k)
    BY <2>2, <2>5, NodeBaseIs
  <2>7. \A k \in Nodes : n < k => NodeBase(n) + RegionSize <= NodeBase(k)
    BY NodeBaseIs
  <2>8. bu[i] \in 0 .. RegionSize
    BY <1>4, <2>5
  <2>9. i < n \/ i = n \/ n < i
    BY <2>5 DEF Nodes
  <2>10. d + w <= first \/ first + bag <= d
    <3>1. CASE i < n
      <4>1. z + RegionSize <= NodeBase(n)
        BY <2>6, <3>1
      <4>2. bu[n] \in Nat
        BY <1>4
      <4> QED BY <1>2, <1>3, <1>4, <2>3, <2>6, <2>8, <4>1, <4>2
    <3>2. CASE i = n
      BY <1>2, <1>3, <1>4, <2>2, <2>3, <2>8, <3>2
    <3>3. CASE n < i
      <4>1. NodeBase(n) + RegionSize <= z
        BY <2>2, <2>5, <2>7, <3>3
      <4> QED BY <1>2, <1>3, <1>4, <2>3, <2>6, <4>1
    <3> QED BY <2>9, <3>1, <3>2, <3>3
  <2>11. Bag(a, cls2) = first /\ BagSizeForClass(cls2[a]) = bag
    BY <1>1, <1>7, <1>8
  <2>12. Bag(b, cls2) = d /\ BagSizeForClass(cls2[b]) = w
    BY <2>1, <2>2
  <2> QED BY <2>10, <2>11, <2>12 DEF BagsApart
<1>12. ASSUME NEW a \in Addr, NEW b \in Addr, kind2[a] # "none", kind2[b] # "none", a # b
       PROVE  /\ InRegion(a) /\ InRegion(b) => SameBag(a, b, cls2) \/ BagsApart(a, b, cls2)
              /\ ~ InRegion(a) /\ ~ InRegion(b) => MapsApart(a, b, mp)
  <2>1. CASE a \in N /\ b \in N
    <3>1. Bag(a, cls2) = Bag(b, cls2) /\ cls2[a] = cls2[b] /\ InRegion(a)
      BY <1>7, <1>8, <2>1
    <3> QED BY <3>1 DEF SameBag
  <2>2. CASE a \in N /\ b \notin N
    BY <1>7, <1>11, <1>12, <2>2
  <2>3. CASE a \notin N /\ b \in N
    BY <1>7, <1>11, <1>12, <2>3
  <2>4. CASE a \notin N /\ b \notin N
    <3>1. /\ kind[a] # "none" /\ cls2[a] = cls[a] /\ Bag(a, cls2) = Bag(a, cls)
          /\ kind[b] # "none" /\ cls2[b] = cls[b] /\ Bag(b, cls2) = Bag(b, cls)
      BY <1>6, <1>9, <1>12, <2>4
    <3>2. /\ InRegion(a) /\ InRegion(b) => SameBag(a, b, cls) \/ BagsApart(a, b, cls)
          /\ ~ InRegion(a) /\ ~ InRegion(b) => MapsApart(a, b, mp)
      BY <1>12, <3>1 DEF ChunksOK
    <3> QED BY <3>1, <3>2 DEF SameBag, BagsApart
  <2> QED BY <2>1, <2>2, <2>3, <2>4
<1>13. ASSUME NEW raw \in Maps PROVE mp[raw].len = 0 <=> kind2[raw] = "none"
  <2>1. raw \in Addr /\ ~ InRegion(raw)
    BY ConstantsAre, AllocatorAssumption DEF Addr, InRegion
  <2>2. raw \notin N
    BY <1>7, <2>1
  <2>3. kind2[raw] = "none" <=> kind[raw] = "none"
    BY <2>1, <2>2 DEF NewBag, Listed
  <2> QED BY <2>3 DEF ChunksOK
<1>14. mp \in [Maps -> [len : Nat, node : Nodes]] /\ kind2 \in [Addr -> Kinds] /\ cls2 \in [Addr -> Classes]
  BY DEF ChunksOK, NewBag
<1> QED BY <1>5, <1>10, <1>12, <1>13, <1>14 DEF ChunksOK

\* Thread t carves a bag: it has the first block, its list the others.
Carves(hp, bu, t, c, first, bu2, hp2) ==
  LET n == hp[t].node
  IN /\ hp[t].list[c] = <<>>
     /\ IsFresh(first, c, n, bu)
     /\ bu2 = [bu EXCEPT ![n] = first - NodeBase(n) + BagSizeForClass(c)]
     /\ hp2 = [hp EXCEPT ![t].list[c] = Tail(BagBlocks(first, c))]

LEMMA CarveKeeps ==
  ASSUME NEW bu, NEW st, NEW hp, NEW mp, NEW kind, NEW who, NEW cls,
         PlacesOK(bu, st, hp, mp, kind, who, cls),
         NEW t \in Threads, hp[t].state = "bound",
         NEW size, NEW align, IsSmall(size, align), NEW c \in Classes, c = ClassOf(size, align),
         NEW first, NEW bu2, NEW hp2, Carves(hp, bu, t, c, first, bu2, hp2),
         NEW kk, Used(kk), NEW ww
  PROVE  Obtains(Head(BagBlocks(first, c)), kk, ww, t, size, align, hp, mp, kind, who, cls, bu2, st, hp2, mp)
<1>1. PICK h, n, b, S, K :
        /\ h = hp[t] /\ n = h.node /\ b = BagBlocks(first, c)
        /\ S = Of("spare", t, c, kind, who, cls) /\ K = Of("stack", n, c, kind, who, cls)
  OBVIOUS
<1>2. /\ h.list[c] = <<>> /\ IsFresh(first, c, n, bu)
      /\ bu2 = [bu EXCEPT ![n] = first - NodeBase(n) + BagSizeForClass(c)]
      /\ hp2 = [hp EXCEPT ![t].list[c] = Tail(b)]
  BY <1>1 DEF Carves
<1>3. /\ h \in Heap /\ hp \in [Threads -> Heap] /\ st \in [Nodes -> [Classes -> Seq(Addr)]] /\ HeapsOK(hp)
      /\ ChunksOK(bu, mp, kind, cls)
  BY <1>1 DEF PlacesOK, HeapsOK
<1>4. n \in Nodes /\ h.list \in [Classes -> Seq(Addr)] /\ h.spare \in [Classes -> Seq(Addr)] /\ h.state = "bound"
  BY <1>1, <1>3 DEF Heap
<1>5. bu[n] \in Nat /\ kind \in [Addr -> Kinds] /\ cls \in [Addr -> Classes]
  BY <1>3, <1>4 DEF ChunksOK
<1>6. PICK N : Lists(b, N) /\ b # <<>> /\ \A a \in N : InBag(a, first, c, n)
  BY <1>1, <1>2, <1>4, <1>5, BagBlocksAre
<1>7. PICK l, p, L : l = SubSeq(b, 2, Len(b)) /\ p = Head(b) /\ L = Elems(l)
  OBVIOUS
<1>8. /\ b \in Seq(Addr) /\ Len(b) \in Nat \ {0}
  <2>1. b \in Seq(Addr)
    BY <1>6 DEF Lists
  <2> QED BY <1>6, <2>1
<1>9. Lists(l, L) /\ p \in Addr /\ p \notin L /\ N = {p} \cup L /\ l = Tail(b)
  <2>1. IsPopped(b, N, Len(b))
    <3>1. Len(b) \in 1 .. Len(b)
      BY <1>8
    <3> QED BY <1>6, <3>1, ListsPop
  <2>2. PICK r : r = SubSeq(b, Len(b) + 1, Len(b))
    OBVIOUS
  <2>3. r = <<>>
    BY <1>8, <2>2
  <2>4. Elems(r) = {}
    BY <2>3 DEF Elems
  <2>5. Lists(l, L) /\ p \in Addr /\ p \notin L \cup Elems(r) /\ N = {p} \cup L \cup Elems(r)
    BY <1>7, <2>1, <2>2 DEF IsPopped
  <2>6. l = Tail(b)
    BY <1>7, <1>8
  <2> QED BY <2>4, <2>5, <2>6
<1>10. \A a \in N : a \in Addr /\ InRegion(a) /\ NodeForPtr(a) = n /\ kind[a] = "none"
  <2> TAKE a \in N
  <2>1. InBag(a, first, c, n)
    BY <1>6
  <2>2. kind[a] = "none"
    BY <1>2, <1>3, <1>4, <2>1, FreshIsFree
  <2> QED BY <2>1, <2>2 DEF InBag
<1>11. /\ Lists(h.spare[c], S) /\ Lists(st[n][c], K)
       /\ S \cup K \subseteq Addr /\ S \cap K = {}
       /\ \A a \in Addr : Spot(a, t, n, c, kind, who, cls) <=> a \in S \cup K
       /\ OnNode(S, n) /\ OnNode(K, n)
       /\ \A a \in S \cup K : cls[a] = c /\ kind[a] # "none" /\ ~ Used(kind[a])
  <2>1. PICK A : A = Of("list", t, c, kind, who, cls)
    OBVIOUS
  <2>2. AreSpots(A, S, K, t, n, c, st, hp, kind, who, cls)
    BY <1>1, <1>4, <2>1, SpotsAre
  <2>3. A = {}
    <3>1. Lists(h.list[c], A)
      BY <1>1, <2>2 DEF AreSpots
    <3> QED BY <1>2, <3>1, ListsNone
  <2> QED BY <1>1, <2>2, <2>3 DEF AreSpots, OnNode
<1>12. (\A a \in S : kind[a] = "spare" /\ who[a] = t) /\ (\A a \in K : kind[a] = "stack" /\ who[a] = n)
  BY <1>1 DEF Of
<1>13. PICK kind2, who2, cls2 :
         /\ kind2 = NewKind(kind, {p}, kk, L, S, K) /\ who2 = NewWho(who, {p}, ww, L, S, K, t, n)
         /\ cls2 = NewCls(cls, {p}, L, S, K, c)
  OBVIOUS
<1>14. Marked({p}, kk, ww, L, S, K, t, n, c, kind, who, cls, kind2, who2, cls2)
  <2>1. Disjoint({p}, L, S, K)
    BY <1>9, <1>10, <1>11 DEF Disjoint
  <2>2. \A a \in {p} \cup L \cup S \cup K : Listed(kind[a]) => a \in S \cup K
    BY <1>9, <1>10 DEF Listed
  <2>3. {p} \cup L \cup S \cup K \subseteq Addr
    BY <1>9, <1>10, <1>11
  <2>4. Redivided({p}, L, S, K, t, n, c, kind, who, cls)
    BY <1>11, <2>1, <2>2, <2>3 DEF Redivided
  <2> QED BY <1>13, <2>4 DEF Marked, Used, Listed
<1>15. Refilled(st, hp, t, n, c, L, S, K, st, hp2)
  <2>1. PICK s, k, h2 : s = h.spare[c] /\ k = st[n][c] /\ h2 = [h EXCEPT !.list[c] = l, !.spare[c] = s]
    OBVIOUS
  <2>2. l \in Seq(Addr) /\ s \in Seq(Addr)
    BY <1>4, <1>9, <2>1 DEF Lists
  <2>3. HeapChanged(h2, hp[t], c, l, s)
    <3>1. HeapChanged(h2, h, c, l, s)
      BY <1>3, <2>1, <2>2, HeapWith
    <3> QED BY <1>1, <3>1
  <2>4. hp2 = [hp EXCEPT ![t] = h2]
    <3>1. [h EXCEPT !.list[c] = l] = h2
      BY <1>3, <1>4, <2>1 DEF Heap
    <3>2. hp2 = [hp EXCEPT ![t] = [h EXCEPT !.list[c] = l]]
      BY <1>1, <1>2, <1>3, <1>9
    <3> QED BY <3>1, <3>2
  <2>5. st = [st EXCEPT ![n][c] = k]
    BY <1>3, <1>4, <2>1
  <2>6. OnNode(L \cup S, hp[t].node)
    BY <1>1, <1>9, <1>10, <1>11 DEF OnNode
  <2>7. Lists(s, S) /\ Lists(k, K)
    BY <1>11, <2>1
  <2> QED BY <1>9, <1>11, <2>3, <2>4, <2>5, <2>6, <2>7 DEF Refilled
<1>16. ListsOK(st, hp2, kind2, who2, cls2)
  BY <1>4, <1>14, <1>15, ListsRedivided
<1>17. /\ HeapsOK(hp2) /\ SameCaches(hp, hp2) /\ Others(t, hp, hp2) /\ hp2[t].node = n
  BY <1>1, <1>3, <1>15, HeapsChanged
<1>18. kk \in Kinds /\ kk \notin {"none", "cache", "list", "spare", "stack"}
  BY DEF Used, Kinds
<1>19. \A a \in Addr \ N : kind2[a] = kind[a] /\ cls2[a] = cls[a] /\ who2[a] = who[a]
  <2> TAKE a \in Addr \ N
  <2>1. a # p /\ a \notin L
    BY <1>9
  <2>2. CASE a \in S
    BY <1>11, <1>12, <1>13, <2>1, <2>2 DEF NewKind, NewCls, NewWho
  <2>3. CASE a \in K
    BY <1>11, <1>12, <1>13, <2>1, <2>3 DEF NewKind, NewCls, NewWho
  <2>4. CASE a \notin S \cup K
    BY <1>13, <2>1, <2>4 DEF NewKind, NewCls, NewWho
  <2> QED BY <2>2, <2>3, <2>4
<1>20. \A a \in N : cls2[a] = c /\ kind2[a] \in {kk, "list"}
  BY <1>9, <1>10, <1>13 DEF NewKind, NewCls
<1>21. kind2[p] = kk /\ who2[p] = ww /\ \A a \in L : kind2[a] = "list"
  BY <1>9, <1>10, <1>13 DEF NewKind, NewWho
<1>22. kind2 \in [Addr -> Kinds] /\ cls2 \in [Addr -> Classes]
  <2>1. \A a \in Addr : kind2[a] \in Kinds /\ cls2[a] \in Classes
    BY <1>5, <1>18, <1>19, <1>20 DEF Kinds
  <2>2. kind2 = [a \in Addr |-> kind2[a]] /\ cls2 = [a \in Addr |-> cls2[a]]
    BY <1>13 DEF NewKind, NewCls
  <2> QED BY <2>1, <2>2
<1>23. ChunksOK(bu2, mp, kind2, cls2)
  <2>1. \A a \in N : InBag(a, first, c, n) /\ kind2[a] # "cache" /\ cls2[a] = c
    BY <1>6, <1>18, <1>20
  <2>2. NewBag(N, first, c, n, bu, bu2, kind, cls, kind2, cls2)
    BY <1>2, <1>19, <1>22, <2>1 DEF NewBag
  <2> QED BY <1>3, <1>4, <2>2, CarvedChunks
<1>24. CachesOK(hp2, mp, kind2, who2)
  <2>1. CachesOK(hp, mp, kind, who)
    BY DEF PlacesOK
  <2>2. SameCached(mp, kind, who, mp, kind2, who2)
    BY <1>10, <1>18, <1>19, <1>20 DEF SameCached
  <2> QED BY <1>17, <2>1, <2>2, CachesStay
<1>25. PlacesOK(bu2, st, hp2, mp, kind2, who2, cls2)
  BY <1>3, <1>16, <1>17, <1>23, <1>24 DEF PlacesOK
<1>26. SameUses(p, mp, kind, who, cls, mp, kind2, who2, cls2)
  <2>1. ASSUME NEW a \in Addr \ {p}, a \in N PROVE ~ Used(kind[a]) /\ ~ Used(kind2[a])
    BY <1>9, <1>10, <1>21, <2>1 DEF Used
  <2> QED BY <1>19, <2>1 DEF SameUses
<1>27. Grows(kind, cls, kind2, cls2)
  BY <1>10, <1>19 DEF Grows
<1>28. Stepped(p, mp, kind, who, cls, bu2, st, hp2, mp, kind2, who2, cls2)
  BY <1>25, <1>26, <1>27 DEF Stepped
<1>29. ~ Used(kind[p]) /\ InRegion(p) /\ cls2[p] = c /\ NodeForPtr(p) = hp2[t].node
  BY <1>9, <1>10, <1>17, <1>20 DEF Used
<1>30. Room(p, size, align, mp, cls2)
  BY <1>29 DEF Room
<1>31. p = Head(BagBlocks(first, c))
  BY <1>1, <1>7
<1> QED BY <1>9, <1>17, <1>21, <1>28, <1>29, <1>30, <1>31 DEF Obtains

-----------------------------------------------------------------------------
(* Mappings.                                                               *)

\* f, but v at x.
At(f, x, v) == [a \in Addr |-> IF a = x THEN v ELSE f[a]]

LEMMA AtIs ==
  ASSUME NEW f, NEW x \in Addr, NEW v, NEW g, g = At(f, x, v)
  PROVE  g[x] = v /\ \A a \in Addr \ {x} : g[a] = f[a]
BY DEF At

\* A mapping is no block.
LEMMA MapIs ==
  ASSUME NEW raw \in Maps
  PROVE  /\ raw \in Addr /\ raw \in Nat /\ ~ InRegion(raw) /\ RegionEnd <= raw /\ raw % PageSize = 0
BY ConstantsAre, AllocatorAssumption DEF Addr, InRegion

\* The chunks, when some are given back to the kernel and others change hands.
Given(mp, kind, mp2, kind2) ==
  /\ kind2 \in [Addr -> Kinds] /\ mp2 \in [Maps -> [len : Nat, node : Nodes]]
  /\ \A a \in Addr : kind2[a] # "none" =>
       kind[a] # "none" /\ IF InRegion(a) THEN kind2[a] # "cache" ELSE ~ Listed(kind2[a])
  /\ \A raw \in Maps : IF kind2[raw] = "none" THEN mp2[raw].len = 0 ELSE mp2[raw] = mp[raw]

LEMMA ChunksGiven ==
  ASSUME NEW bu, NEW mp, NEW kind, NEW cls, ChunksOK(bu, mp, kind, cls),
         NEW mp2, NEW kind2, Given(mp, kind, mp2, kind2)
  PROVE  ChunksOK(bu, mp2, kind2, cls)
<1> USE DEF Given
<1>1. ASSUME NEW a \in Addr, kind2[a] # "none", ~ InRegion(a) PROVE MapOK(a, mp) /\ mp2[a] = mp[a]
  <2>1. MapOK(a, mp)
    BY <1>1 DEF ChunksOK
  <2> QED BY <1>1, <2>1 DEF MapOK
<1>2. ASSUME NEW a \in Addr, kind2[a] # "none"
      PROVE  IF InRegion(a) THEN kind2[a] # "cache" /\ BlockOK(a, bu, cls)
             ELSE ~ Listed(kind2[a]) /\ MapOK(a, mp2)
  <2>1. CASE InRegion(a)
    BY <1>2, <2>1 DEF ChunksOK
  <2>2. CASE ~ InRegion(a)
    BY <1>1, <1>2, <2>2 DEF MapOK
  <2> QED BY <2>1, <2>2
<1>3. ASSUME NEW a \in Addr, NEW b \in Addr, kind2[a] # "none", kind2[b] # "none", a # b
      PROVE  /\ InRegion(a) /\ InRegion(b) => SameBag(a, b, cls) \/ BagsApart(a, b, cls)
             /\ ~ InRegion(a) /\ ~ InRegion(b) => MapsApart(a, b, mp2)
  <2>1. /\ InRegion(a) /\ InRegion(b) => SameBag(a, b, cls) \/ BagsApart(a, b, cls)
        /\ ~ InRegion(a) /\ ~ InRegion(b) => MapsApart(a, b, mp)
    BY <1>3 DEF ChunksOK
  <2>2. ~ InRegion(a) /\ ~ InRegion(b) => MapsApart(a, b, mp2)
    BY <1>1, <1>3, <2>1 DEF MapsApart
  <2> QED BY <2>1, <2>2
<1>4. ASSUME NEW raw \in Maps PROVE mp2[raw].len = 0 <=> kind2[raw] = "none"
  <2>1. raw \in Addr /\ ~ InRegion(raw)
    BY MapIs
  <2>2. kind2[raw] # "none" => mp2[raw].len # 0
    BY <2>1, <1>1 DEF MapOK
  <2> QED BY <2>2
<1>5. bu \in [Nodes -> 0 .. RegionSize] /\ cls \in [Addr -> Classes]
  BY DEF ChunksOK
<1> QED BY <1>2, <1>3, <1>4, <1>5 DEF ChunksOK

\* The caches, when only thread t's changes.
OtherCaches(t, mp, kind, who, mp2, kind2, who2) ==
  \A a \in Addr : (kind[a] = "cache" /\ who[a] # t) \/ (kind2[a] = "cache" /\ who2[a] # t) =>
    kind2[a] = kind[a] /\ who2[a] = who[a] /\ mp2[a] = mp[a]

LEMMA CachesChanged ==
  ASSUME NEW hp, NEW mp, NEW kind, NEW who, CachesOK(hp, mp, kind, who), NEW t \in Threads,
         NEW hp2, NEW mp2, NEW kind2, NEW who2, Others(t, hp, hp2),
         CacheOK(t, hp2[t], mp2, kind2, who2), OtherCaches(t, mp, kind, who, mp2, kind2, who2)
  PROVE  CachesOK(hp2, mp2, kind2, who2)
<1> USE DEF OtherCaches, Others
<1>1. ASSUME NEW u \in Threads, u # t PROVE CacheOK(u, hp2[u], mp2, kind2, who2)
  <2>1. CacheOK(u, hp[u], mp, kind, who)
    BY DEF CachesOK
  <2>2. PICK es : es = hp[u].cache
    OBVIOUS
  <2>3. /\ es \in Seq(Entries) /\ Distinct(es)
        /\ MapsOf(es) = {a \in Addr : kind[a] = "cache" /\ who[a] = u}
        /\ \A i \in DOMAIN es : es[i].size = mp[es[i].map].len
        /\ hp[u].bytes = Pages(es, Len(es)) /\ hp[u].bytes <= MaxCacheBytes /\ Len(es) <= CacheSlots
    BY <2>1, <2>2 DEF CacheOK
  <2>4. \A a : a \in {b \in Addr : kind2[b] = "cache" /\ who2[b] = u} <=> a \in MapsOf(es)
    BY <1>1, <2>3
  <2>5. MapsOf(es) = {a \in Addr : kind2[a] = "cache" /\ who2[a] = u}
    BY <2>4, Zenon
  <2>6. \A i \in DOMAIN es : es[i].map \in MapsOf(es)
    BY DEF MapsOf
  <2>7. \A i \in DOMAIN es : es[i].size = mp2[es[i].map].len
    BY <1>1, <2>3, <2>6
  <2>8. hp2[u].cache = es /\ hp2[u].bytes = hp[u].bytes
    BY <1>1, <2>2
  <2> QED BY <2>3, <2>5, <2>7, <2>8 DEF CacheOK
<1>2. \A a \in Addr : kind2[a] = "cache" => who2[a] \in Threads
  BY DEF CachesOK
<1> QED BY <1>1, <1>2 DEF CachesOK

\* A PerThreadHeap with another cache.
Recached(h2, h, es, b) ==
  /\ h2 \in Heap /\ h2.cache = es /\ h2.bytes = b
  /\ h2.state = h.state /\ h2.node = h.node /\ h2.list = h.list /\ h2.spare = h.spare

LEMMA RecachedIs ==
  ASSUME NEW h \in Heap, NEW es \in Seq(Entries), NEW b \in Nat,
         NEW h2, h2 = [h EXCEPT !.cache = es, !.bytes = b]
  PROVE  Recached(h2, h, es, b)
BY DEF Heap, Recached

\* The size of a mapping.
LEMMA NeedIs ==
  ASSUME NEW size \in Nat \ {0}, NEW align \in Powers, NEW need, need = LargeAllocSize(size, align), need # 0
  PROVE  /\ need \in Nat \ {0} /\ need % PageSize = 0
         /\ HeaderSize + Maximum(align, HeaderAlign) - 1 + size <= need
<1>1. PICK unit, v : unit = Maximum(align, HeaderAlign) /\ v = HeaderSize + unit - 1 + size
  OBVIOUS
<1>2. unit \in Nat \ {0}
  BY <1>1, PaddingIs
<1>3. HeaderSize \in Nat /\ PageSize \in Nat \ {0}
  BY LayoutsAssumption
<1>4. v \in Int /\ v > 0
  BY <1>1, <1>2, <1>3
<1>5. PICK y : y = (v + PageSize - 1) - ((v + PageSize - 1) % PageSize)
  OBVIOUS
<1>6. y \in Int /\ y % PageSize = 0 /\ v <= y
  BY <1>3, <1>4, <1>5, NextMultiple
<1>7. need = y
  BY <1>1, <1>5 DEF LargeAllocSize, AlignUp
<1> QED BY <1>1, <1>4, <1>6, <1>7

\* take finds the mapping x for this length in the cache of h, and removes it.
CacheTakes(h, need, x, len, h2) ==
  \E i, e : /\ i = TakeIndex(h.cache, need) /\ i # 0 /\ e = h.cache[i] /\ x = e.map /\ len = e.size
            /\ h2 = [h EXCEPT !.cache = SwapRemove(@, i), !.bytes = @ - e.size]

\* Thread t finds the mapping x in its cache, for this layout.
MapFound(hp, t, size, align, x, len, h2) ==
  \E need : need = LargeAllocSize(size, align) /\ need # 0 /\ CacheTakes(hp[t], need, x, len, h2)

\* Thread t finds a mapping in its cache.
LEMMA CacheTakeKeeps ==
  ASSUME NEW bu, NEW st, NEW hp, NEW mp, NEW kind, NEW who, NEW cls,
         PlacesOK(bu, st, hp, mp, kind, who, cls), NEW t \in Threads,
         NEW size \in Nat \ {0}, NEW align \in Powers,
         NEW x, NEW len, NEW h2, MapFound(hp, t, size, align, x, len, h2), NEW hp2, Turns(t, h2, hp, hp2),
         NEW kk, Used(kk), NEW ww
  PROVE  /\ Obtains(x, kk, ww, t, size, align, hp, mp, kind, who, cls, bu, st, hp2, mp)
         /\ x \in Maps /\ len = mp[x].len
<1>00. PICK need : need = LargeAllocSize(size, align) /\ need # 0 /\ CacheTakes(hp[t], need, x, len, h2)
  BY DEF MapFound
<1>0. PICK i, e : /\ i = TakeIndex(hp[t].cache, need) /\ i # 0 /\ e = hp[t].cache[i] /\ x = e.map /\ len = e.size
                  /\ h2 = [hp[t] EXCEPT !.cache = SwapRemove(@, i), !.bytes = @ - e.size]
  BY <1>00 DEF CacheTakes
<1> USE DEF Turns
<1>1. /\ CacheOK(t, hp[t], mp, kind, who) /\ HeapsOK(hp) /\ hp \in [Threads -> Heap] /\ hp[t] \in Heap
      /\ ChunksOK(bu, mp, kind, cls)
  BY DEF PlacesOK, CachesOK, HeapsOK
<1>2. PICK es, fs : es = hp[t].cache /\ fs = SwapRemove(es, i) /\ x = e.map
  BY <1>0
<1>3. /\ es \in Seq(Entries) /\ Distinct(es)
      /\ MapsOf(es) = {a \in Addr : kind[a] = "cache" /\ who[a] = t}
      /\ \A k \in DOMAIN es : es[k].size = mp[es[k].map].len
      /\ hp[t].bytes = Pages(es, Len(es)) /\ hp[t].bytes <= MaxCacheBytes /\ Len(es) <= CacheSlots
  BY <1>1, <1>2 DEF CacheOK
<1>4. /\ need \in Nat \ {0} /\ need \in Nat /\ HeaderSize + Maximum(align, HeaderAlign) - 1 + size <= need
  BY <1>00, NeedIs
<1>5. i \in DOMAIN es /\ es[i].size >= need /\ e = es[i]
  BY <1>0, <1>2, <1>3, <1>4, TakeIndexIs
<1>6. x \in Maps /\ e.size \in Nat /\ e.size = mp[x].len /\ x \in MapsOf(es)
  <2>1. e \in Entries
    BY <1>3, <1>5
  <2> QED BY <1>2, <1>3, <1>5, <2>1 DEF Entries, MapsOf
<1>7. x \in Addr /\ ~ InRegion(x) /\ kind[x] = "cache" /\ who[x] = t
  BY <1>3, <1>6, MapIs
<1>8. /\ fs \in Seq(Entries) /\ Len(fs) = Len(es) - 1 /\ Within(fs, es)
      /\ Distinct(fs) /\ MapsOf(fs) = MapsOf(es) \ {x}
      /\ Pages(fs, Len(fs)) = Pages(es, Len(es)) - e.size
  <2>1. /\ fs \in Seq(Entries) /\ Len(fs) = Len(es) - 1 /\ Within(fs, es)
        /\ Distinct(es) => Distinct(fs) /\ MapsOf(fs) = MapsOf(es) \ {es[i].map}
        /\ Pages(fs, Len(fs)) = Pages(es, Len(es)) - es[i].size
    <3>1. es \in Seq(Entries) /\ i \in DOMAIN es /\ fs = SwapRemove(es, i)
      BY <1>2, <1>3, <1>5
    <3> HIDE DEF Turns
    <3> QED BY <3>1, SwapRemoveIs
  <2> QED BY <1>2, <1>3, <1>5, <2>1, Zenon
<1>9. Pages(fs, Len(fs)) \in Nat /\ Len(es) \in Nat /\ Len(fs) \in 0 .. Len(fs)
  <2>1. Len(fs) \in Nat /\ Len(es) \in Nat
    BY <1>3, <1>8
  <2>2. Len(fs) \in 0 .. Len(fs)
    BY <2>1
  <2> QED BY <1>8, <2>1, <2>2, PagesIs
<1>10. h2 = [hp[t] EXCEPT !.cache = fs, !.bytes = @ - e.size]
  BY <1>0, <1>2
<1>11. /\ h2 \in Heap /\ h2.cache = fs /\ h2.bytes = Pages(fs, Len(fs))
       /\ h2.state = hp[t].state /\ h2.node = hp[t].node /\ h2.list = hp[t].list /\ h2.spare = hp[t].spare
  <2>1. PICK h, b : h = hp[t] /\ b = Pages(fs, Len(fs))
    OBVIOUS
  <2>2. h \in Heap /\ b \in Nat /\ h2 = [h EXCEPT !.cache = fs, !.bytes = b]
    BY <1>1, <1>3, <1>8, <1>9, <1>10, <2>1
  <2>3. Recached(h2, h, fs, b)
    BY <1>8, <2>2, RecachedIs
  <2> QED BY <2>1, <2>3 DEF Recached
<1>12. hp2[t] = h2 /\ hp2 \in [Threads -> Heap] /\ \A u \in Threads \ {t} : hp2[u] = hp[u]
  BY <1>1, <1>11
<1>13. PICK kind2, who2 : kind2 = At(kind, x, kk) /\ who2 = At(who, x, ww)
  OBVIOUS
<1>14. /\ kind2[x] = kk /\ who2[x] = ww
       /\ \A a \in Addr \ {x} : kind2[a] = kind[a] /\ who2[a] = who[a]
  BY <1>7, <1>13, AtIs
<1>15. kk \in Kinds /\ kk \notin {"none", "cache", "list", "spare", "stack"}
  BY DEF Used, Kinds
<1>16. ChunksOK(bu, mp, kind2, cls)
  <2>1. kind \in [Addr -> Kinds] /\ mp \in [Maps -> [len : Nat, node : Nodes]]
    BY <1>1 DEF ChunksOK
  <2>2. kind2 \in [Addr -> Kinds]
    BY <1>13, <1>15, <2>1 DEF At
  <2>3. \A a \in Addr : kind2[a] # "none" =>
          kind[a] # "none" /\ IF InRegion(a) THEN kind2[a] # "cache" ELSE ~ Listed(kind2[a])
    <3> TAKE a \in Addr
    <3>1. kind[a] # "none" => IF InRegion(a) THEN kind[a] # "cache" ELSE ~ Listed(kind[a])
      BY <1>1 DEF ChunksOK
    <3> QED BY <1>7, <1>14, <1>15, <3>1 DEF Listed
  <2>4. \A raw \in Maps : IF kind2[raw] = "none" THEN mp[raw].len = 0 ELSE mp[raw] = mp[raw]
    <3> TAKE raw \in Maps
    <3>1. raw \in Addr /\ (kind[raw] = "none" => mp[raw].len = 0)
      BY <1>1, MapIs DEF ChunksOK
    <3> QED BY <1>14, <1>15, <3>1
  <2>5. Given(mp, kind, mp, kind2)
    BY <2>1, <2>2, <2>3, <2>4 DEF Given
  <2> QED BY <1>1, <2>5, ChunksGiven
<1>17. ListsOK(st, hp2, kind2, who2, cls)
  <2>1. SameLists(hp, hp2)
    BY <1>11, <1>12 DEF SameLists
  <2>2. SameListed(kind, who, cls, kind2, who2, cls)
    BY <1>7, <1>14, <1>15 DEF SameListed, Listed
  <2>3. ListsOK(st, hp, kind, who, cls)
    BY DEF PlacesOK
  <2> QED BY <2>1, <2>2, <2>3, ListsStay
<1>18. Others(t, hp, hp2)
  BY <1>12 DEF Others
<1>19. CachesOK(hp2, mp, kind2, who2)
  <2>1. MapsOf(fs) = {a \in Addr : kind2[a] = "cache" /\ who2[a] = t}
    BY <1>3, <1>8, <1>14, <1>15
  <2>2. \A k \in DOMAIN fs : fs[k].size = mp[fs[k].map].len
    BY <1>3, <1>8 DEF Within
  <2>3. Pages(fs, Len(fs)) <= MaxCacheBytes /\ Len(fs) <= CacheSlots
    <3>1. PICK v, w : v = Pages(es, Len(es)) /\ w = Pages(fs, Len(fs))
      OBVIOUS
    <3>2. v \in Nat /\ v <= MaxCacheBytes /\ w = v - e.size /\ w \in Nat
      BY <1>1, <1>3, <1>8, <1>9, <3>1 DEF Heap
    <3>3. w <= MaxCacheBytes
      BY <1>6, <3>2, LargeCacheAssumption
    <3>4. Len(fs) <= CacheSlots
      BY <1>3, <1>8, <1>9, LargeCacheAssumption
    <3> QED BY <3>1, <3>3, <3>4
  <2>4. CacheOK(t, h2, mp, kind2, who2)
    BY <1>8, <1>11, <2>1, <2>2, <2>3 DEF CacheOK
  <2>5. OtherCaches(t, mp, kind, who, mp, kind2, who2)
    BY <1>7, <1>14, <1>15 DEF OtherCaches
  <2>6. CachesOK(hp, mp, kind, who) /\ CacheOK(t, hp2[t], mp, kind2, who2)
    BY <1>12, <2>4 DEF PlacesOK
  <2> QED BY <1>18, <2>5, <2>6, CachesChanged
<1>20. HeapsOK(hp2)
  <2>1. ASSUME NEW u \in Threads PROVE hp2[u].state # "bound" => hp2[u] = NoHeap(hp2[u].state)
    <3>1. hp[u].state # "bound" => hp[u] = NoHeap(hp[u].state)
      BY <1>1 DEF HeapsOK
    <3>2. CASE u # t
      BY <1>12, <3>1, <3>2
    <3>3. CASE u = t
      <4>1. hp[t].state # "bound" => hp[t].cache = <<>>
        BY <3>1, <3>3 DEF NoHeap
      <4>2. hp[t].state = "bound"
        BY <1>2, <1>5, <4>1
      <4> QED BY <1>11, <1>12, <3>3, <4>2
    <3> QED BY <3>2, <3>3
  <2> QED BY <1>12, <2>1 DEF HeapsOK
<1>21. PlacesOK(bu, st, hp2, mp, kind2, who2, cls)
  BY <1>16, <1>17, <1>19, <1>20 DEF PlacesOK
<1>22. SameUses(x, mp, kind, who, cls, mp, kind2, who2, cls) /\ Grows(kind, cls, kind2, cls)
  BY <1>7, <1>14 DEF SameUses, Grows
<1>23. Room(x, size, align, mp, cls)
  <2>1. PICK v : v = HeaderSize + Maximum(align, HeaderAlign) - 1 + size
    OBVIOUS
  <2>2. v \in Int
    BY <2>1, PaddingIs, LayoutsAssumption
  <2>3. v <= mp[x].len
    BY <1>4, <1>5, <1>6, <2>1, <2>2
  <2> QED BY <1>7, <2>1, <2>3 DEF Room
<1>24. ~ Used(kind[x])
  BY <1>7 DEF Used
<1> QED BY <1>0, <1>6, <1>7, <1>14, <1>18, <1>21, <1>22, <1>23, <1>24 DEF Obtains, Stepped

\* The kernel has room for a mapping of this length at raw.
FreeAt(raw, len, mp) ==
  /\ raw \in Maps /\ raw + len <= Top
  /\ \A m \in Maps : mp[m].len # 0 => raw + len <= m \/ m + mp[m].len <= raw

Mapped(raw, len, node, mp, mp2) == mp2 = [mp EXCEPT ![raw] = [len |-> len, node |-> node]]

\* Thread t gets a new mapping.
LEMMA MmapKeeps ==
  ASSUME NEW bu, NEW st, NEW hp, NEW mp, NEW kind, NEW who, NEW cls,
         PlacesOK(bu, st, hp, mp, kind, who, cls), NEW t \in Threads,
         NEW size \in Nat \ {0}, NEW align \in Powers, NEW need, need = LargeAllocSize(size, align), need # 0,
         NEW x, FreeAt(x, need, mp), NEW node \in Nodes,
         NEW mp2, Mapped(x, need, node, mp, mp2),
         NEW kk, Used(kk), NEW ww
  PROVE  Obtains(x, kk, ww, t, size, align, hp, mp, kind, who, cls, bu, st, hp, mp2) /\ mp2[x].len = need
<1> USE DEF Mapped
<1>1. /\ ChunksOK(bu, mp, kind, cls) /\ mp \in [Maps -> [len : Nat, node : Nodes]]
      /\ kind \in [Addr -> Kinds] /\ cls \in [Addr -> Classes] /\ bu \in [Nodes -> 0 .. RegionSize]
  BY DEF PlacesOK, ChunksOK
<1>2. /\ need \in Nat \ {0} /\ need % PageSize = 0
      /\ HeaderSize + Maximum(align, HeaderAlign) - 1 + size <= need
  BY NeedIs
<1>3. /\ x \in Maps /\ x \in Addr /\ x \in Nat /\ ~ InRegion(x) /\ x + need <= Top
      /\ \A m \in Maps : mp[m].len # 0 => x + need <= m \/ m + mp[m].len <= x
  BY MapIs DEF FreeAt
<1>4. kind[x] = "none"
  <2>1. mp[x].len \in Nat
    BY <1>1, <1>3
  <2>2. mp[x].len = 0
    BY <1>2, <1>3, <2>1
  <2> QED BY <1>1, <1>3, <2>2 DEF ChunksOK
<1>5. PICK r : r = [len |-> need, node |-> node]
  OBVIOUS
<1>6. r \in [len : Nat, node : Nodes] /\ r.len = need
  BY <1>2, <1>5
<1>7. mp2 = [mp EXCEPT ![x] = r]
  BY <1>5
<1>8. /\ mp2 \in [Maps -> [len : Nat, node : Nodes]] /\ mp2[x].len = need
      /\ \A m \in Maps \ {x} : mp2[m] = mp[m]
  BY <1>1, <1>3, <1>6, <1>7
<1>9. PICK kind2, who2 : kind2 = At(kind, x, kk) /\ who2 = At(who, x, ww)
  OBVIOUS
<1>10. /\ kind2[x] = kk /\ who2[x] = ww
       /\ \A a \in Addr \ {x} : kind2[a] = kind[a] /\ who2[a] = who[a]
  BY <1>3, <1>9, AtIs
<1>11. kk \in Kinds /\ kk \notin {"none", "cache", "list", "spare", "stack"}
  BY DEF Used, Kinds
<1>12. ASSUME NEW a \in Addr \ {x}, kind[a] # "none", ~ InRegion(a)
       PROVE  /\ a \in Maps /\ mp2[a] = mp[a] /\ MapOK(a, mp) /\ MapOK(a, mp2)
              /\ MapsApart(a, x, mp2) /\ MapsApart(x, a, mp2)
  <2>1. MapOK(a, mp)
    BY <1>1, <1>12 DEF ChunksOK
  <2>2. a \in Maps /\ mp[a].len # 0 /\ mp2[a] = mp[a]
    BY <1>8, <1>12, <2>1 DEF MapOK
  <2>3. x + need <= a \/ a + mp[a].len <= x
    BY <1>3, <2>2
  <2>4. MapsApart(a, x, mp2) /\ MapsApart(x, a, mp2)
    BY <1>8, <2>2, <2>3 DEF MapsApart
  <2>5. MapOK(a, mp2)
    BY <2>1, <2>2 DEF MapOK
  <2> QED BY <2>1, <2>2, <2>4, <2>5
<1>13. ChunksOK(bu, mp2, kind2, cls)
  <2>1. kind2 \in [Addr -> Kinds]
    BY <1>1, <1>9, <1>11 DEF At
  <2>2. ASSUME NEW a \in Addr, kind2[a] # "none"
        PROVE  IF InRegion(a) THEN kind2[a] # "cache" /\ BlockOK(a, bu, cls)
               ELSE ~ Listed(kind2[a]) /\ MapOK(a, mp2)
    <3>1. CASE a = x
      <4>1. MapOK(x, mp2)
        BY <1>2, <1>3, <1>8 DEF MapOK
      <4> QED BY <1>3, <1>10, <1>11, <3>1, <4>1 DEF Listed
    <3>2. CASE a # x
      <4>1. kind2[a] = kind[a] /\ kind[a] # "none"
        BY <1>10, <2>2, <3>2
      <4>2. IF InRegion(a) THEN kind[a] # "cache" /\ BlockOK(a, bu, cls)
            ELSE ~ Listed(kind[a]) /\ MapOK(a, mp)
        BY <1>1, <4>1 DEF ChunksOK
      <4> QED BY <1>12, <3>2, <4>1, <4>2
    <3> QED BY <3>1, <3>2
  <2>3. ASSUME NEW a \in Addr, NEW b \in Addr, kind2[a] # "none", kind2[b] # "none", a # b
        PROVE  /\ InRegion(a) /\ InRegion(b) => SameBag(a, b, cls) \/ BagsApart(a, b, cls)
               /\ ~ InRegion(a) /\ ~ InRegion(b) => MapsApart(a, b, mp2)
    <3>1. CASE a = x
      BY <1>3, <1>10, <1>12, <2>3, <3>1
    <3>2. CASE b = x
      BY <1>3, <1>10, <1>12, <2>3, <3>2
    <3>3. CASE a # x /\ b # x
      <4>1. kind[a] # "none" /\ kind[b] # "none"
        BY <1>10, <2>3, <3>3
      <4>2. /\ InRegion(a) /\ InRegion(b) => SameBag(a, b, cls) \/ BagsApart(a, b, cls)
            /\ ~ InRegion(a) /\ ~ InRegion(b) => MapsApart(a, b, mp)
        BY <1>1, <2>3, <4>1 DEF ChunksOK
      <4>3. ~ InRegion(a) /\ ~ InRegion(b) => mp2[a] = mp[a] /\ mp2[b] = mp[b]
        BY <1>12, <3>3, <4>1
      <4> QED BY <4>2, <4>3 DEF MapsApart
    <3> QED BY <3>1, <3>2, <3>3
  <2>4. ASSUME NEW raw \in Maps PROVE mp2[raw].len = 0 <=> kind2[raw] = "none"
    <3>1. raw \in Addr
      BY MapIs
    <3>2. CASE raw = x
      BY <1>2, <1>8, <1>10, <1>11, <3>2
    <3>3. CASE raw # x
      BY <1>1, <1>8, <1>10, <3>1, <3>3 DEF ChunksOK
    <3> QED BY <3>2, <3>3
  <2> QED BY <1>1, <1>8, <2>1, <2>2, <2>3, <2>4 DEF ChunksOK
<1>14. ListsOK(st, hp, kind2, who2, cls)
  <2>1. SameLists(hp, hp)
    BY DEF SameLists
  <2>2. SameListed(kind, who, cls, kind2, who2, cls)
    BY <1>4, <1>10, <1>11 DEF SameListed, Listed
  <2>3. ListsOK(st, hp, kind, who, cls)
    BY DEF PlacesOK
  <2> QED BY <2>1, <2>2, <2>3, ListsStay
<1>15. CachesOK(hp, mp2, kind2, who2)
  <2>1. SameCaches(hp, hp)
    BY DEF SameCaches
  <2>2. SameCached(mp, kind, who, mp2, kind2, who2)
    <3> SUFFICES ASSUME NEW a \in Addr, kind[a] = "cache" \/ kind2[a] = "cache"
                 PROVE  kind2[a] = kind[a] /\ who2[a] = who[a] /\ mp2[a] = mp[a]
      BY DEF SameCached
    <3>1. a # x
      BY <1>4, <1>10, <1>11
    <3>2. kind2[a] = kind[a] /\ who2[a] = who[a] /\ kind[a] = "cache"
      BY <1>10, <3>1
    <3>3. ~ InRegion(a)
      BY <1>1, <3>2 DEF ChunksOK
    <3> QED BY <1>12, <3>1, <3>2, <3>3
  <2>3. CachesOK(hp, mp, kind, who)
    BY DEF PlacesOK
  <2> QED BY <2>1, <2>2, <2>3, CachesStay
<1>16. PlacesOK(bu, st, hp, mp2, kind2, who2, cls)
  BY <1>13, <1>14, <1>15 DEF PlacesOK
<1>17. SameUses(x, mp, kind, who, cls, mp2, kind2, who2, cls)
  <2>1. ASSUME NEW a \in Addr \ {x}, Used(kind[a]), ~ InRegion(a) PROVE mp2[a] = mp[a]
    BY <1>12, <2>1 DEF Used
  <2> QED BY <1>10, <2>1 DEF SameUses
<1>18. Grows(kind, cls, kind2, cls)
  BY <1>4, <1>10 DEF Grows
<1>19. Room(x, size, align, mp2, cls) /\ ~ Used(kind[x]) /\ Others(t, hp, hp)
  BY <1>2, <1>3, <1>4, <1>8 DEF Room, Used, Others
<1>20. Stepped(x, mp, kind, who, cls, bu, st, hp, mp2, kind2, who2, cls)
  BY <1>16, <1>17, <1>18 DEF Stepped
<1> QED BY <1>3, <1>8, <1>10, <1>19, <1>20 DEF Obtains

-----------------------------------------------------------------------------
(* Blocks and mappings that are given back.                                *)

\* build_max_cache_table clamps to numbers.
LEMMA MaxThreadCacheIs ==
  ASSUME NEW c \in Classes
  PROVE  MaxThreadCache(c) \in Nat
<1>1. PICK q, f, g : q = BagSizeForClass(c) \div SizeForClass(c) /\ f = CacheFloor /\ g = CacheCeil
  OBVIOUS
<1>2. q \in Nat
  <2>1. PICK b, s : b = BagSizeForClass(c) /\ s = SizeForClass(c)
    OBVIOUS
  <2>2. b \in Nat \ {0} /\ s \in Nat \ {0}
    BY <2>1, BagIs
  <2>3. b \div s \in Nat
    BY <2>2
  <2> QED BY <1>1, <2>1, <2>3
<1>3. f \in Nat /\ g \in Nat
  BY <1>1, AllocatorAssumption
<1> QED BY <1>1, <1>2, <1>3 DEF MaxThreadCache

\* Thread t gives back the block x of class c: to its list, whose cold end may go to
\* the stack, or to the stack of another node.
GivesBlock(x, c, t, st, hp, st2, hp2) ==
  LET h == hp[t]
      n == NodeForPtr(x)
      list == <<x>> \o h.list[c]
  IN \/ /\ IsLocal(h, n)
        /\ \E keep \in 0 .. Len(list) :
             /\ hp2 = [hp EXCEPT ![t] = [h EXCEPT !.list[c] = SubSeq(list, 1, keep)]]
             /\ st2 = [st EXCEPT ![n][c] = SubSeq(list, keep + 1, Len(list)) \o @]
     \/ hp2 = hp /\ st2 = [st EXCEPT ![n][c] = <<x>> \o @]

LEMMA GiveBlockKeeps ==
  ASSUME NEW bu, NEW st, NEW hp, NEW mp, NEW kind, NEW who, NEW cls,
         PlacesOK(bu, st, hp, mp, kind, who, cls), NEW t \in Threads,
         NEW x \in Addr, kind[x] = "obj", InRegion(x), NEW c, c = cls[x],
         NEW st2, NEW hp2, GivesBlock(x, c, t, st, hp, st2, hp2)
  PROVE  \E kind2, who2 :
           /\ Stepped(x, mp, kind, who, cls, bu, st2, hp2, mp, kind2, who2, cls)
           /\ kind2[x] \in {"list", "stack"} /\ Others(t, hp, hp2)
<1>1. PICK h, n, A, B, C :
        /\ h = hp[t] /\ n = NodeForPtr(x)
        /\ A = Of("list", t, c, kind, who, cls) /\ B = Of("spare", t, c, kind, who, cls)
        /\ C = Of("stack", n, c, kind, who, cls)
  OBVIOUS
<1>2. /\ h \in Heap /\ hp \in [Threads -> Heap] /\ st \in [Nodes -> [Classes -> Seq(Addr)]] /\ HeapsOK(hp)
      /\ ChunksOK(bu, mp, kind, cls) /\ c \in Classes
  BY <1>1 DEF PlacesOK, HeapsOK, ChunksOK
<1>3. h.list \in [Classes -> Seq(Addr)] /\ h.spare \in [Classes -> Seq(Addr)] /\ h.node \in Nodes
  BY <1>2 DEF Heap
<1>4. x \in Int /\ n \in Nodes
  <2>1. x \in Int
    BY ConstantsAre DEF Addr
  <2> QED BY <1>1, <2>1, NodeOf
<1>5. /\ Lists(h.list[c], A) /\ Lists(h.spare[c], B) /\ Lists(st[n][c], C)
      /\ A \cup B \cup C \subseteq Addr /\ A \cap B = {} /\ A \cap C = {} /\ B \cap C = {}
      /\ \A a \in Addr : Spot(a, t, n, c, kind, who, cls) <=> a \in A \cup B \cup C
      /\ OnNode(A \cup B, h.node) /\ OnNode(C, n)
      /\ \A a \in A \cup B \cup C : InRegion(a) /\ kind[a] # "none" /\ cls[a] = c /\ ~ Used(kind[a])
  <2>1. AreSpots(A, B, C, t, n, c, st, hp, kind, who, cls)
    BY <1>1, <1>2, <1>4, SpotsAre
  <2> QED BY <1>1, <2>1 DEF AreSpots
<1>6. x \notin A \cup B \cup C
  BY <1>5 DEF Used
<1>7. ASSUME NEW L, NEW K, NEW l, NEW k, Lists(l, L), Lists(k, K), L \cup K = A \cup C \cup {x}, L \cap K = {},
             OnNode(L, h.node), OnNode(K, n),
             hp2 = [hp EXCEPT ![t] = [h EXCEPT !.list[c] = l]], st2 = [st EXCEPT ![n][c] = k],
             h.state = "bound" \/ hp2 = hp
      PROVE  \E kind2, who2 :
               /\ Stepped(x, mp, kind, who, cls, bu, st2, hp2, mp, kind2, who2, cls)
               /\ kind2[x] \in {"list", "stack"} /\ Others(t, hp, hp2)
  <2>1. PICK s, h2 : s = h.spare[c] /\ h2 = [h EXCEPT !.list[c] = l, !.spare[c] = s]
    OBVIOUS
  <2>2. l \in Seq(Addr) /\ s \in Seq(Addr)
    BY <1>2, <1>3, <1>7, <2>1 DEF Lists
  <2>3. HeapChanged(h2, h, c, l, s)
    BY <1>2, <2>1, <2>2, HeapWith
  <2>4. [h EXCEPT !.list[c] = l] = h2
    BY <1>2, <1>3, <2>1 DEF Heap
  <2>5. hp2 = [hp EXCEPT ![t] = h2]
    BY <1>7, <2>4
  <2>6. OnNode(L \cup B, hp[t].node) /\ HeapChanged(h2, hp[t], c, l, s) /\ Lists(s, B)
    BY <1>1, <1>5, <1>7, <2>1, <2>3 DEF OnNode
  <2>7. Refilled(st, hp, t, n, c, L, B, K, st2, hp2)
    BY <1>7, <2>5, <2>6 DEF Refilled
  <2>8. {} \cup L \cup B \cup K = A \cup B \cup C \cup {x}
    BY <1>7
  <2>9. Redivided({}, L, B, K, t, n, c, kind, who, cls)
    <3>1. Disjoint({}, L, B, K)
      BY <1>5, <1>6, <1>7 DEF Disjoint
    <3>2. \A a \in {} \cup L \cup B \cup K : Listed(kind[a]) => Spot(a, t, n, c, kind, who, cls)
      BY <1>5, <2>8 DEF Listed
    <3> QED BY <1>5, <2>8, <3>1, <3>2 DEF Redivided
  <2>10. OldBlocks({} \cup L \cup B \cup K, x, c, kind, cls)
    BY <1>5, <2>8 DEF OldBlocks
  <2>11. PICK kind2, who2 : kind2 = NewKind(kind, {}, "obj", L, B, K) /\ who2 = NewWho(who, {}, 0, L, B, K, t, n)
    OBVIOUS
  <2>12. Renamed({}, "obj", 0, L, B, K, t, n, kind, who, kind2, who2)
    BY <2>11 DEF Renamed, Used
  <2>13. hp[t].state = "bound" \/ hp2 = hp
    BY <1>1, <1>7
  <2>14. {} \subseteq {x}
    OBVIOUS
  <2>15. Stepped(x, mp, kind, who, cls, bu, st2, hp2, mp, kind2, who2, cls)
    BY <1>2, <1>4, <2>7, <2>9, <2>10, <2>12, <2>13, <2>14, PlacesRedivided
  <2>16. kind2[x] \in {"list", "stack"}
    <3>1. x \in L \cup K /\ x \notin B
      BY <1>6, <1>7
    <3> QED BY <2>11, <3>1 DEF NewKind
  <2>17. Others(t, hp, hp2)
    BY <1>2, <2>5 DEF Others
  <2> QED BY <2>15, <2>16, <2>17
<1>8. Lists(<<x>>, {x})
  BY ListsOne
<1>9. CASE IsLocal(h, n) /\ \E keep \in 0 .. Len(<<x>> \o h.list[c]) :
             /\ hp2 = [hp EXCEPT ![t] = [h EXCEPT !.list[c] = SubSeq(<<x>> \o h.list[c], 1, keep)]]
             /\ st2 = [st EXCEPT ![n][c] = SubSeq(<<x>> \o h.list[c], keep + 1, Len(<<x>> \o h.list[c])) \o @]
  <2>1. PICK r, keep : /\ r = <<x>> \o h.list[c] /\ keep \in 0 .. Len(r)
                       /\ hp2 = [hp EXCEPT ![t] = [h EXCEPT !.list[c] = SubSeq(r, 1, keep)]]
                       /\ st2 = [st EXCEPT ![n][c] = SubSeq(r, keep + 1, Len(r)) \o @]
    BY <1>9, Zenon
  <2>2. h.state = "bound" /\ h.node = n
    BY <1>9 DEF IsLocal
  <2>3. PICK D : D = {x} \cup A
    OBVIOUS
  <2>4. Lists(r, D)
    <3>1. {x} \cap A = {}
      BY <1>6
    <3> QED BY <1>5, <1>8, <2>1, <2>3, <3>1, ListsJoin
  <2>5. PICK l, q, L, R : l = SubSeq(r, 1, keep) /\ q = SubSeq(r, keep + 1, Len(r)) /\ L = Elems(l) /\ R = Elems(q)
    OBVIOUS
  <2>6. Lists(l, L) /\ Lists(q, R) /\ L \cap R = {} /\ D = L \cup R
    <3>1. IsSplit(r, D, keep)
      BY <2>1, <2>4, ListsSplit
    <3> QED BY <2>5, <3>1 DEF IsSplit
  <2>7. PICK k, K : k = q \o st[n][c] /\ K = R \cup C
    OBVIOUS
  <2>8. Lists(k, K)
    <3>1. R \cap C = {}
      BY <1>5, <1>6, <2>3, <2>6
    <3> QED BY <1>5, <2>6, <2>7, <3>1, ListsJoin
  <2>9. L \cup K = A \cup C \cup {x} /\ L \cap K = {}
    BY <1>5, <1>6, <2>3, <2>6, <2>7
  <2>10. OnNode(L, h.node) /\ OnNode(K, n)
    <3>1. \A a \in A \cup C \cup {x} : NodeForPtr(a) = n
      BY <1>1, <1>5, <2>2 DEF OnNode
    <3> QED BY <2>2, <2>9, <3>1 DEF OnNode
  <2>11. hp2 = [hp EXCEPT ![t] = [h EXCEPT !.list[c] = l]] /\ st2 = [st EXCEPT ![n][c] = k]
    BY <1>2, <1>4, <2>1, <2>5, <2>7
  <2> QED BY <1>7, <2>2, <2>6, <2>8, <2>9, <2>10, <2>11
<1>10. CASE hp2 = hp /\ st2 = [st EXCEPT ![n][c] = <<x>> \o @]
  <2>1. PICK k, K, l : k = <<x>> \o st[n][c] /\ K = {x} \cup C /\ l = h.list[c]
    OBVIOUS
  <2>2. Lists(k, K)
    <3>1. {x} \cap C = {}
      BY <1>6
    <3> QED BY <1>5, <1>8, <2>1, <3>1, ListsJoin
  <2>3. A \cup K = A \cup C \cup {x} /\ A \cap K = {}
    BY <1>5, <1>6, <2>1
  <2>4. OnNode(A, h.node) /\ OnNode(K, n) /\ Lists(l, A)
    BY <1>1, <1>5, <2>1 DEF OnNode
  <2>5. hp2 = [hp EXCEPT ![t] = [h EXCEPT !.list[c] = l]]
    <3>1. [h EXCEPT !.list[c] = l] = h
      BY <1>2, <1>3, <2>1 DEF Heap
    <3> QED BY <1>1, <1>2, <1>10, <3>1
  <2>6. st2 = [st EXCEPT ![n][c] = k]
    BY <1>2, <1>4, <1>10, <2>1
  <2> QED BY <1>7, <1>10, <2>2, <2>3, <2>4, <2>5, <2>6
<1> QED BY <1>1, <1>9, <1>10 DEF GivesBlock

\* munmap of entries, on the mappings mp.
UnmapOf(mp, entries) ==
  [raw \in Maps |->
     IF raw \notin MapsOf(entries) THEN mp[raw]
     ELSE [mp[raw] EXCEPT !.len = @ - entries[CHOOSE i \in DOMAIN entries : entries[i].map = raw].size]]

\* The entries know how long the mappings are.
Sized(es, mp) == \A i \in DOMAIN es : es[i].size = mp[es[i].map].len

\* Entries at their full length leave nothing of their mappings.
LEMMA UnmapIs ==
  ASSUME NEW mp \in [Maps -> [len : Nat, node : Nodes]], NEW es \in Seq(Entries), Sized(es, mp),
         NEW mp2, mp2 = UnmapOf(mp, es)
  PROVE  /\ mp2 \in [Maps -> [len : Nat, node : Nodes]]
         /\ \A raw \in Maps : IF raw \in MapsOf(es) THEN mp2[raw].len = 0 ELSE mp2[raw] = mp[raw]
<1>1. \A raw \in Maps : raw \notin MapsOf(es) => mp2[raw] = mp[raw]
  BY DEF UnmapOf
<1>2. ASSUME NEW raw \in Maps, raw \in MapsOf(es)
      PROVE  mp2[raw] \in [len : Nat, node : Nodes] /\ mp2[raw].len = 0
  <2>1. PICK i : i = CHOOSE k \in DOMAIN es : es[k].map = raw
    OBVIOUS
  <2>2. i \in DOMAIN es /\ es[i].map = raw
    <3>1. \E k \in DOMAIN es : es[k].map = raw
      BY <1>2 DEF MapsOf
    <3> QED BY <2>1, <3>1, Zenon
  <2>3. PICK r, n : r = mp[raw] /\ n = es[i].size
    OBVIOUS
  <2>4. r \in [len : Nat, node : Nodes] /\ n = r.len
    BY <2>2, <2>3 DEF Sized
  <2>5. mp2[raw] = [r EXCEPT !.len = @ - n]
    BY <1>2, <2>1, <2>3, Zenon DEF UnmapOf
  <2> QED BY <2>4, <2>5
<1>3. \A raw \in Maps : mp2[raw] \in [len : Nat, node : Nodes]
  BY <1>1, <1>2
<1>4. mp2 = [raw \in Maps |-> mp2[raw]]
  BY DEF UnmapOf
<1>5. mp2 \in [Maps -> [len : Nat, node : Nodes]]
  BY <1>3, <1>4
<1> QED BY <1>1, <1>2, <1>5

\* Thread t gives back the mapping x: put stores it, evicts others, or leaves it to be
\* unmapped; without a PerThreadHeap it is unmapped.
PutBy(h, x, len) ==
  IF h.state = "bound" THEN Put(h.cache, h.bytes, x, len)
  ELSE [entries |-> h.cache, bytes |-> h.bytes, unmapped |-> <<Entry(x, len)>>]

GivesMap(x, t, hp, mp, hp2, mp2) ==
  \E put : /\ put = PutBy(hp[t], x, mp[x].len)
           /\ hp2 = [hp EXCEPT ![t].cache = put.entries, ![t].bytes = put.bytes]
           /\ mp2 = UnmapOf(mp, put.unmapped)

\* What put is told and what it makes of it, in either case.
LEMMA PutByIs ==
  ASSUME NEW h \in Heap, h.state # "bound" => h = NoHeap(h.state), NEW x \in Maps, NEW len \in Nat,
         Distinct(h.cache), h.bytes = Pages(h.cache, Len(h.cache)), x \notin MapsOf(h.cache),
         NEW put, put = PutBy(h, x, len)
  PROVE  IsPut(put, h.cache, x, len)
<1>1. h.cache \in Seq(Entries)
  BY DEF Heap
<1>2. CASE h.state = "bound"
  <2>1. PICK es : es = h.cache
    OBVIOUS
  <2>2. put = Put(es, Pages(es, Len(es)), x, len)
    BY <1>2, <2>1 DEF PutBy
  <2>3. IsPut(put, es, x, len)
    BY <1>1, <2>1, <2>2, PutIs
  <2> QED BY <2>1, <2>3
<1>3. CASE h.state # "bound"
  <2>1. h.cache = <<>> /\ h.bytes = 0
    BY <1>3 DEF NoHeap
  <2>2. PICK e, es, out : e = Entry(x, len) /\ es = <<>> /\ out = <<e>>
    OBVIOUS
  <2>3. put = [entries |-> es, bytes |-> 0, unmapped |-> out]
    BY <1>3, <2>1, <2>2 DEF PutBy
  <2>4. /\ es \in Seq(Entries) /\ Len(es) = 0 /\ DOMAIN es = {} /\ MapsOf(es) = {} /\ Distinct(es)
        /\ Pages(es, Len(es)) = 0
    BY <2>2, EmptyIs
  <2>5. e \in Entries /\ e.map = x
    BY <2>2 DEF Entry, Entries
  <2>6. out \in Seq(Entries) /\ DOMAIN out = {1} /\ out[1] = e
    BY <2>2, <2>5
  <2>7. MapsOf(out) = {x} /\ Distinct(out)
    BY <2>5, <2>6 DEF MapsOf, Distinct
  <2>8. put.entries = es /\ put.bytes = 0 /\ put.unmapped = out
    BY <2>3
  <2>9. From(es, h.cache, e) /\ From(out, h.cache, e)
    BY <2>4, <2>6 DEF From
  <2> QED BY <2>1, <2>2, <2>4, <2>6, <2>7, <2>8, <2>9, LargeCacheAssumption DEF IsPut
<1> QED BY <1>2, <1>3

LEMMA GiveMapKeeps ==
  ASSUME NEW bu, NEW st, NEW hp, NEW mp, NEW kind, NEW who, NEW cls,
         PlacesOK(bu, st, hp, mp, kind, who, cls), NEW t \in Threads,
         NEW x \in Addr, kind[x] = "obj", ~ InRegion(x),
         NEW hp2, NEW mp2, GivesMap(x, t, hp, mp, hp2, mp2)
  PROVE  \E kind2, who2 :
           /\ Stepped(x, mp, kind, who, cls, bu, st, hp2, mp2, kind2, who2, cls)
           /\ kind2[x] \in {"cache", "none"} /\ Others(t, hp, hp2)
<1>1. PICK h, put, len :
        /\ h = hp[t] /\ put = PutBy(h, x, len) /\ len = mp[x].len
        /\ hp2 = [hp EXCEPT ![t].cache = put.entries, ![t].bytes = put.bytes]
        /\ mp2 = UnmapOf(mp, put.unmapped)
  BY DEF GivesMap
<1>2. /\ h \in Heap /\ hp \in [Threads -> Heap] /\ HeapsOK(hp) /\ ChunksOK(bu, mp, kind, cls)
      /\ CacheOK(t, h, mp, kind, who) /\ CachesOK(hp, mp, kind, who) /\ ListsOK(st, hp, kind, who, cls)
      /\ mp \in [Maps -> [len : Nat, node : Nodes]] /\ kind \in [Addr -> Kinds]
      /\ h.state # "bound" => h = NoHeap(h.state)
  BY <1>1 DEF PlacesOK, HeapsOK, ChunksOK, CachesOK
<1>3. x \in Maps /\ len \in Nat
  <2>1. MapOK(x, mp)
    BY <1>2 DEF ChunksOK
  <2> QED BY <1>1, <1>2, <2>1 DEF MapOK
<1>4. PICK es : es = h.cache
  OBVIOUS
<1>5. /\ es \in Seq(Entries) /\ Distinct(es)
      /\ MapsOf(es) = {a \in Addr : kind[a] = "cache" /\ who[a] = t}
      /\ Sized(es, mp) /\ h.bytes = Pages(es, Len(es))
  BY <1>2, <1>4 DEF CacheOK, Sized
<1>6. x \notin MapsOf(es)
  BY <1>5
<1>7. IsPut(put, es, x, len)
  <2>1. IsPut(put, h.cache, x, len)
    BY <1>1, <1>2, <1>3, <1>4, <1>5, <1>6, PutByIs
  <2> QED BY <1>4, <2>1
<1>8. PICK fs, out, b, E, O : fs = put.entries /\ out = put.unmapped /\ b = put.bytes /\ E = MapsOf(fs) /\ O = MapsOf(out)
  OBVIOUS
<1>9. /\ fs \in Seq(Entries) /\ out \in Seq(Entries) /\ b = Pages(fs, Len(fs)) /\ b \in Nat
      /\ b <= MaxCacheBytes /\ Len(fs) <= CacheSlots /\ Distinct(fs) /\ Distinct(out)
      /\ E \cap O = {} /\ E \cup O = MapsOf(es) \cup {x}
      /\ From(fs, es, Entry(x, len)) /\ From(out, es, Entry(x, len))
  BY <1>7, <1>8 DEF IsPut
<1>10. Sized(fs, mp) /\ Sized(out, mp)
  <2>1. Entry(x, len).size = mp[Entry(x, len).map].len
    BY <1>1 DEF Entry
  <2>2. PICK e : e = Entry(x, len)
    OBVIOUS
  <2>3. ASSUME NEW gs, From(gs, es, e) PROVE Sized(gs, mp)
    <3>1. e.size = mp[e.map].len
      BY <2>1, <2>2
    <3>2. \A i \in DOMAIN es : es[i].size = mp[es[i].map].len
      BY <1>5 DEF Sized
    <3> QED BY <2>3, <3>1, <3>2, Zenon DEF From, Sized
  <2>4. From(fs, es, e) /\ From(out, es, e)
    BY <1>9, <2>2
  <2> QED BY <2>3, <2>4
<1>11. /\ mp2 \in [Maps -> [len : Nat, node : Nodes]]
       /\ \A raw \in Maps : IF raw \in O THEN mp2[raw].len = 0 ELSE mp2[raw] = mp[raw]
  BY <1>1, <1>2, <1>8, <1>9, <1>10, UnmapIs
<1>12. /\ E \cup O \subseteq Maps
       /\ \A a \in E \cup O : a \in Addr /\ ~ InRegion(a) /\ (a = x \/ (kind[a] = "cache" /\ who[a] = t))
  <2>1. \A a \in MapsOf(es) : a \in Maps
    BY <1>5, EntryAt DEF MapsOf
  <2>2. \A a \in Maps : a \in Addr /\ ~ InRegion(a)
    BY MapIs
  <2> QED BY <1>3, <1>5, <1>9, <2>1, <2>2
<1>13. PICK kind2, who2 :
         /\ kind2 = [a \in Addr |-> IF a \in E THEN "cache" ELSE IF a \in O THEN "none" ELSE kind[a]]
         /\ who2 = [a \in Addr |-> IF a \in E THEN t ELSE who[a]]
  OBVIOUS
<1>14. /\ \A a \in E : kind2[a] = "cache" /\ who2[a] = t
       /\ \A a \in O : kind2[a] = "none"
       /\ \A a \in Addr \ (E \cup O) : kind2[a] = kind[a] /\ who2[a] = who[a]
  BY <1>9, <1>12, <1>13
<1>15. \A a \in Addr \ (E \cup O) : a # x /\ ~ (kind[a] = "cache" /\ who[a] = t)
  BY <1>5, <1>9
<1>16. ChunksOK(bu, mp2, kind2, cls)
  <2>1. kind2 \in [Addr -> Kinds]
    BY <1>2, <1>13 DEF Kinds
  <2>2. \A a \in Addr : kind2[a] # "none" =>
          kind[a] # "none" /\ IF InRegion(a) THEN kind2[a] # "cache" ELSE ~ Listed(kind2[a])
    <3> TAKE a \in Addr
    <3>1. CASE a \in E \cup O
      BY <1>12, <1>14, <3>1 DEF Listed
    <3>2. CASE a \notin E \cup O
      BY <1>2, <1>14, <3>2 DEF ChunksOK
    <3> QED BY <3>1, <3>2
  <2>3. \A raw \in Maps : IF kind2[raw] = "none" THEN mp2[raw].len = 0 ELSE mp2[raw] = mp[raw]
    <3> TAKE raw \in Maps
    <3>1. raw \in Addr /\ (kind[raw] = "none" => mp[raw].len = 0)
      BY <1>2, MapIs DEF ChunksOK
    <3> QED BY <1>9, <1>11, <1>14, <3>1
  <2>4. Given(mp, kind, mp2, kind2)
    BY <1>11, <2>1, <2>2, <2>3 DEF Given
  <2> QED BY <1>2, <2>4, ChunksGiven
<1>17. PICK h2 : h2 = [h EXCEPT !.cache = fs, !.bytes = b]
  OBVIOUS
<1>18. Recached(h2, h, fs, b)
  BY <1>2, <1>9, <1>17, RecachedIs
<1>19. hp2 = [hp EXCEPT ![t] = h2]
  BY <1>1, <1>2, <1>8, <1>17
<1>20. hp2[t] = h2 /\ hp2 \in [Threads -> Heap] /\ Others(t, hp, hp2)
  BY <1>2, <1>18, <1>19 DEF Recached, Others
<1>21. HeapsOK(hp2)
  <2>1. ASSUME NEW u \in Threads PROVE hp2[u].state # "bound" => hp2[u] = NoHeap(hp2[u].state)
    <3>1. hp[u].state # "bound" => hp[u] = NoHeap(hp[u].state)
      BY <1>2 DEF HeapsOK
    <3>2. CASE u # t
      BY <1>20, <3>1, <3>2 DEF Others
    <3>3. CASE u = t /\ h.state = "bound"
      BY <1>18, <1>20, <3>3 DEF Recached
    <3>4. CASE u = t /\ h.state # "bound"
      <4>1. h.cache = <<>> /\ h.bytes = 0
        BY <1>2, <3>4 DEF NoHeap
      <4>2. fs = h.cache /\ b = h.bytes
        BY <1>1, <1>8, <3>4 DEF PutBy
      <4>3. h2 = h
        BY <1>2, <1>17, <4>2 DEF Heap
      <4> QED BY <1>1, <1>20, <3>1, <3>4, <4>3
    <3> QED BY <3>2, <3>3, <3>4
  <2> QED BY <1>20, <2>1 DEF HeapsOK
<1>22. CachesOK(hp2, mp2, kind2, who2)
  <2>1. MapsOf(fs) = {a \in Addr : kind2[a] = "cache" /\ who2[a] = t}
    <3>1. \A a \in Addr : a \in E <=> kind2[a] = "cache" /\ who2[a] = t
      BY <1>14, <1>15
    <3>2. E = MapsOf(fs) /\ E \subseteq Addr
      BY <1>8, <1>12
    <3> QED BY <3>1, <3>2
  <2>2. \A k \in DOMAIN fs : fs[k].size = mp2[fs[k].map].len
    <3> TAKE k \in DOMAIN fs
    <3>1. fs[k].map \in E
      BY <1>8 DEF MapsOf
    <3>2. mp2[fs[k].map] = mp[fs[k].map]
      BY <1>9, <1>11, <1>12, <3>1
    <3> QED BY <1>10, <3>2 DEF Sized
  <2>3. CacheOK(t, hp2[t], mp2, kind2, who2)
    BY <1>9, <1>18, <1>20, <2>1, <2>2 DEF CacheOK, Recached
  <2>4. OtherCaches(t, mp, kind, who, mp2, kind2, who2)
    <3> SUFFICES ASSUME NEW a \in Addr, (kind[a] = "cache" /\ who[a] # t) \/ (kind2[a] = "cache" /\ who2[a] # t)
                 PROVE  kind2[a] = kind[a] /\ who2[a] = who[a] /\ mp2[a] = mp[a]
      BY DEF OtherCaches
    <3>1. a \notin E \cup O
      BY <1>12, <1>14
    <3>2. kind2[a] = kind[a] /\ who2[a] = who[a]
      BY <1>14, <3>1
    <3>3. a \in Maps
      BY <1>2, <3>2 DEF ChunksOK, MapOK
    <3> QED BY <1>11, <3>1, <3>2, <3>3
  <2> QED BY <1>2, <1>20, <2>3, <2>4, CachesChanged
<1>23. ListsOK(st, hp2, kind2, who2, cls)
  <2>1. SameLists(hp, hp2)
    BY <1>1, <1>18, <1>20 DEF SameLists, Recached, Others
  <2>2. SameListed(kind, who, cls, kind2, who2, cls)
    BY <1>12, <1>14 DEF SameListed, Listed
  <2> QED BY <1>2, <2>1, <2>2, ListsStay
<1>24. PlacesOK(bu, st, hp2, mp2, kind2, who2, cls)
  BY <1>16, <1>21, <1>22, <1>23 DEF PlacesOK
<1>25. SameUses(x, mp, kind, who, cls, mp2, kind2, who2, cls)
  <2> SUFFICES ASSUME NEW a \in Addr \ {x}, Used(kind[a]) \/ Used(kind2[a])
               PROVE  kind2[a] = kind[a] /\ who2[a] = who[a] /\ (~ InRegion(a) => mp2[a] = mp[a])
    BY DEF SameUses
  <2>1. a \notin E \cup O
    BY <1>12, <1>14 DEF Used
  <2>2. kind2[a] = kind[a] /\ who2[a] = who[a] /\ Used(kind[a])
    BY <1>14, <2>1
  <2>3. ~ InRegion(a) => a \in Maps
    BY <1>2, <2>2 DEF ChunksOK, MapOK, Used
  <2> QED BY <1>11, <2>1, <2>2, <2>3
<1>26. Grows(kind, cls, kind2, cls)
  BY <1>12, <1>14 DEF Grows
<1>27. kind2[x] \in {"cache", "none"}
  BY <1>9, <1>14
<1> QED BY <1>20, <1>24, <1>25, <1>26, <1>27 DEF Stepped

-----------------------------------------------------------------------------
(* A thread ends, another begins, and one gets its PerThreadHeap.          *)

\* Thread t returns its lists to its node's stacks and its cache to the kernel.
Exits(t, st, hp, mp, st2, hp2, mp2) ==
  LET h == hp[t]
  IN /\ st2 = [st EXCEPT ![h.node] = [c \in Classes |-> Returned(h, c) \o @[c]]]
     /\ mp2 = UnmapOf(mp, h.cache)
     /\ hp2 = [hp EXCEPT ![t] = NoHeap("gone")]

\* The blocks on t's lists come to be on the stacks of n, its mappings are gone.
Mine(a, t, kind, who) == kind[a] \in {"list", "spare"} /\ who[a] = t

Left(t, n, kind, who, kind2, who2) ==
  /\ \A a \in Addr : Mine(a, t, kind, who) => kind2[a] = "stack" /\ who2[a] = n
  /\ \A a \in Addr : kind[a] = "cache" /\ who[a] = t => kind2[a] = "none"
  /\ \A a \in Addr : ~ Mine(a, t, kind, who) /\ ~ (kind[a] = "cache" /\ who[a] = t) =>
       kind2[a] = kind[a] /\ who2[a] = who[a]

\* A thread without a PerThreadHeap.
LEMMA NoHeapIs ==
  ASSUME NEW s \in {"none", "bound", "gone"}
  PROVE  /\ NoHeap(s) \in Heap /\ NoHeap(s).state = s /\ NoHeap(s).node = 0
         /\ NoHeap(s).cache = <<>> /\ NoHeap(s).bytes = 0
         /\ \A c \in Classes : NoHeap(s).list[c] = <<>> /\ NoHeap(s).spare[c] = <<>>
<1>1. 0 \in Nodes /\ 0 \in Nat /\ <<>> \in Seq(Entries) /\ <<>> \in Seq(Addr)
  BY ConstantsAre
<1>2. [c \in Classes |-> <<>>] \in [Classes -> Seq(Addr)]
  BY <1>1
<1> QED BY <1>1, <1>2 DEF NoHeap, Heap

LEMMA ExitLists ==
  ASSUME NEW bu, NEW st, NEW hp, NEW mp, NEW kind, NEW who, NEW cls,
         PlacesOK(bu, st, hp, mp, kind, who, cls), NEW t \in Threads,
         NEW st2, NEW hp2, NEW mp2, Exits(t, st, hp, mp, st2, hp2, mp2),
         NEW n, n = hp[t].node, NEW kind2, NEW who2, Left(t, n, kind, who, kind2, who2)
  PROVE  ListsOK(st2, hp2, kind2, who2, cls) /\ st2 \in [Nodes -> [Classes -> Seq(Addr)]]
<1>1. /\ st \in [Nodes -> [Classes -> Seq(Addr)]] /\ hp \in [Threads -> Heap]
      /\ ListsOK(st, hp, kind, who, cls)
  BY DEF PlacesOK, HeapsOK
<1>2. n \in Nodes
  BY <1>1 DEF Heap
<1>3. /\ hp2[t] = NoHeap("gone") /\ Others(t, hp, hp2)
      /\ \A i \in Nodes \ {n} : st2[i] = st[i]
      /\ \A c \in Classes : st2[n][c] = (hp[t].spare[c] \o hp[t].list[c]) \o st[n][c]
      /\ DOMAIN st2 = Nodes /\ st2[n] = [c \in Classes |-> Returned(hp[t], c) \o st[n][c]]
  BY <1>1, <1>2 DEF Exits, Others, Returned
<1>4. ASSUME NEW c \in Classes PROVE Lists(st2[n][c], Of("stack", n, c, kind2, who2, cls))
  <2>1. PICK A, B, C : A = Of("list", t, c, kind, who, cls) /\ B = Of("spare", t, c, kind, who, cls)
                       /\ C = Of("stack", n, c, kind, who, cls)
    OBVIOUS
  <2>2. AreSpots(A, B, C, t, n, c, st, hp, kind, who, cls)
    BY <1>2, <2>1, SpotsAre
  <2>3. Lists(hp[t].spare[c] \o hp[t].list[c], B \cup A)
    BY <2>2, ListsJoin DEF AreSpots
  <2>4. (B \cup A) \cap C = {} /\ Lists(st[n][c], C)
    BY <2>2 DEF AreSpots
  <2>5. Lists(st2[n][c], (B \cup A) \cup C)
    <3>1. Lists((hp[t].spare[c] \o hp[t].list[c]) \o st[n][c], (B \cup A) \cup C)
      BY <2>3, <2>4, ListsJoin, Zenon
    <3> QED BY <1>3, <3>1
  <2>6. ASSUME NEW a \in Addr PROVE (kind2[a] = "stack" /\ who2[a] = n /\ cls[a] = c) <=> a \in (B \cup A) \cup C
    BY <2>1 DEF Left, Mine, Of
  <2>7. (B \cup A) \cup C \subseteq Addr
    BY <2>1 DEF Of
  <2>8. Of("stack", n, c, kind2, who2, cls) = (B \cup A) \cup C
    BY <2>6, <2>7, Zenon DEF Of
  <2> QED BY <2>5, <2>8
<1>5. ASSUME NEW i \in Nodes, i # n, NEW c \in Classes
      PROVE  Lists(st2[i][c], Of("stack", i, c, kind2, who2, cls))
  <2>1. Lists(st[i][c], Of("stack", i, c, kind, who, cls))
    BY <1>1 DEF ListsOK
  <2>2. ASSUME NEW a \in Addr PROVE (kind2[a] = "stack" /\ who2[a] = i /\ cls[a] = c)
                                    <=> (kind[a] = "stack" /\ who[a] = i /\ cls[a] = c)
    BY <1>5 DEF Left, Mine
  <2>3. Of("stack", i, c, kind2, who2, cls) = Of("stack", i, c, kind, who, cls)
    BY <2>2, Zenon DEF Of
  <2> QED BY <1>3, <1>5, <2>1, <2>3
<1>6. ASSUME NEW u \in Threads, NEW c \in Classes
      PROVE  /\ Lists(hp2[u].list[c], Of("list", u, c, kind2, who2, cls))
             /\ Lists(hp2[u].spare[c], Of("spare", u, c, kind2, who2, cls))
  <2>1. CASE u = t
    <3>1. hp2[u].list[c] = <<>> /\ hp2[u].spare[c] = <<>>
      BY <1>3, <2>1, NoHeapIs
    <3>2. ASSUME NEW a \in Addr PROVE ~ (kind2[a] \in {"list", "spare"} /\ who2[a] = u)
      BY <2>1 DEF Left, Mine
    <3>3. Of("list", u, c, kind2, who2, cls) = {} /\ Of("spare", u, c, kind2, who2, cls) = {}
      BY <3>2 DEF Of
    <3> QED BY <3>1, <3>3, ListsNone
  <2>2. CASE u # t
    <3>1. /\ Lists(hp[u].list[c], Of("list", u, c, kind, who, cls))
          /\ Lists(hp[u].spare[c], Of("spare", u, c, kind, who, cls))
      BY <1>1 DEF ListsOK
    <3>2. ASSUME NEW k \in {"list", "spare"}, NEW a \in Addr
          PROVE  (kind2[a] = k /\ who2[a] = u /\ cls[a] = c) <=> (kind[a] = k /\ who[a] = u /\ cls[a] = c)
      BY <2>2 DEF Left, Mine
    <3>3. ASSUME NEW k \in {"list", "spare"}
          PROVE  Of(k, u, c, kind2, who2, cls) = Of(k, u, c, kind, who, cls)
      BY <3>2, Zenon DEF Of
    <3>4. hp2[u] = hp[u]
      BY <1>3, <2>2 DEF Others
    <3> QED BY <3>1, <3>3, <3>4
  <2> QED BY <2>1, <2>2
<1>7. ASSUME NEW a \in Addr
      PROVE  /\ kind2[a] = "stack" => who2[a] = NodeForPtr(a)
             /\ kind2[a] \in {"list", "spare"} => who2[a] \in Threads /\ NodeForPtr(a) = hp2[who2[a]].node
  <2>1. /\ kind[a] = "stack" => who[a] = NodeForPtr(a)
        /\ kind[a] \in {"list", "spare"} => who[a] \in Threads /\ NodeForPtr(a) = hp[who[a]].node
    BY <1>1 DEF ListsOK
  <2>2. CASE Mine(a, t, kind, who)
    BY <2>1, <2>2 DEF Left, Mine
  <2>3. CASE ~ Mine(a, t, kind, who)
    <3>1. kind2[a] = "none" \/ (kind2[a] = kind[a] /\ who2[a] = who[a])
      BY <2>3 DEF Left
    <3>2. kind[a] \in {"list", "spare"} => who[a] # t
      BY <2>3 DEF Mine
    <3> QED BY <1>3, <2>1, <3>1, <3>2 DEF Others
  <2> QED BY <2>2, <2>3
<1>8. ASSUME NEW i \in Nodes PROVE st2[i] \in [Classes -> Seq(Addr)]
  <2>1. CASE i # n
    BY <1>1, <1>3, <2>1
  <2>2. CASE i = n
    <3>1. \A c \in Classes : st2[n][c] \in Seq(Addr)
      BY <1>4 DEF Lists
    <3> QED BY <1>3, <2>2, <3>1
  <2> QED BY <2>1, <2>2
<1>9. st2 \in [Nodes -> [Classes -> Seq(Addr)]]
  <2>1. st2 = [i \in Nodes |-> st2[i]]
    BY <1>1 DEF Exits
  <2> QED BY <1>8, <2>1
<1>10. \A i \in Nodes, c \in Classes : Lists(st2[i][c], Of("stack", i, c, kind2, who2, cls))
  BY <1>4, <1>5
<1> QED BY <1>6, <1>7, <1>9, <1>10 DEF ListsOK

LEMMA ExitKeeps ==
  ASSUME NEW bu, NEW st, NEW hp, NEW mp, NEW kind, NEW who, NEW cls,
         PlacesOK(bu, st, hp, mp, kind, who, cls), NEW t \in Threads, hp[t].state = "bound",
         NEW st2, NEW hp2, NEW mp2, Exits(t, st, hp, mp, st2, hp2, mp2)
  PROVE  \E kind2, who2 : Stepped(Junk, mp, kind, who, cls, bu, st2, hp2, mp2, kind2, who2, cls)
<1>1. PICK h, n, es : h = hp[t] /\ n = hp[t].node /\ es = h.cache
  OBVIOUS
<1>2. /\ h \in Heap /\ hp \in [Threads -> Heap] /\ HeapsOK(hp) /\ ChunksOK(bu, mp, kind, cls)
      /\ CacheOK(t, h, mp, kind, who) /\ CachesOK(hp, mp, kind, who) /\ ListsOK(st, hp, kind, who, cls)
      /\ mp \in [Maps -> [len : Nat, node : Nodes]] /\ kind \in [Addr -> Kinds]
  BY <1>1 DEF PlacesOK, HeapsOK, ChunksOK, CachesOK
<1>3. PICK kind2, who2 :
        /\ kind2 = [a \in Addr |-> IF Mine(a, t, kind, who) THEN "stack"
                                   ELSE IF kind[a] = "cache" /\ who[a] = t THEN "none" ELSE kind[a]]
        /\ who2 = [a \in Addr |-> IF Mine(a, t, kind, who) THEN n ELSE who[a]]
  OBVIOUS
<1>4. Left(t, n, kind, who, kind2, who2)
  BY <1>3 DEF Left, Mine
<1>5. ListsOK(st2, hp2, kind2, who2, cls) /\ st2 \in [Nodes -> [Classes -> Seq(Addr)]]
  BY <1>1, <1>4, ExitLists
<1>6. hp2 = [hp EXCEPT ![t] = NoHeap("gone")] /\ mp2 = UnmapOf(mp, es)
  BY <1>1 DEF Exits
<1>7. hp2[t] = NoHeap("gone") /\ hp2 \in [Threads -> Heap] /\ Others(t, hp, hp2)
  BY <1>2, <1>6, NoHeapIs DEF Others
<1>8. HeapsOK(hp2)
  BY <1>2, <1>7, NoHeapIs DEF HeapsOK, Others
<1>9. /\ es \in Seq(Entries) /\ Sized(es, mp)
      /\ MapsOf(es) = {a \in Addr : kind[a] = "cache" /\ who[a] = t}
  BY <1>1, <1>2 DEF CacheOK, Sized
<1>10. /\ mp2 \in [Maps -> [len : Nat, node : Nodes]]
       /\ \A raw \in Maps : IF raw \in MapsOf(es) THEN mp2[raw].len = 0 ELSE mp2[raw] = mp[raw]
  BY <1>2, <1>6, <1>9, UnmapIs
<1>11. \A a \in Addr : kind[a] = "cache" => a \in Maps /\ ~ InRegion(a)
  BY <1>2 DEF ChunksOK, MapOK
<1>12. ChunksOK(bu, mp2, kind2, cls)
  <2>1. kind2 \in [Addr -> Kinds]
    BY <1>2, <1>3 DEF Kinds
  <2>2. ASSUME NEW a \in Addr, kind2[a] # "none"
        PROVE  kind[a] # "none" /\ IF InRegion(a) THEN kind2[a] # "cache" ELSE ~ Listed(kind2[a])
    <3>1. kind[a] # "none" => IF InRegion(a) THEN kind[a] # "cache" ELSE ~ Listed(kind[a])
      BY <1>2 DEF ChunksOK
    <3>2. CASE Mine(a, t, kind, who)
      BY <1>4, <3>1, <3>2 DEF Left, Mine, Listed
    <3>3. CASE ~ Mine(a, t, kind, who)
      BY <1>4, <2>2, <3>1, <3>3 DEF Left
    <3> QED BY <3>2, <3>3
  <2>3. ASSUME NEW raw \in Maps
        PROVE  IF kind2[raw] = "none" THEN mp2[raw].len = 0 ELSE mp2[raw] = mp[raw]
    <3>1. raw \in Addr /\ (kind[raw] = "none" => mp[raw].len = 0)
      BY <1>2, MapIs DEF ChunksOK
    <3>2. raw \in MapsOf(es) <=> kind[raw] = "cache" /\ who[raw] = t
      BY <1>9, <3>1
    <3> QED BY <1>4, <1>10, <3>1, <3>2 DEF Left, Mine
  <2>4. Given(mp, kind, mp2, kind2)
    BY <1>10, <2>1, <2>2, <2>3 DEF Given
  <2> QED BY <1>2, <2>4, ChunksGiven
<1>13. CachesOK(hp2, mp2, kind2, who2)
  <2>1. \A a \in Addr : ~ (kind2[a] = "cache" /\ who2[a] = t)
    BY <1>4 DEF Left, Mine
  <2>2. {a \in Addr : kind2[a] = "cache" /\ who2[a] = t} = {}
    BY <2>1
  <2>3. CacheOK(t, hp2[t], mp2, kind2, who2)
    <3>1. PICK g : g = hp2[t]
      OBVIOUS
    <3>2. g.cache = <<>> /\ g.bytes = 0
      BY <1>7, <3>1, NoHeapIs
    <3>3. /\ g.cache \in Seq(Entries) /\ Distinct(g.cache) /\ MapsOf(g.cache) = {} /\ DOMAIN g.cache = {}
          /\ Len(g.cache) = 0 /\ Pages(g.cache, Len(g.cache)) = 0
      BY <3>2, EmptyIs
    <3>4. 0 <= MaxCacheBytes /\ 0 <= CacheSlots
      BY LargeCacheAssumption
    <3>5. CacheOK(t, g, mp2, kind2, who2)
      BY <2>2, <3>2, <3>3, <3>4 DEF CacheOK
    <3> QED BY <3>1, <3>5
  <2>4. OtherCaches(t, mp, kind, who, mp2, kind2, who2)
    <3> SUFFICES ASSUME NEW a \in Addr, (kind[a] = "cache" /\ who[a] # t) \/ (kind2[a] = "cache" /\ who2[a] # t)
                 PROVE  kind2[a] = kind[a] /\ who2[a] = who[a] /\ mp2[a] = mp[a]
      BY DEF OtherCaches
    <3>1. ~ Mine(a, t, kind, who) /\ kind2[a] = kind[a] /\ who2[a] = who[a] /\ kind[a] = "cache" /\ who[a] # t
      BY <1>4 DEF Left, Mine
    <3>2. a \in Maps /\ a \notin MapsOf(es)
      BY <1>9, <1>11, <3>1
    <3> QED BY <1>10, <3>1, <3>2
  <2> QED BY <1>2, <1>7, <2>3, <2>4, CachesChanged
<1>14. SameUses(Junk, mp, kind, who, cls, mp2, kind2, who2, cls)
  <2> SUFFICES ASSUME NEW a \in Addr, Used(kind[a]) \/ Used(kind2[a])
               PROVE  kind2[a] = kind[a] /\ who2[a] = who[a] /\ (~ InRegion(a) => mp2[a] = mp[a])
    BY DEF SameUses
  <2>1. kind2[a] = kind[a] /\ who2[a] = who[a] /\ Used(kind[a])
    BY <1>4 DEF Left, Mine, Used
  <2>2. ~ InRegion(a) => a \in Maps /\ a \notin MapsOf(es)
    BY <1>2, <1>9, <2>1 DEF ChunksOK, MapOK, Used
  <2> QED BY <1>10, <2>1, <2>2
<1>15. Grows(kind, cls, kind2, cls)
  BY <1>4, <1>11 DEF Grows, Left, Mine
<1>16. Stepped(Junk, mp, kind, who, cls, bu, st2, hp2, mp2, kind2, who2, cls)
  BY <1>5, <1>8, <1>12, <1>13, <1>14, <1>15 DEF Stepped, PlacesOK
<1> QED BY <1>16

\* A slot without a PerThreadHeap that changes its state, or gets one.
Slots(t, hp, hp2) ==
  \E h2 : /\ hp2 = [hp EXCEPT ![t] = h2] /\ h2 \in Heap
          /\ h2.cache = hp[t].cache /\ h2.bytes = hp[t].bytes /\ h2.list = hp[t].list /\ h2.spare = hp[t].spare
          /\ h2.state # "bound" => h2 = NoHeap(h2.state)

LEMMA SlotKeeps ==
  ASSUME NEW bu, NEW st, NEW hp, NEW mp, NEW kind, NEW who, NEW cls,
         PlacesOK(bu, st, hp, mp, kind, who, cls), NEW t \in Threads, hp[t].state # "bound",
         NEW hp2, Slots(t, hp, hp2)
  PROVE  PlacesOK(bu, st, hp2, mp, kind, who, cls) /\ Others(t, hp, hp2)
<1>1. PICK h2 : /\ hp2 = [hp EXCEPT ![t] = h2] /\ h2 \in Heap
                /\ h2.cache = hp[t].cache /\ h2.bytes = hp[t].bytes
                /\ h2.list = hp[t].list /\ h2.spare = hp[t].spare
                /\ h2.state # "bound" => h2 = NoHeap(h2.state)
  BY DEF Slots
<1>2. /\ hp \in [Threads -> Heap] /\ HeapsOK(hp) /\ ChunksOK(bu, mp, kind, cls)
      /\ CachesOK(hp, mp, kind, who) /\ ListsOK(st, hp, kind, who, cls)
      /\ st \in [Nodes -> [Classes -> Seq(Addr)]]
  BY DEF PlacesOK, HeapsOK
<1>3. hp2[t] = h2 /\ Others(t, hp, hp2) /\ hp2 \in [Threads -> Heap]
  BY <1>1, <1>2 DEF Others
<1>4. HeapsOK(hp2)
  BY <1>1, <1>2, <1>3 DEF HeapsOK, Others
<1>5. SameCaches(hp, hp2) /\ SameCached(mp, kind, who, mp, kind, who)
  BY <1>1, <1>3 DEF SameCaches, SameCached, Others
<1>6. CachesOK(hp2, mp, kind, who)
  BY <1>2, <1>5, CachesStay
<1>7. \A c \in Classes : hp[t].list[c] = <<>> /\ hp[t].spare[c] = <<>>
  <2>1. hp[t] = NoHeap(hp[t].state) /\ hp[t].state \in {"none", "bound", "gone"}
    BY <1>2 DEF HeapsOK, Heap
  <2> QED BY <2>1, NoHeapIs
<1>8. ListsOK(st, hp2, kind, who, cls)
  <2>1. \A u \in Threads : hp2[u].list = hp[u].list /\ hp2[u].spare = hp[u].spare
    BY <1>1, <1>3 DEF Others
  <2>2. ASSUME NEW a \in Addr
        PROVE  /\ kind[a] = "stack" => who[a] = NodeForPtr(a)
               /\ kind[a] \in {"list", "spare"} => who[a] \in Threads /\ NodeForPtr(a) = hp2[who[a]].node
    <3>1. /\ kind[a] = "stack" => who[a] = NodeForPtr(a)
          /\ kind[a] \in {"list", "spare"} => who[a] \in Threads /\ NodeForPtr(a) = hp[who[a]].node
      BY <1>2 DEF ListsOK
    <3>2. ASSUME kind[a] \in {"list", "spare"} PROVE who[a] # t
      <4> SUFFICES ASSUME who[a] = t PROVE FALSE
        OBVIOUS
      <4>1. cls[a] \in Classes
        BY <1>2 DEF ChunksOK
      <4>2. /\ Lists(<<>>, Of("list", t, cls[a], kind, who, cls))
            /\ Lists(<<>>, Of("spare", t, cls[a], kind, who, cls))
        BY <1>2, <1>7, <4>1 DEF ListsOK
      <4>3. Of("list", t, cls[a], kind, who, cls) = {} /\ Of("spare", t, cls[a], kind, who, cls) = {}
        BY <4>2, ListsNone
      <4> QED BY <3>2, <4>3 DEF Of
    <3> QED BY <1>3, <3>1, <3>2 DEF Others
  <2>3. ASSUME NEW u \in Threads, NEW c \in Classes
        PROVE  /\ Lists(hp2[u].list[c], Of("list", u, c, kind, who, cls))
               /\ Lists(hp2[u].spare[c], Of("spare", u, c, kind, who, cls))
    BY <1>2, <2>1 DEF ListsOK
  <2>4. \A n \in Nodes, c \in Classes : Lists(st[n][c], Of("stack", n, c, kind, who, cls))
    BY <1>2 DEF ListsOK
  <2> QED BY <2>2, <2>3, <2>4 DEF ListsOK
<1> QED BY <1>2, <1>3, <1>4, <1>6, <1>8 DEF PlacesOK

-----------------------------------------------------------------------------
(* What a step keeps.                                                      *)

\* The steps of ObjectStore, on the objects S with their words.
SAlloc(S, S2) ==
  \E p \in DOMAIN S2 \ DOMAIN S :
    /\ DOMAIN S2 = DOMAIN S \cup {p} /\ \A q \in DOMAIN S : S2[q] = S[q]
    /\ S2[p].words \in {Pattern(S2[p].size), Zeros(S2[p].size)}

SFree(S, S2) ==
  \E p \in DOMAIN S : DOMAIN S2 = DOMAIN S \ {p} /\ \A q \in DOMAIN S2 : S2[q] = S[q]

SRealloc(S, S2) ==
  \E p \in DOMAIN S : \E q \in DOMAIN S2 :
    /\ q = p \/ q \notin DOMAIN S
    /\ DOMAIN S2 = (DOMAIN S \ {p}) \cup {q}
    /\ \A r \in DOMAIN S \ {p} : S2[r] = S[r]
    /\ S2[q].align = S[p].align
    /\ \A i \in DOMAIN S[p].words \cap DOMAIN S2[q].words : S2[q].words[i] = S[p].words[i]

StoreStep(S, S2) == S2 = S \/ SAlloc(S, S2) \/ SFree(S, S2) \/ SRealloc(S, S2)

\* Obtained(t), of the objects and calls before and after a step.
Got(t, ob, jb, ob2, jb2) ==
  IF jb2[t].pc = "move" THEN {jb2[t].new}
  ELSE IF jb[t].pc # "move" THEN DOMAIN ob2 \ DOMAIN ob ELSE {}

\* A step of thread t: all is in its place afterwards, no block is lost, the program's
\* objects change the way they may, a block it gets is local.
Keeps(t, hp, m, ob, jb, kind, cls, bu2, st2, hp2, mp2, m2, ob2, jb2) ==
  /\ \E kind2, who2, cls2 :
       /\ PlacesOK(bu2, st2, hp2, mp2, kind2, who2, cls2)
       /\ UsesOK(hp2, mp2, m2, ob2, jb2, kind2, who2, cls2)
       /\ Grows(kind, cls, kind2, cls2)
  /\ Others(t, hp, hp2) /\ Others(t, jb, jb2)
  /\ StoreStep(Stored(ob, m), Stored(ob2, m2))
  /\ \A p \in Got(t, ob, jb, ob2, jb2) : InRegion(p) => NodeForPtr(p) = hp2[t].node

\* The heap may have changed for thread t in between.
LEMMA KeepsFrom ==
  ASSUME NEW t, NEW hp, NEW hp1, Others(t, hp, hp1),
         NEW m, NEW ob, NEW jb, NEW kind, NEW cls,
         NEW bu2, NEW st2, NEW hp2, NEW mp2, NEW m2, NEW ob2, NEW jb2,
         Keeps(t, hp1, m, ob, jb, kind, cls, bu2, st2, hp2, mp2, m2, ob2, jb2)
  PROVE  Keeps(t, hp, m, ob, jb, kind, cls, bu2, st2, hp2, mp2, m2, ob2, jb2)
<1>1. Others(t, hp, hp2)
  BY DEF Keeps, Others
<1> QED BY <1>1 DEF Keeps

-----------------------------------------------------------------------------
(* Calls.                                                                  *)

\* No other thread's realloc is about the object at p.
Alone(t, p, jb) == \A u \in Threads \ {t} : jb[u].op = "realloc" => jb[u].old # p

\* The objects that other threads' reallocs are about are still there.
OldsKept(t, jb, ob, ob2) ==
  \A u \in Threads \ {t} : jb[u].op = "realloc" =>
    jb[u].old \in DOMAIN ob2 /\ ob2[jb[u].old].align = ob[jb[u].old].align

\* Thread t's call may become j.
GoesOn(t, j, jb, hp2, ob2) ==
  j \in Job /\ JobOK(j, hp2[t], ob2) /\ (j.op = "realloc" => Alone(t, j.old, jb))

\* One thread's call goes on.
LEMMA JobsNext ==
  ASSUME NEW hp, NEW ob, NEW jb, JobsOK(jb, hp, ob), NEW t \in Threads,
         NEW hp2, Others(t, hp, hp2), NEW j, NEW jb2, Turns(t, j, jb, jb2),
         NEW ob2, OldsKept(t, jb, ob, ob2), GoesOn(t, j, jb, hp2, ob2)
  PROVE  JobsOK(jb2, hp2, ob2) /\ jb2[t] = j /\ Others(t, jb, jb2)
<1> USE DEF GoesOn, Turns
<1>1. jb \in [Threads -> Job]
  BY DEF JobsOK
<1>2. jb2[t] = j /\ Others(t, jb, jb2) /\ jb2 \in [Threads -> Job]
  BY <1>1 DEF Others
<1>3. ASSUME NEW u \in Threads PROVE JobOK(jb2[u], hp2[u], ob2)
  <2>1. CASE u = t
    BY <1>2, <2>1
  <2>2. CASE u # t
    <3>1. jb2[u] = jb[u] /\ hp2[u] = hp[u] /\ JobOK(jb[u], hp[u], ob)
      BY <1>2, <2>2 DEF Others, JobsOK
    <3>2. jb[u].op = "realloc" => jb[u].old \in DOMAIN ob2 /\ ob2[jb[u].old].align = ob[jb[u].old].align
      BY <2>2 DEF OldsKept
    <3> QED BY <3>1, <3>2 DEF JobOK
  <2> QED BY <2>1, <2>2
<1>4. ASSUME NEW u \in Threads, NEW v \in Threads, u # v, jb2[u].op = "realloc", jb2[v].op = "realloc"
      PROVE  jb2[u].old # jb2[v].old
  <2>1. CASE u # t /\ v # t
    BY <1>2, <1>4, <2>1 DEF Others, JobsOK
  <2>2. CASE u = t
    BY <1>2, <1>4, <2>2 DEF Others, Alone
  <2>3. CASE v = t
    BY <1>2, <1>4, <2>3 DEF Others, Alone
  <2> QED BY <2>1, <2>2, <2>3
<1> QED BY <1>2, <1>3, <1>4 DEF JobsOK

\* No call, and that a thread without one may begin one.
LEMMA IdleIs ==
  /\ Idle \in Job /\ Idle.pc = "idle" /\ Idle.op = "none"
  /\ \A h, ob : JobOK(Idle, h, ob)
BY DEF Idle, Job, JobOK

\* The layout j asks for, on behalf of thread t.
Asked(t, j, jb, ob) ==
  /\ j \in Job /\ j.op \in {"alloc", "zeroed", "realloc"}
  /\ j.size \in Nat \ {0} /\ j.align \in Powers
  /\ jb[t].pc # "move"
  /\ j.op = "realloc" => /\ j.old \in DOMAIN ob /\ j.align = ob[j.old].align
                         /\ Alone(t, j.old, jb)

\* thread_heap changes nothing but the slot.
Attaches(hp, t, node, h1, hp1) ==
  /\ h1 = IF hp[t].state = "none" THEN [hp[t] EXCEPT !.state = "bound", !.node = node] ELSE hp[t]
  /\ hp1 = [hp EXCEPT ![t] = h1]

LEMMA AttachKeeps ==
  ASSUME NEW bu, NEW st, NEW hp, NEW mp, NEW kind, NEW who, NEW cls,
         PlacesOK(bu, st, hp, mp, kind, who, cls), NEW m, NEW ob, NEW jb,
         UsesOK(hp, mp, m, ob, jb, kind, who, cls), NEW t \in Threads, jb[t].pc # "carve",
         NEW node \in Nodes, NEW h1, NEW hp1, Attaches(hp, t, node, h1, hp1)
  PROVE  /\ PlacesOK(bu, st, hp1, mp, kind, who, cls)
         /\ UsesOK(hp1, mp, m, ob, jb, kind, who, cls)
         /\ Others(t, hp, hp1) /\ hp1[t] = h1 /\ hp1[t].state # "none"
         /\ hp1 \in [Threads -> Heap]
<1>0. /\ h1 = IF hp[t].state = "none" THEN [hp[t] EXCEPT !.state = "bound", !.node = node] ELSE hp[t]
      /\ hp1 = [hp EXCEPT ![t] = h1]
  BY DEF Attaches
<1>1. hp \in [Threads -> Heap] /\ hp[t] \in Heap /\ HeapsOK(hp)
  BY DEF PlacesOK, HeapsOK
<1>2. h1 \in Heap /\ h1.state # "none"
  BY <1>0, <1>1 DEF Heap
<1>3. hp1[t] = h1 /\ Others(t, hp, hp1) /\ hp1 \in [Threads -> Heap]
  BY <1>0, <1>1, <1>2 DEF Others
<1>4. PlacesOK(bu, st, hp1, mp, kind, who, cls)
  <2>1. CASE hp[t].state # "none"
    <3>1. hp1 = hp
      BY <1>0, <1>1, <2>1
    <3> QED BY <3>1
  <2>2. CASE hp[t].state = "none"
    <3>1. h1 = [hp[t] EXCEPT !.state = "bound", !.node = node]
      BY <1>0, <2>2
    <3>2. h1.cache = hp[t].cache /\ h1.bytes = hp[t].bytes /\ h1.list = hp[t].list /\ h1.spare = hp[t].spare
      BY <1>1, <3>1 DEF Heap
    <3>3. h1.state = "bound"
      BY <1>1, <3>1 DEF Heap
    <3>4. Slots(t, hp, hp1)
      BY <1>0, <1>2, <3>2, <3>3 DEF Slots
    <3> QED BY <2>2, <3>4, SlotKeeps
  <2> QED BY <2>1, <2>2
<1>5. JobsOK(jb, hp1, ob)
  <2>1. JobsOK(jb, hp, ob)
    BY DEF UsesOK
  <2>2. ASSUME NEW u \in Threads PROVE JobOK(jb[u], hp1[u], ob)
    <3>1. JobOK(jb[u], hp[u], ob)
      BY <2>1 DEF JobsOK
    <3>2. CASE u = t
      BY <1>0, <1>3, <3>1, <3>2 DEF JobOK
    <3>3. CASE u # t
      BY <1>3, <3>1, <3>3 DEF Others
    <3> QED BY <3>2, <3>3
  <2> QED BY <2>1, <2>2 DEF JobsOK
<1> QED BY <1>2, <1>3, <1>4, <1>5 DEF UsesOK

-----------------------------------------------------------------------------
(* An object is handed out.                                                *)

\* A new object's words.
LEMMA FilledIs ==
  ASSUME NEW m, MemOK(m), NEW p \in Nat, NEW n \in Nat, RegionBase <= p, p + n <= Top,
         NEW w \in {Pattern(n), Zeros(n)}, NEW m2, m2 = Written(m, p, w)
  PROVE  MemOK(m2) /\ Outside(m2, m, p, n) /\ Words(p, n, m2) = w
<1>1. DOMAIN w = 0 .. n - 1 /\ \A i \in 0 .. n - 1 : w[i] \in Nat
  BY DEF Pattern, Zeros
<1>2. DOMAIN w \subseteq 0 .. n - 1 /\ \A i \in DOMAIN w : w[i] \in Nat
  BY <1>1
<1>3. MemOK(m2) /\ Outside(m2, m, p, n) /\ \A i \in DOMAIN w : Read(m2, p + i) = w[i]
  BY <1>2, WrittenIs
<1>4. w = [i \in 0 .. n - 1 |-> w[i]]
  BY <1>1 DEF Pattern, Zeros
<1>5. Words(p, n, m2) = [i \in 0 .. n - 1 |-> w[i]]
  BY <1>1, <1>3 DEF Words
<1> QED BY <1>3, <1>4, <1>5

\* Deliver, on explicit states.
Delivers(t, j, p, m, fresh, ob, jb, m2, ob2, jb2) ==
  IF j.op = "realloc"
    THEN /\ jb2 = [jb EXCEPT ![t] = [j EXCEPT !.pc = "move", !.new = p]]
         /\ m2 = m
         /\ ob2 = ob
    ELSE /\ jb2 = [jb EXCEPT ![t] = Idle]
         /\ m2 = IF j.op = "alloc" THEN Written(m, p, Pattern(j.size))
                 ELSE IF fresh /\ ~ IsSmall(j.size, j.align) THEN m
                 ELSE Written(m, p, Zeros(j.size))
         /\ ob2 = With(ob, p, j)

\* The words of the chunk x that an object of this layout gets.
Extent(x, size, align, mp) == IF InRegion(x) THEN SizeForClass(ClassOf(size, align)) ELSE mp[x].len

\* The chunk x is ready for an object at p: outside it memory is as before, and a
\* mapping has its header.
Ready(x, p, size, align, mp, m, m1) ==
  /\ MemOK(m1) /\ Outside(m1, m, x, Extent(x, size, align, mp))
  /\ p = IF InRegion(x) THEN x ELSE PayloadAddr(x, align)
  /\ ~ InRegion(x) => Read(m1, p - 2) = x /\ Read(m1, p - 1) = mp[x].len

\* The kind of chunk an object gets, and whose it is.
KindFor(j) == IF j.op = "realloc" THEN "new" ELSE "obj"
WhoFor(j, t, p) == IF j.op = "realloc" THEN t ELSE p

\* The memory part: the object lies in its chunk.
LEMMA ReadyLies ==
  ASSUME NEW bu, NEW mp, NEW kind, NEW cls, ChunksOK(bu, mp, kind, cls),
         NEW x \in Addr, kind[x] # "none",
         NEW size \in Nat \ {0}, NEW align \in Powers, Room(x, size, align, mp, cls),
         NEW p, NEW m, NEW m1, Ready(x, p, size, align, mp, m, m1)
  PROVE  /\ Lies(x, p, size, align, m1, mp, cls) /\ Outside(m1, m, x, Ext(x, mp, cls))
         /\ p \in Nat /\ RegionBase <= p /\ p + size <= Top
         /\ x <= p /\ p + size <= x + Ext(x, mp, cls)
         /\ InRegion(p) <=> InRegion(x)
<1>1. Lies(x, p, size, align, m1, mp, cls)
  BY DEF Ready, Room, Lies
<1>2. Extent(x, size, align, mp) = Ext(x, mp, cls)
  BY DEF Extent, Ext, Room
<1>3. IsPayload(x, p, size, align, Ext(x, mp, cls))
  BY <1>1, LiesIs
<1>4. IsChunk(x, bu, mp, cls)
  BY ChunkIs
<1>5. x \in Nat /\ RegionBase <= x /\ Ext(x, mp, cls) \in Nat /\ x + Ext(x, mp, cls) <= Top
  BY <1>4 DEF IsChunk
<1>6. p \in Nat /\ x <= p /\ p + size <= x + Ext(x, mp, cls) /\ (InRegion(p) <=> InRegion(x))
  BY <1>3 DEF IsPayload
<1>7. RegionBase \in Nat /\ Top \in Nat
  BY ConstantsAre
<1> QED BY <1>1, <1>2, <1>5, <1>6, <1>7 DEF Ready

\* Writing the object changes nothing else of that.
LEMMA FilledLies ==
  ASSUME NEW bu, NEW mp, NEW kind, NEW cls, ChunksOK(bu, mp, kind, cls),
         NEW x \in Addr, kind[x] # "none",
         NEW size \in Nat \ {0}, NEW align \in Powers, Room(x, size, align, mp, cls),
         NEW p, NEW m, NEW m1, Ready(x, p, size, align, mp, m, m1),
         NEW w \in {Pattern(size), Zeros(size)}, NEW m2, m2 = Written(m1, p, w)
  PROVE  /\ Lies(x, p, size, align, m2, mp, cls) /\ Outside(m2, m, x, Ext(x, mp, cls))
         /\ MemOK(m2) /\ Words(p, size, m2) = w
<1>1. /\ Lies(x, p, size, align, m1, mp, cls) /\ Outside(m1, m, x, Ext(x, mp, cls))
      /\ p \in Nat /\ RegionBase <= p /\ p + size <= Top
      /\ x <= p /\ p + size <= x + Ext(x, mp, cls)
  BY ReadyLies
<1>2. MemOK(m1) /\ size \in Nat
  BY DEF Ready
<1>3. MemOK(m2) /\ Outside(m2, m1, p, size) /\ Words(p, size, m2) = w
  BY <1>1, <1>2, FilledIs
<1>4. x \in Int /\ Ext(x, mp, cls) \in Int /\ p \in Int /\ size \in Int
  <2>1. IsChunk(x, bu, mp, cls)
    BY ChunkIs
  <2> QED BY <1>1, <2>1 DEF IsChunk
<1>5. Outside(m2, m1, x, Ext(x, mp, cls))
  BY <1>1, <1>3, <1>4, OutsideMore
<1>6. Outside(m2, m, x, Ext(x, mp, cls))
  BY <1>1, <1>4, <1>5, OutsideTwice
<1>7. Read(m2, p - 2) = Read(m1, p - 2) /\ Read(m2, p - 1) = Read(m1, p - 1)
  BY <1>3, <1>4 DEF Outside
<1>8. Lies(x, p, size, align, m2, mp, cls)
  BY <1>1, <1>7 DEF Lies
<1> QED BY <1>3, <1>6, <1>8

\* The objects other reallocs are about stay when the objects do.
LEMMA OldsStay ==
  ASSUME NEW t \in Threads, NEW hp, NEW ob, NEW jb, JobsOK(jb, hp, ob), NEW ob2,
         \A q \in DOMAIN ob : q \in DOMAIN ob2 /\ ob2[q] = ob[q]
  PROVE  OldsKept(t, jb, ob, ob2)
BY DEF JobsOK, JobOK, OldsKept

\* alloc has found the chunk x for an object at p.
Delivery(t, j, x, p, m1, fresh, hp, mp, m, kind, who, cls, bu2, st2, hp2, mp2) ==
  /\ Obtains(x, KindFor(j), WhoFor(j, t, p), t, j.size, j.align, hp, mp, kind, who, cls, bu2, st2, hp2, mp2)
  /\ Ready(x, p, j.size, j.align, mp2, m, m1)
  /\ fresh \in BOOLEAN
  /\ fresh /\ ~ IsSmall(j.size, j.align) => Words(p, j.size, m1) = Zeros(j.size)

\* alloc has its block or mapping: the call ends, or realloc goes on.
LEMMA DeliverKeeps ==
  ASSUME NEW hp, NEW mp, NEW m, NEW ob, NEW jb, NEW kind, NEW who, NEW cls,
         UsesOK(hp, mp, m, ob, jb, kind, who, cls), NEW t \in Threads, NEW j, Asked(t, j, jb, ob),
         NEW x, NEW p, NEW bu2, NEW st2, NEW hp2, NEW mp2, NEW m1, NEW fresh,
         Delivery(t, j, x, p, m1, fresh, hp, mp, m, kind, who, cls, bu2, st2, hp2, mp2),
         NEW m2, NEW ob2, NEW jb2, Delivers(t, j, p, m1, fresh, ob, jb, m2, ob2, jb2)
  PROVE  Keeps(t, hp, m, ob, jb, kind, cls, bu2, st2, hp2, mp2, m2, ob2, jb2)
<1>1. PICK kind2, who2, cls2 :
        /\ Stepped(x, mp, kind, who, cls, bu2, st2, hp2, mp2, kind2, who2, cls2)
        /\ x \in Addr /\ ~ Used(kind[x]) /\ kind2[x] = KindFor(j) /\ who2[x] = WhoFor(j, t, p)
        /\ Room(x, j.size, j.align, mp2, cls2)
        /\ InRegion(x) => NodeForPtr(x) = hp2[t].node
        /\ Others(t, hp, hp2)
  BY DEF Obtains, Delivery
<1>10. /\ Ready(x, p, j.size, j.align, mp2, m, m1)
       /\ fresh /\ ~ IsSmall(j.size, j.align) => Words(p, j.size, m1) = Zeros(j.size)
  BY DEF Delivery
<1>2. /\ PlacesOK(bu2, st2, hp2, mp2, kind2, who2, cls2) /\ ChunksOK(bu2, mp2, kind2, cls2)
      /\ SameUses(x, mp, kind, who, cls, mp2, kind2, who2, cls2) /\ Grows(kind, cls, kind2, cls2)
  BY <1>1 DEF Stepped, PlacesOK
<1>3. /\ ObjsOK(ob, m, mp, kind, who, cls) /\ NewsOK(jb, m, mp, kind, who, cls)
      /\ JobsOK(jb, hp, ob) /\ MemOK(m) /\ jb \in [Threads -> Job]
  BY DEF UsesOK, JobsOK
<1>4. /\ j \in Job /\ j.op \in {"alloc", "zeroed", "realloc"}
      /\ j.size \in Nat \ {0} /\ j.align \in Powers /\ jb[t].pc # "move"
      /\ j.op = "realloc" => /\ j.old \in DOMAIN ob /\ j.align = ob[j.old].align
                             /\ Alone(t, j.old, jb)
  BY DEF Asked
<1>5. x \in Addr /\ kind2[x] # "none"
  BY <1>1 DEF KindFor
<1>6. /\ Lies(x, p, j.size, j.align, m1, mp2, cls2) /\ Outside(m1, m, x, Ext(x, mp2, cls2))
      /\ p \in Nat /\ (InRegion(p) <=> InRegion(x)) /\ MemOK(m1)
      /\ InRegion(x) => p = x
  <2>1. MemOK(m1) /\ (InRegion(x) => p = x)
    BY <1>10 DEF Ready
  <2> QED BY <1>1, <1>2, <1>10, <1>4, <1>5, <2>1, ReadyLies
<1>7. InRegion(p) => NodeForPtr(p) = hp2[t].node
  BY <1>1, <1>6
<1>8. CASE j.op = "realloc"
  <2>1. PICK jn : jn = [j EXCEPT !.pc = "move", !.new = p]
    OBVIOUS
  <2>2. jb2 = [jb EXCEPT ![t] = jn] /\ m2 = m1 /\ ob2 = ob
    BY <1>8, <2>1 DEF Delivers
  <2>3. /\ jn \in Job /\ jn.pc = "move" /\ jn.new = p /\ jn.op = "realloc"
        /\ jn.size = j.size /\ jn.align = j.align /\ jn.old = j.old
    BY <1>4, <1>6, <1>8, <2>1 DEF Job
  <2>4. JobOK(jn, hp2[t], ob2)
    BY <1>4, <1>8, <2>2, <2>3 DEF JobOK
  <2>5. OldsKept(t, jb, ob, ob2)
    BY <1>3, <2>2, OldsStay
  <2>6. JobsOK(jb2, hp2, ob2) /\ jb2[t] = jn /\ Others(t, jb, jb2)
    <3>1. GoesOn(t, jn, jb, hp2, ob2)
      BY <1>4, <1>8, <2>3, <2>4 DEF GoesOn
    <3>2. Turns(t, jn, jb, jb2)
      BY <2>2 DEF Turns
    <3> QED BY <1>1, <1>3, <2>5, <3>1, <3>2, JobsNext
  <2>7. /\ ObjsOK(ob, m1, mp2, kind2, who2, cls2) /\ NewsOK(jb2, m1, mp2, kind2, who2, cls2)
        /\ Stored(ob, m1) = Stored(ob, m)
    <3>1. kind2[x] = "new" /\ who2[x] = t
      BY <1>1, <1>8 DEF KindFor, WhoFor
    <3>2. jb2[t].pc = "move" /\ \A u \in Threads \ {t} : jb2[u] = jb[u]
      BY <2>3, <2>6 DEF Others
    <3>3. Lies(x, jb2[t].new, jb2[t].size, jb2[t].align, m1, mp2, cls2)
      BY <1>6, <2>3, <2>6
    <3> QED BY <1>1, <1>2, <1>3, <1>4, <1>6, <3>1, <3>2, <3>3, NewGained
  <2>8. UsesOK(hp2, mp2, m2, ob2, jb2, kind2, who2, cls2)
    BY <1>6, <2>2, <2>6, <2>7 DEF UsesOK
  <2>9. StoreStep(Stored(ob, m), Stored(ob2, m2))
    BY <2>2, <2>7 DEF StoreStep
  <2>10. Got(t, ob, jb, ob2, jb2) = {p}
    BY <2>3, <2>6 DEF Got
  <2> QED BY <1>1, <1>2, <1>7, <2>6, <2>8, <2>9, <2>10 DEF Keeps
<1>9. CASE j.op # "realloc"
  <2>1. /\ jb2 = [jb EXCEPT ![t] = Idle] /\ ob2 = With(ob, p, j)
        /\ m2 = IF j.op = "alloc" THEN Written(m1, p, Pattern(j.size))
                ELSE IF fresh /\ ~ IsSmall(j.size, j.align) THEN m1
                ELSE Written(m1, p, Zeros(j.size))
    BY <1>9 DEF Delivers
  <2>2. /\ Lies(x, p, j.size, j.align, m2, mp2, cls2) /\ Outside(m2, m, x, Ext(x, mp2, cls2))
        /\ MemOK(m2) /\ Words(p, j.size, m2) \in {Pattern(j.size), Zeros(j.size)}
    <3>1. ASSUME NEW w \in {Pattern(j.size), Zeros(j.size)}, m2 = Written(m1, p, w)
          PROVE  /\ Lies(x, p, j.size, j.align, m2, mp2, cls2) /\ Outside(m2, m, x, Ext(x, mp2, cls2))
                 /\ MemOK(m2) /\ Words(p, j.size, m2) = w
      BY <1>1, <1>2, <1>4, <1>5, <1>10, <3>1, FilledLies
    <3>2. CASE m2 = m1 /\ fresh /\ ~ IsSmall(j.size, j.align)
      BY <1>6, <1>10, <3>2
    <3> QED BY <2>1, <3>1, <3>2
  <2>3. jb2[t] = Idle /\ Others(t, jb, jb2)
    BY <1>3, <2>1 DEF Others
  <2>4. /\ Gained(ob, m, p, j.size, j.align, ob2, m2)
        /\ ObjsOK(ob2, m2, mp2, kind2, who2, cls2) /\ NewsOK(jb2, m2, mp2, kind2, who2, cls2)
    <3>1. kind2[x] = "obj" /\ who2[x] = p
      BY <1>1, <1>9 DEF KindFor, WhoFor
    <3>2. \A a \in Addr \ {x} : kind[a] = "new" => who[a] # t
      BY <1>3, <1>4 DEF NewsOK
    <3>3. jb2[t].pc # "move" /\ \A u \in Threads \ {t} : jb2[u] = jb[u]
      BY <2>3, IdleIs DEF Others
    <3>4. kind[x] # "obj" /\ (kind[x] = "new" => who[x] = t)
      BY <1>1 DEF Used
    <3>5. Gains(x, p, t, kind, who, kind2, who2, jb, jb2)
      BY <3>1, <3>2, <3>3, <3>4 DEF Gains
    <3>6. x \in Addr
      BY <1>1
    <3>7. /\ ObjsOK(ob, m, mp, kind, who, cls) /\ NewsOK(jb, m, mp, kind, who, cls)
          /\ SameUses(x, mp, kind, who, cls, mp2, kind2, who2, cls2) /\ ChunksOK(bu2, mp2, kind2, cls2)
      BY <1>2, <1>3
    <3>8. Outside(m2, m, x, Ext(x, mp2, cls2)) /\ Lies(x, p, j.size, j.align, m2, mp2, cls2)
      BY <2>2
    <3>9. Joined(ob, p, j.size, j.align, ob2)
      BY <2>1 DEF Joined, With
    <3> QED BY <3>5, <3>6, <3>7, <3>8, <3>9, ObjGained
  <2>11. JobsOK(jb2, hp2, ob2)
    <3>1. OldsKept(t, jb, ob, ob2)
      BY <1>3, <2>4, OldsStay DEF Gained
    <3>2. GoesOn(t, Idle, jb, hp2, ob2)
      BY IdleIs DEF GoesOn
    <3>3. Others(t, hp, hp2) /\ JobsOK(jb, hp, ob)
      BY <1>1, <1>3
    <3>4. Turns(t, Idle, jb, jb2)
      BY <2>1 DEF Turns
    <3> QED BY <3>1, <3>2, <3>3, <3>4, JobsNext
  <2>5. UsesOK(hp2, mp2, m2, ob2, jb2, kind2, who2, cls2)
    BY <2>2, <2>4, <2>11 DEF UsesOK
  <2>6. SAlloc(Stored(ob, m), Stored(ob2, m2))
    <3>1. DOMAIN Stored(ob, m) = DOMAIN ob /\ DOMAIN Stored(ob2, m2) = DOMAIN ob2
      BY StoredIs
    <3>2. p \in DOMAIN ob2 /\ ob2[p].size = j.size
      BY <2>4 DEF Gained
    <3>3. Stored(ob2, m2)[p].size = j.size /\ Stored(ob2, m2)[p].words = Words(p, j.size, m2)
      <4>1. /\ Stored(ob2, m2)[p].size = ob2[p].size
            /\ Stored(ob2, m2)[p].words = Words(p, ob2[p].size, m2)
        BY <3>2, StoredIs
      <4> QED BY <3>2, <4>1
    <3> QED BY <2>2, <2>4, <3>1, <3>2, <3>3 DEF SAlloc, Gained
  <2>7. Got(t, ob, jb, ob2, jb2) = {p}
    BY <1>4, <2>3, <2>4, IdleIs DEF Got, Gained
  <2> QED BY <1>1, <1>2, <1>7, <2>3, <2>5, <2>6, <2>7 DEF Keeps, StoreStep
<1> QED BY <1>8, <1>9

-----------------------------------------------------------------------------
(* A step that changes nothing the program has.                            *)

LEMMA SteppedNot ==
  ASSUME NEW bu, NEW st, NEW hp, NEW mp, NEW kind, NEW who, NEW cls,
         PlacesOK(bu, st, hp, mp, kind, who, cls)
  PROVE  Stepped(Junk, mp, kind, who, cls, bu, st, hp, mp, kind, who, cls)
BY DEF Stepped, SameUses, Grows

\* Memory and objects are the same, and thread t's call is no realloc that has an object.
LEMMA StaysKeeps ==
  ASSUME NEW hp, NEW mp, NEW m, NEW ob, NEW jb, NEW kind, NEW who, NEW cls,
         UsesOK(hp, mp, m, ob, jb, kind, who, cls), NEW t \in Threads,
         NEW bu2, NEW st2, NEW hp2, NEW mp2, NEW jb2, NEW kind2, NEW who2, NEW cls2,
         Stepped(Junk, mp, kind, who, cls, bu2, st2, hp2, mp2, kind2, who2, cls2),
         Others(t, hp, hp2), Others(t, jb, jb2), jb[t].pc # "move", jb2[t].pc # "move",
         JobsOK(jb2, hp2, ob)
  PROVE  Keeps(t, hp, m, ob, jb, kind, cls, bu2, st2, hp2, mp2, m, ob, jb2)
<1>1. /\ PlacesOK(bu2, st2, hp2, mp2, kind2, who2, cls2)
      /\ SameUses(Junk, mp, kind, who, cls, mp2, kind2, who2, cls2) /\ Grows(kind, cls, kind2, cls2)
  BY DEF Stepped
<1>2. ObjsOK(ob, m, mp, kind, who, cls) /\ NewsOK(jb, m, mp, kind, who, cls) /\ MemOK(m)
  BY DEF UsesOK
<1>3. \A u \in Threads : jb2[u] = jb[u] \/ (jb[u].pc # "move" /\ jb2[u].pc # "move")
  BY DEF Others
<1>4. ObjsOK(ob, m, mp2, kind2, who2, cls2) /\ NewsOK(jb2, m, mp2, kind2, who2, cls2)
  BY <1>1, <1>2, <1>3, UsesStay
<1>5. UsesOK(hp2, mp2, m, ob, jb2, kind2, who2, cls2)
  BY <1>2, <1>4 DEF UsesOK
<1>6. Got(t, ob, jb, ob, jb2) = {}
  BY DEF Got
<1> QED BY <1>1, <1>5, <1>6 DEF Keeps, StoreStep

\* Only the call changes.
LEMMA CallKeeps ==
  ASSUME NEW bu, NEW st, NEW hp, NEW mp, NEW m, NEW ob, NEW jb, NEW kind, NEW who, NEW cls,
         PlacesOK(bu, st, hp, mp, kind, who, cls), UsesOK(hp, mp, m, ob, jb, kind, who, cls),
         NEW t \in Threads, jb[t].pc # "move",
         NEW j, GoesOn(t, j, jb, hp, ob), j.pc # "move", NEW jb2, Turns(t, j, jb, jb2)
  PROVE  Keeps(t, hp, m, ob, jb, kind, cls, bu, st, hp, mp, m, ob, jb2)
<1>1. JobsOK(jb, hp, ob) /\ Others(t, hp, hp)
  BY DEF UsesOK, Others
<1>2. OldsKept(t, jb, ob, ob)
  BY <1>1, OldsStay
<1>3. JobsOK(jb2, hp, ob) /\ jb2[t] = j /\ Others(t, jb, jb2)
  BY <1>1, <1>2, JobsNext
<1>4. Stepped(Junk, mp, kind, who, cls, bu, st, hp, mp, kind, who, cls)
  BY SteppedNot
<1>5. jb2[t].pc # "move"
  BY <1>3
<1> QED BY <1>1, <1>3, <1>4, <1>5, StaysKeeps

-----------------------------------------------------------------------------
(* The large path.                                                         *)

\* The header in front of a payload.
HeaderFits(p) == p \in Nat /\ RegionBase <= p - 2 /\ p <= Top

HasHeader(m2, m, p, raw, len) ==
  MemOK(m2) /\ Outside(m2, m, p - 2, 2) /\ Read(m2, p - 2) = raw /\ Read(m2, p - 1) = len

LEMMA HeaderIs ==
  ASSUME NEW m, MemOK(m), NEW p, HeaderFits(p), NEW raw \in Nat, NEW len \in Nat
  PROVE  HasHeader(WithHeader(m, p, raw, len), m, p, raw, len)
<1> USE DEF HeaderFits
<1> PICK m2 : m2 = WithHeader(m, p, raw, len)
  OBVIOUS
<1>1. PICK w : w = [i \in 0 .. 1 |-> IF i = 0 THEN raw ELSE len]
  OBVIOUS
<1>2. m2 = Written(m, p - 2, w)
  BY <1>1 DEF WithHeader
<1>3. DOMAIN w = 0 .. 1 /\ w[0] = raw /\ w[1] = len /\ DOMAIN w \subseteq 0 .. 2 - 1 /\ \A i \in DOMAIN w : w[i] \in Nat
  BY <1>1
<1>4. p - 2 \in Nat /\ p - 2 + 2 <= Top
  BY ConstantsAre
<1>5. MemOK(m2) /\ Outside(m2, m, p - 2, 2) /\ \A i \in DOMAIN w : Read(m2, (p - 2) + i) = w[i]
  <2>1. PICK q, n, v : q = p - 2 /\ n = 2 /\ v = Written(m, q, w)
    OBVIOUS
  <2>2. q \in Nat /\ n \in Nat /\ RegionBase <= q /\ q + n <= Top
    BY <1>4, <2>1
  <2>3. DOMAIN w \subseteq 0 .. n - 1 /\ \A i \in DOMAIN w : w[i] \in Nat
    BY <1>3, <2>1
  <2>4. v = Written(m, q, w)
    BY <2>1
  <2>5. MemOK(v) /\ Outside(v, m, q, n) /\ \A i \in DOMAIN w : Read(v, q + i) = w[i]
    BY <2>2, <2>3, <2>4, WrittenIs
  <2> QED BY <1>2, <2>1, <2>5
<1>6. Read(m2, (p - 2) + 0) = raw /\ Read(m2, (p - 2) + 1) = len
  BY <1>3, <1>5
<1>7. (p - 2) + 0 = p - 2 /\ (p - 2) + 1 = p - 1
  OBVIOUS
<1> QED BY <1>5, <1>6, <1>7 DEF HasHeader

\* A mapping with room for an object.
Roomy(x, size, align, len) ==
  /\ x \in Maps /\ len \in Nat /\ x + len <= Top
  /\ HeaderSize + Maximum(align, HeaderAlign) - 1 + size <= len

\* Its payload and header lie in it.
LEMMA PayloadFits ==
  ASSUME NEW size \in Nat \ {0}, NEW align \in Powers, NEW x, NEW len, Roomy(x, size, align, len),
         NEW p, p = PayloadAddr(x, align)
  PROVE  /\ p \in Nat /\ x \in Nat /\ RegionBase <= x /\ x <= p - 2 /\ p + size <= x + len
<1>1. x \in Nat /\ RegionEnd <= x /\ RegionBase <= RegionEnd /\ RegionBase \in Nat /\ RegionEnd \in Nat
  BY ConstantsAre, MapIs DEF Roomy
<1>2. PICK unit : unit = Maximum(align, HeaderAlign)
  OBVIOUS
<1>3. unit \in Nat \ {0}
  BY <1>2, PaddingIs
<1>4. HeaderSize = 2
  BY AllocatorAssumption
<1>5. p \in Int /\ p >= x + HeaderSize /\ p <= x + HeaderSize + unit - 1
  BY <1>1, <1>2, PayloadIs
<1>6. HeaderSize + unit - 1 + size <= len /\ len \in Nat
  BY <1>2 DEF Roomy
<1> QED BY <1>1, <1>3, <1>4, <1>5, <1>6

\* prepare_large_payload for an object at p in the mapping x.
Prepares(x, size, align, len, m, m0, p, m1) ==
  /\ MemOK(m0) /\ Outside(m0, m, x, len) /\ Roomy(x, size, align, len)
  /\ p = PayloadAddr(x, align) /\ m1 = WithHeader(m0, p, x, len)

LEMMA LargeReady ==
  ASSUME NEW size \in Nat \ {0}, NEW align \in Powers,
         NEW x, NEW len, NEW m, NEW m0, NEW p, NEW m1, Prepares(x, size, align, len, m, m0, p, m1),
         NEW mp, mp[x].len = len
  PROVE  Ready(x, p, size, align, mp, m, m1) /\ Words(p, size, m1) = Words(p, size, m0)
<1> USE DEF Prepares
<1>1. p \in Nat /\ x \in Nat /\ RegionBase <= x /\ x <= p - 2 /\ p + size <= x + len
  BY PayloadFits
<1>2. len \in Nat /\ x + len <= Top /\ Top \in Nat /\ RegionBase \in Nat /\ ~ InRegion(x)
  BY ConstantsAre, MapIs DEF Roomy
<1>3. RegionBase <= p - 2 /\ p <= Top
  BY <1>1, <1>2
<1>4. MemOK(m1) /\ Outside(m1, m0, p - 2, 2) /\ Read(m1, p - 2) = x /\ Read(m1, p - 1) = len
  <2>1. HeaderFits(p)
    BY <1>1, <1>3 DEF HeaderFits
  <2>2. HasHeader(WithHeader(m0, p, x, len), m0, p, x, len)
    BY <1>1, <1>2, <2>1, HeaderIs
  <2> QED BY <2>2 DEF HasHeader
<1>5. p - 2 \in Int /\ 2 \in Int /\ x \in Int /\ len \in Int /\ x <= p - 2 /\ (p - 2) + 2 <= x + len
  BY <1>1, <1>2
<1>6. Outside(m1, m0, x, len)
  BY <1>4, <1>5, OutsideMore
<1>7. Outside(m1, m, x, len)
  <2>1. Outside(m0, m, x, len)
    OBVIOUS
  <2> QED BY <1>5, <1>6, <2>1, OutsideTwice
<1>8. Words(p, size, m1) = Words(p, size, m0)
  <2>1. p \in Int /\ size \in Nat /\ (p + size <= p - 2 \/ (p - 2) + 2 <= p)
    BY <1>1
  <2> QED BY <1>4, <1>5, <2>1, WordsKept
<1> QED BY <1>2, <1>4, <1>7, <1>8 DEF Ready, Extent

\* The mapping that alloc found.
LEMMA FoundIs ==
  ASSUME NEW x, NEW kk, Used(kk), NEW ww, NEW t, NEW size, NEW align, NEW hp, NEW mp, NEW kind, NEW who, NEW cls,
         NEW bu2, NEW st2, NEW hp2, NEW mp2, x \in Maps,
         Obtains(x, kk, ww, t, size, align, hp, mp, kind, who, cls, bu2, st2, hp2, mp2)
  PROVE  Roomy(x, size, align, mp2[x].len)
<1>1. PICK kind2, who2, cls2 :
        /\ Stepped(x, mp, kind, who, cls, bu2, st2, hp2, mp2, kind2, who2, cls2)
        /\ x \in Addr /\ kind2[x] = kk /\ Room(x, size, align, mp2, cls2)
  BY DEF Obtains
<1>2. ~ InRegion(x)
  BY MapIs
<1>3. kind2[x] # "none" /\ ChunksOK(bu2, mp2, kind2, cls2)
  BY <1>1 DEF Used, Stepped, PlacesOK
<1>4. MapOK(x, mp2)
  BY <1>1, <1>2, <1>3 DEF ChunksOK
<1> QED BY <1>1, <1>2, <1>4 DEF MapOK, Room, Roomy

\* Deliver is what Delivers says.
LEMMA DeliverIs ==
  ASSUME NEW t, NEW j, NEW p, NEW m, NEW fresh, Deliver(t, j, p, m, fresh)
  PROVE  Delivers(t, j, p, m, fresh, objs, job, mem', objs', job')
BY DEF Deliver, Delivers

\* The kernel's choice is free.
LEMMA LowestFreeIs ==
  ASSUME NEW len \in Nat, maps \in [Maps -> [len : Nat, node : Nodes]], NEW raw \in LowestFree(len)
  PROVE  FreeAt(raw, len, maps)
<1>1. /\ raw \in Maps /\ raw + len <= Top
      /\ \A s \in {Stretch(m, maps[m].len) : m \in {r \in Maps : maps[r].len # 0}} : Apart(Stretch(raw, len), s)
  BY DEF LowestFree
<1>2. ASSUME NEW m \in Maps, maps[m].len # 0 PROVE raw + len <= m \/ m + maps[m].len <= raw
  <2>1. Apart(Stretch(raw, len), Stretch(m, maps[m].len))
    BY <1>1, <1>2
  <2> QED BY <2>1 DEF Apart, Stretch
<1> QED BY <1>1, <1>2 DEF FreeAt

\* What alloc does when it has its PerThreadHeap.
Begun(t, j, hp, kind, who, cls) ==
  /\ PlacesOK(bump, stack, hp, maps, kind, who, cls)
  /\ UsesOK(hp, maps, mem, objs, job, kind, who, cls)
  /\ Asked(t, j, job, objs)
  /\ heap \in [Threads -> Heap] /\ hp = [heap EXCEPT ![t] = hp[t]]

\* A kind of chunk that alloc makes.
LEMMA KindForIs ==
  ASSUME NEW j
  PROVE  Used(KindFor(j))
BY DEF Used, KindFor

\* The three ways alloc_large_tracked may go.
TakesCached(t, h, j, need, x, len, h2, p) ==
  /\ need # 0 /\ need = LargeAllocSize(j.size, j.align) /\ CacheTakes(h, need, x, len, h2)
  /\ p = PayloadAddr(x, j.align)
  /\ Turns(t, h2, heap, heap') /\ maps' = maps
  /\ Deliver(t, j, p, WithHeader(mem, p, x, len), FALSE)

GetsMapped(t, h, j, need, raw, p) ==
  /\ need # 0 /\ need = LargeAllocSize(j.size, j.align) /\ raw \in LowestFree(need)
  /\ p = PayloadAddr(raw, j.align)
  /\ Mapped(raw, need, h.node, maps, maps') /\ Turns(t, h, heap, heap')
  /\ Deliver(t, j, p, WithHeader(Written(mem, p, Zeros(j.size)), p, raw, need), TRUE)

Fails(t, h) ==
  Turns(t, h, heap, heap') /\ Turns(t, Idle, job, job') /\ maps' = maps /\ mem' = mem /\ objs' = objs

LEMMA AllocLargeIs ==
  ASSUME NEW t, NEW h, NEW j, AllocLarge(t, h, j)
  PROVE  \/ \E need, x, len, h2, p : TakesCached(t, h, j, need, x, len, h2, p)
         \/ \E need, raw, p : GetsMapped(t, h, j, need, raw, p)
         \/ Fails(t, h)
<1>1. PICK need, i : need = LargeAllocSize(j.size, j.align) /\ i = IF need = 0 THEN 0 ELSE TakeIndex(h.cache, need)
  OBVIOUS
<1>2. \/ /\ i # 0
         /\ LET e == h.cache[i]
                p == PayloadAddr(e.map, j.align)
            IN /\ heap' = [heap EXCEPT ![t] = [h EXCEPT !.cache = SwapRemove(@, i), !.bytes = @ - e.size]]
               /\ Deliver(t, j, p, WithHeader(mem, p, e.map, e.size), FALSE)
         /\ maps' = maps
      \/ /\ need # 0
         /\ \E raw \in LowestFree(need) :
              LET p == PayloadAddr(raw, j.align)
              IN /\ maps' = [maps EXCEPT ![raw] = [len |-> need, node |-> h.node]]
                 /\ Deliver(t, j, p, WithHeader(Written(mem, p, Zeros(j.size)), p, raw, need), TRUE)
         /\ heap' = [heap EXCEPT ![t] = h]
      \/ /\ heap' = [heap EXCEPT ![t] = h]
         /\ job' = [job EXCEPT ![t] = Idle]
         /\ maps' = maps /\ mem' = mem /\ objs' = objs
  BY <1>1, Zenon DEF AllocLarge
<1>3. CASE /\ i # 0
           /\ LET e == h.cache[i]
                  p == PayloadAddr(e.map, j.align)
              IN /\ heap' = [heap EXCEPT ![t] = [h EXCEPT !.cache = SwapRemove(@, i), !.bytes = @ - e.size]]
                 /\ Deliver(t, j, p, WithHeader(mem, p, e.map, e.size), FALSE)
           /\ maps' = maps
  <2>1. PICK e, p, h2 : /\ e = h.cache[i] /\ p = PayloadAddr(e.map, j.align)
                        /\ h2 = [h EXCEPT !.cache = SwapRemove(@, i), !.bytes = @ - e.size]
    OBVIOUS
  <2>2. heap' = [heap EXCEPT ![t] = h2] /\ Deliver(t, j, p, WithHeader(mem, p, e.map, e.size), FALSE)
    BY <1>3, <2>1
  <2>3. need # 0 /\ i = TakeIndex(h.cache, need) /\ i # 0
    BY <1>1, <1>3
  <2>4. PICK x, len : x = e.map /\ len = e.size
    OBVIOUS
  <2>6. CacheTakes(h, need, x, len, h2)
    BY <2>1, <2>3, <2>4, Zenon DEF CacheTakes
  <2>5. TakesCached(t, h, j, need, x, len, h2, p)
    BY <1>1, <1>3, <2>1, <2>2, <2>3, <2>4, <2>6 DEF TakesCached, Turns
  <2> QED BY <2>5
<1>4. CASE /\ need # 0
           /\ \E raw \in LowestFree(need) :
                LET p == PayloadAddr(raw, j.align)
                IN /\ maps' = [maps EXCEPT ![raw] = [len |-> need, node |-> h.node]]
                   /\ Deliver(t, j, p, WithHeader(Written(mem, p, Zeros(j.size)), p, raw, need), TRUE)
           /\ heap' = [heap EXCEPT ![t] = h]
  <2>1. PICK raw \in LowestFree(need) :
          LET p == PayloadAddr(raw, j.align)
          IN /\ maps' = [maps EXCEPT ![raw] = [len |-> need, node |-> h.node]]
             /\ Deliver(t, j, p, WithHeader(Written(mem, p, Zeros(j.size)), p, raw, need), TRUE)
    BY <1>4
  <2>2. PICK p : p = PayloadAddr(raw, j.align)
    OBVIOUS
  <2>3. GetsMapped(t, h, j, need, raw, p)
    BY <1>1, <1>4, <2>1, <2>2 DEF GetsMapped, Mapped, Turns
  <2> QED BY <2>3
<1>5. CASE /\ heap' = [heap EXCEPT ![t] = h]
           /\ job' = [job EXCEPT ![t] = Idle]
           /\ maps' = maps /\ mem' = mem /\ objs' = objs
  BY <1>5 DEF Fails, Turns
<1> QED BY <1>2, <1>3, <1>4, <1>5

\* A change of thread t's slot is the same from heap as from hp.
LEMMA TurnsFrom ==
  ASSUME NEW t \in Threads, NEW j, NEW hp, NEW kind, NEW who, NEW cls, Begun(t, j, hp, kind, who, cls),
         NEW h2, NEW hp2, Turns(t, h2, heap, hp2)
  PROVE  Turns(t, h2, hp, hp2)
BY DEF Begun, Turns

LEMMA AllocLargeKeeps ==
  ASSUME NEW t \in Threads, NEW j, NEW hp, NEW kind, NEW who, NEW cls, Begun(t, j, hp, kind, who, cls),
         AllocLarge(t, hp[t], j), bump' = bump, stack' = stack
  PROVE  Keeps(t, hp, mem, objs, job, kind, cls, bump', stack', heap', maps', mem', objs', job')
<1>1. /\ PlacesOK(bump, stack, hp, maps, kind, who, cls) /\ UsesOK(hp, maps, mem, objs, job, kind, who, cls)
      /\ Asked(t, j, job, objs) /\ hp \in [Threads -> Heap] /\ heap \in [Threads -> Heap]
      /\ hp = [heap EXCEPT ![t] = hp[t]] /\ hp[t] \in Heap
  BY DEF Begun, PlacesOK, HeapsOK
<1>2. /\ j.size \in Nat \ {0} /\ j.align \in Powers /\ job[t].pc # "move"
  BY <1>1 DEF Asked
<1>3. /\ maps \in [Maps -> [len : Nat, node : Nodes]] /\ MemOK(mem)
  BY <1>1 DEF PlacesOK, ChunksOK, UsesOK
<1>4. ASSUME NEW need, NEW x, NEW len, NEW h2, NEW p, TakesCached(t, hp[t], j, need, x, len, h2, p)
      PROVE  Keeps(t, hp, mem, objs, job, kind, cls, bump, stack, heap', maps, mem', objs', job')
  <2>1. /\ need # 0 /\ need = LargeAllocSize(j.size, j.align) /\ CacheTakes(hp[t], need, x, len, h2)
        /\ p = PayloadAddr(x, j.align) /\ Turns(t, h2, heap, heap')
        /\ Deliver(t, j, p, WithHeader(mem, p, x, len), FALSE)
    BY <1>4 DEF TakesCached
  <2>2. PICK m1, kk, ww : m1 = WithHeader(mem, p, x, len) /\ kk = KindFor(j) /\ ww = WhoFor(j, t, p)
    OBVIOUS
  <2>3. Turns(t, h2, hp, heap') /\ Used(kk)
    BY <2>1, <2>2, TurnsFrom, KindForIs
  <2>4. /\ Obtains(x, kk, ww, t, j.size, j.align, hp, maps, kind, who, cls, bump, stack, heap', maps)
        /\ x \in Maps /\ len = maps[x].len
    <3>1. PICK size, align, hp2 : size = j.size /\ align = j.align /\ hp2 = heap'
      OBVIOUS
    <3>2. MapFound(hp, t, size, align, x, len, h2)
      BY <2>1, <3>1 DEF MapFound
    <3>4. /\ size \in Nat \ {0} /\ align \in Powers /\ Turns(t, h2, hp, hp2) /\ Used(kk)
          /\ PlacesOK(bump, stack, hp, maps, kind, who, cls)
      BY <1>1, <1>2, <2>3, <3>1
    <3>3. /\ Obtains(x, kk, ww, t, size, align, hp, maps, kind, who, cls, bump, stack, hp2, maps)
          /\ x \in Maps /\ len = maps[x].len
      BY <3>2, <3>4, CacheTakeKeeps
    <3> QED BY <3>1, <3>3
  <2>5. Obtains(x, KindFor(j), WhoFor(j, t, p), t, j.size, j.align, hp, maps, kind, who, cls, bump, stack, heap', maps)
    BY <2>2, <2>4
  <2>6. Roomy(x, j.size, j.align, len)
    BY <2>2, <2>3, <2>4, FoundIs
  <2>7. Ready(x, p, j.size, j.align, maps, mem, m1)
    <3>1. Prepares(x, j.size, j.align, len, mem, mem, p, m1)
      BY <1>3, <2>1, <2>2, <2>6, OutsideNone DEF Prepares
    <3>2. maps[x].len = len
      BY <2>4
    <3> QED BY <1>2, <3>1, <3>2, LargeReady
  <2>8. Delivers(t, j, p, m1, FALSE, objs, job, mem', objs', job')
    BY <2>1, <2>2, DeliverIs
  <2>9. Delivery(t, j, x, p, m1, FALSE, hp, maps, mem, kind, who, cls, bump, stack, heap', maps)
    BY <2>5, <2>7 DEF Delivery
  <2> QED BY <1>1, <2>8, <2>9, DeliverKeeps
<1>5. ASSUME NEW need, NEW x, NEW p, GetsMapped(t, hp[t], j, need, x, p)
      PROVE  Keeps(t, hp, mem, objs, job, kind, cls, bump, stack, heap', maps', mem', objs', job')
  <2>1. /\ need # 0 /\ need = LargeAllocSize(j.size, j.align) /\ x \in LowestFree(need)
        /\ p = PayloadAddr(x, j.align)
        /\ Mapped(x, need, hp[t].node, maps, maps') /\ Turns(t, hp[t], heap, heap')
        /\ Deliver(t, j, p, WithHeader(Written(mem, p, Zeros(j.size)), p, x, need), TRUE)
    BY <1>5 DEF GetsMapped
  <2>2. PICK m0, m1, kk, ww, node :
          /\ m0 = Written(mem, p, Zeros(j.size)) /\ m1 = WithHeader(m0, p, x, need)
          /\ kk = KindFor(j) /\ ww = WhoFor(j, t, p) /\ node = hp[t].node
    OBVIOUS
  <2>3. heap' = hp
    BY <1>1, <2>1 DEF Turns
  <2>4. need \in Nat \ {0} /\ need \in Nat
    BY <1>2, <2>1, NeedIs
  <2>5. FreeAt(x, need, maps)
    BY <1>3, <2>1, <2>4, LowestFreeIs
  <2>6. node \in Nodes /\ Mapped(x, need, node, maps, maps') /\ Used(kk)
    BY <1>1, <2>1, <2>2, KindForIs DEF Heap
  <2>7. /\ Obtains(x, kk, ww, t, j.size, j.align, hp, maps, kind, who, cls, bump, stack, hp, maps')
        /\ maps'[x].len = need
    <3>1. PICK size, align, mp2 : size = j.size /\ align = j.align /\ mp2 = maps'
      OBVIOUS
    <3>2. /\ size \in Nat \ {0} /\ align \in Powers /\ need = LargeAllocSize(size, align) /\ need # 0
          /\ FreeAt(x, need, maps) /\ node \in Nodes /\ Mapped(x, need, node, maps, mp2) /\ Used(kk)
          /\ PlacesOK(bump, stack, hp, maps, kind, who, cls)
      BY <1>1, <1>2, <2>1, <2>5, <2>6, <3>1
    <3>3. /\ Obtains(x, kk, ww, t, size, align, hp, maps, kind, who, cls, bump, stack, hp, mp2)
          /\ mp2[x].len = need
      BY <3>2, MmapKeeps
    <3> QED BY <3>1, <3>3
  <2>8. Obtains(x, KindFor(j), WhoFor(j, t, p), t, j.size, j.align, hp, maps, kind, who, cls, bump, stack, heap', maps')
    BY <2>2, <2>3, <2>7
  <2>9. x \in Maps
    BY <2>5 DEF FreeAt
  <2>10. Roomy(x, j.size, j.align, need)
    BY <2>2, <2>6, <2>7, <2>8, <2>9, FoundIs
  <2>11. p \in Nat /\ x \in Nat /\ RegionBase <= x /\ x <= p - 2 /\ p + j.size <= x + need
    BY <1>2, <2>1, <2>10, PayloadFits
  <2>12. x + need <= Top /\ Top \in Nat /\ RegionBase \in Nat
    BY <2>10, ConstantsAre DEF Roomy
  <2>13. MemOK(m0) /\ Outside(m0, mem, p, j.size) /\ Words(p, j.size, m0) = Zeros(j.size)
    <3>1. RegionBase <= p /\ p + j.size <= Top /\ j.size \in Nat
      BY <1>2, <2>4, <2>11, <2>12
    <3>2. PICK w : w = Zeros(j.size)
      OBVIOUS
    <3>3. w \in {Pattern(j.size), Zeros(j.size)} /\ m0 = Written(mem, p, w)
      BY <2>2, <3>2
    <3>4. MemOK(m0) /\ Outside(m0, mem, p, j.size) /\ Words(p, j.size, m0) = w
      BY <1>3, <2>11, <3>1, <3>3, FilledIs
    <3> QED BY <3>2, <3>4
  <2>14. Ready(x, p, j.size, j.align, maps', mem, m1) /\ Words(p, j.size, m1) = Words(p, j.size, m0)
    <3>1. Outside(m0, mem, x, need)
      <4>1. p \in Int /\ j.size \in Int /\ x \in Int /\ need \in Int /\ x <= p /\ p + j.size <= x + need
        BY <1>2, <2>4, <2>11
      <4> QED BY <2>13, <4>1, OutsideMore
    <3>2. Prepares(x, j.size, j.align, need, mem, m0, p, m1)
      BY <2>1, <2>2, <2>10, <2>13, <3>1 DEF Prepares
    <3>3. maps'[x].len = need
      BY <2>7
    <3> QED BY <1>2, <3>2, <3>3, LargeReady
  <2>15. Delivers(t, j, p, m1, TRUE, objs, job, mem', objs', job')
    BY <2>1, <2>2, DeliverIs
  <2>16. Delivery(t, j, x, p, m1, TRUE, hp, maps, mem, kind, who, cls, bump, stack, heap', maps')
    BY <2>8, <2>13, <2>14 DEF Delivery
  <2> QED BY <1>1, <2>15, <2>16, DeliverKeeps
<1>6. ASSUME Fails(t, hp[t])
      PROVE  Keeps(t, hp, mem, objs, job, kind, cls, bump, stack, heap', maps', mem', objs', job')
  <2>1. heap' = hp /\ Turns(t, Idle, job, job') /\ maps' = maps /\ mem' = mem /\ objs' = objs
    BY <1>1, <1>6 DEF Fails, Turns
  <2>2. GoesOn(t, Idle, job, hp, objs) /\ Idle.pc # "move"
    BY IdleIs DEF GoesOn
  <2>3. Keeps(t, hp, mem, objs, job, kind, cls, bump, stack, hp, maps, mem, objs, job')
    BY <1>1, <1>2, <2>1, <2>2, CallKeeps
  <2> QED BY <2>1, <2>3
<1>7. bump' = bump /\ stack' = stack
  OBVIOUS
<1>8. ASSUME NEW need, NEW x, NEW len, NEW h2, NEW p, TakesCached(t, hp[t], j, need, x, len, h2, p) PROVE maps' = maps
  BY <1>8 DEF TakesCached
<1> QED BY <1>4, <1>5, <1>6, <1>7, <1>8, AllocLargeIs

-----------------------------------------------------------------------------
(* The small path.                                                         *)

\* A small layout has a class.
LEMMA SmallClass ==
  ASSUME NEW size \in Nat \ {0}, NEW align \in Powers, IsSmall(size, align)
  PROVE  ClassOf(size, align) \in Classes
<1>1. align \in Nat \ {0}
  BY Pow2Is DEF Powers
<1>2. PICK e, c : e = Effective(size, align) /\ c = SizeClassIndex(e)
  OBVIOUS
<1>3. e \in Nat \ {0}
  BY <1>1, <1>2, MaximumIs DEF Effective
<1>4. e <= SmallLimit
  BY <1>2 DEF IsSmall
<1>5. c \in 0 .. NumClasses - 1
  BY <1>2, <1>3, <1>4, ClassIs
<1> QED BY <1>2, <1>5 DEF ClassOf, Classes

\* The two ways alloc's first steps may go: a block is found, or a bag has to be carved.
Hits(t, h, j, c, chain, h2, p) ==
  /\ Takes(h, stack, c, chain, stack', h2) /\ Turns(t, h2, heap, heap') /\ p = Head(chain)
  /\ maps' = maps /\ Deliver(t, j, p, mem, FALSE)

Misses(t, h, j, c) ==
  /\ h.list[c] = <<>> /\ stack' = stack /\ Turns(t, h, heap, heap')
  /\ Turns(t, [j EXCEPT !.pc = "carve"], job, job')
  /\ maps' = maps /\ mem' = mem /\ objs' = objs

LEMMA AllocSmallIs ==
  ASSUME NEW t, NEW h, NEW j, AllocSmall(t, h, j), NEW c, c = ClassOf(j.size, j.align), c \in Classes,
         stack \in [Nodes -> [Classes -> Seq(Addr)]], h.node \in Nodes
  PROVE  (\E chain, h2, p : Hits(t, h, j, c, chain, h2, p)) \/ Misses(t, h, j, c)
<1>1. PICK own : own = IF h.list[c] # <<>> THEN h.list[c] ELSE h.spare[c]
  OBVIOUS
<1>2. PICK chain : chain = IF own # <<>> THEN own ELSE stack[h.node][c]
  OBVIOUS
<1>3. PICK batch : batch = IF h.list[c] # <<>> \/ Len(chain) < RefillBatch THEN Len(chain) ELSE RefillBatch
  OBVIOUS
<1>4. PICK rest : rest = SubSeq(chain, batch + 1, Len(chain))
  OBVIOUS
<1>5. /\ stack' = IF own # <<>> THEN stack ELSE [stack EXCEPT ![h.node][c] = <<>>]
      /\ IF chain # <<>>
           THEN /\ heap' = [heap EXCEPT ![t] =
                     [h EXCEPT !.list[c] = SubSeq(chain, 2, batch),
                               !.spare[c] = IF h.list[c] # <<>> THEN @ ELSE rest]]
                /\ Deliver(t, j, Head(chain), mem, FALSE)
           ELSE /\ heap' = [heap EXCEPT ![t] = h]
                /\ job' = [job EXCEPT ![t] = [j EXCEPT !.pc = "carve"]]
                /\ mem' = mem /\ objs' = objs
      /\ maps' = maps
  BY <1>1, <1>2, <1>3, <1>4, Zenon DEF AllocSmall
<1>6. CASE chain # <<>>
  <2>1. PICK h2 : h2 = [h EXCEPT !.list[c] = SubSeq(chain, 2, batch),
                                 !.spare[c] = IF h.list[c] # <<>> THEN @ ELSE SubSeq(chain, batch + 1, Len(chain))]
    OBVIOUS
  <2>2. Takes(h, stack, c, chain, stack', h2)
    BY <1>1, <1>2, <1>3, <1>5, <1>6, <2>1, Zenon DEF Takes
  <2>3. Turns(t, h2, heap, heap') /\ Deliver(t, j, Head(chain), mem, FALSE) /\ maps' = maps
    BY <1>4, <1>5, <1>6, <2>1, Zenon DEF Turns
  <2> QED BY <2>2, <2>3 DEF Hits
<1>7. CASE chain = <<>>
  <2>1. own = <<>> /\ stack[h.node][c] = <<>>
    BY <1>2, <1>7
  <2>2. h.list[c] = <<>>
    BY <1>1, <2>1
  <2>3. stack' = [stack EXCEPT ![h.node][c] = <<>>]
    BY <1>5, <2>1
  <2>4. stack' = stack
    BY <2>1, <2>3
  <2> QED BY <1>5, <1>7, <2>2, <2>4 DEF Misses, Turns
<1> QED BY <1>6, <1>7

\* A block is ready as it is.
LEMMA BlockReady ==
  ASSUME NEW x, InRegion(x), NEW size, NEW align, NEW mp, NEW m, MemOK(m)
  PROVE  Ready(x, x, size, align, mp, m, m)
BY OutsideNone DEF Ready

LEMMA AllocSmallKeeps ==
  ASSUME NEW t \in Threads, NEW j, NEW hp, NEW kind, NEW who, NEW cls, Begun(t, j, hp, kind, who, cls),
         hp[t].state = "bound", IsSmall(j.size, j.align), AllocSmall(t, hp[t], j), bump' = bump
  PROVE  Keeps(t, hp, mem, objs, job, kind, cls, bump', stack', heap', maps', mem', objs', job')
<1>1. /\ PlacesOK(bump, stack, hp, maps, kind, who, cls) /\ UsesOK(hp, maps, mem, objs, job, kind, who, cls)
      /\ Asked(t, j, job, objs) /\ hp \in [Threads -> Heap] /\ heap \in [Threads -> Heap]
      /\ hp = [heap EXCEPT ![t] = hp[t]] /\ hp[t] \in Heap
      /\ stack \in [Nodes -> [Classes -> Seq(Addr)]]
  BY DEF Begun, PlacesOK, HeapsOK
<1>2. /\ j.size \in Nat \ {0} /\ j.align \in Powers /\ job[t].pc # "move" /\ j \in Job
  BY <1>1 DEF Asked
<1>3. PICK c : c = ClassOf(j.size, j.align)
  OBVIOUS
<1>4. c \in Classes /\ hp[t].node \in Nodes
  BY <1>1, <1>2, <1>3, SmallClass DEF Heap
<1>5. ASSUME NEW chain, NEW h2, NEW p, Hits(t, hp[t], j, c, chain, h2, p)
      PROVE  Keeps(t, hp, mem, objs, job, kind, cls, bump, stack', heap', maps, mem', objs', job')
  <2>1. /\ Takes(hp[t], stack, c, chain, stack', h2) /\ Turns(t, h2, heap, heap') /\ p = Head(chain)
        /\ Deliver(t, j, p, mem, FALSE)
    BY <1>5 DEF Hits
  <2>2. PICK kk, ww, size, align, hp2, st2 :
           kk = KindFor(j) /\ ww = WhoFor(j, t, p) /\ size = j.size /\ align = j.align /\ hp2 = heap' /\ st2 = stack'
    OBVIOUS
  <2>3. Turns(t, h2, hp, hp2) /\ Used(kk)
    BY <2>1, <2>2, TurnsFrom, KindForIs
  <2>4. Takes(hp[t], stack, c, chain, st2, h2) /\ IsSmall(size, align) /\ c = ClassOf(size, align)
    BY <1>3, <2>1, <2>2
  <2>5. Obtains(Head(chain), kk, ww, t, size, align, hp, maps, kind, who, cls, bump, st2, hp2, maps)
    BY <1>1, <1>4, <2>3, <2>4, TakeKeeps
  <2>6. Obtains(p, KindFor(j), WhoFor(j, t, p), t, j.size, j.align, hp, maps, kind, who, cls, bump, stack', heap', maps)
    BY <2>1, <2>2, <2>5
  <2>7. InRegion(p)
    <3>1. chain \in Seq(Addr) /\ chain # <<>> /\ \A i \in DOMAIN chain : InRegion(chain[i])
      <4>1. \/ chain = hp[t].list[c] \/ chain = hp[t].spare[c] \/ chain = stack[hp[t].node][c]
        BY <2>1, Zenon DEF Takes
      <4>2. chain # <<>>
        BY <2>1, Zenon DEF Takes
      <4>3. PICK n, A, B, C : /\ n = hp[t].node /\ A = Of("list", t, c, kind, who, cls)
                              /\ B = Of("spare", t, c, kind, who, cls) /\ C = Of("stack", n, c, kind, who, cls)
        OBVIOUS
      <4>4. AreSpots(A, B, C, t, n, c, stack, hp, kind, who, cls)
        BY <1>1, <1>4, <4>3, SpotsAre
      <4>5. /\ Lists(hp[t].list[c], A) /\ Lists(hp[t].spare[c], B) /\ Lists(stack[n][c], C)
            /\ \A a \in A \cup B \cup C : InRegion(a)
        BY <4>4 DEF AreSpots
      <4>6. PICK S : Lists(chain, S) /\ \A a \in S : InRegion(a)
        BY <4>1, <4>3, <4>5
      <4> QED BY <4>2, <4>6 DEF Lists, Elems
    <3>2. 1 \in DOMAIN chain /\ Head(chain) = chain[1]
      BY <3>1
    <3> QED BY <2>1, <3>1, <3>2
  <2>8. Ready(p, p, j.size, j.align, maps, mem, mem)
    BY <1>1, <2>7, BlockReady DEF UsesOK
  <2>9. Delivers(t, j, p, mem, FALSE, objs, job, mem', objs', job')
    BY <2>1, DeliverIs
  <2>10. Delivery(t, j, p, p, mem, FALSE, hp, maps, mem, kind, who, cls, bump, stack', heap', maps)
    BY <2>6, <2>8 DEF Delivery
  <2> QED BY <1>1, <2>9, <2>10, DeliverKeeps
<1>6. ASSUME Misses(t, hp[t], j, c)
      PROVE  Keeps(t, hp, mem, objs, job, kind, cls, bump, stack', heap', maps', mem', objs', job')
  <2>1. PICK k : k = [j EXCEPT !.pc = "carve"]
    OBVIOUS
  <2>2. /\ heap' = hp /\ Turns(t, k, job, job') /\ maps' = maps /\ mem' = mem /\ objs' = objs /\ stack' = stack
        /\ hp[t].list[c] = <<>>
    BY <1>1, <1>6, <2>1 DEF Misses, Turns
  <2>3. k \in Job /\ k.pc = "carve" /\ k.op = j.op /\ k.size = j.size /\ k.align = j.align /\ k.old = j.old
    BY <1>2, <2>1 DEF Job
  <2>4. GoesOn(t, k, job, hp, objs)
    BY <1>1, <1>2, <1>3, <2>2, <2>3 DEF GoesOn, JobOK, Asked
  <2>5. Keeps(t, hp, mem, objs, job, kind, cls, bump, stack, hp, maps, mem, objs, job')
    BY <1>1, <1>2, <2>2, <2>3, <2>4, CallKeeps
  <2> QED BY <2>2, <2>5
<1>7. ASSUME NEW chain, NEW h2, NEW p, Hits(t, hp[t], j, c, chain, h2, p) PROVE maps' = maps
  BY <1>7 DEF Hits
<1>8. (\E chain, h2, p : Hits(t, hp[t], j, c, chain, h2, p)) \/ Misses(t, hp[t], j, c)
  BY <1>1, <1>3, <1>4, AllocSmallIs
<1> QED BY <1>5, <1>6, <1>7, <1>8

\* A thread that has gone on to carve a bag.
LEMMA CarveBegun ==
  ASSUME NEW t \in Threads, NEW kind, NEW who, NEW cls, Placed(kind, who, cls), job[t].pc = "carve"
  PROVE  /\ Begun(t, job[t], heap, kind, who, cls)
         /\ heap[t].state = "bound" /\ IsSmall(job[t].size, job[t].align)
         /\ heap[t].list[ClassOf(job[t].size, job[t].align)] = <<>>
<1>1. /\ PlacesOK(bump, stack, heap, maps, kind, who, cls)
      /\ UsesOK(heap, maps, mem, objs, job, kind, who, cls)
      /\ heap \in [Threads -> Heap]
  BY DEF Placed, PlacesOK, HeapsOK
<1>2. JobsOK(job, heap, objs)
  BY <1>1 DEF UsesOK
<1>3. JobOK(job[t], heap[t], objs) /\ job[t] \in Job
  BY <1>2 DEF JobsOK
<1>4. job[t].op = "realloc" => Alone(t, job[t].old, job)
  BY <1>2 DEF JobsOK, Alone
<1>5. job[t].op \in {"alloc", "zeroed", "realloc"}
  BY <1>3 DEF JobOK, Job
<1>6. Asked(t, job[t], job, objs)
  BY <1>3, <1>4, <1>5 DEF Asked, JobOK
<1>7. heap = [heap EXCEPT ![t] = heap[t]]
  BY <1>1
<1> QED BY <1>1, <1>3, <1>6, <1>7 DEF Begun, JobOK

\* Where the next bag goes.
LEMMA FirstIs ==
  ASSUME NEW n \in Nodes, NEW bu, bu[n] \in Nat, NEW c \in Classes,
         NEW first, first = AlignUp(NodeBase(n) + bu[n], BagSizeForClass(c)),
         first - NodeBase(n) + BagSizeForClass(c) <= RegionSize
  PROVE  IsFresh(first, c, n, bu)
<1>1. PICK s, bag, x : s = SizeForClass(c) /\ bag = BagSizeForClass(c) /\ x = NodeBase(n) + bu[n]
  OBVIOUS
<1>2. bag \in Nat \ {0}
  BY <1>1, BagIs
<1>3. NodeBase(n) \in Nat /\ RegionSize \in Nat
  BY NodeBaseIs, ConstantsAre
<1>4. x \in Int
  BY <1>1, <1>3
<1>5. first = (x + bag - 1) - ((x + bag - 1) % bag)
  BY <1>1 DEF AlignUp
<1>6. first \in Int /\ first % bag = 0 /\ x <= first
  BY <1>2, <1>4, <1>5, NextMultiple
<1>7. first \in Nat /\ NodeBase(n) + bu[n] <= first /\ first + bag <= NodeBase(n) + RegionSize
  BY <1>1, <1>2, <1>3, <1>6
<1> QED BY <1>1, <1>6, <1>7 DEF IsFresh

\* The two ways the step may go.
Carved(t, j, c, first, p) ==
  /\ Carves(heap, bump, t, c, first, bump', heap') /\ p = Head(BagBlocks(first, c))
  /\ Deliver(t, j, p, mem, FALSE) /\ maps' = maps /\ stack' = stack

LEMMA CarveIs ==
  ASSUME NEW t \in Threads, NEW j, j = job[t], Carve(t), NEW c \in Classes, c = ClassOf(j.size, j.align),
         heap[t].node \in Nodes, heap[t].list[c] = <<>>, bump \in [Nodes -> 0 .. RegionSize]
  PROVE  \/ \E first, p : Carved(t, j, c, first, p)
         \/ AllocLarge(t, heap[t], j) /\ bump' = bump /\ stack' = stack
<1>1. PICK n, bag : n = heap[t].node /\ bag = BagSizeForClass(c)
  OBVIOUS
<1>2. PICK first : first = AlignUp(NodeBase(n) + bump[n], bag)
  OBVIOUS
<1>3. PICK blocks : blocks = BagBlocks(first, c)
  OBVIOUS
<1>4. /\ IF first - NodeBase(n) + bag <= RegionSize
           THEN /\ bump' = [bump EXCEPT ![n] = first - NodeBase(n) + bag]
                /\ heap' = [heap EXCEPT ![t].list[c] = Tail(blocks)]
                /\ Deliver(t, j, Head(blocks), mem, FALSE)
                /\ maps' = maps
           ELSE AllocLarge(t, heap[t], j) /\ bump' = bump
      /\ stack' = stack
  BY <1>1, <1>2, <1>3, Zenon DEF Carve
<1>5. CASE first - NodeBase(n) + bag <= RegionSize
  <2>1. n \in Nodes /\ bump[n] \in Nat
    BY <1>1, ConstantsAre
  <2>2. IsFresh(first, c, n, bump)
    BY <1>1, <1>2, <1>5, <2>1, FirstIs
  <2>3. Carves(heap, bump, t, c, first, bump', heap')
    BY <1>1, <1>3, <1>4, <1>5, <2>2, Zenon DEF Carves
  <2> QED BY <1>3, <1>4, <1>5, <2>3 DEF Carved
<1>6. CASE ~ (first - NodeBase(n) + bag <= RegionSize)
  BY <1>4, <1>6
<1> QED BY <1>5, <1>6

\* Carve keeps everything in its place.
LEMMA CarveStep ==
  ASSUME NEW t \in Threads, NEW kind, NEW who, NEW cls, Placed(kind, who, cls), Carve(t)
  PROVE  Keeps(t, heap, mem, objs, job, kind, cls, bump', stack', heap', maps', mem', objs', job')
<1>1. PICK j : j = job[t]
  OBVIOUS
<1>2. PICK c : c = ClassOf(j.size, j.align)
  OBVIOUS
<1>3. job[t].pc = "carve"
  BY DEF Carve
<1>4. /\ Begun(t, j, heap, kind, who, cls) /\ heap[t].state = "bound" /\ IsSmall(j.size, j.align)
      /\ heap[t].list[c] = <<>>
  BY <1>1, <1>2, <1>3, CarveBegun
<1>5. /\ PlacesOK(bump, stack, heap, maps, kind, who, cls) /\ UsesOK(heap, maps, mem, objs, job, kind, who, cls)
      /\ Asked(t, j, job, objs) /\ heap \in [Threads -> Heap] /\ MemOK(mem)
  BY <1>4 DEF Begun, UsesOK
<1>6. bump \in [Nodes -> 0 .. RegionSize] /\ heap[t].node \in Nodes
  BY <1>5 DEF PlacesOK, ChunksOK, Heap
<1>7. c \in Classes
  BY <1>2, <1>4, <1>5, SmallClass DEF Asked
<1>8. ASSUME NEW first, NEW p, Carved(t, j, c, first, p)
      PROVE  Keeps(t, heap, mem, objs, job, kind, cls, bump', stack', heap', maps', mem', objs', job')
  <2>1. /\ Carves(heap, bump, t, c, first, bump', heap') /\ p = Head(BagBlocks(first, c))
        /\ Deliver(t, j, p, mem, FALSE) /\ maps' = maps /\ stack' = stack
    BY <1>8 DEF Carved
  <2>2. PICK kk, ww, size, align, hp2, bu2 :
           kk = KindFor(j) /\ ww = WhoFor(j, t, p) /\ size = j.size /\ align = j.align /\ hp2 = heap' /\ bu2 = bump'
    OBVIOUS
  <2>3. /\ Carves(heap, bump, t, c, first, bu2, hp2) /\ IsSmall(size, align) /\ c = ClassOf(size, align)
        /\ Used(kk)
    BY <1>2, <1>4, <2>1, <2>2, KindForIs
  <2>4. Obtains(Head(BagBlocks(first, c)), kk, ww, t, size, align, heap, maps, kind, who, cls, bu2, stack, hp2, maps)
    BY <1>4, <1>5, <1>7, <2>3, CarveKeeps
  <2>5. Obtains(p, KindFor(j), WhoFor(j, t, p), t, j.size, j.align, heap, maps, kind, who, cls, bump', stack, heap', maps)
    BY <2>1, <2>2, <2>4
  <2>6. InRegion(p)
    <3>1. PICK n : n = heap[t].node
      OBVIOUS
    <3>2. IsFresh(first, c, n, bump) /\ n \in Nodes /\ bump[n] \in Nat
      BY <1>6, <2>1, <3>1, ConstantsAre DEF Carves
    <3>3. PICK S : Lists(BagBlocks(first, c), S) /\ BagBlocks(first, c) # <<>> /\ \A a \in S : InBag(a, first, c, n)
      BY <1>7, <3>2, BagBlocksAre
    <3>4. PICK bs : bs = BagBlocks(first, c)
      OBVIOUS
    <3>5. bs \in Seq(Addr) /\ bs # <<>> /\ \A i \in DOMAIN bs : bs[i] \in S
      BY <3>3, <3>4 DEF Lists, Elems
    <3>6. Head(bs) \in S
      BY <3>5
    <3> QED BY <2>1, <3>3, <3>4, <3>6 DEF InBag
  <2>7. Ready(p, p, j.size, j.align, maps, mem, mem)
    BY <1>5, <2>6, BlockReady
  <2>8. Delivers(t, j, p, mem, FALSE, objs, job, mem', objs', job')
    BY <2>1, DeliverIs
  <2>9. Delivery(t, j, p, p, mem, FALSE, heap, maps, mem, kind, who, cls, bump', stack, heap', maps)
    BY <2>5, <2>7 DEF Delivery
  <2>10. Keeps(t, heap, mem, objs, job, kind, cls, bump', stack, heap', maps, mem', objs', job')
    BY <1>5, <2>8, <2>9, DeliverKeeps
  <2> QED BY <2>1, <2>10
<1>9. ASSUME AllocLarge(t, heap[t], j), bump' = bump, stack' = stack
      PROVE  Keeps(t, heap, mem, objs, job, kind, cls, bump', stack', heap', maps', mem', objs', job')
  BY <1>4, <1>9, AllocLargeKeeps
<1>10. (\E first, p : Carved(t, j, c, first, p)) \/ (AllocLarge(t, heap[t], j) /\ bump' = bump /\ stack' = stack)
  BY <1>1, <1>2, <1>4, <1>6, <1>7, CarveIs
<1> QED BY <1>8, <1>9, <1>10

-----------------------------------------------------------------------------
(* alloc and the first step of realloc.                                    *)

\* thread_heap, before alloc goes on: hp has the thread's PerThreadHeap.
LEMMA AttachBegun ==
  ASSUME NEW t \in Threads, NEW kind, NEW who, NEW cls, Placed(kind, who, cls), nextNode \in Nodes,
         job[t].pc # "carve"
  PROVE  \E hp : /\ PlacesOK(bump, stack, hp, maps, kind, who, cls)
                 /\ UsesOK(hp, maps, mem, objs, job, kind, who, cls)
                 /\ heap \in [Threads -> Heap] /\ hp = [heap EXCEPT ![t] = hp[t]]
                 /\ Others(t, heap, hp) /\ hp[t] = Attached(t) /\ hp[t].state # "none"
                 /\ heap[t].state # "gone" => hp[t].state = "bound"
                 /\ hp \in [Threads -> Heap]
<1>1. /\ PlacesOK(bump, stack, heap, maps, kind, who, cls)
      /\ UsesOK(heap, maps, mem, objs, job, kind, who, cls)
      /\ heap \in [Threads -> Heap]
  BY DEF Placed, PlacesOK, HeapsOK
<1>2. PICK h1 : h1 = IF heap[t].state = "none" THEN [heap[t] EXCEPT !.state = "bound", !.node = nextNode] ELSE heap[t]
  OBVIOUS
<1>3. PICK hp1 : hp1 = [heap EXCEPT ![t] = h1]
  OBVIOUS
<1>4. /\ PlacesOK(bump, stack, hp1, maps, kind, who, cls)
      /\ UsesOK(hp1, maps, mem, objs, job, kind, who, cls)
      /\ Others(t, heap, hp1) /\ hp1[t] = h1 /\ hp1[t].state # "none" /\ hp1 \in [Threads -> Heap]
  <2>1. PICK node : node = nextNode
    OBVIOUS
  <2>2. Attaches(heap, t, node, h1, hp1) /\ node \in Nodes
    BY <1>2, <1>3, <2>1 DEF Attaches
  <2> QED BY <1>1, <2>2, AttachKeeps
<1>5. h1 = Attached(t)
  BY <1>2 DEF Attached
<1>6. heap[t] \in Heap
  BY <1>1
<1>7. heap[t].state # "gone" => h1.state = "bound"
  BY <1>2, <1>6 DEF Heap
<1>8. hp1 = [heap EXCEPT ![t] = hp1[t]]
  BY <1>3, <1>4
<1> QED BY <1>1, <1>4, <1>5, <1>7, <1>8

\* The round-robin counter stays a node.
LEMMA CountNodeIs ==
  ASSUME NEW t, nextNode \in Nodes, CountNode(t)
  PROVE  nextNode' \in Nodes
<1>1. NumNodes \in Nat \ {0}
  BY ConstantsAre
<1>2. nextNode + 1 \in Int
  BY <1>1 DEF Nodes
<1>3. (nextNode + 1) % NumNodes \in 0 .. NumNodes - 1
  BY <1>1, <1>2
<1> QED BY <1>3 DEF CountNode, Nodes

LEMMA AllocStartStep ==
  ASSUME NEW t \in Threads, NEW kind, NEW who, NEW cls, Placed(kind, who, cls), nextNode \in Nodes,
         job[t] = Idle, NEW j, Asked(t, j, job, objs), AllocStart(t, j)
  PROVE  /\ Keeps(t, heap, mem, objs, job, kind, cls, bump', stack', heap', maps', mem', objs', job')
         /\ nextNode' \in Nodes
<1>1. job[t].pc # "carve"
  BY IdleIs
<1>2. PICK hp : /\ PlacesOK(bump, stack, hp, maps, kind, who, cls)
                /\ UsesOK(hp, maps, mem, objs, job, kind, who, cls)
                /\ heap \in [Threads -> Heap] /\ hp = [heap EXCEPT ![t] = hp[t]]
                /\ Others(t, heap, hp) /\ hp[t] = Attached(t) /\ hp[t].state # "none"
                /\ heap[t].state # "gone" => hp[t].state = "bound"
                /\ hp \in [Threads -> Heap]
  BY <1>1, AttachBegun
<1>3. Begun(t, j, hp, kind, who, cls)
  BY <1>2 DEF Begun
<1>4. bump' = bump
  BY DEF AllocStart
<1>5. CASE IsSmall(j.size, j.align) /\ heap[t].state # "gone"
  <2>1. AllocSmall(t, hp[t], j) /\ CountNode(t) /\ hp[t].state = "bound" /\ IsSmall(j.size, j.align)
    BY <1>2, <1>5, Zenon DEF AllocStart
  <2>2. Keeps(t, hp, mem, objs, job, kind, cls, bump', stack', heap', maps', mem', objs', job')
    BY <1>3, <1>4, <2>1, AllocSmallKeeps
  <2>3. Keeps(t, heap, mem, objs, job, kind, cls, bump', stack', heap', maps', mem', objs', job')
    BY <1>2, <2>2, KeepsFrom
  <2> QED BY <2>1, <2>3, CountNodeIs
<1>6. CASE ~ (IsSmall(j.size, j.align) /\ heap[t].state # "gone") /\ LargeAllocSize(j.size, j.align) # 0
  <2>1. AllocLarge(t, hp[t], j) /\ CountNode(t) /\ stack' = stack
    BY <1>2, <1>6, Zenon DEF AllocStart
  <2>2. Keeps(t, hp, mem, objs, job, kind, cls, bump', stack', heap', maps', mem', objs', job')
    BY <1>3, <1>4, <2>1, AllocLargeKeeps
  <2>3. Keeps(t, heap, mem, objs, job, kind, cls, bump', stack', heap', maps', mem', objs', job')
    BY <1>2, <2>2, KeepsFrom
  <2> QED BY <2>1, <2>3, CountNodeIs
<1>7. CASE ~ (IsSmall(j.size, j.align) /\ heap[t].state # "gone") /\ LargeAllocSize(j.size, j.align) = 0
  <2>1. AllocLarge(t, heap[t], j) /\ nextNode' = nextNode /\ stack' = stack
    BY <1>7, Zenon DEF AllocStart
  <2>2. heap = [heap EXCEPT ![t] = heap[t]]
    BY <1>2
  <2>3. Begun(t, j, heap, kind, who, cls)
    BY <1>2, <2>2 DEF Begun, Placed
  <2>4. Keeps(t, heap, mem, objs, job, kind, cls, bump', stack', heap', maps', mem', objs', job')
    BY <1>4, <2>1, <2>3, AllocLargeKeeps
  <2> QED BY <2>1, <2>4
<1> QED BY <1>5, <1>6, <1>7

\* The calls are counted up to the bound.
LEMMA CallsCounted ==
  ASSUME CountsOK, NEW t, NEW j, AllocStart(t, j)
  PROVE  calls' \in 0 .. MaxCalls /\ exits' \in 0 .. MaxExits
BY AllocatorAssumption DEF CountsOK, AllocStart

\* The call a program makes.
LEMMA CallIs ==
  ASSUME NEW op \in {"alloc", "zeroed", "realloc"}, NEW size \in Nat \ {0}, NEW align \in Powers, NEW old \in Nat
  PROVE  /\ Call(op, size, align, old) \in Job /\ Call(op, size, align, old).op = op
         /\ Call(op, size, align, old).size = size /\ Call(op, size, align, old).align = align
         /\ Call(op, size, align, old).old = old
<1>1. align \in Nat
  BY Pow2Is DEF Powers
<1> QED BY <1>1 DEF Call, Job

\* What every action keeps.
KeepsAll(t, kind, cls) ==
  /\ Keeps(t, heap, mem, objs, job, kind, cls, bump', stack', heap', maps', mem', objs', job')
  /\ CountsOK'

LEMMA AllocStep ==
  ASSUME NEW t \in Threads, NEW kind, NEW who, NEW cls, Placed(kind, who, cls), CountsOK,
         NEW r \in Requests, Alloc(t, r[1], r[2], r[3])
  PROVE  KeepsAll(t, kind, cls)
<1>1. r[1] \in {"alloc", "zeroed"} /\ r[2] \in Nat \ {0} /\ r[3] \in Powers
  BY AllocatorAssumption
<1>2. PICK j : j = Call(r[1], r[2], r[3], 0)
  OBVIOUS
<1>3. /\ j \in Job /\ j.op = r[1] /\ j.size = r[2] /\ j.align = r[3]
  BY <1>1, <1>2, CallIs
<1>4. job[t] = Idle /\ AllocStart(t, j)
  BY <1>2 DEF Alloc
<1>5. Asked(t, j, job, objs)
  BY <1>1, <1>3, <1>4, IdleIs DEF Asked
<1>6. nextNode \in Nodes
  BY DEF CountsOK
<1>7. /\ Keeps(t, heap, mem, objs, job, kind, cls, bump', stack', heap', maps', mem', objs', job')
      /\ nextNode' \in Nodes
  BY <1>4, <1>5, <1>6, AllocStartStep
<1>8. calls' \in 0 .. MaxCalls /\ exits' \in 0 .. MaxExits
  BY <1>4, CallsCounted
<1> QED BY <1>7, <1>8 DEF KeepsAll, CountsOK

\* An object the program may use: no call is about it.
LEMMA FreeToUse ==
  ASSUME NEW kind, NEW who, NEW cls, Placed(kind, who, cls), NEW p \in DOMAIN objs \ Busy
  PROVE  /\ \A u \in Threads : job[u].old # p
         /\ \E x \in Addr : /\ kind[x] = "obj" /\ who[x] = p
                            /\ Lies(x, p, objs[p].size, objs[p].align, mem, maps, cls)
         /\ objs[p].size \in Nat \ {0} /\ objs[p].align \in Powers /\ p \in Nat
<1>1. ObjsOK(objs, mem, maps, kind, who, cls) /\ ChunksOK(bump, maps, kind, cls)
  BY DEF Placed, UsesOK, PlacesOK
<1>2. PICK x \in Addr : kind[x] = "obj" /\ who[x] = p
  BY <1>1 DEF ObjsOK
<1>3. Lies(x, p, objs[p].size, objs[p].align, mem, maps, cls)
  BY <1>1, <1>2 DEF ObjsOK
<1>4. IsPayload(x, p, objs[p].size, objs[p].align, Ext(x, maps, cls))
  <2>1. kind[x] # "none"
    BY <1>2
  <2> QED BY <1>1, <1>3, <2>1, LiesIs
<1> QED BY <1>2, <1>3, <1>4 DEF Busy, Lies, IsPayload

LEMMA ReallocStep ==
  ASSUME NEW t \in Threads, NEW kind, NEW who, NEW cls, Placed(kind, who, cls), CountsOK,
         NEW p \in DOMAIN objs, NEW n \in Sizes, Realloc(t, p, n)
  PROVE  KeepsAll(t, kind, cls)
<1>1. p \in DOMAIN objs \ Busy
  BY DEF Realloc
<1>2. /\ n \in Nat \ {0} /\ objs[p].align \in Powers /\ p \in Nat
      /\ \A u \in Threads : job[u].old # p
  BY <1>1, AllocatorAssumption, FreeToUse
<1>3. PICK j : j = Call("realloc", n, objs[p].align, p)
  OBVIOUS
<1>4. /\ j \in Job /\ j.op = "realloc" /\ j.size = n /\ j.align = objs[p].align /\ j.old = p
  <2>1. PICK align : align = objs[p].align
    OBVIOUS
  <2> QED BY <1>2, <1>3, <2>1, CallIs
<1>5. job[t] = Idle /\ AllocStart(t, j)
  BY <1>3 DEF Realloc
<1>6. Asked(t, j, job, objs)
  BY <1>2, <1>4, <1>5, IdleIs DEF Asked, Alone
<1>7. nextNode \in Nodes
  BY DEF CountsOK
<1>8. /\ Keeps(t, heap, mem, objs, job, kind, cls, bump', stack', heap', maps', mem', objs', job')
      /\ nextNode' \in Nodes
  BY <1>5, <1>6, <1>7, AllocStartStep
<1>9. calls' \in 0 .. MaxCalls /\ exits' \in 0 .. MaxExits
  BY <1>5, CallsCounted
<1> QED BY <1>8, <1>9 DEF KeepsAll, CountsOK

-----------------------------------------------------------------------------
(* dealloc.                                                                *)

\* The object at p is gone, all else is in its place.
Released(t, p, hp, m, ob, jb, kind, cls, bu2, st2, hp2, mp2, m2, ob2) ==
  /\ \E kind2, who2 :
       /\ PlacesOK(bu2, st2, hp2, mp2, kind2, who2, cls)
       /\ UsesOK(hp2, mp2, m2, ob2, jb, kind2, who2, cls)
       /\ Grows(kind, cls, kind2, cls)
  /\ Others(t, hp, hp2) /\ Lost(ob, m, p, ob2, m2)

\* The object to be given up, in the chunk x, which no call is about.
GivenUp(t, p, x, ob, jb, kind, who) ==
  /\ x \in Addr /\ kind[x] = "obj" /\ who[x] = p
  /\ jb[t] = Idle /\ \A u \in Threads : jb[u].op = "realloc" => jb[u].old # p

\* A step that takes the chunk x from the program.
Takings(x, t, hp, mp, m, kind, who, cls, bu2, st2, hp2, mp2, m2) ==
  \E kind2, who2 :
    /\ Stepped(x, mp, kind, who, cls, bu2, st2, hp2, mp2, kind2, who2, cls)
    /\ ~ Used(kind2[x]) /\ Others(t, hp, hp2)
    /\ MemOK(m2) /\ Outside(m2, m, x, Ext(x, mp, cls))

LEMMA TakingReleases ==
  ASSUME NEW bu, NEW st, NEW hp, NEW mp, NEW kind, NEW who, NEW cls, PlacesOK(bu, st, hp, mp, kind, who, cls),
         NEW m, NEW ob, NEW jb, UsesOK(hp, mp, m, ob, jb, kind, who, cls), NEW t \in Threads,
         NEW p, NEW x, GivenUp(t, p, x, ob, jb, kind, who),
         NEW bu2, NEW st2, NEW hp2, NEW mp2, NEW m2,
         Takings(x, t, hp, mp, m, kind, who, cls, bu2, st2, hp2, mp2, m2),
         NEW ob2, Dropped(ob, p, ob2)
  PROVE  Released(t, p, hp, m, ob, jb, kind, cls, bu2, st2, hp2, mp2, m2, ob2)
<1>1. PICK kind2, who2 :
        /\ Stepped(x, mp, kind, who, cls, bu2, st2, hp2, mp2, kind2, who2, cls)
        /\ ~ Used(kind2[x]) /\ Others(t, hp, hp2)
        /\ MemOK(m2) /\ Outside(m2, m, x, Ext(x, mp, cls))
  BY DEF Takings
<1>2. /\ ObjsOK(ob, m, mp, kind, who, cls) /\ NewsOK(jb, m, mp, kind, who, cls) /\ JobsOK(jb, hp, ob)
      /\ ChunksOK(bu, mp, kind, cls)
  BY DEF UsesOK, PlacesOK
<1>3. /\ PlacesOK(bu2, st2, hp2, mp2, kind2, who2, cls) /\ Grows(kind, cls, kind2, cls)
      /\ SameUses(x, mp, kind, who, cls, mp2, kind2, who2, cls)
  BY <1>1 DEF Stepped
<1>4. x \in Addr /\ Loses(x, p, kind, who, kind2)
  BY <1>1 DEF GivenUp, Loses
<1>5. /\ ObjsOK(ob2, m2, mp2, kind2, who2, cls) /\ NewsOK(jb, m2, mp2, kind2, who2, cls)
      /\ Lost(ob, m, p, ob2, m2)
  BY <1>1, <1>2, <1>3, <1>4, ObjLost
<1>6. JobsOK(jb, hp2, ob2)
  <2>1. jb[t] = Idle /\ \A u \in Threads : jb[u].op = "realloc" => jb[u].old # p
    BY DEF GivenUp
  <2>2. Turns(t, Idle, jb, jb)
    BY <1>2, <2>1 DEF Turns, JobsOK
  <2>3. OldsKept(t, jb, ob, ob2)
    BY <1>2, <1>5, <2>1 DEF OldsKept, JobsOK, JobOK, Lost
  <2>4. GoesOn(t, Idle, jb, hp2, ob2)
    BY IdleIs DEF GoesOn
  <2> QED BY <1>1, <1>2, <2>2, <2>3, <2>4, JobsNext
<1>7. UsesOK(hp2, mp2, m2, ob2, jb, kind2, who2, cls)
  BY <1>1, <1>5, <1>6 DEF UsesOK
<1> QED BY <1>1, <1>3, <1>5, <1>7 DEF Released

\* ReleaseSmall gives the block to a list.
LEMMA ReleaseSmallIs ==
  ASSUME NEW t \in Threads, NEW p, NEW c \in Classes, NEW m, ReleaseSmall(t, p, c, m),
         NEW hp, heap \in [Threads -> Heap], hp \in [Threads -> Heap], hp[t] = Attached(t),
         hp = [heap EXCEPT ![t] = hp[t]]
  PROVE  GivesBlock(p, c, t, stack, hp, stack', heap')
<1>1. PICK n, list : n = NodeForPtr(p) /\ list = <<p>> \o hp[t].list[c]
  OBVIOUS
<1>2. PICK keep : keep = IF Len(list) > MaxThreadCache(c) THEN MaxThreadCache(c) \div 2 ELSE Len(list)
  OBVIOUS
<1>3. /\ heap' = [heap EXCEPT ![t] =
                   IF IsLocal(hp[t], n) THEN [hp[t] EXCEPT !.list[c] = SubSeq(list, 1, keep)] ELSE hp[t]]
      /\ stack' = [stack EXCEPT ![n][c] =
                    (IF IsLocal(hp[t], n) THEN SubSeq(list, keep + 1, Len(list)) ELSE <<p>>) \o @]
  BY <1>1, <1>2, Zenon DEF ReleaseSmall
<1>4. CASE IsLocal(hp[t], n)
  <2>1. keep \in 0 .. Len(list)
    <3>1. hp[t].list[c] \in Seq(Addr)
      BY DEF Heap
    <3>2. Len(list) \in Nat
      <4>1. PICK l : l = hp[t].list[c]
        OBVIOUS
      <4>2. l \in Seq(Addr) /\ Len(<<p>>) = 1 /\ <<p>> \in Seq({p})
        BY <3>1, <4>1
      <4>3. <<p>> \in Seq({p} \cup Addr) /\ l \in Seq({p} \cup Addr)
        BY <4>2
      <4>4. list \in Seq({p} \cup Addr)
        BY <1>1, <4>1, <4>3
      <4> QED BY <4>4
    <3>3. MaxThreadCache(c) \in Nat
      BY MaxThreadCacheIs
    <3>4. PICK k, len : k = MaxThreadCache(c) /\ len = Len(list)
      OBVIOUS
    <3>5. keep = IF len > k THEN k \div 2 ELSE len
      BY <1>2, <3>4
    <3> QED BY <3>2, <3>3, <3>4, <3>5
  <2>2. PICK h2 : h2 = [hp[t] EXCEPT !.list[c] = SubSeq(list, 1, keep)]
    OBVIOUS
  <2>3. heap' = [heap EXCEPT ![t] = h2]
    BY <1>3, <1>4, <2>2
  <2>4. heap' = [hp EXCEPT ![t] = h2]
    BY <2>3
  <2>5. stack' = [stack EXCEPT ![n][c] = SubSeq(list, keep + 1, Len(list)) \o @]
    BY <1>3, <1>4
  <2> QED BY <1>1, <1>4, <2>1, <2>2, <2>4, <2>5, Zenon DEF GivesBlock
<1>5. CASE ~ IsLocal(hp[t], n)
  <2>1. heap' = [heap EXCEPT ![t] = hp[t]]
    BY <1>3, <1>5, Zenon
  <2>2. stack' = [stack EXCEPT ![n][c] = <<p>> \o @]
    BY <1>3, <1>5, Zenon
  <2>3. heap' = hp
    BY <2>1
  <2> QED BY <1>1, <2>2, <2>3, Zenon DEF GivesBlock
<1> QED BY <1>4, <1>5

\* ReleaseLarge gives the mapping that the header names to the cache or the kernel.
LEMMA ReleaseLargeIs ==
  ASSUME NEW t, NEW p, NEW m, ReleaseLarge(t, p, m), NEW x, Read(m, p - 2) = x, Read(m, p - 1) = maps[x].len
  PROVE  GivesMap(x, t, heap, maps, heap', maps') /\ mem' = Forget(m, x, maps[x].len)
         /\ nextNode' = nextNode /\ stack' = stack
<1>1. PICK len : len = maps[x].len
  OBVIOUS
<1>2. PICK put : put = PutBy(heap[t], x, len)
  OBVIOUS
<1>3. /\ heap' = [heap EXCEPT ![t].cache = put.entries, ![t].bytes = put.bytes]
      /\ maps' = Unmap(put.unmapped) /\ mem' = Forget(m, x, len) /\ nextNode' = nextNode /\ stack' = stack
  BY <1>1, <1>2, Zenon DEF ReleaseLarge, PutBy
<1>4. maps' = UnmapOf(maps, put.unmapped)
  BY <1>3 DEF Unmap, UnmapOf
<1> QED BY <1>1, <1>2, <1>3, <1>4, Zenon DEF GivesMap

\* Release, of an object that no call is about, on memory m, with objects ob and calls jb.
Held(p, m, ob, jb, kind, who, cls) ==
  /\ PlacesOK(bump, stack, heap, maps, kind, who, cls)
  /\ UsesOK(heap, maps, m, ob, jb, kind, who, cls)
  /\ p \in DOMAIN ob

LEMMA ReleaseSmallKeeps ==
  ASSUME NEW t \in Threads, NEW p, NEW m, NEW ob, NEW jb, NEW kind, NEW who, NEW cls,
         Held(p, m, ob, jb, kind, who, cls), NEW x, GivenUp(t, p, x, ob, jb, kind, who), nextNode \in Nodes,
         Lies(x, p, ob[p].size, ob[p].align, m, maps, cls), InRegion(p),
         NEW c, c = ClassOf(ob[p].size, ob[p].align), ReleaseSmall(t, p, c, m)
  PROVE  /\ \E hp : /\ PlacesOK(bump, stack, hp, maps, kind, who, cls)
                    /\ UsesOK(hp, maps, m, ob, jb, kind, who, cls) /\ Others(t, heap, hp)
                    /\ Takings(x, t, hp, maps, m, kind, who, cls, bump, stack', heap', maps', mem')
         /\ nextNode' \in Nodes
<1>1. /\ PlacesOK(bump, stack, heap, maps, kind, who, cls) /\ UsesOK(heap, maps, m, ob, jb, kind, who, cls)
      /\ p \in DOMAIN ob /\ heap \in [Threads -> Heap] /\ ChunksOK(bump, maps, kind, cls) /\ MemOK(m)
  BY DEF Held, PlacesOK, HeapsOK, UsesOK
<1>2. x \in Addr /\ kind[x] = "obj" /\ kind[x] # "none" /\ who[x] = p /\ jb[t] = Idle
  BY DEF GivenUp
<1>3. IsPayload(x, p, ob[p].size, ob[p].align, Ext(x, maps, cls))
  BY <1>1, <1>2, LiesIs
<1>4. InRegion(x) /\ p = x /\ c = cls[x]
  BY <1>3 DEF IsPayload, Lies
<1>5. c \in Classes /\ SizeForClass(c) \in Nat \ {0} /\ x \in Nat
  BY <1>1, <1>2, <1>4, BlockIs
<1>6. PICK node, h1, hp : node = nextNode /\ Attaches(heap, t, node, h1, hp)
  <2>1. PICK node : node = nextNode
    OBVIOUS
  <2>2. PICK h1 : h1 = IF heap[t].state = "none" THEN [heap[t] EXCEPT !.state = "bound", !.node = node] ELSE heap[t]
    OBVIOUS
  <2>3. PICK hp : hp = [heap EXCEPT ![t] = h1]
    OBVIOUS
  <2> QED BY <2>1, <2>2, <2>3 DEF Attaches
<1>7. node \in Nodes /\ jb[t].pc # "carve"
  BY <1>2, <1>6, IdleIs
<1>8. /\ PlacesOK(bump, stack, hp, maps, kind, who, cls)
      /\ UsesOK(hp, maps, m, ob, jb, kind, who, cls)
      /\ Others(t, heap, hp) /\ hp[t] = h1 /\ hp \in [Threads -> Heap]
  BY <1>1, <1>6, <1>7, AttachKeeps
<1>9. hp[t] = Attached(t) /\ hp = [heap EXCEPT ![t] = hp[t]]
  BY <1>6, <1>8 DEF Attaches, Attached
<1>10. GivesBlock(p, c, t, stack, hp, stack', heap')
  BY <1>1, <1>5, <1>8, <1>9, ReleaseSmallIs
<1>11. PICK kind2, who2 :
         /\ Stepped(x, maps, kind, who, cls, bump, stack', heap', maps, kind2, who2, cls)
         /\ kind2[x] \in {"list", "stack"} /\ Others(t, hp, heap')
  <2>1. PICK st2, hp2 : st2 = stack' /\ hp2 = heap'
    OBVIOUS
  <2>2. GivesBlock(x, c, t, stack, hp, st2, hp2)
    BY <1>4, <1>10, <2>1
  <2>3. \E kind2, who2 :
         /\ Stepped(x, maps, kind, who, cls, bump, st2, hp2, maps, kind2, who2, cls)
         /\ kind2[x] \in {"list", "stack"} /\ Others(t, hp, hp2)
    BY <1>2, <1>4, <1>8, <2>2, GiveBlockKeeps
  <2> QED BY <2>1, <2>3
<1>12. maps' = maps /\ mem' = Forget(m, p, SizeForClass(c)) /\ CountNode(t)
  BY DEF ReleaseSmall
<1>13. MemOK(mem') /\ Outside(mem', m, p, SizeForClass(c))
  <2>1. PICK s, m2 : s = SizeForClass(c) /\ m2 = mem'
    OBVIOUS
  <2>2. s \in Int /\ p \in Int /\ m2 = Forget(m, p, s)
    BY <1>4, <1>5, <1>12, <2>1
  <2>3. MemOK(m2) /\ Outside(m2, m, p, s)
    BY <1>1, <2>2, ForgetIs
  <2> QED BY <2>1, <2>3
<1>14. Outside(mem', m, x, Ext(x, maps, cls))
  BY <1>4, <1>13 DEF Ext
<1>15. ~ Used(kind2[x])
  BY <1>11 DEF Used
<1>16. Takings(x, t, hp, maps, m, kind, who, cls, bump, stack', heap', maps', mem')
  BY <1>11, <1>12, <1>13, <1>14, <1>15 DEF Takings
<1> QED BY <1>8, <1>12, <1>16, CountNodeIs

LEMMA ReleaseLargeKeeps ==
  ASSUME NEW t \in Threads, NEW p, NEW m, NEW ob, NEW jb, NEW kind, NEW who, NEW cls,
         Held(p, m, ob, jb, kind, who, cls), NEW x, GivenUp(t, p, x, ob, jb, kind, who),
         Lies(x, p, ob[p].size, ob[p].align, m, maps, cls), ~ InRegion(x), ReleaseLarge(t, p, m)
  PROVE  /\ Takings(x, t, heap, maps, m, kind, who, cls, bump, stack', heap', maps', mem')
         /\ nextNode' = nextNode
<1>1. /\ PlacesOK(bump, stack, heap, maps, kind, who, cls)
      /\ ChunksOK(bump, maps, kind, cls) /\ MemOK(m)
  BY DEF Held, PlacesOK, UsesOK
<1>2. x \in Addr /\ kind[x] = "obj" /\ kind[x] # "none"
  BY DEF GivenUp
<1>3. Read(m, p - 2) = x /\ Read(m, p - 1) = maps[x].len
  BY DEF Lies
<1>4. /\ GivesMap(x, t, heap, maps, heap', maps') /\ mem' = Forget(m, x, maps[x].len)
      /\ nextNode' = nextNode /\ stack' = stack
  BY <1>3, ReleaseLargeIs
<1>5. PICK kind2, who2 :
         /\ Stepped(x, maps, kind, who, cls, bump, stack, heap', maps', kind2, who2, cls)
         /\ kind2[x] \in {"cache", "none"} /\ Others(t, heap, heap')
  <2>1. PICK mp2, hp2 : mp2 = maps' /\ hp2 = heap'
    OBVIOUS
  <2>2. GivesMap(x, t, heap, maps, hp2, mp2)
    BY <1>4, <2>1
  <2>3. \E kind2, who2 :
         /\ Stepped(x, maps, kind, who, cls, bump, stack, hp2, mp2, kind2, who2, cls)
         /\ kind2[x] \in {"cache", "none"} /\ Others(t, heap, hp2)
    BY <1>1, <1>2, <2>2, GiveMapKeeps
  <2> QED BY <2>1, <2>3
<1>6. MemOK(mem') /\ Outside(mem', m, x, maps[x].len)
  <2>1. PICK s, m2 : s = maps[x].len /\ m2 = mem'
    OBVIOUS
  <2>2. IsChunk(x, bump, maps, cls)
    BY <1>1, <1>2, ChunkIs
  <2>3. s \in Int /\ x \in Int
    BY <2>1, <2>2 DEF IsChunk, Ext
  <2>4. m2 = Forget(m, x, s)
    BY <1>4, <2>1
  <2>5. MemOK(m2) /\ Outside(m2, m, x, s)
    BY <1>1, <2>3, <2>4, ForgetIs
  <2> QED BY <2>1, <2>5
<1>7. ~ Used(kind2[x]) /\ Outside(mem', m, x, Ext(x, maps, cls))
  BY <1>5, <1>6 DEF Used, Ext
<1> QED BY <1>4, <1>5, <1>6, <1>7 DEF Takings

LEMMA ReleaseKeeps ==
  ASSUME NEW t \in Threads, NEW p, NEW m, NEW ob, NEW jb, NEW kind, NEW who, NEW cls,
         Held(p, m, ob, jb, kind, who, cls), nextNode \in Nodes,
         jb[t] = Idle, \A u \in Threads : jb[u].op = "realloc" => jb[u].old # p,
         Release(t, p, ob[p].size, ob[p].align, m), NEW ob2, Dropped(ob, p, ob2)
  PROVE  /\ Released(t, p, heap, m, ob, jb, kind, cls, bump, stack', heap', maps', mem', ob2)
         /\ nextNode' \in Nodes
<1>1. /\ PlacesOK(bump, stack, heap, maps, kind, who, cls) /\ UsesOK(heap, maps, m, ob, jb, kind, who, cls)
      /\ p \in DOMAIN ob /\ ChunksOK(bump, maps, kind, cls) /\ ObjsOK(ob, m, maps, kind, who, cls)
  BY DEF Held, PlacesOK, UsesOK
<1>2. PICK x \in Addr : kind[x] = "obj" /\ who[x] = p
  BY <1>1 DEF ObjsOK
<1>3. Lies(x, p, ob[p].size, ob[p].align, m, maps, cls)
  BY <1>1, <1>2 DEF ObjsOK
<1>4. GivenUp(t, p, x, ob, jb, kind, who)
  BY <1>2 DEF GivenUp
<1>5. CASE IsSmall(ob[p].size, ob[p].align) /\ InRegion(p)
  <2>1. PICK c : c = ClassOf(ob[p].size, ob[p].align)
    OBVIOUS
  <2>2. ReleaseSmall(t, p, c, m) /\ InRegion(p)
    BY <1>5, <2>1 DEF Release
  <2>3. /\ \E hp : /\ PlacesOK(bump, stack, hp, maps, kind, who, cls)
                   /\ UsesOK(hp, maps, m, ob, jb, kind, who, cls) /\ Others(t, heap, hp)
                   /\ Takings(x, t, hp, maps, m, kind, who, cls, bump, stack', heap', maps', mem')
        /\ nextNode' \in Nodes
    BY <1>3, <1>4, <2>1, <2>2, ReleaseSmallKeeps
  <2>4. PICK hp : /\ PlacesOK(bump, stack, hp, maps, kind, who, cls)
                   /\ UsesOK(hp, maps, m, ob, jb, kind, who, cls) /\ Others(t, heap, hp)
                   /\ Takings(x, t, hp, maps, m, kind, who, cls, bump, stack', heap', maps', mem')
    BY <2>3
  <2>5. Released(t, p, hp, m, ob, jb, kind, cls, bump, stack', heap', maps', mem', ob2)
    BY <1>4, <2>4, TakingReleases
  <2>6. Others(t, hp, heap')
    BY <2>5 DEF Released
  <2>7. Others(t, heap, heap')
    BY <2>4, <2>6 DEF Others
  <2> QED BY <2>3, <2>5, <2>7 DEF Released
<1>6. CASE ~ (IsSmall(ob[p].size, ob[p].align) /\ InRegion(p))
  <2>1. ReleaseLarge(t, p, m)
    BY <1>6 DEF Release
  <2>2. ~ InRegion(x)
    BY <1>3, <1>6 DEF Lies
  <2>3. /\ Takings(x, t, heap, maps, m, kind, who, cls, bump, stack', heap', maps', mem')
        /\ nextNode' = nextNode
    BY <1>3, <1>4, <2>1, <2>2, ReleaseLargeKeeps
  <2>4. Released(t, p, heap, m, ob, jb, kind, cls, bump, stack', heap', maps', mem', ob2)
    BY <1>1, <1>4, <2>3, TakingReleases
  <2> QED BY <2>3, <2>4
<1> QED BY <1>5, <1>6

\* Freeing one object, in ObjectStore's terms.
LEMMA LostIs ==
  ASSUME NEW ob, NEW m, NEW p, NEW ob2, NEW m2, Lost(ob, m, p, ob2, m2)
  PROVE  SFree(Stored(ob, m), Stored(ob2, m2))
<1>1. DOMAIN Stored(ob, m) = DOMAIN ob /\ DOMAIN Stored(ob2, m2) = DOMAIN ob2
  BY StoredIs
<1> QED BY <1>1, Zenon DEF Lost, SFree

LEMMA DeallocStep ==
  ASSUME NEW t \in Threads, NEW kind, NEW who, NEW cls, Placed(kind, who, cls), CountsOK,
         NEW p \in DOMAIN objs, Dealloc(t, p)
  PROVE  KeepsAll(t, kind, cls)
<1>1. /\ job[t] = Idle /\ p \in DOMAIN objs \ Busy /\ Release(t, p, objs[p].size, objs[p].align, mem)
      /\ bump' = bump /\ job' = job /\ calls' = calls /\ exits' = exits
  BY DEF Dealloc
<1>2. Dropped(objs, p, objs')
  BY DEF Dealloc, Without, Dropped
<1>3. \A u \in Threads : job[u].op = "realloc" => job[u].old # p
  BY <1>1, FreeToUse
<1>4. Held(p, mem, objs, job, kind, who, cls)
  BY DEF Placed, Held
<1>5. nextNode \in Nodes
  BY DEF CountsOK
<1>6. /\ Released(t, p, heap, mem, objs, job, kind, cls, bump, stack', heap', maps', mem', objs')
      /\ nextNode' \in Nodes
  BY <1>1, <1>2, <1>3, <1>4, <1>5, ReleaseKeeps
<1>7. Lost(objs, mem, p, objs', mem')
  BY <1>6 DEF Released
<1>8. StoreStep(Stored(objs, mem), Stored(objs', mem'))
  BY <1>7, LostIs DEF StoreStep
<1>9. Got(t, objs, job, objs', job') = {}
  <2>1. DOMAIN objs' \subseteq DOMAIN objs
    BY <1>7 DEF Lost
  <2> QED BY <1>1, <2>1, IdleIs DEF Got
<1>10. Others(t, job, job')
  BY <1>1 DEF Others
<1>11. Keeps(t, heap, mem, objs, job, kind, cls, bump', stack', heap', maps', mem', objs', job')
  BY <1>1, <1>6, <1>8, <1>9, <1>10 DEF Released, Keeps
<1> QED BY <1>1, <1>6, <1>11 DEF KeepsAll, CountsOK

\* A thread between calls may have another PerThreadHeap.
LEMMA JobsIdle ==
  ASSUME NEW hp, NEW ob, NEW jb, JobsOK(jb, hp, ob), NEW t \in Threads, jb[t] = Idle,
         NEW hp2, Others(t, hp, hp2), NEW ob2, OldsKept(t, jb, ob, ob2)
  PROVE  JobsOK(jb, hp2, ob2)
<1>1. Turns(t, Idle, jb, jb)
  BY DEF Turns, JobsOK
<1>2. GoesOn(t, Idle, jb, hp2, ob2)
  BY IdleIs DEF GoesOn
<1> QED BY <1>1, <1>2, JobsNext

LEMMA ThreadExitStep ==
  ASSUME NEW t \in Threads, NEW kind, NEW who, NEW cls, Placed(kind, who, cls), CountsOK, ThreadExit(t)
  PROVE  KeepsAll(t, kind, cls)
<1>1. /\ PlacesOK(bump, stack, heap, maps, kind, who, cls)
      /\ UsesOK(heap, maps, mem, objs, job, kind, who, cls)
      /\ heap \in [Threads -> Heap] /\ JobsOK(job, heap, objs)
  BY DEF Placed, PlacesOK, HeapsOK, UsesOK
<1>2. /\ job[t] = Idle /\ heap[t].state = "bound" /\ bump' = bump /\ nextNode' = nextNode
      /\ mem' = mem /\ objs' = objs /\ job' = job /\ calls' = calls
      /\ exits < MaxExits /\ exits' = exits + 1
  BY DEF ThreadExit
<1>3. Exits(t, stack, heap, maps, stack', heap', maps')
  BY Zenon DEF ThreadExit, Exits, Unmap, UnmapOf
<1>4. PICK kind2, who2 : Stepped(Junk, maps, kind, who, cls, bump, stack', heap', maps', kind2, who2, cls)
  BY <1>1, <1>2, <1>3, ExitKeeps
<1>5. Others(t, heap, heap') /\ Others(t, job, job)
  BY <1>1, <1>3 DEF Exits, Others
<1>6. JobsOK(job, heap', objs)
  <2>1. OldsKept(t, job, objs, objs)
    BY <1>1, OldsStay
  <2> QED BY <1>1, <1>2, <1>5, <2>1, JobsIdle
<1>7. job[t].pc # "move"
  BY <1>2, IdleIs
<1>8. Keeps(t, heap, mem, objs, job, kind, cls, bump, stack', heap', maps', mem, objs, job)
  BY <1>1, <1>4, <1>5, <1>6, <1>7, StaysKeeps
<1>9. exits' \in 0 .. MaxExits
  BY <1>2, AllocatorAssumption DEF CountsOK
<1> QED BY <1>2, <1>8, <1>9 DEF KeepsAll, CountsOK

LEMMA ThreadStartStep ==
  ASSUME NEW t \in Threads, NEW kind, NEW who, NEW cls, Placed(kind, who, cls), CountsOK, ThreadStart(t)
  PROVE  KeepsAll(t, kind, cls)
<1>1. /\ PlacesOK(bump, stack, heap, maps, kind, who, cls)
      /\ UsesOK(heap, maps, mem, objs, job, kind, who, cls)
      /\ heap \in [Threads -> Heap] /\ JobsOK(job, heap, objs)
      /\ heap[t].state # "bound" => heap[t] = NoHeap(heap[t].state)
  BY DEF Placed, PlacesOK, HeapsOK, UsesOK
<1>2. /\ job[t] = Idle /\ heap[t].state = "gone" /\ heap' = [heap EXCEPT ![t] = NoHeap("none")]
      /\ bump' = bump /\ stack' = stack /\ nextNode' = nextNode /\ maps' = maps
      /\ mem' = mem /\ objs' = objs /\ job' = job /\ calls' = calls /\ exits' = exits
  BY DEF ThreadStart
<1>3. Slots(t, heap, heap')
  <2>1. heap[t] = NoHeap("gone")
    BY <1>1, <1>2
  <2>2. PICK h2 : h2 = NoHeap("none")
    OBVIOUS
  <2>3. h2 \in Heap /\ h2.state = "none"
    BY <2>2, NoHeapIs
  <2>4. /\ h2.cache = heap[t].cache /\ h2.bytes = heap[t].bytes
        /\ h2.list = heap[t].list /\ h2.spare = heap[t].spare
    BY <2>1, <2>2 DEF NoHeap
  <2>5. h2.state # "bound" => h2 = NoHeap(h2.state)
    BY <2>2, <2>3
  <2> QED BY <1>2, <2>2, <2>3, <2>4, <2>5 DEF Slots
<1>4. PlacesOK(bump, stack, heap', maps, kind, who, cls) /\ Others(t, heap, heap')
  BY <1>1, <1>2, <1>3, SlotKeeps
<1>5. Stepped(Junk, maps, kind, who, cls, bump, stack, heap', maps, kind, who, cls)
  BY <1>4, SteppedNot
<1>6. JobsOK(job, heap', objs) /\ Others(t, job, job)
  <2>1. OldsKept(t, job, objs, objs)
    BY <1>1, OldsStay
  <2> QED BY <1>1, <1>2, <1>4, <2>1, JobsIdle DEF Others
<1>7. job[t].pc # "move"
  BY <1>2, IdleIs
<1>8. Keeps(t, heap, mem, objs, job, kind, cls, bump, stack, heap', maps, mem, objs, job)
  BY <1>1, <1>4, <1>5, <1>6, <1>7, StaysKeeps
<1> QED BY <1>2, <1>8 DEF KeepsAll, CountsOK

-----------------------------------------------------------------------------
(* realloc in place.                                                       *)

LEMMA ReallocInPlaceStep ==
  ASSUME NEW t \in Threads, NEW kind, NEW who, NEW cls, Placed(kind, who, cls), CountsOK,
         NEW p \in DOMAIN objs, NEW n \in Sizes, ReallocInPlace(t, p, n)
  PROVE  KeepsAll(t, kind, cls)
<1>1. /\ job[t] = Idle /\ p \in DOMAIN objs \ Busy /\ SameClass(p, n)
      /\ objs' = [objs EXCEPT ![p].size = n] /\ mem' = Forget(mem, p + n, objs[p].size - n)
      /\ bump' = bump /\ stack' = stack /\ nextNode' = nextNode /\ heap' = heap /\ maps' = maps
      /\ job' = job /\ calls' = calls /\ exits' = exits
  BY DEF ReallocInPlace
<1>2. /\ PlacesOK(bump, stack, heap, maps, kind, who, cls) /\ UsesOK(heap, maps, mem, objs, job, kind, who, cls)
      /\ ObjsOK(objs, mem, maps, kind, who, cls) /\ NewsOK(job, mem, maps, kind, who, cls)
      /\ JobsOK(job, heap, objs) /\ ChunksOK(bump, maps, kind, cls) /\ MemOK(mem)
  BY DEF Placed, PlacesOK, UsesOK
<1>3. PICK size, align : size = objs[p].size /\ align = objs[p].align
  OBVIOUS
<1>4. PICK x \in Addr : kind[x] = "obj" /\ who[x] = p /\ Lies(x, p, size, align, mem, maps, cls)
  BY <1>1, <1>3, FreeToUse
<1>5. /\ \A u \in Threads : job[u].old # p
      /\ size \in Nat \ {0} /\ align \in Powers /\ p \in Nat /\ n \in Nat \ {0}
  BY <1>1, <1>3, FreeToUse, AllocatorAssumption
<1>6. IsPayload(x, p, size, align, Ext(x, maps, cls)) /\ IsChunk(x, bump, maps, cls)
  <2>1. kind[x] # "none"
    BY <1>4
  <2> QED BY <1>2, <1>4, <2>1, LiesIs, ChunkIs
<1>7. /\ IsSmall(n, align) /\ ClassOf(size, align) = ClassOf(n, align) /\ InRegion(p)
  BY <1>1, <1>3 DEF SameClass
<1>8. p = x /\ InRegion(x) /\ cls[x] = ClassOf(n, align)
  BY <1>4, <1>6, <1>7 DEF IsPayload, Lies
<1>9. PICK m2, e : m2 = mem' /\ e = Ext(x, maps, cls)
  OBVIOUS
<1>10. e \in Nat /\ p + size <= x + e /\ x \in Nat
  BY <1>6, <1>9 DEF IsPayload, IsChunk
<1>11. MemOK(m2) /\ Outside(m2, mem, p + n, size - n)
  <2>1. PICK lo, k : lo = p + n /\ k = size - n
    OBVIOUS
  <2>2. lo \in Int /\ k \in Int /\ m2 = Forget(mem, lo, k)
    BY <1>1, <1>3, <1>5, <1>9, <2>1
  <2>3. MemOK(m2) /\ Outside(m2, mem, lo, k)
    BY <1>2, <2>2, ForgetIs
  <2> QED BY <2>1, <2>3
<1>12. Outside(m2, mem, x, e)
  <2>1. PICK lo, k : lo = p + n /\ k = size - n
    OBVIOUS
  <2>2. lo \in Int /\ k \in Int /\ x <= lo /\ lo + k <= x + e /\ x \in Int /\ e \in Int
    BY <1>5, <1>8, <1>10, <2>1
  <2> QED BY <1>11, <2>1, <2>2, OutsideMore
<1>13. Lies(x, p, n, align, m2, maps, cls)
  BY <1>5, <1>7, <1>8 DEF Lies
<1>14. /\ ObjsOK(objs', m2, maps, kind, who, cls) /\ NewsOK(job, m2, maps, kind, who, cls)
       /\ DOMAIN objs' = DOMAIN objs
       /\ objs'[p].size = n /\ objs'[p].align = objs[p].align
       /\ \A q \in DOMAIN objs \ {p} : objs'[q] = objs[q] /\ Stored(objs', m2)[q] = Stored(objs, mem)[q]
  <2>1. PICK ob2 : ob2 = objs'
    OBVIOUS
  <2>2. Outside(m2, mem, x, Ext(x, maps, cls)) /\ Lies(x, p, n, objs[p].align, m2, maps, cls)
    BY <1>3, <1>9, <1>12, <1>13
  <2>3. Resizes(x, p, n, objs, ob2, kind, who)
    BY <1>1, <1>4, <2>1 DEF Resizes
  <2>4. /\ ObjsOK(ob2, m2, maps, kind, who, cls) /\ NewsOK(job, m2, maps, kind, who, cls)
        /\ Resized(objs, mem, p, n, ob2, m2)
    BY <1>2, <2>2, <2>3, ObjResized
  <2> QED BY <2>1, <2>4 DEF Resized
<1>15. JobsOK(job, heap, objs')
  <2>1. OldsKept(t, job, objs, objs')
    BY <1>2, <1>5, <1>14 DEF OldsKept, JobsOK, JobOK
  <2>2. Others(t, heap, heap)
    BY DEF Others
  <2> QED BY <1>1, <1>2, <2>1, <2>2, JobsIdle
<1>16. UsesOK(heap, maps, m2, objs', job, kind, who, cls)
  BY <1>11, <1>14, <1>15 DEF UsesOK
<1>17. SRealloc(Stored(objs, mem), Stored(objs', m2))
  <2>1. PICK S, S2, ob2 : S = Stored(objs, mem) /\ S2 = Stored(ob2, m2) /\ ob2 = objs'
    OBVIOUS
  <2>2. /\ DOMAIN S = DOMAIN objs /\ DOMAIN S2 = DOMAIN objs
        /\ S[p].align = align /\ S2[p].align = align
        /\ S[p].words = Words(p, size, mem) /\ S2[p].words = Words(p, n, m2)
    <3>1. DOMAIN ob2 = DOMAIN objs /\ ob2[p].size = n /\ ob2[p].align = align /\ p \in DOMAIN ob2
      BY <1>3, <1>14, <2>1
    <3>2. /\ DOMAIN S = DOMAIN objs /\ S[p].align = align /\ S[p].words = Words(p, size, mem)
      BY <1>3, <2>1, StoredIs
    <3>3. /\ DOMAIN S2 = DOMAIN ob2 /\ S2[p].align = ob2[p].align /\ S2[p].words = Words(p, ob2[p].size, m2)
      BY <2>1, <3>1, StoredIs
    <3> QED BY <3>1, <3>2, <3>3
  <2>3. ASSUME NEW i \in DOMAIN S[p].words \cap DOMAIN S2[p].words
        PROVE  S2[p].words[i] = S[p].words[i]
    <3>1. i \in 0 .. size - 1 /\ i \in 0 .. n - 1
      BY <2>2, <2>3 DEF Words
    <3>2. p + i \in Int /\ p + i < p + n
      BY <1>5, <3>1
    <3>3. Read(m2, p + i) = Read(mem, p + i)
      BY <1>11, <3>2 DEF Outside
    <3> QED BY <2>2, <3>1, <3>3 DEF Words
  <2>4. \A r \in DOMAIN S \ {p} : S2[r] = S[r]
    BY <1>14, <2>1, <2>2
  <2>5. p \in DOMAIN S /\ p \in DOMAIN S2 /\ DOMAIN S2 = (DOMAIN S \ {p}) \cup {p}
    BY <2>2
  <2>6. SRealloc(S, S2)
    <3>1. /\ p = p \/ p \notin DOMAIN S
          /\ DOMAIN S2 = (DOMAIN S \ {p}) \cup {p}
          /\ \A r \in DOMAIN S \ {p} : S2[r] = S[r]
          /\ S2[p].align = S[p].align
          /\ \A i \in DOMAIN S[p].words \cap DOMAIN S2[p].words : S2[p].words[i] = S[p].words[i]
      BY <2>2, <2>3, <2>4, <2>5
    <3> QED BY <2>5, <3>1, Zenon DEF SRealloc
  <2> QED BY <2>1, <2>6
<1>18. Got(t, objs, job, objs', job') = {} /\ Others(t, job, job') /\ Others(t, heap, heap')
  BY <1>1, <1>14, IdleIs DEF Got, Others
<1>19. Grows(kind, cls, kind, cls)
  BY DEF Grows
<1>20. Keeps(t, heap, mem, objs, job, kind, cls, bump', stack', heap', maps', mem', objs', job')
  <2>1. StoreStep(Stored(objs, mem), Stored(objs', mem'))
    BY <1>9, <1>17 DEF StoreStep
  <2>2. \E kind2, who2, cls2 :
          /\ PlacesOK(bump', stack', heap', maps', kind2, who2, cls2)
          /\ UsesOK(heap', maps', mem', objs', job', kind2, who2, cls2)
          /\ Grows(kind, cls, kind2, cls2)
    BY <1>1, <1>2, <1>9, <1>16, <1>19
  <2> QED BY <1>18, <2>1, <2>2 DEF Keeps
<1> QED BY <1>1, <1>20 DEF KeepsAll, CountsOK

-----------------------------------------------------------------------------
(* realloc's last step: the words are copied, and the old object is given  *)
(* back.                                                                   *)

\* copy_nonoverlapping carries every word over, known or not.
IsCopy(m2, m, from, to, n) ==
  /\ MemOK(m2) /\ Outside(m2, m, to, n)
  /\ \A i \in 0 .. n - 1 : Read(m2, to + i) = Read(m, from + i)

LEMMA CopiedIs ==
  ASSUME NEW m, MemOK(m), NEW from \in Nat, NEW to \in Nat, NEW n \in Nat, RegionBase <= to, to + n <= Top
  PROVE  IsCopy(Copied(m, from, to, n), m, from, to, n)
<1>0. PICK m2 : m2 = Copied(m, from, to, n)
  OBVIOUS
<1>1. PICK known, f, w : /\ known = {i \in 0 .. n - 1 : from + i \in DOMAIN m} /\ f = Forget(m, to, n)
                         /\ w = [i \in known |-> m[from + i]]
  OBVIOUS
<1>2. m2 = Written(f, to, w)
  BY <1>0, <1>1, Zenon DEF Copied
<1>3. MemOK(f) /\ Outside(f, m, to, n)
  BY <1>1, ForgetIs
<1>4. DOMAIN w \subseteq 0 .. n - 1 /\ \A i \in DOMAIN w : w[i] \in Nat
  BY <1>1 DEF MemOK
<1>5. /\ MemOK(m2) /\ Outside(m2, f, to, n)
      /\ \A i \in DOMAIN w : Read(m2, to + i) = w[i]
      /\ \A i \in Int : i \notin DOMAIN w => Read(m2, to + i) = Read(f, to + i)
  BY <1>2, <1>3, <1>4, WrittenIs
<1>6. Outside(m2, m, to, n)
  BY <1>3, <1>5, OutsideTwice
<1>7. ASSUME NEW i \in 0 .. n - 1 PROVE Read(m2, to + i) = Read(m, from + i)
  <2>1. CASE from + i \in DOMAIN m
    BY <1>1, <1>5, <2>1 DEF Read
  <2>2. CASE from + i \notin DOMAIN m
    <3>1. i \notin DOMAIN w /\ i \in Int
      BY <1>1, <2>2
    <3>2. to + i \notin DOMAIN f
      BY <1>1 DEF Forget
    <3> QED BY <1>5, <2>2, <3>1, <3>2 DEF Read
  <2> QED BY <2>1, <2>2
<1> QED BY <1>0, <1>5, <1>6, <1>7 DEF IsCopy

\* A chunk that the program has changes its owner.
LEMMA PlacesTurned ==
  ASSUME NEW bu, NEW st, NEW hp, NEW mp, NEW kind, NEW who, NEW cls, PlacesOK(bu, st, hp, mp, kind, who, cls),
         NEW x \in Addr, Used(kind[x]), NEW kind2, kind2 = At(kind, x, "obj"), NEW w, NEW who2, who2 = At(who, x, w)
  PROVE  /\ PlacesOK(bu, st, hp, mp, kind2, who2, cls) /\ Grows(kind, cls, kind2, cls)
         /\ \A a \in Addr : kind2[a] = "none" <=> kind[a] = "none"
         /\ SameUses(x, mp, kind, who, cls, mp, kind2, who2, cls)
<1>1. /\ ChunksOK(bu, mp, kind, cls) /\ ListsOK(st, hp, kind, who, cls) /\ CachesOK(hp, mp, kind, who)
      /\ HeapsOK(hp) /\ st \in [Nodes -> [Classes -> Seq(Addr)]] /\ kind \in [Addr -> Kinds]
  BY DEF PlacesOK, ChunksOK
<1>2. kind2[x] = "obj" /\ \A a \in Addr \ {x} : kind2[a] = kind[a] /\ who2[a] = who[a]
  BY AtIs
<1>3. kind2 \in [Addr -> Kinds] /\ \A a \in Addr : kind2[a] = "none" <=> kind[a] = "none"
  BY <1>1, <1>2 DEF At, Kinds, Used
<1>4. \A a \in Addr : kind2[a] = "none" \/ kind2[a] = kind[a] \/ Used(kind2[a])
                      \/ IF InRegion(a) THEN kind2[a] # "cache" ELSE ~ Listed(kind2[a])
  BY <1>2 DEF Used
<1>5. ChunksOK(bu, mp, kind2, cls)
  BY <1>1, <1>3, <1>4, ChunksRelabelled
<1>6. ListsOK(st, hp, kind2, who2, cls)
  <2>1. SameLists(hp, hp)
    BY DEF SameLists
  <2>2. SameListed(kind, who, cls, kind2, who2, cls)
    BY <1>2 DEF SameListed, Listed, Used
  <2> QED BY <1>1, <2>1, <2>2, ListsStay
<1>7. CachesOK(hp, mp, kind2, who2)
  <2>1. SameCaches(hp, hp)
    BY DEF SameCaches
  <2>2. SameCached(mp, kind, who, mp, kind2, who2)
    BY <1>2 DEF SameCached, Used
  <2> QED BY <1>1, <2>1, <2>2, CachesStay
<1> QED BY <1>1, <1>2, <1>3, <1>5, <1>6, <1>7 DEF PlacesOK, Grows, SameUses

\* The state in between: the new object is the program's, the old one still too.
Between(t, j, m1, ob1, jb1, kind, kind1, who1, cls) ==
  /\ Held(j.old, m1, ob1, jb1, kind1, who1, cls)
  /\ Gained(objs, mem, j.new, j.size, j.align, ob1, m1)
  /\ Others(t, job, jb1) /\ jb1[t] = Idle
  /\ \A u \in Threads : jb1[u].op = "realloc" => jb1[u].old # j.old
  /\ Grows(kind, cls, kind1, cls)
  /\ \A i \in 0 .. CopySize(objs[j.old].size, j.size) - 1 : Read(m1, j.new + i) = Read(mem, j.old + i)

LEMMA WithIs ==
  ASSUME NEW ob, NEW p, NEW j, NEW ob2, ob2 = With(ob, p, j)
  PROVE  Joined(ob, p, j.size, j.align, ob2)
BY DEF With, Joined

LEMMA MoveBetween ==
  ASSUME NEW t \in Threads, NEW kind, NEW who, NEW cls, Placed(kind, who, cls), NEW j, j = job[t], j.pc = "move",
         NEW m1, m1 = Copied(mem, j.old, j.new, CopySize(objs[j.old].size, j.size)),
         NEW ob1, ob1 = With(objs, j.new, j), NEW jb1, Turns(t, Idle, job, jb1)
  PROVE  \E kind1, who1 : Between(t, j, m1, ob1, jb1, kind, kind1, who1, cls)
<1>1. /\ PlacesOK(bump, stack, heap, maps, kind, who, cls) /\ UsesOK(heap, maps, mem, objs, job, kind, who, cls)
      /\ ObjsOK(objs, mem, maps, kind, who, cls) /\ NewsOK(job, mem, maps, kind, who, cls)
      /\ JobsOK(job, heap, objs) /\ ChunksOK(bump, maps, kind, cls) /\ MemOK(mem)
  BY DEF Placed, PlacesOK, UsesOK
<1>2. PICK size, align, new, old : size = j.size /\ align = j.align /\ new = j.new /\ old = j.old
  OBVIOUS
<1>3. /\ j \in Job /\ j.op = "realloc" /\ old \in DOMAIN objs /\ align = objs[old].align
  BY <1>1, <1>2 DEF JobsOK, JobOK
<1>4. PICK x \in Addr : kind[x] = "new" /\ who[x] = t
  BY <1>1 DEF NewsOK
<1>5. Lies(x, new, size, align, mem, maps, cls) /\ kind[x] # "none"
  BY <1>1, <1>2, <1>4 DEF NewsOK
<1>6. PICK e : e = Ext(x, maps, cls)
  OBVIOUS
<1>7. IsPayload(x, new, size, align, e) /\ IsChunk(x, bump, maps, cls)
  BY <1>1, <1>5, <1>6, LiesIs, ChunkIs
<1>8. /\ new \in Nat /\ size \in Nat \ {0} /\ x <= new /\ new + size <= x + e /\ x \in Nat /\ e \in Nat
      /\ RegionBase <= x /\ x + e <= Top /\ Top \in Nat /\ RegionBase \in Nat
      /\ ~ InRegion(x) => x <= new - 2
  BY <1>6, <1>7, ConstantsAre DEF IsPayload, IsChunk
<1>9. old \in Nat /\ objs[old].size \in Nat
  BY <1>1, <1>2, <1>3 DEF Job, ObjsOK
<1>10. PICK n : n = CopySize(objs[old].size, size)
  OBVIOUS
<1>11. n \in Nat /\ n <= size
  BY <1>8, <1>9, <1>10 DEF CopySize
<1>12. /\ MemOK(m1) /\ Outside(m1, mem, new, n)
       /\ \A i \in 0 .. n - 1 : Read(m1, new + i) = Read(mem, old + i)
  <2>1. RegionBase <= new /\ new + n <= Top
    BY <1>8, <1>11
  <2>2. IsCopy(Copied(mem, old, new, n), mem, old, new, n)
    BY <1>1, <1>8, <1>9, <1>11, <2>1, CopiedIs
  <2>3. m1 = Copied(mem, old, new, n)
    BY <1>2, <1>10
  <2> QED BY <2>2, <2>3 DEF IsCopy
<1>13. Outside(m1, mem, x, Ext(x, maps, cls))
  <2>1. x \in Int /\ e \in Int /\ new \in Int /\ n \in Int /\ x <= new /\ new + n <= x + e
    BY <1>8, <1>11
  <2> QED BY <1>6, <1>12, <2>1, OutsideMore
<1>14. Lies(x, new, size, align, m1, maps, cls)
  <2>1. Read(m1, new - 2) = Read(mem, new - 2) /\ Read(m1, new - 1) = Read(mem, new - 1)
    BY <1>8, <1>12 DEF Outside
  <2> QED BY <1>5, <2>1 DEF Lies
<1>15. PICK kind1, who1 : kind1 = At(kind, x, "obj") /\ who1 = At(who, x, new)
  OBVIOUS
<1>16. /\ PlacesOK(bump, stack, heap, maps, kind1, who1, cls) /\ Grows(kind, cls, kind1, cls)
       /\ SameUses(x, maps, kind, who, cls, maps, kind1, who1, cls)
  <2>1. Used(kind[x])
    BY <1>4 DEF Used
  <2> QED BY <1>1, <1>15, <2>1, PlacesTurned
<1>17. /\ jb1[t] = Idle /\ Others(t, job, jb1)
  BY <1>1 DEF JobsOK, Turns, Others
<1>18. ASSUME NEW a \in Addr \ {x}, kind[a] = "new" PROVE who[a] # t
  <2> SUFFICES ASSUME who[a] = t PROVE FALSE
    OBVIOUS
  <2>1. Lies(a, new, size, align, mem, maps, cls) /\ kind[a] # "none"
    BY <1>1, <1>2, <1>18 DEF NewsOK
  <2>2. a = x
    BY <1>1, <1>5, <2>1, OneChunk
  <2> QED BY <2>2
<1>19. Gains(x, new, t, kind, who, kind1, who1, job, jb1)
  <2>1. kind1[x] = "obj" /\ who1[x] = new
    BY <1>15 DEF At
  <2> QED BY <1>4, <1>17, <1>18, <2>1, IdleIs DEF Gains, Others
<1>20. Joined(objs, new, size, align, ob1)
  BY <1>2, WithIs
<1>21. ChunksOK(bump, maps, kind1, cls)
  BY <1>16 DEF PlacesOK
<1>22. /\ Gained(objs, mem, new, size, align, ob1, m1)
       /\ ObjsOK(ob1, m1, maps, kind1, who1, cls) /\ NewsOK(jb1, m1, maps, kind1, who1, cls)
  BY <1>1, <1>13, <1>14, <1>16, <1>19, <1>20, <1>21, ObjGained
<1>23. JobsOK(jb1, heap, ob1)
  <2>1. \A q \in DOMAIN objs : q \in DOMAIN ob1 /\ ob1[q] = objs[q]
    BY <1>22 DEF Gained
  <2>2. OldsKept(t, job, objs, ob1)
    BY <1>1, <2>1, OldsStay
  <2>3. GoesOn(t, Idle, job, heap, ob1)
    BY IdleIs DEF GoesOn
  <2>4. Others(t, heap, heap)
    BY DEF Others
  <2> QED BY <1>1, <2>2, <2>3, <2>4, JobsNext
<1>24. UsesOK(heap, maps, m1, ob1, jb1, kind1, who1, cls)
  BY <1>12, <1>22, <1>23 DEF UsesOK
<1>25. Held(j.old, m1, ob1, jb1, kind1, who1, cls)
  BY <1>2, <1>3, <1>16, <1>22, <1>24 DEF Held, Gained
<1>26. ASSUME NEW u \in Threads, jb1[u].op = "realloc" PROVE jb1[u].old # j.old
  <2>1. u # t
    BY <1>17, <1>26, IdleIs
  <2>2. jb1[u] = job[u]
    BY <1>17, <2>1 DEF Others
  <2> QED BY <1>1, <1>3, <1>26, <2>1, <2>2 DEF JobsOK
<1>27. \A i \in 0 .. CopySize(objs[j.old].size, j.size) - 1 : Read(m1, j.new + i) = Read(mem, j.old + i)
  BY <1>2, <1>10, <1>12
<1>28. Between(t, j, m1, ob1, jb1, kind, kind1, who1, cls)
  BY <1>2, <1>16, <1>17, <1>22, <1>25, <1>26, <1>27 DEF Between
<1> QED BY <1>28

\* The old object's words in the new one, in ObjectStore's terms.
LEMMA MovedIs ==
  ASSUME NEW ob, NEW m, NEW ob1, NEW m1, NEW ob2, NEW m2, NEW old \in DOMAIN ob, NEW new, NEW size, NEW align,
         ob[old].size \in Nat, size \in Nat, align = ob[old].align,
         Gained(ob, m, new, size, align, ob1, m1), Lost(ob1, m1, old, ob2, m2),
         \A i \in 0 .. CopySize(ob[old].size, size) - 1 : Read(m1, new + i) = Read(m, old + i)
  PROVE  SRealloc(Stored(ob, m), Stored(ob2, m2))
<1>1. PICK S, S1, S2 : S = Stored(ob, m) /\ S1 = Stored(ob1, m1) /\ S2 = Stored(ob2, m2)
  OBVIOUS
<1>2. /\ new \notin DOMAIN ob /\ DOMAIN ob1 = DOMAIN ob \cup {new}
      /\ ob1[new] = [size |-> size, align |-> align]
      /\ \A q \in DOMAIN ob : ob1[q] = ob[q] /\ S1[q] = S[q]
  BY <1>1 DEF Gained
<1>3. /\ DOMAIN ob2 = DOMAIN ob1 \ {old} /\ \A q \in DOMAIN ob2 : ob2[q] = ob1[q] /\ S2[q] = S1[q]
  BY <1>1 DEF Lost
<1>4. DOMAIN S = DOMAIN ob /\ DOMAIN S2 = DOMAIN ob2 /\ new \in DOMAIN ob1 /\ new \in DOMAIN ob2
  BY <1>1, <1>2, <1>3, StoredIs
<1>5. S[old].align = align /\ S[old].words = Words(old, ob[old].size, m)
  BY <1>1, StoredIs
<1>6. S1[new].align = ob1[new].align /\ S1[new].words = Words(new, ob1[new].size, m1)
  BY <1>1, <1>4, StoredIs
<1>7. S2[new].align = align /\ S2[new].words = Words(new, size, m1)
  BY <1>2, <1>3, <1>4, <1>6
<1>8. ASSUME NEW i \in DOMAIN S[old].words \cap DOMAIN S2[new].words
      PROVE  S2[new].words[i] = S[old].words[i]
  <2>1. i \in 0 .. ob[old].size - 1 /\ i \in 0 .. size - 1
    BY <1>5, <1>7, <1>8 DEF Words
  <2>2. i \in 0 .. CopySize(ob[old].size, size) - 1
    BY <2>1 DEF CopySize
  <2>3. Read(m1, new + i) = Read(m, old + i)
    BY <2>2
  <2> QED BY <1>5, <1>7, <2>1, <2>3 DEF Words
<1>9. /\ old \in DOMAIN S /\ new \in DOMAIN S2
      /\ new = old \/ new \notin DOMAIN S
      /\ DOMAIN S2 = (DOMAIN S \ {old}) \cup {new}
      /\ \A r \in DOMAIN S \ {old} : S2[r] = S[r]
      /\ S2[new].align = S[old].align
  BY <1>2, <1>3, <1>4, <1>5, <1>7
<1>10. SRealloc(S, S2)
  BY <1>8, <1>9, Zenon DEF SRealloc
<1> QED BY <1>1, <1>10

\* The two ways of saying which objects remain.
LEMMA SwappedIs ==
  ASSUME NEW j, j.old \in DOMAIN objs, j.new \notin DOMAIN objs
  PROVE  Dropped(With(objs, j.new, j), j.old, With(Without(j.old), j.new, j))
<1>1. PICK old, new, r : old = j.old /\ new = j.new /\ r = [size |-> j.size, align |-> j.align]
  OBVIOUS
<1>2. PICK f, g : f = With(objs, new, j) /\ g = With(Without(old), new, j)
  OBVIOUS
<1>3. old # new /\ (DOMAIN objs \cup {new}) \ {old} = (DOMAIN objs \ {old}) \cup {new}
  BY <1>1
<1>4. f = [q \in DOMAIN objs \cup {new} |-> IF q = new THEN r ELSE objs[q]]
  BY <1>1, <1>2 DEF With
<1>5. g = [q \in (DOMAIN objs \ {old}) \cup {new} |-> IF q = new THEN r ELSE objs[q]]
  <2>1. PICK w : w = Without(old)
    OBVIOUS
  <2>2. DOMAIN w = DOMAIN objs \ {old} /\ \A q \in DOMAIN w : w[q] = objs[q]
    BY <2>1 DEF Without
  <2>3. g = [q \in DOMAIN w \cup {new} |-> IF q = new THEN r ELSE w[q]]
    BY <1>1, <1>2, <2>1 DEF With
  <2> QED BY <2>2, <2>3
<1>6. g = [q \in DOMAIN f \ {old} |-> f[q]]
  BY <1>3, <1>4, <1>5
<1> QED BY <1>1, <1>2, <1>6 DEF Dropped

LEMMA MoveStep ==
  ASSUME NEW t \in Threads, NEW kind, NEW who, NEW cls, Placed(kind, who, cls), CountsOK, Move(t)
  PROVE  KeepsAll(t, kind, cls)
<1>1. PICK j : j = job[t]
  OBVIOUS
<1>2. PICK o, m1, ob1 : /\ o = objs[j.old] /\ m1 = Copied(mem, j.old, j.new, CopySize(o.size, j.size))
                        /\ ob1 = With(objs, j.new, j)
  OBVIOUS
<1>3. /\ j.pc = "move" /\ Release(t, j.old, o.size, o.align, m1)
      /\ objs' = With(Without(j.old), j.new, j) /\ Turns(t, Idle, job, job')
      /\ bump' = bump /\ calls' = calls /\ exits' = exits
  BY <1>1, <1>2, Zenon DEF Move, Turns
<1>4. PICK kind1, who1 : Between(t, j, m1, ob1, job', kind, kind1, who1, cls)
  <2>1. PICK jb1 : jb1 = job'
    OBVIOUS
  <2>2. /\ m1 = Copied(mem, j.old, j.new, CopySize(objs[j.old].size, j.size))
        /\ ob1 = With(objs, j.new, j) /\ Turns(t, Idle, job, jb1) /\ j.pc = "move" /\ j = job[t]
    BY <1>1, <1>2, <1>3, <2>1
  <2>3. \E kind1, who1 : Between(t, j, m1, ob1, jb1, kind, kind1, who1, cls)
    BY <2>2, MoveBetween
  <2> QED BY <2>1, <2>3
<1>5. /\ Held(j.old, m1, ob1, job', kind1, who1, cls)
      /\ Gained(objs, mem, j.new, j.size, j.align, ob1, m1)
      /\ Others(t, job, job') /\ job'[t] = Idle
      /\ \A u \in Threads : job'[u].op = "realloc" => job'[u].old # j.old
      /\ Grows(kind, cls, kind1, cls)
      /\ \A i \in 0 .. CopySize(objs[j.old].size, j.size) - 1 : Read(m1, j.new + i) = Read(mem, j.old + i)
  BY <1>4 DEF Between
<1>6. /\ j \in Job /\ j.old \in DOMAIN objs /\ j.align = objs[j.old].align /\ objs[j.old].size \in Nat
  BY <1>1, <1>3 DEF Placed, UsesOK, JobsOK, JobOK, ObjsOK
<1>7. j.new \notin DOMAIN objs /\ ob1[j.old] = o
  BY <1>2, <1>5, <1>6 DEF Gained
<1>8. Dropped(ob1, j.old, objs')
  BY <1>2, <1>3, <1>6, <1>7, SwappedIs
<1>9. /\ Released(t, j.old, heap, m1, ob1, job', kind1, cls, bump, stack', heap', maps', mem', objs')
      /\ nextNode' \in Nodes
  <2>1. PICK old, jb1, ob2 : old = j.old /\ jb1 = job' /\ ob2 = objs'
    OBVIOUS
  <2>2. nextNode \in Nodes
    BY DEF CountsOK
  <2>3. /\ Held(old, m1, ob1, jb1, kind1, who1, cls) /\ jb1[t] = Idle
        /\ \A u \in Threads : jb1[u].op = "realloc" => jb1[u].old # old
        /\ Release(t, old, ob1[old].size, ob1[old].align, m1) /\ Dropped(ob1, old, ob2)
    BY <1>3, <1>5, <1>7, <1>8, <2>1
  <2>4. /\ Released(t, old, heap, m1, ob1, jb1, kind1, cls, bump, stack', heap', maps', mem', ob2)
        /\ nextNode' \in Nodes
    BY <2>2, <2>3, ReleaseKeeps
  <2> QED BY <2>1, <2>4
<1>10. PICK kind2, who2 :
         /\ PlacesOK(bump, stack', heap', maps', kind2, who2, cls)
         /\ UsesOK(heap', maps', mem', objs', job', kind2, who2, cls)
         /\ Grows(kind1, cls, kind2, cls)
  BY <1>9 DEF Released
<1>11. Grows(kind, cls, kind2, cls)
  BY <1>5, <1>10 DEF Grows
<1>12. Others(t, heap, heap') /\ Lost(ob1, m1, j.old, objs', mem')
  BY <1>9 DEF Released
<1>13. StoreStep(Stored(objs, mem), Stored(objs', mem'))
  <2>1. PICK old, new, size, align, ob2, m2 :
           old = j.old /\ new = j.new /\ size = j.size /\ align = j.align /\ ob2 = objs' /\ m2 = mem'
    OBVIOUS
  <2>2. /\ old \in DOMAIN objs /\ objs[old].size \in Nat /\ size \in Nat /\ align = objs[old].align
        /\ Gained(objs, mem, new, size, align, ob1, m1) /\ Lost(ob1, m1, old, ob2, m2)
        /\ \A i \in 0 .. CopySize(objs[old].size, size) - 1 : Read(m1, new + i) = Read(mem, old + i)
    BY <1>5, <1>6, <1>12, <2>1 DEF Job
  <2>3. SRealloc(Stored(objs, mem), Stored(ob2, m2))
    BY <2>2, MovedIs
  <2> QED BY <2>1, <2>3 DEF StoreStep
<1>14. Got(t, objs, job, objs', job') = {}
  BY <1>1, <1>3, <1>5, IdleIs DEF Got
<1>15. \E k, w, c : /\ PlacesOK(bump', stack', heap', maps', k, w, c)
                    /\ UsesOK(heap', maps', mem', objs', job', k, w, c)
                    /\ Grows(kind, cls, k, c)
  BY <1>3, <1>10, <1>11
<1>16. Keeps(t, heap, mem, objs, job, kind, cls, bump', stack', heap', maps', mem', objs', job')
  BY <1>5, <1>12, <1>13, <1>14, <1>15 DEF Keeps
<1> QED BY <1>3, <1>9, <1>16 DEF KeepsAll, CountsOK

-----------------------------------------------------------------------------
(* Every step.                                                             *)

LEMMA NextKeeps ==
  ASSUME NEW kind, NEW who, NEW cls, Placed(kind, who, cls), CountsOK, Next
  PROVE  \E t \in Threads : KeepsAll(t, kind, cls)
<1>1. PICK t \in Threads :
        \/ \E r \in Requests : Alloc(t, r[1], r[2], r[3])
        \/ \E p \in DOMAIN objs :
             \/ Dealloc(t, p)
             \/ \E size \in Sizes : ReallocInPlace(t, p, size) \/ Realloc(t, p, size)
        \/ Carve(t) \/ Move(t)
        \/ ThreadExit(t) \/ ThreadStart(t)
  BY DEF Next
<1>2. ASSUME NEW r \in Requests, Alloc(t, r[1], r[2], r[3]) PROVE KeepsAll(t, kind, cls)
  BY <1>2, AllocStep
<1>3. ASSUME NEW p \in DOMAIN objs, Dealloc(t, p) PROVE KeepsAll(t, kind, cls)
  BY <1>3, DeallocStep
<1>4. ASSUME NEW p \in DOMAIN objs, NEW size \in Sizes, ReallocInPlace(t, p, size) PROVE KeepsAll(t, kind, cls)
  BY <1>4, ReallocInPlaceStep
<1>5. ASSUME NEW p \in DOMAIN objs, NEW size \in Sizes, Realloc(t, p, size) PROVE KeepsAll(t, kind, cls)
  BY <1>5, ReallocStep
<1>6. CASE Carve(t)
  <2>1. nextNode' = nextNode /\ calls' = calls /\ exits' = exits
    BY <1>6 DEF Carve
  <2>2. Keeps(t, heap, mem, objs, job, kind, cls, bump', stack', heap', maps', mem', objs', job')
    BY <1>6, CarveStep
  <2> QED BY <2>1, <2>2 DEF KeepsAll, CountsOK
<1>7. CASE Move(t)
  BY <1>7, MoveStep
<1>8. CASE ThreadExit(t)
  BY <1>8, ThreadExitStep
<1>9. CASE ThreadStart(t)
  BY <1>9, ThreadStartStep
<1> QED BY <1>1, <1>2, <1>3, <1>4, <1>5, <1>6, <1>7, <1>8, <1>9

-----------------------------------------------------------------------------
(* The invariant.                                                          *)

\* At first no bag is carved and nothing is mapped.
LEMMA InitInv ==
  ASSUME Init
  PROVE  Inv
<1>1. PICK kind, who, cls :
        kind = [a \in Addr |-> "none"] /\ who = [a \in Addr |-> 0] /\ cls = [a \in Addr |-> 0]
  OBVIOUS
<1>2. /\ \A a \in Addr : kind[a] = "none" /\ cls[a] = 0
      /\ kind \in [Addr -> Kinds] /\ cls \in [Addr -> Classes]
  BY <1>1, ConstantsAre DEF Kinds
<1>3. ChunksOK(bump, maps, kind, cls)
  <2>1. bump \in [Nodes -> 0 .. RegionSize] /\ maps \in [Maps -> [len : Nat, node : Nodes]]
    BY ConstantsAre DEF Init
  <2>2. ASSUME NEW raw \in Maps PROVE maps[raw].len = 0 <=> kind[raw] = "none"
    <3>1. raw \in Addr
      BY MapIs
    <3> QED BY <1>2, <3>1 DEF Init
  <2> QED BY <1>2, <2>1, <2>2 DEF ChunksOK
<1>4. \A k, w, c : k # "none" => Of(k, w, c, kind, who, cls) = {}
  BY <1>2 DEF Of
<1>5. NoHeap("none") \in Heap /\ NoHeap("none").state = "none" /\ NoHeap("none").node = 0
      /\ NoHeap("none").cache = <<>> /\ NoHeap("none").bytes = 0
      /\ \A c \in Classes : NoHeap("none").list[c] = <<>> /\ NoHeap("none").spare[c] = <<>>
  BY NoHeapIs
<1>6. \A t \in Threads : heap[t] = NoHeap("none")
  BY DEF Init
<1>7. HeapsOK(heap)
  BY <1>5, <1>6 DEF HeapsOK, Init
<1>8. ListsOK(stack, heap, kind, who, cls)
  <2>1. \A n \in Nodes, c \in Classes : stack[n][c] = <<>>
    BY DEF Init
  <2>2. \A t \in Threads, c \in Classes : heap[t].list[c] = <<>> /\ heap[t].spare[c] = <<>>
    BY <1>5, <1>6
  <2>3. Lists(<<>>, {})
    BY ListsNone
  <2> QED BY <1>2, <1>4, <2>1, <2>2, <2>3 DEF ListsOK
<1>9. CachesOK(heap, maps, kind, who)
  <2>1. PICK es : es = <<>>
    OBVIOUS
  <2>2. es \in Seq(Entries) /\ Distinct(es) /\ MapsOf(es) = {} /\ Len(es) = 0 /\ DOMAIN es = {}
    BY <2>1 DEF Distinct, MapsOf
  <2>3. Pages(es, Len(es)) = 0
    BY <2>2, PagesIs
  <2>4. MaxCacheBytes \in Nat /\ CacheSlots \in Nat
    BY LargeCacheAssumption
  <2>5. ASSUME NEW t \in Threads PROVE CacheOK(t, heap[t], maps, kind, who)
    <3>1. heap[t].cache = es /\ heap[t].bytes = 0
      BY <1>5, <1>6, <2>1
    <3>2. {a \in Addr : kind[a] = "cache" /\ who[a] = t} = {}
      BY <1>2
    <3> QED BY <2>2, <2>3, <2>4, <3>1, <3>2 DEF CacheOK
  <2> QED BY <1>2, <2>5 DEF CachesOK
<1>10. stack \in [Nodes -> [Classes -> Seq(Addr)]]
  BY DEF Init
<1>11. PlacesOK(bump, stack, heap, maps, kind, who, cls)
  BY <1>3, <1>7, <1>8, <1>9, <1>10 DEF PlacesOK
<1>12. DOMAIN mem = {} /\ DOMAIN objs = {} /\ \A t \in Threads : job[t] = Idle
  BY DEF Init
<1>13. UsesOK(heap, maps, mem, objs, job, kind, who, cls)
  <2>1. MemOK(mem) /\ ObjsOK(objs, mem, maps, kind, who, cls)
    BY <1>2, <1>12 DEF MemOK, ObjsOK
  <2>2. NewsOK(job, mem, maps, kind, who, cls)
    BY <1>2, <1>12, IdleIs DEF NewsOK
  <2>3. JobsOK(job, heap, objs)
    BY <1>12, IdleIs DEF JobsOK, Init
  <2> QED BY <2>1, <2>2, <2>3 DEF UsesOK
<1>14. CountsOK
  BY ConstantsAre, AllocatorAssumption DEF Init, CountsOK
<1> QED BY <1>11, <1>13, <1>14 DEF Inv, Placed

\* A step keeps the invariant.
LEMMA NextInv ==
  ASSUME Inv, [Next]_vars
  PROVE  Inv'
<1>1. PICK kind, who, cls : Placed(kind, who, cls)
  BY DEF Inv
<1>2. CountsOK
  BY DEF Inv
<1>3. CASE Next
  <2>1. PICK t \in Threads : KeepsAll(t, kind, cls)
    BY <1>1, <1>2, <1>3, NextKeeps
  <2>2. PICK kind2, who2, cls2 :
           /\ PlacesOK(bump', stack', heap', maps', kind2, who2, cls2)
           /\ UsesOK(heap', maps', mem', objs', job', kind2, who2, cls2)
    BY <2>1 DEF KeepsAll, Keeps
  <2> QED BY <2>1, <2>2 DEF KeepsAll, Inv, Placed
<1>4. CASE UNCHANGED vars
  BY <1>1, <1>2, <1>4 DEF vars, Inv, Placed, CountsOK
<1> QED BY <1>3, <1>4

\* Memory stays divided: every block that was carved and every mapping is in exactly
\* one place, and every object in a chunk of its own.
THEOREM Safety == Spec => []Inv
<1>1. Init => Inv
  BY InitInv
<1>2. Inv /\ [Next]_vars => Inv'
  BY NextInv
<1> QED BY <1>1, <1>2, PTL DEF Spec

\* Every variable keeps to its values.
THEOREM TypeCorrect == Spec => []TypeOK
<1>1. Inv => TypeOK
  <2> SUFFICES ASSUME Inv PROVE TypeOK
    OBVIOUS
  <2>1. PICK kind, who, cls : Placed(kind, who, cls)
    BY DEF Inv
  <2>2. /\ bump \in [Nodes -> 0 .. RegionSize] /\ maps \in [Maps -> [len : Nat, node : Nodes]]
        /\ stack \in [Nodes -> [Classes -> Seq(Addr)]] /\ heap \in [Threads -> Heap]
        /\ ChunksOK(bump, maps, kind, cls)
    BY <2>1 DEF Placed, PlacesOK, ChunksOK, HeapsOK
  <2>3. /\ MemOK(mem) /\ ObjsOK(objs, mem, maps, kind, who, cls) /\ job \in [Threads -> Job]
    BY <2>1 DEF Placed, UsesOK, JobsOK
  <2>4. ASSUME NEW p \in DOMAIN objs PROVE p \in Addr
    <3>1. PICK x \in Addr : kind[x] = "obj" /\ who[x] = p
      BY <2>3 DEF ObjsOK
    <3>2. Lies(x, p, objs[p].size, objs[p].align, mem, maps, cls) /\ kind[x] # "none"
      BY <2>3, <3>1 DEF ObjsOK
    <3>3. IsPayload(x, p, objs[p].size, objs[p].align, Ext(x, maps, cls))
      BY <2>2, <3>2, LiesIs
    <3> QED BY <3>3 DEF IsPayload
  <2>5. \A p \in DOMAIN objs : objs[p] \in [size : Nat, align : Nat]
    BY <2>3 DEF ObjsOK
  <2>6. CountsOK
    BY DEF Inv
  <2>7. DOMAIN mem \subseteq Addr /\ \A a \in DOMAIN mem : mem[a] \in Nat
    BY <2>3 DEF MemOK
  <2> QED BY <2>2, <2>3, <2>4, <2>5, <2>6, <2>7 DEF TypeOK, CountsOK, Heap, Job
<1> QED BY <1>1, Safety, PTL

-----------------------------------------------------------------------------
(* What the program sees: ObjectStore.                                     *)

\* ObjectStore's Placed, of the objects S.
Spread(S) ==
  \A p \in DOMAIN S :
    /\ p % S[p].align = 0
    /\ \A q \in DOMAIN S \ {p} : p + S[p].size <= q \/ q + S[q].size <= p

\* Objects are aligned and apart.
LEMMA ObjsApart ==
  ASSUME NEW bu, NEW st, NEW hp, NEW mp, NEW kind, NEW who, NEW cls, PlacesOK(bu, st, hp, mp, kind, who, cls),
         NEW m, NEW ob, NEW jb, UsesOK(hp, mp, m, ob, jb, kind, who, cls)
  PROVE  Spread(Stored(ob, m))
<1>1. ChunksOK(bu, mp, kind, cls) /\ ObjsOK(ob, m, mp, kind, who, cls)
  BY DEF PlacesOK, UsesOK
<1>2. ASSUME NEW p \in DOMAIN ob
      PROVE  \E x \in Addr : /\ kind[x] = "obj" /\ who[x] = p /\ kind[x] # "none"
                             /\ Lies(x, p, ob[p].size, ob[p].align, m, mp, cls)
                             /\ IsPayload(x, p, ob[p].size, ob[p].align, Ext(x, mp, cls))
                             /\ IsChunk(x, bu, mp, cls)
  <2>1. PICK x \in Addr : kind[x] = "obj" /\ who[x] = p
    BY <1>1 DEF ObjsOK
  <2>2. Lies(x, p, ob[p].size, ob[p].align, m, mp, cls) /\ kind[x] # "none"
    BY <1>1, <2>1 DEF ObjsOK
  <2>3. IsPayload(x, p, ob[p].size, ob[p].align, Ext(x, mp, cls)) /\ IsChunk(x, bu, mp, cls)
    BY <1>1, <2>2, LiesIs, ChunkIs
  <2> QED BY <2>1, <2>2, <2>3
<1>3. ASSUME NEW p \in DOMAIN ob PROVE p % ob[p].align = 0
  BY <1>2, <1>3 DEF IsPayload
<1>4. ASSUME NEW p \in DOMAIN ob, NEW q \in DOMAIN ob, p # q
      PROVE  p + ob[p].size <= q \/ q + ob[q].size <= p
  <2>1. PICK x \in Addr : /\ kind[x] # "none" /\ who[x] = p /\ IsChunk(x, bu, mp, cls)
                          /\ IsPayload(x, p, ob[p].size, ob[p].align, Ext(x, mp, cls))
    BY <1>2
  <2>2. PICK y \in Addr : /\ kind[y] # "none" /\ who[y] = q /\ IsChunk(y, bu, mp, cls)
                          /\ IsPayload(y, q, ob[q].size, ob[q].align, Ext(y, mp, cls))
    BY <1>2
  <2>3. x # y
    BY <1>4, <2>1, <2>2
  <2>4. x + Ext(x, mp, cls) <= y \/ y + Ext(y, mp, cls) <= x
    BY <1>1, <2>1, <2>2, <2>3, ChunksApart
  <2> QED BY <2>1, <2>2, <2>4 DEF IsPayload, IsChunk
<1>5. /\ DOMAIN Stored(ob, m) = DOMAIN ob
      /\ \A p \in DOMAIN ob : Stored(ob, m)[p].size = ob[p].size /\ Stored(ob, m)[p].align = ob[p].align
  BY StoredIs
<1> QED BY <1>3, <1>4, <1>5 DEF Spread

\* The steps of StoreStep are those of ObjectStore.
LEMMA StoreSteps ==
  ASSUME StoreStep(Stored(objs, mem), Stored(objs', mem')), Spread(Stored(objs', mem'))
  PROVE  Stored(objs', mem') = Stored(objs, mem) \/ Store!Next
<1>1. PICK S, S2 : S = Stored(objs, mem) /\ S2 = Stored(objs', mem')
  OBVIOUS
<1>2. Stored(objs, mem)' = S2
  BY <1>1 DEF Stored
<1>3. Spread(S2) => Store!Placed'
  BY <1>2 DEF Spread, Store!Placed, Store!Live
<1>4. ASSUME SAlloc(S, S2) PROVE Store!Alloc
  BY <1>1, <1>2, <1>4 DEF SAlloc, Zeros, Store!Alloc, Store!Becomes, Store!Live
<1>5. ASSUME SFree(S, S2) PROVE Store!Free
  BY <1>1, <1>2, <1>5 DEF SFree, Store!Free, Store!Becomes, Store!Live
<1>6. ASSUME SRealloc(S, S2) PROVE Store!Realloc
  BY <1>1, <1>2, <1>6 DEF SRealloc, Store!Realloc, Store!Becomes, Store!Live
<1> QED BY <1>1, <1>3, <1>4, <1>5, <1>6 DEF StoreStep, Store!Next

\* A step, seen from all sides.
LEMMA StepKeeps ==
  ASSUME Inv, Next
  PROVE  \E t \in Threads : \E kind, who, cls : Placed(kind, who, cls) /\ KeepsAll(t, kind, cls)
<1>1. PICK kind, who, cls : Placed(kind, who, cls)
  BY DEF Inv
<1>2. CountsOK
  BY DEF Inv
<1>3. PICK t \in Threads : KeepsAll(t, kind, cls)
  BY <1>1, <1>2, NextKeeps
<1> QED BY <1>1, <1>3

\* The allocator keeps what GlobalAlloc promises, for any number of threads and nodes and
\* any sizes: however alloc, alloc_zeroed, realloc, dealloc and thread exits interleave
\* and whichever path serves them, objects are aligned and apart, and their words are
\* the program's.
THEOREM StoreRefinement == Spec => ImplementsStore
<1>1. Init => Store!Init
  <2> SUFFICES ASSUME Init PROVE Store!Init
    OBVIOUS
  <2>1. DOMAIN objs = {}
    BY DEF Init
  <2> QED BY <2>1, StoredIs DEF Store!Init, Store!Live
<1>2. Inv /\ [Next]_vars => Stored(objs', mem') = Stored(objs, mem) \/ Store!Next
  <2> SUFFICES ASSUME Inv, [Next]_vars
               PROVE  Stored(objs', mem') = Stored(objs, mem) \/ Store!Next
    OBVIOUS
  <2>1. CASE UNCHANGED vars
    BY <2>1 DEF vars
  <2>2. CASE Next
    <3>1. PICK t \in Threads : \E kind, who, cls : KeepsAll(t, kind, cls)
      BY <2>2, StepKeeps
    <3>2. PICK kind2, who2, cls2 :
             /\ PlacesOK(bump', stack', heap', maps', kind2, who2, cls2)
             /\ UsesOK(heap', maps', mem', objs', job', kind2, who2, cls2)
      BY <3>1 DEF KeepsAll, Keeps
    <3>3. Spread(Stored(objs', mem'))
      BY <3>2, ObjsApart
    <3>4. StoreStep(Stored(objs, mem), Stored(objs', mem'))
      BY <3>1 DEF KeepsAll, Keeps
    <3> QED BY <3>3, <3>4, StoreSteps
  <2> QED BY <2>1, <2>2
<1>3. Inv /\ [Next]_vars => [Store!Next]_(Stored(objs, mem))
  <2>1. Stored(objs, mem)' = Stored(objs', mem')
    BY DEF Stored
  <2> QED BY <1>2, <2>1
<1> QED BY <1>1, <1>3, Safety, PTL DEF Spec, ImplementsStore, Store!Spec

\* A block that alloc hands out lies in the region of the calling thread's node,
\* whichever thread freed it before and through whichever list it came.
THEOREM Locality == Spec => SmallIsLocal
<1>1. Inv /\ [Next]_vars =>
        [\A t \in Threads : <<heap[t], job[t]>>' # <<heap[t], job[t]>> =>
           \A p \in Obtained(t) : InRegion(p) => NodeForPtr(p) = heap'[t].node]_vars
  <2> SUFFICES ASSUME Inv, Next,
                      NEW t \in Threads, <<heap[t], job[t]>>' # <<heap[t], job[t]>>,
                      NEW p \in Obtained(t), InRegion(p)
               PROVE  NodeForPtr(p) = heap'[t].node
    OBVIOUS
  <2>1. PICK u \in Threads : \E kind, who, cls : KeepsAll(u, kind, cls)
    BY StepKeeps
  <2>2. /\ \A v \in Threads \ {u} : heap'[v] = heap[v] /\ job'[v] = job[v]
        /\ \A q \in Got(u, objs, job, objs', job') : InRegion(q) => NodeForPtr(q) = heap'[u].node
    BY <2>1 DEF KeepsAll, Keeps, Others
  <2>3. t = u
    BY <2>2
  <2>4. p \in Got(t, objs, job, objs', job')
    BY DEF Obtained, Got
  <2> QED BY <2>2, <2>3, <2>4
<1> QED BY <1>1, Safety, PTL DEF Spec, SmallIsLocal


-----------------------------------------------------------------------------
(* What the validator's walk finds.                                        *)

\* What is found on a list is the blocks that are said to be on it.
OnList(b, s, k, w, n, c, kind, who, cls) ==
  \E a \in Addr, i \in DOMAIN s :
    /\ kind[a] = k /\ who[a] = w /\ cls[a] = c /\ s[i] = a
    /\ b = [addr |-> a, len |-> SizeForClass(c), node |-> n, class |-> c, at |-> <<k, i>>]

Finds(F, a, c) == \E b \in F : b.addr = a /\ b.len = SizeForClass(c)

LEMMA OnListIs ==
  ASSUME NEW k, NEW w, NEW c, NEW n, NEW kind, NEW who, NEW cls, NEW s,
         Lists(s, Of(k, w, c, kind, who, cls))
  PROVE  /\ \A b \in Found(s, k, n, c) : OnList(b, s, k, w, n, c, kind, who, cls)
         /\ \A a \in Addr : kind[a] = k /\ who[a] = w /\ cls[a] = c => Finds(Found(s, k, n, c), a, c)
<1>1. Elems(s) = Of(k, w, c, kind, who, cls)
  BY DEF Lists
<1>2. ASSUME NEW b \in Found(s, k, n, c)
      PROVE  OnList(b, s, k, w, n, c, kind, who, cls)
  <2>1. PICK i \in DOMAIN s :
          b = [addr |-> s[i], len |-> SizeForClass(c), node |-> n, class |-> c, at |-> <<k, i>>]
    BY <1>2 DEF Found
  <2>2. s[i] \in Of(k, w, c, kind, who, cls)
    BY <1>1 DEF Elems
  <2>3. s[i] \in Addr /\ kind[s[i]] = k /\ who[s[i]] = w /\ cls[s[i]] = c
    BY <2>2 DEF Of
  <2> QED BY <2>1, <2>3 DEF OnList
<1>3. ASSUME NEW a \in Addr, kind[a] = k, who[a] = w, cls[a] = c
      PROVE  Finds(Found(s, k, n, c), a, c)
  <2>1. a \in Elems(s)
    BY <1>1, <1>3 DEF Of
  <2>2. PICK i \in DOMAIN s : s[i] = a
    BY <2>1 DEF Elems
  <2>3. [addr |-> s[i], len |-> SizeForClass(c), node |-> n, class |-> c, at |-> <<k, i>>] \in Found(s, k, n, c)
    BY DEF Found
  <2> QED BY <2>2, <2>3 DEF Finds
<1> QED BY <1>2, <1>3

\* The list a block is on.
Place(a, kind, who, cls) ==
  IF kind[a] = "stack" THEN stack[who[a]][cls[a]]
  ELSE IF kind[a] = "list" THEN heap[who[a]].list[cls[a]] ELSE heap[who[a]].spare[cls[a]]

\* The block at a, where the walk comes upon it.
Walked(b, a, kind, who, cls) ==
  \E i \in DOMAIN Place(a, kind, who, cls) :
    /\ Place(a, kind, who, cls)[i] = a
    /\ b = [addr |-> a, len |-> SizeForClass(cls[a]), node |-> NodeForPtr(a), class |-> cls[a],
            at |-> <<kind[a], i>>]

\* The walk of thread t sees the blocks on the stacks and on its own lists.
Seen(a, t, kind, who) == kind[a] = "stack" \/ (kind[a] \in {"list", "spare"} /\ who[a] = t)

LEMMA VisitedAre ==
  ASSUME NEW kind, NEW who, NEW cls, Placed(kind, who, cls), NEW t \in Threads
  PROVE  /\ \A b \in Visited(t) : \E a \in Addr : Seen(a, t, kind, who) /\ Walked(b, a, kind, who, cls)
         /\ \A a \in Addr : Seen(a, t, kind, who) =>
              Finds(Visited(t), a, cls[a])
<1>1. ListsOK(stack, heap, kind, who, cls) /\ ChunksOK(bump, maps, kind, cls)
  BY DEF Placed, PlacesOK
<1>2. \A n \in Nodes, c \in Classes : Lists(stack[n][c], Of("stack", n, c, kind, who, cls))
  BY <1>1 DEF ListsOK
<1>3. \A c \in Classes : /\ Lists(heap[t].list[c], Of("list", t, c, kind, who, cls))
                         /\ Lists(heap[t].spare[c], Of("spare", t, c, kind, who, cls))
  BY <1>1 DEF ListsOK
<1>4. \A a \in Addr : /\ kind[a] = "stack" => who[a] = NodeForPtr(a)
                      /\ kind[a] \in {"list", "spare"} => NodeForPtr(a) = heap[who[a]].node
  BY <1>1 DEF ListsOK
<1>5. ASSUME NEW b \in Visited(t)
      PROVE  \E a \in Addr : Seen(a, t, kind, who) /\ Walked(b, a, kind, who, cls)
  <2>1. \/ \E c \in Classes : b \in Found(heap[t].list[c], "list", heap[t].node, c)
        \/ \E c \in Classes : b \in Found(heap[t].spare[c], "spare", heap[t].node, c)
        \/ \E n \in Nodes, c \in Classes : b \in Found(stack[n][c], "stack", n, c)
    BY <1>5 DEF Visited
  <2>2. ASSUME NEW c \in Classes, b \in Found(heap[t].list[c], "list", heap[t].node, c)
        PROVE  \E a \in Addr : Seen(a, t, kind, who) /\ Walked(b, a, kind, who, cls)
    <3>0. OnList(b, heap[t].list[c], "list", t, heap[t].node, c, kind, who, cls)
      <4>1. Lists(heap[t].list[c], Of("list", t, c, kind, who, cls))
        BY <1>3
      <4> QED BY <2>2, <4>1, OnListIs
    <3>1. PICK a \in Addr, i \in DOMAIN heap[t].list[c] :
            /\ kind[a] = "list" /\ who[a] = t /\ cls[a] = c /\ heap[t].list[c][i] = a
            /\ b = [addr |-> a, len |-> SizeForClass(c), node |-> heap[t].node, class |-> c, at |-> <<"list", i>>]
      BY <3>0 DEF OnList
    <3>2. Place(a, kind, who, cls) = heap[t].list[c] /\ NodeForPtr(a) = heap[t].node
      BY <1>4, <3>1 DEF Place
    <3> QED BY <3>1, <3>2 DEF Walked, Seen
  <2>3. ASSUME NEW c \in Classes, b \in Found(heap[t].spare[c], "spare", heap[t].node, c)
        PROVE  \E a \in Addr : Seen(a, t, kind, who) /\ Walked(b, a, kind, who, cls)
    <3>0. OnList(b, heap[t].spare[c], "spare", t, heap[t].node, c, kind, who, cls)
      <4>1. Lists(heap[t].spare[c], Of("spare", t, c, kind, who, cls))
        BY <1>3
      <4> QED BY <2>3, <4>1, OnListIs
    <3>1. PICK a \in Addr, i \in DOMAIN heap[t].spare[c] :
            /\ kind[a] = "spare" /\ who[a] = t /\ cls[a] = c /\ heap[t].spare[c][i] = a
            /\ b = [addr |-> a, len |-> SizeForClass(c), node |-> heap[t].node, class |-> c, at |-> <<"spare", i>>]
      BY <3>0 DEF OnList
    <3>2. Place(a, kind, who, cls) = heap[t].spare[c] /\ NodeForPtr(a) = heap[t].node
      BY <1>4, <3>1 DEF Place
    <3> QED BY <3>1, <3>2 DEF Walked, Seen
  <2>4. ASSUME NEW n \in Nodes, NEW c \in Classes, b \in Found(stack[n][c], "stack", n, c)
        PROVE  \E a \in Addr : Seen(a, t, kind, who) /\ Walked(b, a, kind, who, cls)
    <3>0. OnList(b, stack[n][c], "stack", n, n, c, kind, who, cls)
      <4>1. Lists(stack[n][c], Of("stack", n, c, kind, who, cls))
        BY <1>2
      <4> QED BY <2>4, <4>1, OnListIs
    <3>1. PICK a \in Addr, i \in DOMAIN stack[n][c] :
            /\ kind[a] = "stack" /\ who[a] = n /\ cls[a] = c /\ stack[n][c][i] = a
            /\ b = [addr |-> a, len |-> SizeForClass(c), node |-> n, class |-> c, at |-> <<"stack", i>>]
      BY <3>0 DEF OnList
    <3>2. Place(a, kind, who, cls) = stack[n][c] /\ NodeForPtr(a) = n
      BY <1>4, <3>1 DEF Place
    <3> QED BY <3>1, <3>2 DEF Walked, Seen
  <2> QED BY <2>1, <2>2, <2>3, <2>4
<1>6. ASSUME NEW a \in Addr, Seen(a, t, kind, who)
      PROVE  Finds(Visited(t), a, cls[a])
  <2>1. PICK c \in Classes : c = cls[a]
    BY <1>1 DEF ChunksOK
  <2>2. CASE kind[a] = "stack"
    <3>1. InRegion(a)
      BY <1>1, <2>2 DEF ChunksOK, Listed
    <3>2. PICK n \in Nodes : n = NodeForPtr(a)
      BY <3>1, NodeOf DEF Addr
    <3>3. who[a] = n
      BY <1>4, <2>2, <3>2
    <3>4. Finds(Found(stack[n][c], "stack", n, c), a, c)
      <4>1. Lists(stack[n][c], Of("stack", n, c, kind, who, cls))
        BY <1>2
      <4> QED BY <2>1, <2>2, <3>3, <4>1, OnListIs
    <3>5. Found(stack[n][c], "stack", n, c) \subseteq Visited(t)
      BY DEF Visited
    <3> QED BY <2>1, <3>4, <3>5 DEF Finds
  <2>3. CASE kind[a] = "list" /\ who[a] = t
    <3>1. Finds(Found(heap[t].list[c], "list", heap[t].node, c), a, c)
      <4>1. Lists(heap[t].list[c], Of("list", t, c, kind, who, cls))
        BY <1>3
      <4> QED BY <2>1, <2>3, <4>1, OnListIs
    <3>2. Found(heap[t].list[c], "list", heap[t].node, c) \subseteq Visited(t)
      BY DEF Visited
    <3> QED BY <2>1, <3>1, <3>2 DEF Finds
  <2>4. CASE kind[a] = "spare" /\ who[a] = t
    <3>1. Finds(Found(heap[t].spare[c], "spare", heap[t].node, c), a, c)
      <4>1. Lists(heap[t].spare[c], Of("spare", t, c, kind, who, cls))
        BY <1>3
      <4> QED BY <2>1, <2>4, <4>1, OnListIs
    <3>2. Found(heap[t].spare[c], "spare", heap[t].node, c) \subseteq Visited(t)
      BY DEF Visited
    <3> QED BY <2>1, <3>1, <3>2 DEF Finds
  <2> QED BY <1>6, <2>2, <2>3, <2>4 DEF Seen
<1> QED BY <1>5, <1>6


-----------------------------------------------------------------------------
(* Nothing is lost.                                                        *)

\* A chunk that the program has, or is about to get, at p.
LEMMA UsedChunk ==
  ASSUME NEW kind, NEW who, NEW cls, Placed(kind, who, cls),
         NEW a \in Addr, kind[a] # "none", NEW p, NEW size, NEW align,
         Lies(a, p, size, align, mem, maps, cls)
  PROVE  /\ InRegion(p) <=> InRegion(a)
         /\ InRegion(a) => p = a /\ cls[a] = ClassOf(size, align)
         /\ ~ InRegion(a) => /\ Read(mem, p - 2) = a /\ Read(mem, p - 1) = maps[a].len
                             /\ a \in Maps /\ maps[a].len # 0
<1>1. ChunksOK(bump, maps, kind, cls)
  BY DEF Placed, PlacesOK
<1>2. IsPayload(a, p, size, align, Ext(a, maps, cls))
  BY <1>1, LiesIs
<1>3. ~ InRegion(a) => a \in Maps /\ maps[a].len # 0
  BY <1>1 DEF ChunksOK, MapOK
<1> QED BY <1>2, <1>3 DEF IsPayload, Lies

\* The chunk of an object.
LEMMA ObjChunk ==
  ASSUME NEW kind, NEW who, NEW cls, Placed(kind, who, cls)
  PROVE  /\ \A p \in DOMAIN objs : \E a \in Addr :
              kind[a] = "obj" /\ who[a] = p /\ Lies(a, p, objs[p].size, objs[p].align, mem, maps, cls)
         /\ \A a \in Addr : kind[a] = "obj" =>
              who[a] \in DOMAIN objs /\ Lies(a, who[a], objs[who[a]].size, objs[who[a]].align, mem, maps, cls)
<1>1. ObjsOK(objs, mem, maps, kind, who, cls)
  BY DEF Placed, UsesOK
<1> QED BY <1>1 DEF ObjsOK

\* And of one that a realloc has allocated.
LEMMA NewChunk ==
  ASSUME NEW kind, NEW who, NEW cls, Placed(kind, who, cls)
  PROVE  /\ \A t \in Threads : job[t].pc = "move" => \E a \in Addr :
              kind[a] = "new" /\ who[a] = t /\ Lies(a, job[t].new, job[t].size, job[t].align, mem, maps, cls)
         /\ \A a \in Addr : kind[a] = "new" =>
              /\ who[a] \in Threads /\ job[who[a]].pc = "move"
              /\ Lies(a, job[who[a]].new, job[who[a]].size, job[who[a]].align, mem, maps, cls)
<1>1. NewsOK(job, mem, maps, kind, who, cls)
  BY DEF Placed, UsesOK
<1> QED BY <1>1 DEF NewsOK

CarvedBlocks(kind) == {a \in Addr : InRegion(a) /\ kind[a] # "none"}

\* The blocks somebody has are the blocks there are.
LEMMA BlocksHeldIs ==
  ASSUME NEW kind, NEW who, NEW cls, Placed(kind, who, cls), Threads # {}
  PROVE  BlocksHeld = {<<a, SizeForClass(cls[a])>> : a \in CarvedBlocks(kind)}
<1> DEFINE B == {<<a, SizeForClass(cls[a])>> : a \in CarvedBlocks(kind)}
           V == {<<b.addr, b.len>> : b \in UNION {Visited(t) : t \in Threads}}
           O == {<<p, SizeForClass(ClassOf(objs[p].size, objs[p].align))>> : p \in {q \in DOMAIN objs : InRegion(q)}}
           M == {<<job[t].new, SizeForClass(ClassOf(job[t].size, job[t].align))>> :
                   t \in {u \in Threads : job[u].pc = "move" /\ InRegion(job[u].new)}}
<1>1. BlocksHeld = (V \cup O) \cup M
  BY Zenon DEF BlocksHeld
<1>2. ChunksOK(bump, maps, kind, cls) /\ ListsOK(stack, heap, kind, who, cls)
  BY DEF Placed, PlacesOK
<1>3. V \subseteq B
  <2> SUFFICES ASSUME NEW t \in Threads, NEW b \in Visited(t) PROVE <<b.addr, b.len>> \in B
    OBVIOUS
  <2>1. PICK a \in Addr : Seen(a, t, kind, who) /\ Walked(b, a, kind, who, cls)
    BY VisitedAre
  <2>2. b.addr = a /\ b.len = SizeForClass(cls[a])
    BY <2>1 DEF Walked
  <2>3. Listed(kind[a])
    BY <2>1 DEF Seen, Listed
  <2>4. a \in CarvedBlocks(kind)
    BY <1>2, <2>3 DEF ChunksOK, CarvedBlocks, Listed
  <2> QED BY <2>2, <2>4
<1>4. O \subseteq B
  <2> SUFFICES ASSUME NEW p \in DOMAIN objs, InRegion(p)
               PROVE  <<p, SizeForClass(ClassOf(objs[p].size, objs[p].align))>> \in B
    OBVIOUS
  <2>1. PICK a \in Addr : kind[a] = "obj" /\ Lies(a, p, objs[p].size, objs[p].align, mem, maps, cls)
    BY ObjChunk
  <2>2. kind[a] # "none"
    BY <2>1
  <2>3. InRegion(a) /\ p = a /\ cls[a] = ClassOf(objs[p].size, objs[p].align)
    BY <2>1, <2>2, UsedChunk
  <2> QED BY <2>2, <2>3 DEF CarvedBlocks
<1>5. M \subseteq B
  <2> SUFFICES ASSUME NEW t \in Threads, job[t].pc = "move", InRegion(job[t].new)
               PROVE  <<job[t].new, SizeForClass(ClassOf(job[t].size, job[t].align))>> \in B
    OBVIOUS
  <2>1. PICK a \in Addr : kind[a] = "new" /\ Lies(a, job[t].new, job[t].size, job[t].align, mem, maps, cls)
    BY NewChunk
  <2>2. kind[a] # "none"
    BY <2>1
  <2>3. InRegion(a) /\ job[t].new = a /\ cls[a] = ClassOf(job[t].size, job[t].align)
    BY <2>1, <2>2, UsedChunk
  <2> QED BY <2>2, <2>3 DEF CarvedBlocks
<1>6. B \subseteq (V \cup O) \cup M
  <2> SUFFICES ASSUME NEW a \in Addr, InRegion(a), kind[a] # "none"
               PROVE  <<a, SizeForClass(cls[a])>> \in (V \cup O) \cup M
    BY DEF CarvedBlocks
  <2>1. kind[a] \in {"stack", "list", "spare", "obj", "new"}
    BY <1>2 DEF ChunksOK, Kinds
  <2>2. CASE kind[a] \in {"stack", "list", "spare"}
    <3>1. PICK t \in Threads : Seen(a, t, kind, who)
      BY <1>2, <2>2 DEF ListsOK, Seen
    <3>2. PICK b \in Visited(t) : b.addr = a /\ b.len = SizeForClass(cls[a])
      BY <3>1, VisitedAre DEF Finds
    <3> QED BY <3>2
  <2>3. CASE kind[a] = "obj"
    <3>1. who[a] \in DOMAIN objs /\ Lies(a, who[a], objs[who[a]].size, objs[who[a]].align, mem, maps, cls)
      BY <2>3, ObjChunk
    <3>2. who[a] = a /\ cls[a] = ClassOf(objs[who[a]].size, objs[who[a]].align)
      BY <3>1, UsedChunk
    <3> QED BY <3>1, <3>2
  <2>4. CASE kind[a] = "new"
    <3>1. /\ who[a] \in Threads /\ job[who[a]].pc = "move"
          /\ Lies(a, job[who[a]].new, job[who[a]].size, job[who[a]].align, mem, maps, cls)
      BY <2>4, NewChunk
    <3>2. job[who[a]].new = a /\ cls[a] = ClassOf(job[who[a]].size, job[who[a]].align)
      BY <3>1, UsedChunk
    <3> QED BY <3>1, <3>2
  <2> QED BY <2>1, <2>2, <2>3, <2>4
<1> QED BY <1>1, <1>3, <1>4, <1>5, <1>6


\* The mappings somebody has are the kernel's.
LEMMA MapsHeldIs ==
  ASSUME NEW kind, NEW who, NEW cls, Placed(kind, who, cls)
  PROVE  MapsHeld = {<<raw, maps[raw].len>> : raw \in {r \in Maps : maps[r].len # 0}}
<1> DEFINE K == {<<raw, maps[raw].len>> : raw \in {r \in Maps : maps[r].len # 0}}
           O == {<<Read(mem, p - 2), Read(mem, p - 1)>> : p \in {q \in DOMAIN objs : ~ InRegion(q)}}
           M == {<<Read(mem, p - 2), Read(mem, p - 1)>> :
                   p \in {job[t].new : t \in {u \in Threads : job[u].pc = "move" /\ ~ InRegion(job[u].new)}}}
           C == UNION {{<<e.map, e.size>> : e \in {heap[t].cache[i] : i \in DOMAIN heap[t].cache}} : t \in Threads}
<1>1. MapsHeld = (O \cup M) \cup C
  BY DEF MapsHeld
<1>2. ChunksOK(bump, maps, kind, cls) /\ CachesOK(heap, maps, kind, who)
  BY DEF Placed, PlacesOK
<1>3. O \subseteq K
  <2> SUFFICES ASSUME NEW p \in DOMAIN objs, ~ InRegion(p)
               PROVE  <<Read(mem, p - 2), Read(mem, p - 1)>> \in K
    OBVIOUS
  <2>1. PICK a \in Addr : kind[a] = "obj" /\ Lies(a, p, objs[p].size, objs[p].align, mem, maps, cls)
    BY ObjChunk
  <2>2. kind[a] # "none"
    BY <2>1
  <2>3. a \in Maps /\ maps[a].len # 0 /\ Read(mem, p - 2) = a /\ Read(mem, p - 1) = maps[a].len
    BY <2>1, <2>2, UsedChunk
  <2> QED BY <2>3
<1>4. M \subseteq K
  <2> SUFFICES ASSUME NEW t \in Threads, job[t].pc = "move", ~ InRegion(job[t].new)
               PROVE  <<Read(mem, job[t].new - 2), Read(mem, job[t].new - 1)>> \in K
    OBVIOUS
  <2>1. PICK a \in Addr : kind[a] = "new" /\ Lies(a, job[t].new, job[t].size, job[t].align, mem, maps, cls)
    BY NewChunk
  <2>2. kind[a] # "none"
    BY <2>1
  <2>3. /\ a \in Maps /\ maps[a].len # 0
        /\ Read(mem, job[t].new - 2) = a /\ Read(mem, job[t].new - 1) = maps[a].len
    BY <2>1, <2>2, UsedChunk
  <2> QED BY <2>3
<1>5. C \subseteq K
  <2> SUFFICES ASSUME NEW t \in Threads, NEW i \in DOMAIN heap[t].cache
               PROVE  <<heap[t].cache[i].map, heap[t].cache[i].size>> \in K
    OBVIOUS
  <2>1. CacheOK(t, heap[t], maps, kind, who)
    BY <1>2 DEF CachesOK
  <2>2. PICK a : a = heap[t].cache[i].map
    OBVIOUS
  <2>3. a \in MapsOf(heap[t].cache)
    BY <2>2 DEF MapsOf
  <2>4. a \in Addr /\ kind[a] = "cache" /\ heap[t].cache[i].size = maps[a].len
    BY <2>1, <2>2, <2>3 DEF CacheOK
  <2>5. a \in Maps /\ maps[a].len # 0
    BY <1>2, <2>4 DEF ChunksOK, MapOK
  <2> QED BY <2>2, <2>4, <2>5
<1>6. K \subseteq (O \cup M) \cup C
  <2> SUFFICES ASSUME NEW a \in Maps, maps[a].len # 0
               PROVE  <<a, maps[a].len>> \in (O \cup M) \cup C
    OBVIOUS
  <2>1. a \in Addr /\ ~ InRegion(a)
    BY AllocatorAssumption, ConstantsAre DEF Addr, InRegion
  <2>2. kind[a] # "none" /\ ~ Listed(kind[a]) /\ kind[a] \in Kinds
    BY <1>2, <2>1 DEF ChunksOK
  <2>3. CASE kind[a] = "obj"
    <3>1. who[a] \in DOMAIN objs /\ Lies(a, who[a], objs[who[a]].size, objs[who[a]].align, mem, maps, cls)
      BY <2>1, <2>3, ObjChunk
    <3>2. ~ InRegion(who[a]) /\ Read(mem, who[a] - 2) = a /\ Read(mem, who[a] - 1) = maps[a].len
      BY <2>1, <2>2, <3>1, UsedChunk
    <3> QED BY <3>1, <3>2
  <2>4. CASE kind[a] = "new"
    <3>1. /\ who[a] \in Threads /\ job[who[a]].pc = "move"
          /\ Lies(a, job[who[a]].new, job[who[a]].size, job[who[a]].align, mem, maps, cls)
      BY <2>1, <2>4, NewChunk
    <3>2. PICK p : p = job[who[a]].new
      OBVIOUS
    <3>3. ~ InRegion(p) /\ Read(mem, p - 2) = a /\ Read(mem, p - 1) = maps[a].len
      BY <2>1, <2>2, <3>1, <3>2, UsedChunk
    <3> QED BY <3>1, <3>2, <3>3
  <2>5. CASE kind[a] = "cache"
    <3>1. who[a] \in Threads
      BY <1>2, <2>1, <2>5 DEF CachesOK
    <3>2. CacheOK(who[a], heap[who[a]], maps, kind, who)
      BY <1>2, <3>1 DEF CachesOK
    <3>3. a \in MapsOf(heap[who[a]].cache)
      BY <2>1, <2>5, <3>2 DEF CacheOK
    <3>4. PICK i \in DOMAIN heap[who[a]].cache : heap[who[a]].cache[i].map = a
      BY <3>3 DEF MapsOf
    <3>5. heap[who[a]].cache[i].size = maps[a].len
      BY <3>2, <3>4 DEF CacheOK
    <3> QED BY <3>1, <3>4, <3>5
  <2> QED BY <2>2, <2>3, <2>4, <2>5 DEF Kinds, Listed
<1> QED BY <1>1, <1>3, <1>4, <1>5, <1>6

\* The same, for any division of memory.
Accounted ==
  \A kind, who, cls : Placed(kind, who, cls) =>
    /\ Threads # {} => BlocksHeld = {<<a, SizeForClass(cls[a])>> : a \in CarvedBlocks(kind)}
    /\ MapsHeld = {<<raw, maps[raw].len>> : raw \in {r \in Maps : maps[r].len # 0}}

LEMMA AllAccounted == Accounted
BY BlocksHeldIs, MapsHeldIs DEF Accounted

\* Nothing is lost: a block that a list, a stack or the program has had stays with one of
\* them, with its class, and the kernel's mappings are exactly those that an object's
\* header or a cache can give back, at their full length.
THEOREM Conservation == Spec => NothingLost
<1>1. Inv /\ [Next]_vars =>
        [/\ BlocksHeld \subseteq BlocksHeld'
         /\ MapsHeld' = {<<raw, maps'[raw].len>> : raw \in {r \in Maps : maps'[r].len # 0}}]_vars
  <2> SUFFICES ASSUME Inv, Next
               PROVE  /\ BlocksHeld \subseteq BlocksHeld'
                      /\ MapsHeld' = {<<raw, maps'[raw].len>> : raw \in {r \in Maps : maps'[r].len # 0}}
    OBVIOUS
  <2>1. PICK t \in Threads : \E kind, who, cls : Placed(kind, who, cls) /\ KeepsAll(t, kind, cls)
    BY StepKeeps
  <2>2. PICK kind, who, cls : Placed(kind, who, cls) /\ KeepsAll(t, kind, cls)
    BY <2>1
  <2>3. PICK kind2, who2, cls2 :
          /\ PlacesOK(bump', stack', heap', maps', kind2, who2, cls2)
          /\ UsesOK(heap', maps', mem', objs', job', kind2, who2, cls2)
          /\ Grows(kind, cls, kind2, cls2)
    BY <2>2 DEF KeepsAll, Keeps
  <2>4. Placed(kind2, who2, cls2)'
    BY <2>3 DEF Placed
  <2>5. Accounted /\ Accounted'
    BY AllAccounted, PTL
  <2>6. BlocksHeld = {<<a, SizeForClass(cls[a])>> : a \in CarvedBlocks(kind)}
    BY <2>2, <2>5 DEF Accounted
  <2>7. /\ BlocksHeld' = {<<a, SizeForClass(cls2[a])>> : a \in CarvedBlocks(kind2)}
        /\ MapsHeld' = {<<raw, maps'[raw].len>> : raw \in {r \in Maps : maps'[r].len # 0}}
    BY <2>4, <2>5 DEF Accounted
  <2>8. \A a \in CarvedBlocks(kind) : a \in CarvedBlocks(kind2) /\ cls2[a] = cls[a]
    BY <2>3 DEF Grows, CarvedBlocks
  <2> QED BY <2>6, <2>7, <2>8
<1> QED BY <1>1, Safety, PTL DEF Spec, NothingLost


-----------------------------------------------------------------------------
(* validate_internal_state.                                                *)

\* Stretches of multiples that are apart are made of different multiples.
LEMMA MultiplesFit ==
  ASSUME NEW s \in Nat \ {0}, NEW base \in Int, base % s = 0, NEW x \in Int, x % s = 0,
         NEW y \in Int, y % s = 0, NEW w \in Int, w % s = 0, x + w <= y,
         NEW f, f = (x - base) \div s, NEW g, g = (y - base) \div s, NEW k, k = w \div s
  PROVE  f \in Int /\ g \in Int /\ k \in Int /\ f + k <= g
<1>a. PICK kx \in Int : x = kx * s
  BY Multiple
<1>b. PICK ky \in Int : y = ky * s
  BY Multiple
<1>c. PICK kw \in Int : w = kw * s
  BY Multiple
<1>d. PICK kb \in Int : base = kb * s
  BY Multiple
<1>1. x = kx * s /\ y = ky * s /\ w = kw * s /\ base = kb * s
  BY <1>a, <1>b, <1>c, <1>d
<1>2. \A i, j \in Int : i * s - j * s = (i - j) * s /\ i * s + j * s = (i + j) * s
  OBVIOUS
<1>3. x - base = (kx - kb) * s + 0 /\ y - base = (ky - kb) * s + 0 /\ w = kw * s + 0
  BY <1>1, <1>2
<1>4. f = kx - kb /\ g = ky - kb /\ k = kw
  BY <1>1, <1>3, Remainder
<1>5. kx + kw <= ky
  <2> SUFFICES ASSUME ky < kx + kw PROVE FALSE
    BY <1>1
  <2>1. PICK d : d = (kx + kw) - ky
    OBVIOUS
  <2>2. d \in Nat \ {0} /\ kx + kw = ky + d
    BY <1>1, <2>1
  <2>3. (kx + kw) * s = ky * s + d * s /\ (kx + kw) * s = kx * s + kw * s
    BY <1>1, <2>2, <1>2
  <2>4. d * s \in Nat /\ d * s > 0
    BY <2>2
  <2> QED BY <1>1, <2>3, <2>4
<1> QED BY <1>1, <1>4, <1>5

\* The places on a list are different.
LEMMA PlaceIs ==
  ASSUME NEW kind, NEW who, NEW cls, Placed(kind, who, cls), NEW a \in Addr, Listed(kind[a])
  PROVE  \A i, j \in DOMAIN Place(a, kind, who, cls) :
           Place(a, kind, who, cls)[i] = Place(a, kind, who, cls)[j] => i = j
<1>1. ListsOK(stack, heap, kind, who, cls) /\ ChunksOK(bump, maps, kind, cls)
  BY DEF Placed, PlacesOK
<1>2. PICK c \in Classes : c = cls[a]
  BY <1>1 DEF ChunksOK
<1>3. CASE kind[a] = "stack"
  <2>1. InRegion(a)
    BY <1>1, <1>3 DEF ChunksOK, Listed
  <2>2. PICK n \in Nodes : n = NodeForPtr(a)
    BY <2>1, NodeOf DEF Addr
  <2>3. who[a] = n
    BY <1>1, <1>3, <2>2 DEF ListsOK
  <2>4. Lists(stack[n][c], Of("stack", n, c, kind, who, cls))
    BY <1>1 DEF ListsOK
  <2>5. Place(a, kind, who, cls) = stack[n][c]
    BY <1>2, <1>3, <2>3 DEF Place
  <2> QED BY <2>4, <2>5 DEF Lists
<1>4. CASE kind[a] \in {"list", "spare"}
  <2>1. who[a] \in Threads
    BY <1>1, <1>4 DEF ListsOK
  <2>2. PICK t \in Threads : t = who[a]
    BY <2>1
  <2>3. /\ Lists(heap[t].list[c], Of("list", t, c, kind, who, cls))
        /\ Lists(heap[t].spare[c], Of("spare", t, c, kind, who, cls))
    BY <1>1 DEF ListsOK
  <2>4. Place(a, kind, who, cls) \in {heap[t].list[c], heap[t].spare[c]}
    BY <1>2, <1>4, <2>2 DEF Place
  <2> QED BY <2>3, <2>4 DEF Lists
<1> QED BY <1>3, <1>4 DEF Listed

\* The granules of the block at a.
GranulesAt(a, cls) ==
  LET first == (Bag(a, cls) - NodeBase(NodeForPtr(a))) \div BagSize
  IN {<<NodeForPtr(a), g>> : g \in first .. first + BagSizeForClass(cls[a]) \div BagSize - 1}

\* Bags are made of whole granules, so bags that are apart share none.
LEMMA GranulesApart ==
  ASSUME NEW kind, NEW cls, ChunksOK(bump, maps, kind, cls),
         NEW a \in Addr, kind[a] # "none", InRegion(a), NEW b \in Addr, kind[b] # "none", InRegion(b),
         Bag(a, cls) + BagSizeForClass(cls[a]) <= Bag(b, cls)
  PROVE  GranulesAt(a, cls) \cap GranulesAt(b, cls) = {}
<1>1. SUFFICES ASSUME NodeForPtr(a) = NodeForPtr(b) PROVE GranulesAt(a, cls) \cap GranulesAt(b, cls) = {}
  BY DEF GranulesAt
<1>2. PICK n : n = NodeForPtr(a)
  OBVIOUS
<1>3. n \in Nodes
  BY <1>2, NodeOf DEF Addr
<1>4. PICK x, y, w, v, base : /\ x = Bag(a, cls) /\ y = Bag(b, cls) /\ w = BagSizeForClass(cls[a])
                            /\ v = BagSizeForClass(cls[b]) /\ base = NodeBase(n)
  OBVIOUS
<1>5. x \in Nat /\ y \in Nat /\ w \in Nat \ {0} /\ v \in Nat \ {0} /\ x % w = 0 /\ y % v = 0 /\ x + w <= y
  BY <1>4, BlockIs
<1>6. cls[a] \in Classes /\ cls[b] \in Classes /\ BagSize \in Nat \ {0}
  BY BlockIs, ConstantsAre
<1>7. w % BagSize = 0 /\ v % BagSize = 0
  BY <1>4, <1>6, BagIs
<1>8. x % BagSize = 0 /\ y % BagSize = 0
  <2>1. x \in Int /\ y \in Int
    BY <1>5
  <2>2. x % BagSize = 0
    BY <2>1, <1>5, <1>6, <1>7, MultipleOfMultiple
  <2>3. y % BagSize = 0
    BY <2>1, <1>5, <1>6, <1>7, MultipleOfMultiple
  <2> QED BY <2>2, <2>3
<1>9. base \in Int /\ base % BagSize = 0
  <2>1. RegionBase % w = 0 /\ RegionSize % w = 0
    BY <1>4, <1>6, BagIs
  <2>2. RegionBase \in Int /\ RegionSize \in Int
    BY ConstantsAre
  <2>3. RegionBase % BagSize = 0 /\ RegionSize % BagSize = 0
    BY <1>5, <1>6, <1>7, <2>1, <2>2, MultipleOfMultiple
  <2>4. PICK k \in Int : RegionSize = k * BagSize
    BY <1>6, <2>2, <2>3, Multiple
  <2>5. n \in Int /\ n * RegionSize = (n * k) * BagSize /\ n * k \in Int
    <3>1. n \in Int /\ BagSize \in Int
      BY <1>3, <1>6 DEF Nodes
    <3>2. (n * k) * BagSize = n * (k * BagSize)
      BY <3>1, <2>4, Products
    <3>3. n * k \in Int
      BY <3>1
    <3> QED BY <3>1, <3>2, <3>3, <2>4
  <2>6. n * RegionSize \in Int /\ (n * RegionSize) % BagSize = 0
    BY <1>6, <2>5, NoRemainder
  <2>7. PICK z : z = n * RegionSize
    OBVIOUS
  <2>8. (RegionBase + z) % BagSize = 0
    BY <1>6, <2>2, <2>3, <2>6, <2>7, SumOfMultiples
  <2>9. base = RegionBase + z /\ z \in Int
    BY <1>4, <2>6, <2>7 DEF NodeBase
  <2> QED BY <2>2, <2>8, <2>9
<1>10. PICK f, g, k, l : /\ f = (x - base) \div BagSize /\ g = (y - base) \div BagSize
                         /\ k = w \div BagSize /\ l = v \div BagSize
  OBVIOUS
<1>11. f \in Int /\ g \in Int /\ k \in Int /\ f + k <= g
  BY <1>5, <1>6, <1>7, <1>8, <1>9, <1>10, MultiplesFit
<1>12. GranulesAt(a, cls) = {<<n, i>> : i \in f .. f + k - 1}
  BY <1>2, <1>4, <1>10, Zenon DEF GranulesAt
<1>13. GranulesAt(b, cls) = {<<n, i>> : i \in g .. g + l - 1}
  BY <1>1, <1>2, <1>4, <1>10, Zenon DEF GranulesAt
<1>14. l \in Int
  BY <1>5, <1>6, <1>10
<1> QED BY <1>11, <1>12, <1>13, <1>14


\* What the walk finds are blocks that mark_block accepts.
LEMMA WalkedValid ==
  ASSUME NEW kind, NEW who, NEW cls, Placed(kind, who, cls), NEW t \in Threads,
         NEW a \in Addr, Seen(a, t, kind, who), NEW b, Walked(b, a, kind, who, cls)
  PROVE  /\ Listed(kind[a]) /\ InRegion(a) /\ kind[a] # "none"
         /\ b.addr = a /\ b.len = Ext(a, maps, cls) /\ b.class = cls[a]
         /\ BlockValid(b) /\ Granules(b) = GranulesAt(a, cls)
<1>1. ChunksOK(bump, maps, kind, cls)
  BY DEF Placed, PlacesOK
<1>2. Listed(kind[a])
  BY DEF Seen, Listed
<1>3. InRegion(a) /\ kind[a] # "none"
  BY <1>1, <1>2 DEF ChunksOK, Listed
<1>4. b.addr = a /\ b.len = SizeForClass(cls[a]) /\ b.class = cls[a] /\ b.node = NodeForPtr(a)
  BY DEF Walked
<1>5. b.len = Ext(a, maps, cls)
  BY <1>3, <1>4 DEF Ext
<1>6. PICK n : n = NodeForPtr(a)
  OBVIOUS
<1>7. n \in Nodes /\ a + b.len <= NodeBase(n) + bump[n] /\ b.len \in Nat /\ a \in Nat
  <2>1. IsChunk(a, bump, maps, cls)
    BY <1>1, <1>3, ChunkIs
  <2> QED BY <1>3, <1>5, <1>6, <2>1 DEF IsChunk
<1>8. NodeBase(n) \in Nat /\ bump[n] \in Nat
  BY <1>1, <1>7, NodeBaseIs DEF ChunksOK
<1>9. a - NodeBase(n) + b.len <= bump[n]
  BY <1>7, <1>8
<1>10. a % SizeForClass(cls[a]) = 0
  BY <1>1, <1>3, BlockIs DEF BlockOK
<1>11. BlockValid(b)
  BY <1>3, <1>4, <1>6, <1>9, <1>10 DEF BlockValid
<1>12. Granules(b) = GranulesAt(a, cls)
  BY <1>4, Zenon DEF Granules, GranulesAt, Bag
<1> QED BY <1>2, <1>3, <1>4, <1>5, <1>11, <1>12

\* No two of them claim the same words, or the same granule for two classes.
LEMMA WalkedAgree ==
  ASSUME NEW kind, NEW who, NEW cls, Placed(kind, who, cls), NEW t \in Threads,
         NEW b \in Visited(t), NEW d \in Visited(t), b # d
  PROVE  MarksAgree(b, d)
<1>1. ChunksOK(bump, maps, kind, cls)
  BY DEF Placed, PlacesOK
<1>2. PICK x \in Addr : Seen(x, t, kind, who) /\ Walked(b, x, kind, who, cls)
  BY VisitedAre
<1>3. PICK y \in Addr : Seen(y, t, kind, who) /\ Walked(d, y, kind, who, cls)
  BY VisitedAre
<1>4. /\ Listed(kind[x]) /\ InRegion(x) /\ kind[x] # "none"
      /\ b.addr = x /\ b.len = Ext(x, maps, cls) /\ b.class = cls[x] /\ Granules(b) = GranulesAt(x, cls)
  BY <1>2, WalkedValid
<1>5. /\ InRegion(y) /\ kind[y] # "none"
      /\ d.addr = y /\ d.len = Ext(y, maps, cls) /\ d.class = cls[y] /\ Granules(d) = GranulesAt(y, cls)
  BY <1>3, WalkedValid
<1>6. x # y
  <2> SUFFICES ASSUME x = y PROVE FALSE
    OBVIOUS
  <2>1. PICK P : P = Place(x, kind, who, cls)
    OBVIOUS
  <2>2. PICK i \in DOMAIN P :
          /\ P[i] = x
          /\ b = [addr |-> x, len |-> SizeForClass(cls[x]), node |-> NodeForPtr(x), class |-> cls[x],
                  at |-> <<kind[x], i>>]
    BY <1>2, <2>1 DEF Walked
  <2>3. PICK j \in DOMAIN P :
          /\ P[j] = x
          /\ d = [addr |-> x, len |-> SizeForClass(cls[x]), node |-> NodeForPtr(x), class |-> cls[x],
                  at |-> <<kind[x], j>>]
    BY <1>3, <2>1 DEF Walked
  <2>4. i = j
    BY <1>4, <2>1, <2>2, <2>3, PlaceIs
  <2> QED BY <2>2, <2>3, <2>4
<1>7. Apart(b, d)
  <2>1. x + Ext(x, maps, cls) <= y \/ y + Ext(y, maps, cls) <= x
    BY <1>1, <1>4, <1>5, <1>6, ChunksApart
  <2> QED BY <1>4, <1>5, <2>1 DEF Apart
<1>8. ASSUME cls[x] # cls[y] PROVE GranulesAt(x, cls) \cap GranulesAt(y, cls) = {}
  <2>1. SameBag(x, y, cls) \/ BagsApart(x, y, cls)
    BY <1>1, <1>4, <1>5, <1>6 DEF ChunksOK
  <2>2. \/ Bag(x, cls) + BagSizeForClass(cls[x]) <= Bag(y, cls)
        \/ Bag(y, cls) + BagSizeForClass(cls[y]) <= Bag(x, cls)
    BY <1>8, <2>1 DEF SameBag, BagsApart
  <2>3. CASE Bag(x, cls) + BagSizeForClass(cls[x]) <= Bag(y, cls)
    BY <1>1, <1>4, <1>5, <2>3, GranulesApart
  <2>4. CASE Bag(y, cls) + BagSizeForClass(cls[y]) <= Bag(x, cls)
    <3>1. GranulesAt(y, cls) \cap GranulesAt(x, cls) = {}
      BY <1>1, <1>4, <1>5, <2>4, GranulesApart
    <3> QED BY <3>1
  <2> QED BY <2>2, <2>3, <2>4
<1> QED BY <1>4, <1>5, <1>7, <1>8 DEF MarksAgree

\* LargeCache::validate finds nothing wrong.
LEMMA CachesValid ==
  ASSUME NEW kind, NEW who, NEW cls, Placed(kind, who, cls), NEW t \in Threads
  PROVE  CacheValid(heap[t])
<1>1. ChunksOK(bump, maps, kind, cls) /\ CacheOK(t, heap[t], maps, kind, who)
  BY DEF Placed, PlacesOK, CachesOK
<1>2. PICK es : es = heap[t].cache
  OBVIOUS
<1>3. /\ es \in Seq(Entries) /\ Distinct(es) /\ heap[t].bytes = Pages(es, Len(es))
      /\ heap[t].bytes <= MaxCacheBytes /\ Len(es) <= CacheSlots
      /\ \A i \in DOMAIN es : es[i].size = maps[es[i].map].len
      /\ MapsOf(es) = {a \in Addr : kind[a] = "cache" /\ who[a] = t}
  BY <1>1, <1>2 DEF CacheOK
<1>4. ASSUME NEW i \in DOMAIN es
      PROVE  /\ es[i].map \in Addr /\ kind[es[i].map] # "none" /\ ~ InRegion(es[i].map)
             /\ MapOK(es[i].map, maps)
  <2>1. es[i].map \in MapsOf(es)
    BY DEF MapsOf
  <2>2. es[i].map \in Addr /\ kind[es[i].map] = "cache"
    BY <1>3, <2>1
  <2> QED BY <1>1, <2>2 DEF ChunksOK
<1>5. ASSUME NEW i \in DOMAIN es
      PROVE  /\ es[i].map % PageSize = 0 /\ es[i].size % PageSize = 0 /\ es[i].size > 0
             /\ ~ InRegion(es[i].map)
  <2>1. MapOK(es[i].map, maps) /\ ~ InRegion(es[i].map)
    BY <1>4
  <2>2. es[i].map \in Maps /\ es[i].size \in Nat \ {0} /\ es[i].size % PageSize = 0
    BY <1>3, <2>1 DEF MapOK
  <2>3. es[i].map % PageSize = 0
    BY <2>2, AllocatorAssumption
  <2>4. es[i].size > 0
    BY <2>2
  <2> QED BY <2>1, <2>2, <2>3, <2>4
<1>6. ASSUME NEW i \in DOMAIN es, NEW k \in 1 .. i - 1
      PROVE  Apart(Stretch(es[i].map, es[i].size), Stretch(es[k].map, es[k].size))
  <2>1. k \in DOMAIN es /\ k # i
    BY <1>3
  <2>2. es[i].map # es[k].map
    BY <1>3, <2>1 DEF Distinct
  <2>3. MapsApart(es[i].map, es[k].map, maps)
    BY <1>1, <1>4, <2>1, <2>2 DEF ChunksOK
  <2> QED BY <1>3, <2>1, <2>3 DEF MapsApart, Apart, Stretch
<1> QED BY <1>2, <1>3, <1>5, <1>6, Zenon DEF CacheValid

\* validate_internal_state never fails, for any number of threads and nodes: every free
\* block it can reach is carved, aligned, its node's, and claimed once, every bag granule
\* has one class, and every large cache counts its pages and holds mappings of its own.
THEOREM ValidatorSound == Spec => []ValidatorAccepts
<1>1. Inv => ValidatorAccepts
  <2> SUFFICES ASSUME Inv, NEW t \in Threads PROVE ValidateInternalState(t)
    BY DEF ValidatorAccepts
  <2>1. PICK kind, who, cls : Placed(kind, who, cls)
    BY DEF Inv
  <2>2. \A n \in Nodes : bump[n] <= RegionSize
    <3>1. bump \in [Nodes -> 0 .. RegionSize] /\ RegionSize \in Nat
      BY <2>1, ConstantsAre DEF Placed, PlacesOK, ChunksOK
    <3> QED BY <3>1
  <2>3. ASSUME NEW b \in Visited(t) PROVE BlockValid(b)
    <3>1. PICK a \in Addr : Seen(a, t, kind, who) /\ Walked(b, a, kind, who, cls)
      BY <2>1, VisitedAre
    <3> QED BY <2>1, <3>1, WalkedValid
  <2>4. \A b \in Visited(t) : \A d \in Visited(t) \ {b} : MarksAgree(b, d)
    BY <2>1, WalkedAgree
  <2>5. CacheValid(heap[t])
    BY <2>1, CachesValid
  <2> QED BY <2>2, <2>3, <2>4, <2>5, Zenon DEF ValidateInternalState
<1> QED BY <1>1, Safety, PTL
=============================================================================
