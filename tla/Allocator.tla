------------------------------ MODULE Allocator ------------------------------
(***************************************************************************)
(* The allocator as a whole, on one memory: several threads call alloc,    *)
(* alloc_zeroed, realloc and dealloc of one instance, with every size      *)
(* class, every node's region and stacks, and the large-object path, which *)
(* also serves small requests once a region is exhausted or a thread's TLS *)
(* slot is destroyed.                                                      *)
(*                                                                         *)
(* Addresses and sizes are words.  Memory holds the program's words and    *)
(* the allocator's headers alike; a word that nobody may rely on is Junk,  *)
(* and not listed.  The lists are sequences, and an operation on a stack,  *)
(* a bump pointer or a mapping is one step: Freelist and Region take those *)
(* apart.                                                                  *)
(***************************************************************************)
EXTENDS Layouts, LargeCache

CONSTANTS
  Threads,
  NumNodes,
  RegionBase,    \* where node 0's region starts
  RegionSize,    \* words of each node's region
  Top,           \* memory ends here
  RefillBatch,   \* REFILL_BATCH
  CacheFloor,    \* max_thread_cache is clamped to CacheFloor .. CacheCeil
  CacheCeil,
  Requests,      \* the program's allocations: <<"alloc" or "zeroed", size, align>>
  Sizes,         \* sizes it reallocates to
  MaxCalls,      \* bound: calls of alloc, alloc_zeroed and realloc
  MaxExits       \* bound: threads that exit

RegionEnd == RegionBase + NumNodes * RegionSize

\* The region and the mappings are aligned the way mmap was asked for them, the
\* region first; a LargeHeader is original_ptr and alloc_size; layouts are valid.
ASSUME AllocatorAssumption ==
  /\ NumNodes \in Nat \ {0} /\ RegionBase \in Nat \ {0} /\ RegionSize \in Nat \ {0}
  /\ RegionBase % SmallLimit = 0 /\ RegionSize % SmallLimit = 0
  /\ Top \in Nat /\ RegionEnd <= Top
  /\ Maps \subseteq RegionEnd .. Top - 1 /\ \A raw \in Maps : raw % PageSize = 0
  /\ HeaderSize = 2 /\ BagSize <= SmallLimit
  /\ RefillBatch \in Nat \ {0} /\ CacheFloor \in Nat /\ CacheCeil \in Nat
  /\ Requests \subseteq {"alloc", "zeroed"} \X (Nat \ {0}) \X Powers
  /\ Sizes \subseteq Nat \ {0}
  /\ MaxCalls \in Nat /\ MaxExits \in Nat

VARIABLES
  bump,      \* words carved from each node's region
  stack,     \* the stack of each node and class
  nextNode,  \* the round-robin counter
  heap,      \* each thread's TLS slot: its PerThreadHeap, if there is one
  maps,      \* the kernel's mappings: length and the node they are bound to
  mem,       \* the words of memory that are known, by address
  objs,      \* what the program holds, by address
  job,       \* the call each thread is in
  calls,     \* how many calls there have been
  exits      \* and how many exits

vars == <<bump, stack, nextNode, heap, maps, mem, objs, job, calls, exits>>

Nodes == 0 .. NumNodes - 1
Classes == 0 .. NumClasses - 1
Addr == RegionBase .. Top - 1
Junk == -1

NoHeap(state) ==
  [state |-> state, node |-> 0, cache |-> <<>>, bytes |-> 0,
   list |-> [c \in Classes |-> <<>>], spare |-> [c \in Classes |-> <<>>]]

Idle == [pc |-> "idle", op |-> "none", size |-> 0, align |-> 1, old |-> 0, new |-> 0]

Init ==
  /\ bump = [n \in Nodes |-> 0]
  /\ stack = [n \in Nodes |-> [c \in Classes |-> <<>>]]
  /\ nextNode = 0
  /\ heap = [t \in Threads |-> NoHeap("none")]
  /\ maps = [raw \in Maps |-> [len |-> 0, node |-> 0]]
  /\ mem = << >>
  /\ objs = << >>
  /\ job = [t \in Threads |-> Idle]
  /\ calls = 0 /\ exits = 0

Read(m, p) == IF p \in DOMAIN m THEN m[p] ELSE Junk

\* The n words from p on are anybody's guess.
Forget(m, p, n) == [a \in DOMAIN m \ (p .. p + n - 1) |-> m[a]]

\* The words w, a function of 0 .. n - 1, come to stand at p.
Written(m, p, w) ==
  [a \in DOMAIN m \cup {p + i : i \in DOMAIN w} |-> IF a - p \in DOMAIN w THEN w[a - p] ELSE m[a]]

Zeros(n) == [i \in 0 .. n - 1 |-> 0]

NodeBase(n) == RegionBase + n * RegionSize

InRegion(p) == p >= RegionBase /\ p < RegionEnd

\* node_for_ptr, of an address in the region.
NodeForPtr(p) == (p - RegionBase) \div RegionSize

IsSmall(size, align) == Effective(size, align) <= SmallLimit

ClassOf(size, align) == SizeClassIndex(Effective(size, align))

\* build_max_cache_table: two bags' worth, clamped.
MaxThreadCache(c) ==
  LET raw == 2 * (BagSizeForClass(c) \div SizeForClass(c))
  IN IF raw < CacheFloor THEN CacheFloor ELSE IF raw > CacheCeil THEN CacheCeil ELSE raw

-----------------------------------------------------------------------------
(* thread_heap: a thread without a PerThreadHeap gets one on the next node. *)

Attached(t) ==
  IF heap[t].state = "none"
    THEN [heap[t] EXCEPT !.state = "bound", !.node = nextNode]
    ELSE heap[t]

\* Faulty variant of CountNode: the counter is not reduced to a node.
CountNodeRaw(t) ==
  nextNode' = IF heap[t].state = "none" THEN nextNode + 1 ELSE nextNode

CountNode(t) ==
  nextNode' = IF heap[t].state = "none" THEN (nextNode + 1) % NumNodes ELSE nextNode

-----------------------------------------------------------------------------
(* alloc.  A call is a record: who asked (op), for what layout, and for    *)
(* realloc the old object.  `h' is the caller's PerThreadHeap at the time. *)

Call(op, size, align, old) ==
  [pc |-> "idle", op |-> op, size |-> size, align |-> align, old |-> old, new |-> 0]

\* Objects some realloc is working on, which the program leaves alone.
Busy == {job[t].old : t \in Threads}

\* The words the program writes into a new object of n words.
Pattern(n) == [i \in 0 .. n - 1 |-> i + 1]

\* The objects of ob, and one of j's layout at p.
With(ob, p, j) ==
  [q \in DOMAIN ob \cup {p} |-> IF q = p THEN [size |-> j.size, align |-> j.align] ELSE ob[q]]

\* alloc has found the block or payload at p, with m memory as it is then.  For
\* realloc the call goes on.  alloc_zeroed clears the object, unless it is large
\* and its mapping fresh; one from alloc the program fills at once.
Deliver(t, j, p, m, fresh) ==
  IF j.op = "realloc"
    THEN /\ job' = [job EXCEPT ![t] = [j EXCEPT !.pc = "move", !.new = p]]
         /\ mem' = m
         /\ UNCHANGED objs
    ELSE /\ job' = [job EXCEPT ![t] = Idle]
         /\ mem' = IF j.op = "alloc" THEN Written(m, p, Pattern(j.size))
                   ELSE IF fresh /\ ~ IsSmall(j.size, j.align) THEN m
                   ELSE Written(m, p, Zeros(j.size))
         /\ objs' = With(objs, p, j)

Stretch(p, n) == [addr |-> p, len |-> n]

\* Where the kernel would place a mapping: the lowest address with room for it.
LowestFree(len) ==
  LET mapped == {Stretch(m, maps[m].len) : m \in {raw \in Maps : maps[raw].len # 0}}
      free == {raw \in Maps : /\ raw + len <= Top
                              /\ \A m \in mapped : Apart(Stretch(raw, len), m)}
  IN {raw \in free : \A other \in free : raw <= other}

\* prepare_large_payload writes the LargeHeader in front of the payload.
WithHeader(m, p, raw, size) == Written(m, p - 2, [i \in 0 .. 1 |-> IF i = 0 THEN raw ELSE size])

\* alloc_large_tracked: a mapping from the cache, with its whole extent; or a new
\* one, bound to the thread's node (node 0 without a PerThreadHeap); or null, when
\* the size overflows or mmap fails.
AllocLarge(t, h, j) ==
  LET need == LargeAllocSize(j.size, j.align)
      i == IF need = 0 THEN 0 ELSE TakeIndex(h.cache, need)
  IN \/ /\ i # 0
        /\ LET e == h.cache[i]
               p == PayloadAddr(e.map, j.align)
           IN /\ heap' = [heap EXCEPT ![t] = [h EXCEPT !.cache = SwapRemove(@, i),
                                                       !.bytes = @ - e.size]]
              /\ Deliver(t, j, p, WithHeader(mem, p, e.map, e.size), FALSE)
        /\ UNCHANGED maps
     \/ /\ need # 0 /\ i = 0
        /\ \E raw \in LowestFree(need) :
             LET p == PayloadAddr(raw, j.align)
             IN /\ maps' = [maps EXCEPT ![raw] = [len |-> need, node |-> h.node]]
                /\ Deliver(t, j, p, WithHeader(Written(mem, p, Zeros(j.size)), p, raw, need), TRUE)
        /\ heap' = [heap EXCEPT ![t] = h]
     \/ /\ i = 0
        /\ heap' = [heap EXCEPT ![t] = h]
        /\ job' = [job EXCEPT ![t] = Idle]
        /\ UNCHANGED <<maps, mem, objs>>

\* Steps 1 and 2: the thread's list; or else its spare chain or the whole stack of
\* its node, of which a batch goes to the list and the rest is parked; or else
\* the call goes on to carve a bag, whatever is pushed in the meantime.
AllocSmall(t, h, j) ==
  LET c == ClassOf(j.size, j.align)
      own == IF h.list[c] # <<>> THEN h.list[c] ELSE h.spare[c]
      chain == IF own # <<>> THEN own ELSE stack[h.node][c]
      batch == IF h.list[c] # <<>> \/ Len(chain) < RefillBatch THEN Len(chain) ELSE RefillBatch
      rest == SubSeq(chain, batch + 1, Len(chain))
  IN /\ stack' = IF own # <<>> THEN stack ELSE [stack EXCEPT ![h.node][c] = <<>>]
     /\ IF chain # <<>>
          THEN /\ heap' = [heap EXCEPT ![t] =
                    [h EXCEPT !.list[c] = SubSeq(chain, 2, batch),
                              !.spare[c] = IF h.list[c] # <<>> THEN @ ELSE rest]]
               /\ Deliver(t, j, Head(chain), mem, FALSE)
          ELSE /\ heap' = [heap EXCEPT ![t] = h]
               /\ job' = [job EXCEPT ![t] = [j EXCEPT !.pc = "carve"]]
               /\ UNCHANGED <<mem, objs>>
     /\ UNCHANGED maps

\* Faulty variant of BagBlocks: one block too far.
BagBlocksShifted(first, c) ==
  LET count == BagSizeForClass(c) \div SizeForClass(c)
  IN [i \in 1 .. count |-> first + (count - i + 1) * SizeForClass(c)]

\* The blocks of a bag, in the order pushing them by address leaves them in.
BagBlocks(first, c) ==
  LET count == BagSizeForClass(c) \div SizeForClass(c)
  IN [i \in 1 .. count |-> first + (count - i) * SizeForClass(c)]

\* Step 3: a bag aligned to its size, or without room for it a mapping
\* instead.
Carve(t) ==
  LET j == job[t]
      c == ClassOf(j.size, j.align)
      n == heap[t].node
      bag == BagSizeForClass(c)
      first == AlignUp(NodeBase(n) + bump[n], bag)
      blocks == BagBlocks(first, c)
  IN /\ j.pc = "carve"
     /\ IF first - NodeBase(n) + bag <= RegionSize
          THEN /\ bump' = [bump EXCEPT ![n] = first - NodeBase(n) + bag]
               /\ heap' = [heap EXCEPT ![t].list[c] = Tail(blocks)]
               /\ Deliver(t, j, Head(blocks), mem, FALSE)
               /\ UNCHANGED maps
          ELSE AllocLarge(t, heap[t], j) /\ UNCHANGED bump
     /\ UNCHANGED <<stack, nextNode, calls, exits>>

\* alloc up to its first miss.  A layout that is large, or a thread whose slot is
\* destroyed, takes the large path; a size that overflows asks for no heap.
AllocStart(t, j) ==
  /\ IF IsSmall(j.size, j.align) /\ heap[t].state # "gone"
       THEN AllocSmall(t, Attached(t), j) /\ CountNode(t)
       ELSE /\ IF LargeAllocSize(j.size, j.align) # 0
                 THEN AllocLarge(t, Attached(t), j) /\ CountNode(t)
                 ELSE AllocLarge(t, heap[t], j) /\ UNCHANGED nextNode
            /\ UNCHANGED stack
  /\ calls < MaxCalls /\ calls' = calls + 1
  /\ UNCHANGED <<bump, exits>>

\* The calls alloc and alloc_zeroed.
Alloc(t, op, size, align) ==
  /\ job[t] = Idle
  /\ ValidLayout(size, align)
  /\ AllocStart(t, Call(op, size, align, 0))

-----------------------------------------------------------------------------
(* dealloc: the effects of giving p back by thread t, on memory m.         *)

\* munmap of entries: as much as the kernel is told to.
Unmap(entries) ==
  [raw \in Maps |->
     IF raw \notin MapsOf(entries) THEN maps[raw]
     ELSE [maps[raw] EXCEPT !.len =
             @ - entries[CHOOSE i \in DOMAIN entries : entries[i].map = raw].size]]

\* Faulty variant of IsLocal: every block is.
IsLocalAny(h, n) == h.state = "bound"

\* The thread has a list for blocks of node n.
IsLocal(h, n) == h.state = "bound" /\ h.node = n

\* A block of the thread's node goes to its list, whose cold end is drained above
\* the limit; any other block goes to the stack of its own node.
ReleaseSmall(t, p, c, m) ==
  LET h == Attached(t)
      n == NodeForPtr(p)
      list == <<p>> \o h.list[c]
      keep == IF Len(list) > MaxThreadCache(c) THEN MaxThreadCache(c) \div 2 ELSE Len(list)
      local == IsLocal(h, n)
  IN /\ CountNode(t)
     /\ heap' = [heap EXCEPT ![t] =
                   IF local THEN [h EXCEPT !.list[c] = SubSeq(list, 1, keep)] ELSE h]
     /\ stack' = [stack EXCEPT ![n][c] =
                    (IF local THEN SubSeq(list, keep + 1, Len(list)) ELSE <<p>>) \o @]
     /\ mem' = Forget(m, p, SizeForClass(c))
     /\ UNCHANGED maps

\* The header says which mapping; the thread's cache takes it if there is one.
ReleaseLarge(t, p, m) ==
  LET raw == Read(m, p - 2)
      size == Read(m, p - 1)
      h == heap[t]
      put == IF h.state = "bound" THEN Put(h.cache, h.bytes, raw, size)
             ELSE [entries |-> h.cache, bytes |-> h.bytes, unmapped |-> <<Entry(raw, size)>>]
  IN /\ heap' = [heap EXCEPT ![t].cache = put.entries, ![t].bytes = put.bytes]
     /\ maps' = Unmap(put.unmapped)
     /\ mem' = Forget(m, raw, size)
     /\ UNCHANGED <<nextNode, stack>>

Release(t, p, size, align, m) ==
  IF IsSmall(size, align) /\ InRegion(p)
    THEN ReleaseSmall(t, p, ClassOf(size, align), m)
    ELSE ReleaseLarge(t, p, m)

Without(p) == [q \in DOMAIN objs \ {p} |-> objs[q]]

Dealloc(t, p) ==
  /\ job[t] = Idle /\ p \in DOMAIN objs \ Busy
  /\ Release(t, p, objs[p].size, objs[p].align, mem)
  /\ objs' = Without(p)
  /\ UNCHANGED <<bump, job, calls, exits>>

-----------------------------------------------------------------------------
(* realloc.                                                                *)

SameClass(p, newSize) ==
  LET o == objs[p]
  IN /\ IsSmall(o.size, o.align) /\ IsSmall(newSize, o.align)
     /\ ClassOf(o.size, o.align) = ClassOf(newSize, o.align)
     /\ InRegion(p)

\* The same block will do; the words past a smaller size are given up.
ReallocInPlace(t, p, newSize) ==
  /\ job[t] = Idle /\ p \in DOMAIN objs \ Busy
  /\ SameClass(p, newSize)
  /\ objs' = [objs EXCEPT ![p].size = newSize]
  /\ mem' = Forget(mem, p + newSize, objs[p].size - newSize)
  /\ UNCHANGED <<bump, stack, nextNode, heap, maps, job, calls, exits>>

\* Otherwise a new object is allocated first; null if the layout is not valid.
Realloc(t, p, newSize) ==
  /\ job[t] = Idle /\ p \in DOMAIN objs \ Busy
  /\ ~ SameClass(p, newSize)
  /\ ValidLayout(newSize, objs[p].align)
  /\ AllocStart(t, Call("realloc", newSize, objs[p].align, p))

\* Faulty variant of CopySize: the larger of the two.
CopySizeLarger(old, new) == IF old < new THEN new ELSE old

CopySize(old, new) == IF old < new THEN old ELSE new

\* copy_nonoverlapping.
Copied(m, from, to, n) ==
  LET known == {i \in 0 .. n - 1 : from + i \in DOMAIN m}
  IN Written(Forget(m, to, n), to, [i \in known |-> m[from + i]])

\* Then the words are copied, and the old object is deallocated.
Move(t) ==
  LET j == job[t]
      o == objs[j.old]
  IN /\ j.pc = "move"
     /\ Release(t, j.old, o.size, o.align, Copied(mem, j.old, j.new, CopySize(o.size, j.size)))
     /\ objs' = With(Without(j.old), j.new, j)
     /\ job' = [job EXCEPT ![t] = Idle]
     /\ UNCHANGED <<bump, calls, exits>>

-----------------------------------------------------------------------------
(* Threads that end and begin.                                             *)

\* Faulty variant of Returned: the spare chain is forgotten.
ReturnedList(h, c) == h.list[c]

\* What PerThreadHeap::drop pushes: the list, and then the spare chain above it.
Returned(h, c) == h.spare[c] \o h.list[c]

\* Every class is returned to the node's stacks, and the large cache is flushed.
ThreadExit(t) ==
  LET h == heap[t]
  IN /\ job[t] = Idle /\ h.state = "bound"
     /\ stack' = [stack EXCEPT ![h.node] =
                    [c \in Classes |-> Returned(h, c) \o @[c]]]
     /\ maps' = Unmap(h.cache)
     /\ heap' = [heap EXCEPT ![t] = NoHeap("gone")]
     /\ exits < MaxExits /\ exits' = exits + 1
     /\ UNCHANGED <<bump, nextNode, mem, objs, job, calls>>

\* A new thread takes the place of one that has exited.
ThreadStart(t) ==
  /\ job[t] = Idle /\ heap[t].state = "gone"
  /\ heap' = [heap EXCEPT ![t] = NoHeap("none")]
  /\ UNCHANGED <<bump, stack, nextNode, maps, mem, objs, job, calls, exits>>

Next == \E t \in Threads :
  \/ \E r \in Requests : Alloc(t, r[1], r[2], r[3])
  \/ \E p \in DOMAIN objs :
       \/ Dealloc(t, p)
       \/ \E size \in Sizes : ReallocInPlace(t, p, size) \/ Realloc(t, p, size)
  \/ Carve(t) \/ Move(t)
  \/ ThreadExit(t) \/ ThreadStart(t)

Spec == Init /\ [][Next]_vars

-----------------------------------------------------------------------------
(* validate_internal_state, as thread t would run it while nothing else    *)
(* runs.  The order of the walk does not matter to what it asserts.        *)

\* The free blocks of a list, with where they were found.
Found(list, where, n, c) ==
  {[addr |-> list[i], len |-> SizeForClass(c), node |-> n, class |-> c, at |-> <<where, i>>] :
     i \in DOMAIN list}

\* What the walk visits: every node's stacks, and the thread's lists and spares.
Visited(t) ==
  LET h == heap[t]
      mine == {Found(h.list[c], "list", h.node, c) : c \in Classes}
                \cup {Found(h.spare[c], "spare", h.node, c) : c \in Classes}
      shared == {Found(stack[n][c], "stack", n, c) : n \in Nodes, c \in Classes}
  IN UNION (mine \cup shared)

\* mark_block, the block by itself: inside its node's region, carved, aligned.
BlockValid(b) ==
  /\ InRegion(b.addr) /\ NodeForPtr(b.addr) = b.node
  /\ b.addr - NodeBase(b.node) + b.len <= bump[b.node]
  /\ b.addr % b.len = 0

\* The bag granules a block claims for its class.
Granules(b) ==
  LET bag == BagSizeForClass(b.class)
      first == (b.addr - (b.addr % bag) - NodeBase(b.node)) \div BagSize
  IN {<<b.node, g>> : g \in first .. first + bag \div BagSize - 1}

\* mark_block, against the blocks marked before: no word twice, no granule for
\* two classes.
MarksAgree(b, d) == Apart(b, d) /\ (b.class # d.class => Granules(b) \cap Granules(d) = {})

\* LargeCache::validate.
CacheValid(h) ==
  LET es == h.cache
  IN /\ Len(es) <= CacheSlots /\ h.bytes <= MaxCacheBytes
     /\ h.bytes = Pages(es, Len(es))
     /\ \A i \in DOMAIN es :
          /\ es[i].map % PageSize = 0 /\ es[i].size % PageSize = 0 /\ es[i].size > 0
          /\ ~ InRegion(es[i].map)
          /\ \A k \in 1 .. i - 1 : Apart(Stretch(es[i].map, es[i].size), Stretch(es[k].map, es[k].size))

ValidateInternalState(t) ==
  /\ \A n \in Nodes : bump[n] <= RegionSize
  /\ LET visited == Visited(t)
     IN \A b \in visited : BlockValid(b) /\ \A d \in visited \ {b} : MarksAgree(b, d)
  /\ CacheValid(heap[t])

-----------------------------------------------------------------------------
(* Properties.                                                             *)

Quiescent == \A t \in Threads : job[t] = Idle

\* The blocks somebody has, with their length: free, held by the program, or about
\* to be handed to realloc's caller.
BlocksHeld ==
  LET BlockAt(p, o) == <<p, SizeForClass(ClassOf(o.size, o.align))>>
      moving == {t \in Threads : job[t].pc = "move" /\ InRegion(job[t].new)}
  IN {<<b.addr, b.len>> : b \in UNION {Visited(t) : t \in Threads}}
       \cup {BlockAt(p, objs[p]) : p \in {q \in DOMAIN objs : InRegion(q)}}
       \cup {BlockAt(job[t].new, job[t]) : t \in moving}

\* The mappings somebody has, with the length it would give to munmap.
MapsHeld ==
  LET payloads == {p \in DOMAIN objs : ~ InRegion(p)}
                    \cup {job[t].new : t \in {u \in Threads : job[u].pc = "move"
                                                          /\ ~ InRegion(job[u].new)}}
  IN {<<Read(mem, p - 2), Read(mem, p - 1)>> : p \in payloads}
       \cup (UNION {{<<e.map, e.size>> : e \in {heap[t].cache[i] : i \in DOMAIN heap[t].cache}} :
                     t \in Threads})

\* Every variable keeps to its values.
TypeOK ==
  /\ bump \in [Nodes -> 0 .. RegionSize]
  /\ stack \in [Nodes -> [Classes -> Seq(Addr)]]
  /\ nextNode \in Nodes
  /\ heap \in [Threads -> [state : {"none", "bound", "gone"}, node : Nodes, bytes : Nat,
                            cache : Seq(Entries),
                            list : [Classes -> Seq(Addr)], spare : [Classes -> Seq(Addr)]]]
  /\ maps \in [Maps -> [len : Nat, node : Nodes]]
  /\ DOMAIN mem \subseteq Addr /\ \A a \in DOMAIN mem : mem[a] \in Nat
  /\ DOMAIN objs \subseteq Addr
  /\ \A p \in DOMAIN objs : objs[p] \in [size : Nat, align : Nat]
  /\ job \in [Threads -> [pc : {"idle", "carve", "move"},
                           op : {"none", "alloc", "zeroed", "realloc"},
                           size : Nat, align : Nat, old : Nat, new : Nat]]
  /\ calls \in 0 .. MaxCalls /\ exits \in 0 .. MaxExits

\* The objects of ob with their words, as they stand in m.
Stored(ob, m) ==
  [p \in DOMAIN ob |-> [size |-> ob[p].size, align |-> ob[p].align,
                        words |-> [i \in 0 .. ob[p].size - 1 |-> Read(m, p + i)]]]

Store == INSTANCE ObjectStore WITH objs <- Stored(objs, mem)

\* The allocator keeps what GlobalAlloc promises: through list hits, refills, bags
\* of every class, fallbacks, reuse of mappings, remote frees and thread exits an
\* object stays apart from the others, aligned, and keeps its words until the
\* program changes it; alloc_zeroed returns zeros; realloc carries the words over,
\* and a realloc that fails has changed nothing.
ImplementsStore == Store!Spec

\* Nothing is lost: a block that a list, a stack or the program has had stays with
\* one of them, at its length, and the kernel's mappings are those an object or a
\* cache can give back, at their full length, although dealloc learns of a mapping
\* from a header alone.  That carving itself drops no block of a bag is for
\* Freelist's NoneLost to say.
NothingLost ==
  [][/\ BlocksHeld \subseteq BlocksHeld'
     /\ MapsHeld' = {<<raw, maps'[raw].len>> : raw \in {r \in Maps : maps'[r].len # 0}}]_vars

\* validate_internal_state never fails: between calls, whichever thread runs it,
\* whatever the others have cached, and after any number of exits.
ValidatorAccepts == Quiescent => \A t \in Threads : ValidateInternalState(t)

\* The objects thread t gets in this step, from alloc or for its realloc.
Obtained(t) ==
  IF job'[t].pc = "move" THEN {job'[t].new}
  ELSE IF job[t].pc # "move" THEN DOMAIN objs' \ DOMAIN objs ELSE {}

\* Small objects are local: a block that alloc hands out lies in the region of the
\* calling thread's node, whichever thread freed it before.
SmallIsLocal ==
  [][\A t \in Threads : <<heap[t], job[t]>>' # <<heap[t], job[t]>> =>
       \A p \in Obtained(t) : InRegion(p) => NodeForPtr(p) = heap'[t].node]_vars

\* "Every step allocates from the current thread's node": the same of mappings.
LargeIsLocal ==
  [][\A t \in Threads : <<heap[t], job[t]>>' # <<heap[t], job[t]>> =>
       \A p \in Obtained(t) : ~ InRegion(p) => maps'[Read(mem', p - 2)].node = heap'[t].node]_vars
=============================================================================
