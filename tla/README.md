# NUMAlloc, verified in TLA+

This directory models NUMAlloc-rs, a NUMA-aware `GlobalAlloc` for Rust: TLA+
modules translated from `src/src/*.rs`, TLC configurations that check them on
small instances, and TLAPS proofs, for every instance, of the safety properties of
each component and of the allocator they make up.

## The system

| part | state | operations | hard because |
|---|---|---|---|
| node stacks and thread freelists (`freelist.rs`, `node_heap.rs`, `allocator.rs`, `thread_heap.rs`) | per node and class a tagged head word; per thread and class `head`, `tail`, `count`, `spare`; a link inside every free block | pop, refill, carve, local free, drain, remote free, drop at exit | lock-free retry loops, links that turn into user data, hand-kept tails |
| region and bags (`heap.rs`) | one mapping, a bump offset per node | `GlobalHeap::new`, `allocate_bag`, `node_for_ptr` | racing compare-and-swaps, alignment at an arbitrary mapping address |
| large objects (`allocator.rs`, `thread_heap.rs`) | a header per mapping; per thread a cache of mappings with a byte counter | `alloc_large_tracked`, `alloc_zeroed`, `dealloc_large`, take, put, flush | reuse at another size, eviction, frees by other threads, stale contents |
| heap ownership (`heap.rs`, `allocator.rs`) | a `OnceLock` per instance, a reference count per heap, one TLS slot per thread | first call, instance switch, thread exit, instance drop | racing initialisation and release, heap addresses that are reused |
| `GlobalAlloc` and size classes (`allocator.rs`, `size_class.rs`) | none of its own | routing of `alloc`, `alloc_zeroed`, `realloc`, `dealloc`; layout arithmetic | `dealloc` knows only a pointer and a layout; every path ends in the same memory |
| platform layer (`platform.rs`) | none | topology and affinity from sysfs; `mmap`, `munmap`, `mbind`, `madvise` | lists that are absent, cut off, malformed, or name CPUs outside the mask; system calls that fail silently |
| validation (`validate.rs`, test-only) | marks of one walk | walk of the stacks, the caller's lists and its large cache | must accept every quiescent state |
| `SysBox` (`sys_box.rs`) | none | box on the system allocator | not modelled |

How they interact: a call first gets the instance's heap (`OnceLock`), then the
thread's `PerThreadHeap` (TLS slot), which it may have to replace.  A small
request pops from the thread's list, refills it from the spare chain or from the
node's stack, or carves a bag; when the region is exhausted or the slot is
destroyed it becomes a large request.  Threads meet only at the head word of a
node's stack, at a region's bump offset, at a heap's reference count and at the
`OnceLock`.

What makes each part correct: a block has one owner at any time and is never
lost; links are read only from blocks the reader owns; bags are disjoint,
aligned, and found again by address; a mapping is unmapped once with its full
extent; a heap lives as long as a handle to it; `dealloc` returns an object to
where `alloc` took it from; a live object keeps its words.  `PROJECT.json` lists the hazards, each at its line.

## Modules

**`Freelist`** models one size class of one node.  Classes and nodes share no
state but the region, and a thread of another node appears as one that frees
remotely.  Every load of the head word, every compare-and-swap and every
iteration of a loop that follows a link is a step; work on thread-private fields
is merged into the step next to it.  `next` is the first word of every block, and
`Pop` overwrites it with `UserData`, as the program may.  `head` carries the
generation tag modulo `TagModulus`: with modulus 1 the tag does nothing, so a
property that holds then does not rest on it.  `bound` is the thread's TLS slot:
empty, bound to this node or to another, being dropped, or destroyed.
`compare_exchange_weak` may also fail spuriously (`CasSpurious`).

| code | actions |
|---|---|
| `alloc` | `Pop`, `AllocMiss`, `TakeAllLoad`, `TakeAllCas`, `Refill`, `Carve` |
| `dealloc` | `DeallocLocal`, `Drain`, `DeallocRemote` |
| `push`, `push_chain` | `PushChainLoad`, `PushChainCas`, `CasLost`, `CasSpurious` |
| `PerThreadHeap::drop` | `DropList`, `DropSpare`, `DropWalk` |
| TLS slot | `InitThreadHeap`, `ThreadStart` |

**`BlockPool`** is what that path promises, without pointers: every block is
fresh, in the pool, held by a thread or live, and moves only as its owner moves
it; a refill takes the whole pool.  `Freelist` implements it (`ImplementsPool`)
with the blocks found by walking the links.

**`FreelistOrder`** adds the memory orderings.  Its history variable `seen` says,
for every block, which threads come after the last access to its link in the
happens-before order, and whether a thread that acquires the head would.  An
`Acquire` load joins what was released to the head, the `AcqRel` compare-and-swap
also releases, a link access leaves only its thread, and a block handed to the
program leaves nobody: ordering the program's own accesses before the free is the
program's duty.  Every store to the head is a read-modify-write, so release
sequences never break.

**`Region`** models the address arithmetic of `GlobalHeap::new`, `allocate_bag`
(load, then compare-and-swap) and `node_for_ptr`, in pages, with the mapping
anywhere.

**`LargeCache`** holds the operations of a thread's cache of mappings (take,
swap-remove, put with eviction) as operators on sequences.

**`LargeObjects`** models mappings with their extent, header and contents, the
objects in them, and every thread's `LargeCache` as a sequence.  A call is one
step because it works on the thread's own cache and on mappings nobody else can
name.  `munmap` releases the pages it is told to, so a wrong size shows as an
extent that is not zero.  `madvise` may or may not zero a cached mapping
(`MADV_FREE` keeps contents).

**`HeapLifecycle`** models who keeps a heap alive.  Heaps are at addresses that
are reused as soon as they are free, because `thread_heap` recognises its heap by
address.  Dropping a cache is three steps: drain to its heap, subtract the
reference, free if it was the last.  It also assigns threads to nodes: `Bind`
takes the next node from the round-robin counter, `Affinity` is
`bind_thread_to_node`, `cpus` are the CPUs a thread may run on (a new thread
inherits them), and `machine` is the topology, fixed in a run.

**`Platform`** holds what `platform.rs` makes of a machine: how many nodes there
are (one more than the highest with a CPU list), and which mask a list yields.  A
list is its ranges, whether every item is numeric, and whether it filled the
buffer; the characters are left out.  `sched_setaffinity` cuts the mask to the
allowed CPUs and fails when none is left, as the kernel does.

**`Layouts`** holds the arithmetic of layouts: effective size, classes, bag sizes,
`large_alloc_size` with its overflow checks, the payload's address.  `1 << k` is
`Pow2[k]`, a recursive function, because the provers know nothing of powers.

**`NumaAlloc`** follows one object through `alloc`, chains of `realloc` and
`dealloc`: path, class, place, header, alignment.  It takes from the other
modules that bags are aligned and disjoint and that the cache returns mappings of
close size.

**`Allocator`** composes the parts on one memory: several threads call `alloc`,
`alloc_zeroed`, `realloc` and `dealloc` on one instance, with every class, every
node's region and stacks, the large caches, the fallback of small requests to
mappings and the slot that is destroyed at exit.  Memory holds the program's words
and the allocator's headers alike, so a header or a neighbour that is overwritten
shows; a word nobody may rely on is not listed.  Lists are sequences, and an
operation on a stack, a bump pointer or a mapping is one step: `Freelist` and
`Region` take those apart.  `Carve` is a step after the miss, so that others may
push in between, and `Move` (copy, then release the old object) a step after the
allocation of `realloc`.  The module also states `validate_internal_state` as a
predicate.

**`ObjectStore`** is what `GlobalAlloc` promises a program, whatever serves it:
objects of the size and alignment asked for, apart from each other, whose words
change only when the program writes them; a failed call changes nothing.
`Allocator` implements it (`ImplementsStore`) with the words read from memory.

The proofs are in modules of their own.  **`FreelistProofs`** proves the inductive
invariant of `Freelist`, the properties that walk the links, the refinement of
`BlockPool` and the memory orderings; **`RegionProofs`**, **`HeapProofs`**,
**`LargeProofs`**, **`NumaProofs`** and **`AllocatorProofs`** are about the module
they are named after.  **`LayoutProofs`** and **`CacheProofs`** say once what the
operators of `Layouts` and `LargeCache` compute; `NumaProofs` rests on the first,
`LargeProofs` on the second, `AllocatorProofs` on both.  The `MC*` modules fix instances and symmetry;
`MCLargeEviction` adds a history of the order in which entries were stored.
Definitions called a *faulty variant* are not used by any specification: each is
what the definition after it could have been, and breaks one of the properties.

## Runs

| run | instance | shows |
|---|---|---|
| `freelist_safety` | 2 threads, 5 blocks in one bag, batch 2, limit 4, modulus 1 | `OneOwner`, `NoneLost`, `FreelistAgrees`, `LinksReadAreOwned`, `ExitReturnsAll` |
| `freelist_refinement` | 3 threads, 3 blocks in bags of one, batch 1, limit 2, modulus 1 | `ImplementsPool`, `StackLinksFrozen`, `OrderedAccesses` |
| `freelist_liveness` | 2 threads, 3 blocks, modulus 2 | `LockFree` |
| `freelist_wait_free` | 2 threads, 2 blocks | violation: `PushIsWaitFree` |
| `region_carve` | 2 threads, 2 nodes of 4 pages, bags of 1, 2 and 4, four mapping addresses | `BagsDisjoint`, `BagsFoundAgain`, `BagsAligned`, `PlacementIndependent`, `CarveEnds` |
| `large_safety` | 2 threads, 2 instances, 3 addresses, sizes 1, 2, 3 and 5, 2 slots, 4 pages, tolerance 1 | `OwnedOnce`, `ExtentRemembered`, `CacheAccounted`, `ZeroedIsZero`, `WasteBounded`, `CacheServesItsHeap` |
| `large_eviction` | 1 thread, 1 instance | violation: `EvictsOldest` |
| `heap_lifecycle` | 2 threads, 2 instances at a time, 5 addresses, 5 machines | `RefsAreHandles`, `HeapOutlivesHandles`, `HeapIsCreatedOnce`, `RunsOnItsNode` |
| `heap_liveness` | 2 threads, 1 instance at a time, 4 addresses, 1 machine | `HeapIsFreed`, `CallsReturn` |
| `routing` | classes of 2 to 16 bytes, pages of 8, 7-bit addresses, all sizes, alignments up to 32 | `ObjectFits`, `ObjectAligned`, `FreedAsAllocated`, `SmallWasteBounded` |
| `allocator` | 2 threads, 2 nodes of two bags, 3 classes, 2 places for mappings, 4 calls, 1 exit | `ImplementsStore`, `NothingLost`, `SmallIsLocal`, `ValidatorAccepts` |
| `large_local` | the same | violation: `LargeIsLocal` |

Each run that must hold also checks its module's type invariant where it checks
invariants.

### Bounds

- Five blocks are what it takes for a list to exceed the limit 4 and be split
  with two blocks kept and three given away, so that the walk to the split, the
  new tail and the tail of the chain given away are three different blocks; a
  batch of 2 with a stack of up to five leaves a spare chain longer than one
  batch.  Two threads give every race on the head word between two operations;
  three, in the refinement run, add a third party that makes a compare-and-swap
  succeed on a head that was away and came back.
- Modulus 1 is the hardest tag: as a compare-and-swap may fail spuriously, it
  allows every behaviour of a larger modulus.  The liveness run has modulus 2, so
  that a loss is a real one.
- A region of 4 pages (3 asked for, rounded up) holds one bag of the largest
  class, or bags of 1, 2 and 4 pages in every order, with alignment gaps, up to
  exhaustion.  Two nodes put the end of one region at the start of another.  The
  four mapping addresses are all residues modulo the largest bag.
- Size 5 is over the cache's limit of 4 by itself; sizes 1, 2, 3 with tolerance 1
  give exact hits, close hits and misses; two slots give eviction by count, four
  pages by bytes.  Size 3 is at the `madvise` threshold.
- Five addresses are one more than two threads and two instances can keep alive
  when another heap is created, so creation never blocks; freed ones are reused.
- The machines: nodes 0 and 1; nodes 0 and 2 with CPUs beyond the mask and CPUs
  the process may not use; a node whose CPUs, all of them allowed, are all beyond
  the mask beside one with one of two beyond it; a list cut inside a number, a node
  without CPUs and a regular one; and no sysfs at all.  Three node numbers and masks of 8 CPUs put
  every case at its limit.
- `CounterModulus` 3 with two nodes makes the round-robin counter wrap where it
  is not a multiple of the node count, as 2^64 may be.
- Layout arithmetic is the code's with `usize` of 7 bits: sizes reach
  `isize::MAX`, alignments reach four pages.
- The composed allocator has classes of 2, 4 and 8 words, bags of 8, pages of 4,
  batch 1, limit 2, a cache of 2 mappings and 28 words.  The program asks for one
  zeroed word or for 9 words, and reallocates to 2, 3 or 9: in place, to another
  class, to a mapping and back.  In four calls each of these happens: a drained
  list, a parked spare chain, a mapping reused at a close size, a region that is
  exhausted, a small object in a mapping, two mappings in one cache.  The run does
  not check deadlock: the program may stop calling.

### Fairness

A thread that has started an operation keeps running: weak fairness of its own
steps.  A compare-and-swap is strongly fair towards success or a genuine loss
(`Cas` excludes `CasSpurious`): hardware does not fail a weak compare-and-swap
spuriously for ever.  Nothing obliges the program to call the allocator, a thread
to exit, or an instance to be dropped.  `LockFree` is stated so that losing for
ever is allowed only if others keep changing the head.  In `HeapLifecycle`, a
waiter of the `OnceLock` is woken when the value is there.

### What the violated properties say

Three documents disagree with the code; none of it is a memory-safety matter.
`node_heap.rs` calls remote frees wait-free, they are lock-free.
`architecture_design.md` says the large cache evicts the oldest entries, the code
evicts the newest.  `architecture_design.md` and the repository's README say freed
memory returns to its origin node and is never reused remotely; that holds of
small objects (`SmallIsLocal`), but a large object stays in the cache of whichever
thread frees it and is handed out there, bound to the node it came from.

Two more documents say less or more than the code does; no run is about them.
`architecture_design.md` (lines 346 and 360) and the comment of `large_cache_take`
(`thread_heap.rs:265`) say that the cache serves exact sizes only; the code, the
repository's README and `tests/boundaries.rs` have it serve close ones, and
`WasteBounded` bounds what that costs.  `bind_thread_to_node` (`platform.rs:160`) is
to bind the thread "to all CPUs belonging to `node`"; it leaves out those numbered
from `CPU_SETSIZE` (1024) on, for which a `cpu_set_t` has no bit.  A thread assigned
to a node that has only such CPUs is not pinned at all: it keeps the CPUs it had,
which may be those of another node, while its memory comes from the assigned one.
`RunsOnItsNode` says so, by `Pinnable` and `PinCpus`.

## Proofs

Every theorem below is proved for every value of the constants that satisfies the
assumptions named in its section.  All the assumptions are evaluated by TLC in the
runs, so none of them is empty.  A theorem whose last column names a property
states `Spec => []Property`, or `Spec => Property` for an action property or a
refinement; each of these is also checked by a run.

| theorem | module | property |
|---|---|---|
| `Safety` | `FreelistProofs` | the inductive invariant |
| `TypeCorrect` | `FreelistProofs` | `TypeOK` |
| `LinksOwned` | `FreelistProofs` | `LinksReadAreOwned`: no link is read from memory the program owns, no `unwrap` meets `None` |
| `Ownership` | `FreelistProofs` | `OneOwner`: no block is in two places |
| `Conservation` | `FreelistProofs` | `NoneLost`: every block stays reachable |
| `Bookkeeping` | `FreelistProofs` | `FreelistAgrees`: `count` and `tail` are right |
| `NothingStranded` | `FreelistProofs` | `ExitReturnsAll` |
| `FrozenLinks` | `FreelistProofs` | `StackLinksFrozen` |
| `PoolRefinement` | `FreelistProofs` | `ImplementsPool`: `Freelist` implements `BlockPool` |
| `RaceFreedom` | `FreelistProofs` | `OrderedAccesses`: `Acquire` and `AcqRel` on the head order all accesses to links |
| `Safety`, `TypeCorrect` | `RegionProofs` | the inductive invariant, `TypeOK` |
| `Disjointness`, `Alignment` | `RegionProofs` | `BagsDisjoint`, `BagsAligned` |
| `FoundAgain` | `RegionProofs` | `BagsFoundAgain`: `node_for_ptr` is right about every byte of a bag |
| `Placement` | `RegionProofs` | `PlacementIndependent` |
| `Safety`, `TypeCorrect` | `HeapProofs` | the inductive invariant, `TypeOK` |
| `CountCorrect` | `HeapProofs` | `RefsAreHandles`: the reference count is the number of handles |
| `NoUseAfterFree` | `HeapProofs` | `HeapOutlivesHandles` |
| `CreatedOnce` | `HeapProofs` | `HeapIsCreatedOnce` |
| `Locality` | `HeapProofs` | `RunsOnItsNode`: on the node's CPUs, where a mask can name one |
| `Safety`, `TypeCorrect` | `LargeProofs` | the inductive invariant, `TypeOK` |
| `OneOwner` | `LargeProofs` | `OwnedOnce`: a mapping is held by one object or one cache |
| `ExtentKept` | `LargeProofs` | `ExtentRemembered`: what is unmapped is the whole extent |
| `Accounting` | `LargeProofs` | `CacheAccounted`: the byte counter is the sum, within the limits |
| `Zeroed`, `BoundedWaste` | `LargeProofs` | `ZeroedIsZero`, `WasteBounded` |
| `ServesItsHeap` | `LargeProofs` | `CacheServesItsHeap` |
| `Safety`, `TypeCorrect` | `NumaProofs` | the inductive invariant, `TypeOK` |
| `Fits`, `Aligned` | `NumaProofs` | `ObjectFits`, `ObjectAligned` |
| `FreedWhereAllocated` | `NumaProofs` | `FreedAsAllocated`: `dealloc` finds the class or the mapping again |
| `SmallWaste` | `NumaProofs` | `SmallWasteBounded`: a block is shorter than twice max(size, alignment) |
| `Safety`, `TypeCorrect` | `AllocatorProofs` | the inductive invariant, `TypeOK` |
| `StoreRefinement` | `AllocatorProofs` | `ImplementsStore`: the allocator implements `ObjectStore` |
| `Conservation` | `AllocatorProofs` | `NothingLost`: no block that somebody has had, and no mapping, is lost |
| `Locality` | `AllocatorProofs` | `SmallIsLocal` |
| `ValidatorSound` | `AllocatorProofs` | `ValidatorAccepts` |

### Freelist: the invariant

Assumed: `FreelistAssumption` (the constants are numbers, the limit at least 2) and
`NullAssumption` (`NULL` and `UserData` are not blocks).

`LinksReadAreOwned` is not inductive: that the link of a list's head is good
after a pop depends on the whole list, and that a detached chain is private
depends on everyone else's.  `Inv` says there are three functions on blocks the
program does not have: `kind` and `who` give every block its place (fresh, live,
on the stack, or in one thread's list, spare chain or chain in transit), and
`rank` its distance from the end of its chain.  `Threaded` says that the blocks
of a place form one chain from its root downwards in rank, `Closed` that it ends
in `NULL`; `ListOK` ties `count` and `tail` to ranks; `ChainOK` and `ControlOK`
say what each label implies.  Places are disjoint because `kind` and `who` are
functions, so there is no quantification over pairs of chains, and acyclicity is
the decrease of rank, so there is no induction.  One lemma for each chain
operation (`ChainPop`, `ChainPush`, `ChainBelow`, `ChainAbove`, `ChainConcat`,
`ChainBag`) says how the ranks change, one lemma for each action gives the new
functions, and `NextInv` collects them.  A stale head word in `cur` needs no
conjunct: a compare-and-swap that succeeds compares with the present head, which
is why the tag is not needed.

The properties themselves speak of `Reach`, a walk along the links by a recursive
function.  `FreelistProofs` connects the two: `AllNumbers` (the least number
outside a set that contains 0 and every successor) takes the place of induction,
`WalkExists` shows that the recursive function exists, `WalkInside` and
`WalkRanks` that a walk from the root of a chain visits its blocks by falling
rank, `ChainLength` that a chain is no longer than the region, so that the walk is
long enough, and `ReachChain` that `Reach` is exactly the set the invariant names.
Each property then follows from `kind` and `who` being functions.

### Freelist: the refinement and the orderings

`BlockPool` sees four sets: fresh blocks, the pool, what each thread holds, live
blocks.  `InvPartition` shows that they are a partition of the region before and
after every step.  A step of `t` leaves the fields of other threads alone, and
none of the links it writes is in one of their chains (`OthersKeep`), so they hold
what they held.  What `t` itself holds afterwards need not be computed by walking
its new lists: it is whatever the others, the program, the stack and the region do
not have (`Balance`).  So it is enough to say for each action what happens to the
stack, the live blocks and the bump pointer, and `PoolStep` matches each action
with a step of `BlockPool` or a stutter.

`OrderedAccesses` is strengthened to `OrderInv`: the last access to the link of a
block on the stack has been released to the head, and a fresh block has been
accessed by nobody.  A thread that takes the stack acquires the head first, one
that pushes releases what it wrote; everything else only reads and writes links
the thread holds, for which it comes after the last access.  This also assumes
`OrderAssumption`, that the head's name is not a thread's.

### Region

Assumed (`RegionAssumption`): bag sizes divide the alignment unit, which is what
powers of two up to `MIN_REGION_SIZE` do; the mapping may be anywhere, and the size
asked for may be any number.  The invariant adds to disjointness and alignment that
each bag lies in the carved part of its node's region (`BagsCarved`), which is what
makes the next bag disjoint from it, and that a thread about to compare-and-swap
has checked that its bag fits (`RequestOK`).  That a bag address is aligned for
every base needs lemmas on multiples and remainders: the provers do not reason about
products or remainders of variables by themselves.

### Heap ownership

Assumed: `LifecycleAssumption` (finitely many threads and instances, so that handles
can be counted), `PlatformAssumption`, and `MachineAssumption`: the process may run
on some CPU, and a sysfs list that was read whole names just the CPUs of its node.
Without the latter `RunsOnItsNode` cannot hold.  CPU numbers are not bounded by
`CPU_SETSIZE`, neither those of a node nor those the process may use: a node is
`Pinnable` if its list was read whole and some CPU of it is both allowed and below
`CPU_SETSIZE`.  A thread settled on a pinnable node has exactly those CPUs; on any
other node it keeps what it had.

The reference count is the cardinality of a set of handles: of `OnceLock`s, of slots
and of threads in the middle of dropping one.  Every action that moves a handle is a
statement on that set (`Counting`: one element more, one less, one exchanged), so
the proof is about sets, and `FiniteSetTheorems` supplies the numbers.  `CallOK`,
`CreatesAlone`, `OnceOK` and `SlotOK` say what each label implies: in particular a
thread that is between `OnceLock` and slot relies on the instance's handle, so the
heap it is about to clone is alive.  `RunsOnItsNode` is inductive by itself, as it says
of every thread, and not only of those with a slot, that its CPUs are those of some
pinnable node or all: a new thread inherits them.

### Large objects

Assumed: `LargeCacheAssumption` and `LargeAssumption` (the constants are numbers, and
the labels of a slot are not heaps).

`Inv` says of each cache that its entries are distinct, add up to the byte counter,
respect both limits, and that each names a mapping of just the extent it records
which no object has (`CacheOK`); that no two caches share a mapping
(`InvDisjoint`); that an object's header is its mapping's extent and within the
tolerance of its size (`InvLive`); and that each mapping has an owner (`InvOwned`).
None of the properties is inductive without the others: an entry unmapped with the
wrong size would leave an extent behind, an entry in two caches would be handed out
twice.  The operators of `LargeCache` are described once (`SwapRemoveIs`, `PutIs`,
`UnmapIs`), in `CacheProofs` where `Allocator` uses them too, with `PagesIs` and `PagesPrefix` for the recursive sum of sizes; the
eviction loop, which `LargeCache` states as the greatest prefix that may stay, is
`KeptIs`.

### GlobalAlloc and size classes

Assumed: `LayoutsAssumption` (the largest class is within `isize::MAX`; bags, the
header's alignment and the alignments asked for are powers of two; the header's
size is a multiple of its alignment) and `NumaAllocAssumption` (the region lies in
the address space on a multiple of the largest class, which is what `GlobalHeap::new`
aligns it for, and mappings on pages).

`Inv` says that the object lies at the start of a block of the class its layout
picks, or in a mapping outside the region with room for header, padding and object,
behind a header that records the mapping.  The class is the interesting part: after
a `realloc` in place it is the class of the *new* size, so that `dealloc` will find
it; and `realloc` may stay in place only because a pointer in the region is never a
mapping's (`Resized`).  Below it is the arithmetic, for every word width: `Pow2Is`
and `PowerDivides` on powers of two, `BitLengthIs` and `ClassIs` on
`size_class_index` (large enough, and less than twice too large), `BlockIs` on
blocks carved from aligned bags, `PayloadIs` on `prepare_large_payload`.

### The allocator as a whole

Assumed: `LayoutsAssumption`, `LargeCacheAssumption` and `AllocatorAssumption`: the
start and the size of the regions are multiples of the largest class, which is what
`GlobalHeap::new` aligns them for; mappings are pages beyond the regions; a
`LargeHeader` is two words; `BAG_SIZE` is at most the largest class (32 KB and 256 KB);
alignments are powers of two.  Threads, nodes, classes, limits and sizes are
arbitrary.

Memory is divided into chunks: the blocks of the bags carved so far, and the mappings.
`Inv` says there are three functions on addresses the program does not have.  `kind`
and `who` give the place of the chunk that starts at an address (a node's stack, a
thread's list, spare chain or large cache, the object at some address, the new object
of some thread's `realloc`) and `cls` the class of a block.  `PlacesOK` is about what
the allocator has: `ChunksOK` says that two blocks share bag and class or lie in bags
that are apart, that mappings are apart, and that both are carved, mapped and aligned;
`ListsOK` that each sequence lists exactly the chunks of its place, each once, and of
its node; `CachesOK` that entries record the full extent and add up to the counter.
`UsesOK` is about the program: `Lies` says that an object is a block of the class its
layout picks, or is in a mapping behind a header that names the mapping and its extent,
and `JobsOK` what a call that goes on relies on, that no other call works on the object
it reallocates and that a thread about to carve has an empty list.

Why so much is needed: `dealloc` has only a pointer and a layout.  That it puts a block
on the list of the right class and node, or unmaps the right pages, rests on the class
of the chunk and on the header, and that the header is still there on the chunk being
apart from every other; that blocks of two bags are apart rests on the bags, since a
block freed long ago says nothing of where the bump pointer was.

The steps are described by what becomes of chunks: blocks that change hands, a bag that
is carved, a mapping that is made, cached, evicted or unmapped, a `PerThreadHeap` that is
made or dropped.  `SameUses` and `Outside` say that the rest, and every word outside one
chunk, is as before.  `Keeps` collects what every step must do: the invariant with new
functions, no block lost (`Grows`), the objects changed as `ObjectStore` allows
(`StoreStep`), a block handed out only on the thread's node.  One lemma for each action
proves it (`AllocStep`, `CarveStep`, `ReallocStep`, `ReallocInPlaceStep`, `MoveStep`,
`DeallocStep`, `ThreadExitStep`, `ThreadStartStep`), and `NextKeeps` collects them; the
refinement, `NothingLost` and `SmallIsLocal` are then short.  `VisitedAre` relates the
validator's walk to the functions; its verdict follows in every state, not just between
calls, as far as the walk can see.

### Only model-checked

- `LockFree`, `CarveEnds`, `HeapIsFreed`, `CallsReturn`: liveness under fairness is out
  of the prover's reach, as is `ENABLED`.
- The violated properties, each by its counterexample.
- Induction over data is not available as such.  Where a recursive function occurs in
  a theorem (`Reach`, `Pages`, `Pow2`), its value is obtained from the least
  counterexample (`UpTo`, `AllNumbers`), and for the function itself alone.

## Not modelled

- The kernel: the outcomes of `mmap`, `mbind` and `madvise` are choices.  Mappings
  are placed freely in `LargeObjects`, at the lowest free place in `Allocator`.
- Topology that changes during a run (CPUs or nodes that come and go).
- Loads of the head that return an older value, and pointer provenance.
  `FreelistOrder` covers the order between accesses to links, not a stale head; a
  compare-and-swap that succeeds reads the present one in any case.
- The 48 bits `pack` keeps of an address (`freelist.rs:98-105`): user-space addresses
  from `mmap` without a hint have no more, so the address unpacked is the one packed.
- Processes that abort: no memory for a heap, `isize::MAX` references to it.
- `realloc` to a size no layout allows returns null at once; it has no action.
- The `count` and `tail` that the validator compares with the chain: the sequences
  of `Allocator` have none, `FreelistAgrees` states it of `Freelist`.
- Instance switches in `Allocator`: `LargeObjects` and `HeapLifecycle` have them.
- A spare chain parked by a thread that stops allocating is out of reach of other
  threads until it exits; the code accepts that, and no property forbids it.
- `SysBox`, which has no state; tests, fuzzing and benchmarks, which are harnesses.

## Plan

1. `Freelist` with its invariant and proofs, `BlockPool`, `Region`,
   `LargeObjects`, `HeapLifecycle`, `NumaAlloc` — done.
2. `Allocator` and `ObjectStore`, the validator, `FreelistOrder`, `Platform` — done.
3. Proofs of every safety property of the components, and the refinement of
   `BlockPool` — done.
4. Proofs about `Allocator`: memory divided among objects, free blocks and mappings, the
   refinement of `ObjectStore`, conservation, locality, the validator — done.
