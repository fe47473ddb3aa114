---------------------------- MODULE LargeObjects ----------------------------
(***************************************************************************)
(* The large-object path of NUMAlloc: objects with a mapping of their own, *)
(* the LargeHeader that remembers the mapping, and the LargeCache each     *)
(* thread keeps of mappings it freed, for the allocator instance its TLS   *)
(* slot is bound to.                                                       *)
(*                                                                         *)
(* Sizes are pages, after large_alloc_size.  A call is one step: it works  *)
(* on the thread's own cache and on mappings nobody else can name.         *)
(***************************************************************************)
EXTENDS LargeCache, FiniteSets

CONSTANTS
  Threads,
  Heaps,            \* allocator instances
  Sizes,            \* mapping sizes the program's requests need
  MadviseThreshold  \* MADVISE_THRESHOLD

ASSUME LargeAssumption ==
  /\ Sizes \subseteq Nat \ {0}
  /\ MadviseThreshold \in Nat
  /\ "none" \notin Heaps /\ "destroyed" \notin Heaps

VARIABLES
  extent,    \* pages the kernel has mapped at each address
  header,    \* alloc_size in the LargeHeader of each mapping
  content,   \* whether a mapping's payload reads as zeros
  obj,       \* what the program holds in each mapping
  slot,      \* the TLS slot: the instance its PerThreadHeap belongs to
  cache,     \* entries[0..count] of the thread's LargeCache
  bytes      \* LargeCache::bytes

vars == <<extent, header, content, obj, slot, cache, bytes>>

Free == [state |-> "free"]

\* An object the program holds: the instance it was allocated from, the mapping
\* size it needs, and whether it came from alloc_zeroed and was never written.
Held(h, size, zeroed) == [state |-> "live", heap |-> h, size |-> size, zeroed |-> zeroed]

Live == {m \in Maps : obj[m].state = "live"}

\* munmap of entries: the kernel releases as many pages as it is told to.
Unmap(ext, es) ==
  [m \in Maps |->
     IF m \notin MapsOf(es) THEN ext[m]
     ELSE ext[m] - es[CHOOSE i \in DOMAIN es : es[i].map = m].size]

Init ==
  /\ extent = [m \in Maps |-> 0]
  /\ header = [m \in Maps |-> 0]
  /\ content = [m \in Maps |-> "zero"]
  /\ obj = [m \in Maps |-> Free]
  /\ slot = [t \in Threads |-> "none"]
  /\ cache = [t \in Threads |-> <<>>]
  /\ bytes = [t \in Threads |-> 0]

\* Faulty variant of Flushed: the entries are forgotten, not unmapped.
FlushForgotten(t) == extent

\* LargeCache::flush, run when the thread's PerThreadHeap is dropped.
Flushed(t) == Unmap(extent, cache[t])

-----------------------------------------------------------------------------
(* alloc_large_tracked, and alloc_zeroed on top of it.                     *)

\* thread_heap, as far as the large cache goes: a slot bound to another instance
\* is dropped, which flushes its cache, and bound to this one.
Rebound(t, h) == slot[t] \notin {h, "destroyed"}

\* Faulty variant of HeaderSize: the request is recorded, not the extent.
HeaderRequest(entry, size) == size

\* What the LargeHeader records of a mapping reused for `size'.
HeaderSize(entry, size) == entry.size

\* Faulty variant of Scrubbed: a reused mapping is believed to be zero.
NotScrubbed(old, zeroed) == old

\* alloc_zeroed writes zeros over a reused mapping.
Scrubbed(old, zeroed) == IF zeroed THEN "zero" ELSE old

AllocLarge(t, h, size, zeroed) ==
  LET rebound == Rebound(t, h)
      es == IF rebound THEN <<>> ELSE cache[t]
      total == IF rebound THEN 0 ELSE bytes[t]
      ext == IF rebound THEN Flushed(t) ELSE extent
      i == TakeIndex(es, size)
  IN
  /\ slot' = [slot EXCEPT ![t] = IF rebound THEN h ELSE @]
  /\ \/ \* hit: the mapping's whole extent is kept
        /\ i # 0
        /\ LET e == es[i] IN
             /\ cache' = [cache EXCEPT ![t] = SwapRemove(es, i)]
             /\ bytes' = [bytes EXCEPT ![t] = total - e.size]
             /\ header' = [header EXCEPT ![e.map] = HeaderSize(e, size)]
             /\ content' = [content EXCEPT ![e.map] = Scrubbed(@, zeroed)]
             /\ obj' = [obj EXCEPT ![e.map] = Held(h, size, zeroed)]
             /\ extent' = ext
     \/ \* miss: mmap
        /\ i = 0
        /\ cache' = [cache EXCEPT ![t] = es]
        /\ bytes' = [bytes EXCEPT ![t] = total]
        /\ \/ \E m \in {a \in Maps : ext[a] = 0} :
                /\ extent' = [ext EXCEPT ![m] = size]
                /\ header' = [header EXCEPT ![m] = size]
                /\ content' = [content EXCEPT ![m] = "zero"]
                /\ obj' = [obj EXCEPT ![m] = Held(h, size, zeroed)]
           \/ \* mmap failed, the program gets null
              /\ extent' = ext
              /\ UNCHANGED <<header, content, obj>>

\* The program writes to an object.
Write(m) ==
  /\ m \in Live
  /\ content' = [content EXCEPT ![m] = "stale"]
  /\ obj' = [obj EXCEPT ![m].zeroed = FALSE]
  /\ UNCHANGED <<extent, header, slot, cache, bytes>>

-----------------------------------------------------------------------------
(* dealloc_large.                                                          *)

\* Faulty variant of MayCache: any cache will do.
MayCacheAny(t, h) == slot[t] \in Heaps

\* try_cache_large looks at the slot as it is, and wants this instance's.
MayCache(t, h) == slot[t] = h

\* The header gives the mapping back; put stores it, or it is unmapped.  madvise
\* may or may not make a stored mapping read as zeros, depending on the platform.
DeallocLarge(t, m) ==
  LET size == header[m]
      put == IF MayCache(t, obj[m].heap) THEN Put(cache[t], bytes[t], m, size)
             ELSE [entries |-> cache[t], bytes |-> bytes[t], unmapped |-> <<Entry(m, size)>>]
  IN
  /\ m \in Live
  /\ obj' = [obj EXCEPT ![m] = Free]
  /\ cache' = [cache EXCEPT ![t] = put.entries]
  /\ bytes' = [bytes EXCEPT ![t] = put.bytes]
  /\ extent' = Unmap(extent, put.unmapped)
  /\ \/ UNCHANGED content
     \/ /\ m \in MapsOf(put.entries) /\ size >= MadviseThreshold
        /\ content' = [content EXCEPT ![m] = "zero"]
  /\ UNCHANGED <<header, slot>>

-----------------------------------------------------------------------------
(* The TLS slot.                                                           *)

\* The TLS destructor drops the PerThreadHeap, and LargeCache::drop flushes.
ThreadExit(t) ==
  /\ slot[t] \in Heaps
  /\ slot' = [slot EXCEPT ![t] = "destroyed"]
  /\ extent' = Flushed(t)
  /\ cache' = [cache EXCEPT ![t] = <<>>]
  /\ bytes' = [bytes EXCEPT ![t] = 0]
  /\ UNCHANGED <<header, content, obj>>

\* A new thread takes the place of one that has exited.
ThreadStart(t) ==
  /\ slot[t] = "destroyed"
  /\ slot' = [slot EXCEPT ![t] = "none"]
  /\ UNCHANGED <<extent, header, content, obj, cache, bytes>>

Next ==
  \/ \E t \in Threads, h \in Heaps, size \in Sizes, zeroed \in BOOLEAN :
       AllocLarge(t, h, size, zeroed)
  \/ \E m \in Maps : Write(m) \/ \E t \in Threads : DeallocLarge(t, m)
  \/ \E t \in Threads : ThreadExit(t) \/ ThreadStart(t)

Spec == Init /\ [][Next]_vars

-----------------------------------------------------------------------------
(* Properties.                                                             *)

Cached(t) == MapsOf(cache[t])

\* Every variable keeps to its values; an entry of a cache is a mapping and a size.
TypeOK ==
  /\ extent \in [Maps -> Nat]
  /\ header \in [Maps -> Nat]
  /\ content \in [Maps -> {"zero", "stale"}]
  /\ obj \in [Maps -> {Free} \cup
                [state : {"live"}, heap : Heaps, size : Sizes, zeroed : BOOLEAN]]
  /\ slot \in [Threads -> Heaps \cup {"none", "destroyed"}]
  /\ cache \in [Threads -> Seq(Entries)]
  /\ bytes \in [Threads -> Nat]

\* Every mapping has one owner, an object of the program or one entry of one
\* thread's cache, and every owner has its mapping: nothing is leaked, unmapped
\* under an owner, or handed out twice, through eviction, close-size reuse,
\* instance switches, cross-thread frees and thread exits.
OwnedOnce ==
  /\ {m \in Maps : extent[m] # 0} = Live \cup (UNION {Cached(t) : t \in Threads})
  /\ \A t \in Threads :
       /\ Cached(t) \cap Live = {}
       /\ Cardinality(Cached(t)) = Len(cache[t])
       /\ \A u \in Threads \ {t} : Cached(t) \cap Cached(u) = {}

\* The size that will be given to munmap is the mapping's extent, not the size
\* of the last request served from it.
ExtentRemembered ==
  /\ \A m \in Live : header[m] = extent[m]
  /\ \A t \in Threads : \A i \in DOMAIN cache[t] : cache[t][i].size = extent[cache[t][i].map]

\* The byte counter is the sum of the entries, within the limit, and no more
\* entries than slots: the accounting `validate' asserts to be exact.
CacheAccounted ==
  \A t \in Threads :
    /\ bytes[t] = Pages(cache[t], Len(cache[t]))
    /\ bytes[t] <= MaxCacheBytes
    /\ Len(cache[t]) <= CacheSlots

\* alloc_zeroed returns zeros, although it leaves a fresh mapping to the kernel
\* and the cache hands stale ones out.
ZeroedIsZero == \A m \in Live : obj[m].zeroed => content[m] = "zero"

\* A reused mapping is large enough and wastes no more than the tolerance, however
\* often it went round the cache.
WasteBounded ==
  \A m \in Live : obj[m].size <= extent[m] /\ extent[m] - obj[m].size <= Tolerance

\* A thread's cache serves the instance its slot is bound to: what it holds was
\* freed through that instance, and a thread without a PerThreadHeap has none.
CacheServesItsHeap ==
  [][\A t \in Threads :
       LET stored == MapsOf(cache'[t]) \ Cached(t)
       IN /\ \A m \in stored : obj[m].heap = slot'[t]
          /\ slot'[t] # slot[t] => MapsOf(cache'[t]) = {}]_vars
=============================================================================
