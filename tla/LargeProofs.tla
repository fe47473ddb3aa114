----------------------------- MODULE LargeProofs -----------------------------
(***************************************************************************)
(* The large-object path keeps its mappings and its accounting, for every  *)
(* number of threads, instances, mappings and cache slots, and every       *)
(* limit, tolerance and set of sizes.                                      *)
(***************************************************************************)
EXTENDS LargeObjects, CacheProofs, FiniteSetTheorems

\* munmap gives back what the entries describe, when they describe it exactly.
LEMMA UnmapIs ==
  ASSUME NEW es \in Seq(Entries), NEW ext \in [Maps -> Nat], Distinct(es),
         \A i \in DOMAIN es : es[i].size = ext[es[i].map]
  PROVE  /\ Unmap(ext, es) \in [Maps -> Nat]
         /\ \A m \in Maps : Unmap(ext, es)[m] = IF m \in MapsOf(es) THEN 0 ELSE ext[m]
<1>1. ASSUME NEW m \in Maps, m \in MapsOf(es)
      PROVE  ext[m] - es[CHOOSE i \in DOMAIN es : es[i].map = m].size = 0
  <2>1. \E i \in DOMAIN es : es[i].map = m
    BY <1>1 DEF MapsOf
  <2>2. PICK i : i = CHOOSE j \in DOMAIN es : es[j].map = m
    OBVIOUS
  <2>3. i \in DOMAIN es /\ es[i].map = m
    BY <2>1, <2>2
  <2>4. es[i].size = ext[m] /\ ext[m] \in Nat
    BY <2>3
  <2> QED BY <2>2, <2>4
<1>2. ASSUME NEW m \in Maps
      PROVE  Unmap(ext, es)[m] = IF m \in MapsOf(es) THEN 0 ELSE ext[m]
  <2>1. Unmap(ext, es)[m] = IF m \notin MapsOf(es) THEN ext[m]
                            ELSE ext[m] - es[CHOOSE i \in DOMAIN es : es[i].map = m].size
    BY Zenon DEF Unmap
  <2> QED BY <1>1, <2>1
<1>3. DOMAIN Unmap(ext, es) = Maps /\ Unmap(ext, es) = [m \in Maps |-> Unmap(ext, es)[m]]
  <2>1. ASSUME NEW f, NEW F(_), f = [m \in Maps |-> F(m)]
        PROVE  DOMAIN f = Maps /\ f = [m \in Maps |-> f[m]]
    BY <2>1
  <2> QED BY <2>1 DEF Unmap
<1>4. \A m \in Maps : Unmap(ext, es)[m] \in Nat
  <2>1. 0 \in Nat /\ \A m \in Maps : ext[m] \in Nat
    OBVIOUS
  <2> QED BY <1>2, <2>1, Zenon
<1>5. Unmap(ext, es) \in [Maps -> Nat]
  BY <1>3, <1>4, Zenon
<1> QED BY <1>2, <1>5

-----------------------------------------------------------------------------
(* The inductive invariant.                                                *)

Objects == {Free} \cup [state : {"live"}, heap : Heaps, size : Sizes, zeroed : BOOLEAN]

Slots == Heaps \cup {"none", "destroyed"}

\* An entry names a mapping that is there, in its full extent, and not the program's.
EntryOK(e, ext, ob) == e.size # 0 /\ e.size = ext[e.map] /\ ob[e.map] = Free

\* A thread's cache: its entries, its accounts and its limits.
CacheOK(es, total, s, ext, ob) ==
  /\ Distinct(es)
  /\ total = Pages(es, Len(es)) /\ total <= MaxCacheBytes /\ Len(es) <= CacheSlots
  /\ s \notin Heaps => es = <<>>
  /\ \A i \in DOMAIN es : EntryOK(es[i], ext, ob)

\* An object the program holds lies in a mapping that fits it and that its header
\* describes.
LiveOK(o, pages, hd, ct) ==
  o # Free => /\ hd = pages /\ pages # 0
              /\ o.size <= pages /\ pages - o.size <= Tolerance
              /\ o.zeroed => ct = "zero"

InvCaches == \A t \in Threads : CacheOK(cache[t], bytes[t], slot[t], extent, obj)

InvDisjoint == \A t, u \in Threads : t # u => MapsOf(cache[t]) \cap MapsOf(cache[u]) = {}

InvLive == \A m \in Maps : LiveOK(obj[m], extent[m], header[m], content[m])

\* A mapping has an owner.
InvOwned == \A m \in Maps : extent[m] # 0 => obj[m] # Free \/ \E t \in Threads : m \in MapsOf(cache[t])

Inv == TypeOK /\ InvCaches /\ InvDisjoint /\ InvLive /\ InvOwned

\* What the invariant says of an object and of a mapping.
LEMMA ObjectIs ==
  ASSUME TypeOK, NEW m \in Maps
  PROVE  /\ obj[m] \in Objects /\ extent[m] \in Nat /\ header[m] \in Nat
         /\ m \in Live <=> obj[m] # Free
         /\ obj[m] # Free => obj[m].heap \in Heaps /\ obj[m].size \in Sizes /\ obj[m].zeroed \in BOOLEAN
<1>1. obj[m] \in Objects /\ extent[m] \in Nat /\ header[m] \in Nat
  BY DEF TypeOK, Objects
<1>2. CASE obj[m] = Free
  <2>1. obj[m].state # "live"
    BY <1>2 DEF Free
  <2> QED BY <1>1, <1>2, <2>1 DEF Live
<1>3. CASE obj[m] # Free
  BY <1>1, <1>3 DEF Live, Objects
<1> QED BY <1>2, <1>3

\* What the invariant says of a thread's cache.
LEMMA CacheIs ==
  ASSUME Inv, NEW t \in Threads
  PROVE  /\ cache[t] \in Seq(Entries) /\ bytes[t] \in Nat /\ slot[t] \in Slots
         /\ Distinct(cache[t])
         /\ bytes[t] = Pages(cache[t], Len(cache[t]))
         /\ bytes[t] <= MaxCacheBytes /\ Len(cache[t]) <= CacheSlots
         /\ slot[t] \notin Heaps => cache[t] = <<>>
         /\ \A i \in DOMAIN cache[t] : EntryOK(cache[t][i], extent, obj)
         /\ MapsOf(cache[t]) \subseteq Maps
         /\ \A m \in MapsOf(cache[t]) : extent[m] # 0 /\ obj[m] = Free
<1>1. cache[t] \in Seq(Entries) /\ bytes[t] \in Nat /\ slot[t] \in Slots
  BY DEF Inv, TypeOK, Entries, Slots
<1>2. CacheOK(cache[t], bytes[t], slot[t], extent, obj)
  BY DEF Inv, InvCaches
<1>3. /\ Distinct(cache[t])
      /\ bytes[t] = Pages(cache[t], Len(cache[t]))
      /\ bytes[t] <= MaxCacheBytes /\ Len(cache[t]) <= CacheSlots
      /\ slot[t] \notin Heaps => cache[t] = <<>>
      /\ \A i \in DOMAIN cache[t] : EntryOK(cache[t][i], extent, obj)
  BY <1>2, Zenon DEF CacheOK
<1>4. \A i \in DOMAIN cache[t] : cache[t][i].map \in Maps
  BY <1>1, EntryAt
<1>5. MapsOf(cache[t]) \subseteq Maps
  BY <1>4 DEF MapsOf
<1>6. \A i \in DOMAIN cache[t] : extent[cache[t][i].map] # 0 /\ obj[cache[t][i].map] = Free
  BY <1>3 DEF EntryOK
<1>7. \A m \in MapsOf(cache[t]) : extent[m] # 0 /\ obj[m] = Free
  BY <1>6 DEF MapsOf
<1> QED BY <1>1, <1>3, <1>5, <1>7

\* A cache keeps its entries when their mappings are left alone.
LEMMA CacheStays ==
  ASSUME NEW es, NEW total, NEW s, NEW ext, NEW ob, NEW ext2, NEW ob2,
         CacheOK(es, total, s, ext, ob),
         \A m \in MapsOf(es) : ext2[m] = ext[m] /\ ob2[m] = ob[m]
  PROVE  CacheOK(es, total, s, ext2, ob2)
<1>1. \A i \in DOMAIN es : es[i].map \in MapsOf(es)
  BY DEF MapsOf
<1>2. \A i \in DOMAIN es : EntryOK(es[i], ext, ob)
  BY Zenon DEF CacheOK
<1>3. \A i \in DOMAIN es : EntryOK(es[i], ext2, ob2)
  BY <1>1, <1>2 DEF EntryOK
<1> QED BY <1>3, Zenon DEF CacheOK

\* A step of thread t that leaves it the cache es, and touches only the mappings M,
\* none of which another thread has in its cache.
LEMMA StepKeeps ==
  ASSUME Inv, NEW t \in Threads, NEW es \in Seq(Entries), NEW total \in Nat, NEW s \in Slots,
         NEW M \in SUBSET Maps,
         cache' = [cache EXCEPT ![t] = es], bytes' = [bytes EXCEPT ![t] = total],
         slot' = [slot EXCEPT ![t] = s],
         extent' \in [Maps -> Nat], header' \in [Maps -> Nat],
         content' \in [Maps -> {"zero", "stale"}], obj' \in [Maps -> Objects],
         \A m \in Maps \ M : /\ extent'[m] = extent[m] /\ header'[m] = header[m]
                             /\ content'[m] = content[m] /\ obj'[m] = obj[m],
         \A u \in Threads \ {t} : M \cap MapsOf(cache[u]) = {},
         CacheOK(es, total, s, extent', obj'),
         MapsOf(es) \subseteq MapsOf(cache[t]) \cup M,
         MapsOf(cache[t]) \subseteq MapsOf(es) \cup M,
         \A m \in M : /\ LiveOK(obj'[m], extent'[m], header'[m], content'[m])
                      /\ extent'[m] # 0 => obj'[m] # Free \/ m \in MapsOf(es)
  PROVE  Inv'
<1>1. cache \in [Threads -> Seq(Entries)] /\ bytes \in [Threads -> Nat] /\ slot \in [Threads -> Slots]
  BY DEF Inv, TypeOK, Entries, Slots
<1>2. /\ cache'[t] = es /\ bytes'[t] = total /\ slot'[t] = s
      /\ \A u \in Threads \ {t} : cache'[u] = cache[u] /\ bytes'[u] = bytes[u] /\ slot'[u] = slot[u]
  BY <1>1
<1>3. TypeOK'
  <2>1. cache' \in [Threads -> Seq(Entries)] /\ bytes' \in [Threads -> Nat] /\ slot' \in [Threads -> Slots]
    BY <1>1
  <2> QED BY <2>1 DEF TypeOK, Entries, Slots, Objects
<1>4. InvCaches'
  <2> SUFFICES ASSUME NEW u \in Threads
               PROVE  CacheOK(cache'[u], bytes'[u], slot'[u], extent', obj')
    BY DEF InvCaches
  <2>1. CASE u = t
    BY <1>2, <2>1
  <2>2. CASE u # t
    <3>1. CacheOK(cache[u], bytes[u], slot[u], extent, obj)
      BY DEF Inv, InvCaches
    <3>2. \A m \in MapsOf(cache[u]) : m \in Maps \ M
      BY <2>2, CacheIs
    <3>3. \A m \in MapsOf(cache[u]) : extent'[m] = extent[m] /\ obj'[m] = obj[m]
      BY <3>2
    <3>4. PICK ds, d, a, ext2, ob2 :
            ds = cache[u] /\ d = bytes[u] /\ a = slot[u] /\ ext2 = extent' /\ ob2 = obj'
      OBVIOUS
    <3>5. CacheOK(ds, d, a, ext2, ob2)
      <4>1. CacheOK(ds, d, a, extent, obj) /\ \A m \in MapsOf(ds) : ext2[m] = extent[m] /\ ob2[m] = obj[m]
        BY <3>1, <3>3, <3>4
      <4> QED BY <4>1, CacheStays
    <3> QED BY <1>2, <2>2, <3>4, <3>5
  <2> QED BY <2>1, <2>2
<1>5. InvDisjoint'
  <2>1. \A u \in Threads \ {t} : MapsOf(cache[t]) \cap MapsOf(cache[u]) = {}
    BY DEF Inv, InvDisjoint
  <2>2. ASSUME NEW u \in Threads \ {t} PROVE MapsOf(es) \cap MapsOf(cache[u]) = {}
    <3>1. MapsOf(cache[t]) \cap MapsOf(cache[u]) = {} /\ M \cap MapsOf(cache[u]) = {}
      BY <2>1
    <3> QED BY <3>1
  <2>3. \A u, v \in Threads \ {t} : u # v => MapsOf(cache[u]) \cap MapsOf(cache[v]) = {}
    BY DEF Inv, InvDisjoint
  <2> SUFFICES ASSUME NEW u \in Threads, NEW v \in Threads, u # v
               PROVE  MapsOf(cache'[u]) \cap MapsOf(cache'[v]) = {}
    BY DEF InvDisjoint
  <2>4. CASE u = t
    <3>1. cache'[u] = es /\ cache'[v] = cache[v] /\ v \in Threads \ {t}
      BY <1>2, <2>4
    <3> QED BY <2>2, <3>1
  <2>5. CASE v = t
    <3>1. cache'[v] = es /\ cache'[u] = cache[u] /\ u \in Threads \ {t}
      BY <1>2, <2>5
    <3>2. MapsOf(es) \cap MapsOf(cache[u]) = {}
      BY <2>2, <3>1
    <3> QED BY <3>1, <3>2
  <2>6. CASE u # t /\ v # t
    <3>1. cache'[v] = cache[v] /\ cache'[u] = cache[u]
      BY <1>2, <2>6
    <3> QED BY <2>3, <2>6, <3>1
  <2> QED BY <2>4, <2>5, <2>6
<1>6. InvLive'
  <2> SUFFICES ASSUME NEW m \in Maps
               PROVE  LiveOK(obj'[m], extent'[m], header'[m], content'[m])
    BY DEF InvLive
  <2>1. LiveOK(obj[m], extent[m], header[m], content[m])
    BY DEF Inv, InvLive
  <2> QED BY <2>1
<1>7. InvOwned'
  <2> SUFFICES ASSUME NEW m \in Maps, extent'[m] # 0, obj'[m] = Free
               PROVE  \E u \in Threads : m \in MapsOf(cache'[u])
    BY DEF InvOwned
  <2>1. CASE m \in M
    BY <1>2, <2>1
  <2>2. CASE m \notin M
    <3>1. extent[m] # 0 /\ obj[m] = Free
      BY <2>2
    <3>2. PICK u \in Threads : m \in MapsOf(cache[u])
      BY <3>1 DEF Inv, InvOwned
    <3> QED BY <1>2, <2>2, <3>2
  <2> QED BY <2>1, <2>2
<1> QED BY <1>3, <1>4, <1>5, <1>6, <1>7 DEF Inv

-----------------------------------------------------------------------------
(* alloc_large_tracked.                                                    *)

\* flush gives back the thread's mappings and no others.
LEMMA FlushIs ==
  ASSUME Inv, NEW t \in Threads, NEW ext, ext = Flushed(t)
  PROVE  /\ ext \in [Maps -> Nat]
         /\ \A m \in Maps : ext[m] = IF m \in MapsOf(cache[t]) THEN 0 ELSE extent[m]
<1>1. cache[t] \in Seq(Entries) /\ Distinct(cache[t]) /\ extent \in [Maps -> Nat]
  BY CacheIs DEF Inv, TypeOK
<1>2. \A i \in DOMAIN cache[t] : cache[t][i].size = extent[cache[t][i].map]
  BY CacheIs DEF EntryOK
<1>3. PICK es, x : es = cache[t] /\ x = extent
  OBVIOUS
<1>4. /\ Unmap(x, es) \in [Maps -> Nat]
      /\ \A m \in Maps : Unmap(x, es)[m] = IF m \in MapsOf(es) THEN 0 ELSE x[m]
  BY <1>1, <1>2, <1>3, UnmapIs
<1>5. ext = Unmap(x, es)
  BY <1>3 DEF Flushed
<1> QED BY <1>3, <1>4, <1>5

\* thread_heap leaves the thread its cache, or an empty one bound to h.
Begun(t, h, es, total, s, ext) ==
  \/ es = cache[t] /\ total = bytes[t] /\ s = slot[t] /\ ext = extent
  \/ es = <<>> /\ total = 0 /\ s = h /\ ext = Flushed(t)

\* Mappings of t that are no longer in its cache.
Dropped(t, es) == MapsOf(cache[t]) \ MapsOf(es)

\* Either way the thread has a cache in order, and what is not in it was unmapped.
LEMMA BegunIs ==
  ASSUME Inv, NEW t \in Threads, NEW h \in Heaps, NEW es, NEW total, NEW s, NEW ext,
         Begun(t, h, es, total, s, ext)
  PROVE  /\ es \in Seq(Entries) /\ total \in Nat /\ s \in Slots /\ ext \in [Maps -> Nat]
         /\ CacheOK(es, total, s, ext, obj)
         /\ MapsOf(es) \subseteq MapsOf(cache[t])
         /\ \A m \in Maps : ext[m] = IF m \in Dropped(t, es) THEN 0 ELSE extent[m]
         /\ Dropped(t, es) \subseteq Maps
         /\ \A m \in Dropped(t, es) : obj[m] = Free
<1>1. /\ cache[t] \in Seq(Entries) /\ bytes[t] \in Nat /\ slot[t] \in Slots
      /\ MapsOf(cache[t]) \subseteq Maps
      /\ \A m \in MapsOf(cache[t]) : obj[m] = Free
  BY CacheIs
<1>2. Dropped(t, es) \subseteq Maps /\ \A m \in Dropped(t, es) : obj[m] = Free
  BY <1>1 DEF Dropped
<1>3. CASE es = cache[t] /\ total = bytes[t] /\ s = slot[t] /\ ext = extent
  <2>1. CacheOK(es, total, s, ext, obj) /\ ext \in [Maps -> Nat]
    BY <1>3 DEF Inv, InvCaches, TypeOK
  <2>2. Dropped(t, es) = {}
    BY <1>3 DEF Dropped
  <2> QED BY <1>1, <1>2, <1>3, <2>1, <2>2
<1>4. CASE es = <<>> /\ total = 0 /\ s = h /\ ext = Flushed(t)
  <2>1. /\ ext \in [Maps -> Nat]
        /\ \A m \in Maps : ext[m] = IF m \in MapsOf(cache[t]) THEN 0 ELSE extent[m]
    BY <1>4, FlushIs
  <2>2. MapsOf(es) = {} /\ Dropped(t, es) = MapsOf(cache[t])
    BY <1>4, EmptyIs DEF Dropped
  <2>3. /\ total = Pages(es, Len(es)) /\ total <= MaxCacheBytes /\ Len(es) <= CacheSlots
        /\ Distinct(es) /\ DOMAIN es = {} /\ es \in Seq(Entries)
    BY <1>4, EmptyIs, LargeCacheAssumption
  <2>4. CacheOK(es, total, s, ext, obj)
    BY <1>4, <2>3 DEF CacheOK
  <2>5. total \in Nat /\ s \in Slots
    BY <1>4 DEF Slots
  <2> QED BY <1>2, <2>1, <2>2, <2>3, <2>4, <2>5
<1> QED BY <1>3, <1>4 DEF Begun

\* A cached mapping is reused.
Hit(t, h, size, zeroed, es, total, ext, i) ==
  /\ i # 0
  /\ cache' = [cache EXCEPT ![t] = SwapRemove(es, i)]
  /\ bytes' = [bytes EXCEPT ![t] = total - es[i].size]
  /\ header' = [header EXCEPT ![es[i].map] = es[i].size]
  /\ content' = [content EXCEPT ![es[i].map] = IF zeroed THEN "zero" ELSE @]
  /\ obj' = [obj EXCEPT ![es[i].map] = Held(h, size, zeroed)]
  /\ extent' = ext

\* mmap gives the mapping m.
Mapped(h, size, zeroed, ext, m) ==
  /\ ext[m] = 0
  /\ extent' = [ext EXCEPT ![m] = size]
  /\ header' = [header EXCEPT ![m] = size]
  /\ content' = [content EXCEPT ![m] = "zero"]
  /\ obj' = [obj EXCEPT ![m] = Held(h, size, zeroed)]

\* Nothing is reused; mmap succeeds or fails.
Miss(t, h, size, zeroed, es, total, ext) ==
  /\ cache' = [cache EXCEPT ![t] = es]
  /\ bytes' = [bytes EXCEPT ![t] = total]
  /\ \/ \E m \in Maps : Mapped(h, size, zeroed, ext, m)
     \/ extent' = ext /\ UNCHANGED <<header, content, obj>>

\* The ways an allocation can go.
LEMMA AllocShape ==
  ASSUME NEW t \in Threads, NEW h \in Heaps, NEW size \in Sizes, NEW zeroed \in BOOLEAN,
         AllocLarge(t, h, size, zeroed)
  PROVE  \E es, total, s, ext :
           /\ Begun(t, h, es, total, s, ext)
           /\ slot' = [slot EXCEPT ![t] = s]
           /\ s # slot[t] => es = <<>>
           /\ \/ Hit(t, h, size, zeroed, es, total, ext, TakeIndex(es, size))
              \/ Miss(t, h, size, zeroed, es, total, ext)
<1>1. PICK es, total, s, ext :
        /\ es = IF Rebound(t, h) THEN <<>> ELSE cache[t]
        /\ total = IF Rebound(t, h) THEN 0 ELSE bytes[t]
        /\ s = IF Rebound(t, h) THEN h ELSE slot[t]
        /\ ext = IF Rebound(t, h) THEN Flushed(t) ELSE extent
  OBVIOUS
<1>2. Begun(t, h, es, total, s, ext) /\ (s # slot[t] => es = <<>>)
  BY <1>1, Zenon DEF Begun
<1>3. PICK i : i = TakeIndex(es, size)
  OBVIOUS
<1>4. /\ slot' = [slot EXCEPT ![t] = s]
      /\ \/ /\ i # 0
            /\ cache' = [cache EXCEPT ![t] = SwapRemove(es, i)]
            /\ bytes' = [bytes EXCEPT ![t] = total - es[i].size]
            /\ header' = [header EXCEPT ![es[i].map] = HeaderSize(es[i], size)]
            /\ content' = [content EXCEPT ![es[i].map] = Scrubbed(@, zeroed)]
            /\ obj' = [obj EXCEPT ![es[i].map] = Held(h, size, zeroed)]
            /\ extent' = ext
         \/ /\ cache' = [cache EXCEPT ![t] = es]
            /\ bytes' = [bytes EXCEPT ![t] = total]
            /\ \/ \E m \in {a \in Maps : ext[a] = 0} :
                    /\ extent' = [ext EXCEPT ![m] = size]
                    /\ header' = [header EXCEPT ![m] = size]
                    /\ content' = [content EXCEPT ![m] = "zero"]
                    /\ obj' = [obj EXCEPT ![m] = Held(h, size, zeroed)]
               \/ extent' = ext /\ UNCHANGED <<header, content, obj>>
  BY <1>1, <1>3, Zenon DEF AllocLarge
<1>5. Hit(t, h, size, zeroed, es, total, ext, i) \/ Miss(t, h, size, zeroed, es, total, ext)
  BY <1>4, Zenon DEF Hit, Miss, Mapped, HeaderSize, Scrubbed
<1> QED BY <1>2, <1>3, <1>4, <1>5

\* What an allocation drops or is given is in no other thread's cache.
LEMMA NotTheirs ==
  ASSUME Inv, NEW t \in Threads, NEW h \in Heaps, NEW es, NEW total, NEW s, NEW ext,
         Begun(t, h, es, total, s, ext), NEW m \in Maps,
         m \in MapsOf(cache[t]) \/ ext[m] = 0, NEW u \in Threads \ {t}
  PROVE  (Dropped(t, es) \cup {m}) \cap MapsOf(cache[u]) = {}
<1>1. MapsOf(cache[t]) \cap MapsOf(cache[u]) = {}
  BY DEF Inv, InvDisjoint
<1>2. \A x \in MapsOf(cache[u]) : x \in Maps /\ extent[x] # 0 /\ x \notin Dropped(t, es)
  BY <1>1, CacheIs DEF Dropped
<1>3. \A x \in MapsOf(cache[u]) : ext[x] # 0
  BY <1>2, BegunIs
<1> QED BY <1>1, <1>2, <1>3

\* A cached mapping that is reused.
LEMMA HitKeeps ==
  ASSUME Inv, NEW t \in Threads, NEW h \in Heaps, NEW size \in Sizes, NEW zeroed \in BOOLEAN,
         NEW es, NEW total, NEW s, NEW ext, NEW i,
         Begun(t, h, es, total, s, ext), slot' = [slot EXCEPT ![t] = s],
         i = TakeIndex(es, size), Hit(t, h, size, zeroed, es, total, ext, i)
  PROVE  Inv'
<1>1. /\ es \in Seq(Entries) /\ total \in Nat /\ s \in Slots /\ ext \in [Maps -> Nat]
      /\ CacheOK(es, total, s, ext, obj)
      /\ MapsOf(es) \subseteq MapsOf(cache[t])
      /\ \A m \in Maps : ext[m] = IF m \in Dropped(t, es) THEN 0 ELSE extent[m]
      /\ Dropped(t, es) \subseteq Maps
      /\ \A m \in Dropped(t, es) : obj[m] = Free
  BY BegunIs
<1>2. size \in Nat /\ size # 0
  BY LargeAssumption
<1>3. i \in DOMAIN es /\ es[i].size >= size /\ es[i].size - size <= Tolerance
  BY <1>1, <1>2, TakeIndexIs DEF Hit
<1>4. PICK fs, e : fs = SwapRemove(es, i) /\ e = es[i]
  OBVIOUS
<1>5. e.map \in Maps /\ e.size \in Nat /\ e.map \in MapsOf(es)
  BY <1>1, <1>3, <1>4, EntryAt DEF MapsOf
<1>6. /\ Distinct(es) /\ total = Pages(es, Len(es)) /\ total <= MaxCacheBytes /\ Len(es) <= CacheSlots
      /\ s \notin Heaps => es = <<>>
      /\ \A j \in DOMAIN es : EntryOK(es[j], ext, obj)
  BY <1>1, Zenon DEF CacheOK
<1>7. e.size # 0 /\ e.size = ext[e.map] /\ obj[e.map] = Free
  BY <1>3, <1>4, <1>6 DEF EntryOK
<1>8. /\ fs \in Seq(Entries) /\ Len(fs) = Len(es) - 1
      /\ Within(fs, es) /\ Distinct(fs) /\ MapsOf(fs) = MapsOf(es) \ {e.map}
      /\ Pages(fs, Len(fs)) = total - e.size
  BY <1>1, <1>3, <1>4, <1>6, SwapRemoveIs
<1>9. /\ cache' = [cache EXCEPT ![t] = fs]
      /\ bytes' = [bytes EXCEPT ![t] = total - e.size]
      /\ header' = [header EXCEPT ![e.map] = e.size]
      /\ content' = [content EXCEPT ![e.map] = IF zeroed THEN "zero" ELSE @]
      /\ obj' = [obj EXCEPT ![e.map] = Held(h, size, zeroed)]
      /\ extent' = ext
  BY <1>4, Zenon DEF Hit
<1>10. /\ header \in [Maps -> Nat] /\ content \in [Maps -> {"zero", "stale"}] /\ obj \in [Maps -> Objects]
  BY DEF Inv, TypeOK, Objects
<1>11. PICK o : o = Held(h, size, zeroed)
  OBVIOUS
<1>12. o \in Objects /\ o.size = size /\ o.zeroed = zeroed
  BY <1>11 DEF Held, Objects
<1>13. /\ extent' \in [Maps -> Nat] /\ header' \in [Maps -> Nat]
       /\ content' \in [Maps -> {"zero", "stale"}] /\ obj' \in [Maps -> Objects]
  BY <1>1, <1>5, <1>9, <1>10, <1>11, <1>12
<1>14. /\ \A m \in Maps : m # e.map => /\ header'[m] = header[m] /\ content'[m] = content[m]
                                       /\ obj'[m] = obj[m]
       /\ header'[e.map] = e.size /\ obj'[e.map] = o
       /\ zeroed => content'[e.map] = "zero"
  BY <1>5, <1>9, <1>10, <1>11
<1>15. PICK d : d = total - e.size
  OBVIOUS
<1>16. d \in Nat /\ d <= MaxCacheBytes /\ Len(fs) <= CacheSlots /\ d = Pages(fs, Len(fs))
  <2>1. Pages(fs, Len(fs)) \in Nat /\ Len(es) \in Nat
    <3>1. Len(fs) \in Nat /\ Len(fs) \in 0 .. Len(fs) /\ Len(es) \in Nat
      BY <1>1, <1>8, EntryAt
    <3> QED BY <1>8, <3>1, PagesIs
  <2> QED BY <1>1, <1>5, <1>6, <1>8, <1>15, <2>1, LargeCacheAssumption
<1>17. s \in Heaps
  BY <1>3, <1>6, EmptyIs
<1>18. ASSUME NEW j \in DOMAIN fs PROVE EntryOK(fs[j], extent', obj')
  <2>1. PICK k \in DOMAIN es : fs[j] = es[k]
    BY <1>8 DEF Within
  <2>2. fs[j].map \in MapsOf(fs)
    BY DEF MapsOf
  <2>3. fs[j].map # e.map /\ fs[j].map \in Maps
    BY <1>8, <2>2, EntryAt
  <2>4. EntryOK(fs[j], ext, obj)
    BY <1>6, <2>1
  <2> QED BY <1>9, <1>14, <2>3, <2>4 DEF EntryOK
<1>19. CacheOK(fs, d, s, extent', obj')
  BY <1>8, <1>16, <1>17, <1>18 DEF CacheOK
<1>20. PICK M : M = Dropped(t, es) \cup {e.map}
  OBVIOUS
<1>21. /\ M \in SUBSET Maps
       /\ \A u \in Threads \ {t} : M \cap MapsOf(cache[u]) = {}
       /\ MapsOf(fs) \subseteq MapsOf(cache[t]) \cup M
       /\ MapsOf(cache[t]) \subseteq MapsOf(fs) \cup M
  <2>1. e.map \in MapsOf(cache[t])
    BY <1>1, <1>5
  <2>2. \A u \in Threads \ {t} : M \cap MapsOf(cache[u]) = {}
    BY <1>5, <1>20, <2>1, NotTheirs
  <2> QED BY <1>1, <1>5, <1>8, <1>20, <2>2 DEF Dropped
<1>22. \A m \in Maps \ M : /\ extent'[m] = extent[m] /\ header'[m] = header[m]
                           /\ content'[m] = content[m] /\ obj'[m] = obj[m]
  BY <1>1, <1>9, <1>14, <1>20
<1>23. ASSUME NEW m \in M
       PROVE  /\ LiveOK(obj'[m], extent'[m], header'[m], content'[m])
              /\ extent'[m] # 0 => obj'[m] # Free \/ m \in MapsOf(fs)
  <2>1. CASE m = e.map
    <3>1. o # Free
      BY <1>11 DEF Held, Free
    <3> QED BY <1>2, <1>3, <1>4, <1>5, <1>7, <1>9, <1>12, <1>14, <2>1, <3>1 DEF LiveOK
  <2>2. CASE m # e.map
    <3>1. m \in Dropped(t, es) /\ m \in Maps
      BY <1>1, <1>20, <2>2
    <3>2. obj'[m] = Free /\ extent'[m] = 0
      BY <1>1, <1>9, <1>14, <2>2, <3>1
    <3> QED BY <3>2 DEF LiveOK
  <2> QED BY <2>1, <2>2
<1>24. bytes' = [bytes EXCEPT ![t] = d]
  BY <1>9, <1>15
<1> QED BY <1>1, <1>8, <1>9, <1>13, <1>16, <1>19, <1>21, <1>22, <1>23, <1>24, StepKeeps

\* No cached mapping fits, and mmap succeeds or fails.
LEMMA MissKeeps ==
  ASSUME Inv, NEW t \in Threads, NEW h \in Heaps, NEW size \in Sizes, NEW zeroed \in BOOLEAN,
         NEW es, NEW total, NEW s, NEW ext,
         Begun(t, h, es, total, s, ext), slot' = [slot EXCEPT ![t] = s],
         Miss(t, h, size, zeroed, es, total, ext)
  PROVE  Inv'
<1>1. /\ es \in Seq(Entries) /\ total \in Nat /\ s \in Slots /\ ext \in [Maps -> Nat]
      /\ CacheOK(es, total, s, ext, obj)
      /\ MapsOf(es) \subseteq MapsOf(cache[t])
      /\ \A m \in Maps : ext[m] = IF m \in Dropped(t, es) THEN 0 ELSE extent[m]
      /\ Dropped(t, es) \subseteq Maps
      /\ \A m \in Dropped(t, es) : obj[m] = Free
  BY BegunIs
<1>2. size \in Nat /\ size # 0
  BY LargeAssumption
<1>3. cache' = [cache EXCEPT ![t] = es] /\ bytes' = [bytes EXCEPT ![t] = total]
  BY DEF Miss
<1>4. /\ header \in [Maps -> Nat] /\ content \in [Maps -> {"zero", "stale"}] /\ obj \in [Maps -> Objects]
  BY DEF Inv, TypeOK, Objects
<1>5. CASE \E m \in Maps : Mapped(h, size, zeroed, ext, m)
  <2>1. PICK a \in Maps : Mapped(h, size, zeroed, ext, a)
    BY <1>5
  <2>2. PICK o : o = Held(h, size, zeroed)
    OBVIOUS
  <2>3. o \in Objects /\ o.size = size /\ o.zeroed = zeroed /\ o # Free
    BY <2>2 DEF Held, Objects, Free
  <2>4. /\ ext[a] = 0
        /\ extent' = [ext EXCEPT ![a] = size] /\ header' = [header EXCEPT ![a] = size]
        /\ content' = [content EXCEPT ![a] = "zero"] /\ obj' = [obj EXCEPT ![a] = o]
    BY <2>1, <2>2 DEF Mapped
  <2>5. /\ extent' \in [Maps -> Nat] /\ header' \in [Maps -> Nat]
        /\ content' \in [Maps -> {"zero", "stale"}] /\ obj' \in [Maps -> Objects]
    BY <1>1, <1>2, <1>4, <2>3, <2>4
  <2>6. /\ extent'[a] = size /\ header'[a] = size /\ content'[a] = "zero" /\ obj'[a] = o
        /\ \A m \in Maps : m # a => /\ extent'[m] = ext[m] /\ header'[m] = header[m]
                                    /\ content'[m] = content[m] /\ obj'[m] = obj[m]
    BY <1>1, <1>4, <2>4
  <2>7. a \notin MapsOf(es)
    <3>1. \A i \in DOMAIN es : EntryOK(es[i], ext, obj)
      BY <1>1, Zenon DEF CacheOK
    <3>2. \A i \in DOMAIN es : ext[es[i].map] # 0
      BY <3>1 DEF EntryOK
    <3> QED BY <2>4, <3>2 DEF MapsOf
  <2>8. CacheOK(es, total, s, extent', obj')
    <3>1. PICK ext2, ob2 : ext2 = extent' /\ ob2 = obj'
      OBVIOUS
    <3>2. \A m \in MapsOf(es) : m \in Maps /\ m # a
      BY <1>1, <2>7, CacheIs
    <3>3. \A m \in MapsOf(es) : ext2[m] = ext[m] /\ ob2[m] = obj[m]
      BY <2>6, <3>1, <3>2
    <3>4. CacheOK(es, total, s, ext2, ob2)
      BY <1>1, <3>3, CacheStays
    <3> QED BY <3>1, <3>4
  <2>9. PICK M : M = Dropped(t, es) \cup {a}
    OBVIOUS
  <2>10. /\ M \in SUBSET Maps
         /\ \A u \in Threads \ {t} : M \cap MapsOf(cache[u]) = {}
         /\ MapsOf(es) \subseteq MapsOf(cache[t]) \cup M
         /\ MapsOf(cache[t]) \subseteq MapsOf(es) \cup M
    <3>1. \A u \in Threads \ {t} : M \cap MapsOf(cache[u]) = {}
      BY <2>4, <2>9, NotTheirs
    <3> QED BY <1>1, <2>9, <3>1 DEF Dropped
  <2>11. \A m \in Maps \ M : /\ extent'[m] = extent[m] /\ header'[m] = header[m]
                             /\ content'[m] = content[m] /\ obj'[m] = obj[m]
    BY <1>1, <2>6, <2>9
  <2>12. ASSUME NEW m \in M
         PROVE  /\ LiveOK(obj'[m], extent'[m], header'[m], content'[m])
                /\ extent'[m] # 0 => obj'[m] # Free \/ m \in MapsOf(es)
    <3>1. CASE m = a
      BY <1>2, <2>3, <2>6, <3>1, LargeCacheAssumption DEF LiveOK
    <3>2. CASE m # a
      <4>1. m \in Dropped(t, es) /\ m \in Maps
        BY <1>1, <2>9, <3>2
      <4>2. obj'[m] = Free /\ extent'[m] = 0
        BY <1>1, <2>6, <3>2, <4>1
      <4> QED BY <4>2 DEF LiveOK
    <3> QED BY <3>1, <3>2
  <2> QED BY <1>1, <1>3, <2>5, <2>8, <2>10, <2>11, <2>12, StepKeeps
<1>6. CASE extent' = ext /\ UNCHANGED <<header, content, obj>>
  <2>1. PICK M : M = Dropped(t, es)
    OBVIOUS
  <2>2. /\ M \in SUBSET Maps
        /\ \A u \in Threads \ {t} : M \cap MapsOf(cache[u]) = {}
        /\ MapsOf(es) \subseteq MapsOf(cache[t]) \cup M
        /\ MapsOf(cache[t]) \subseteq MapsOf(es) \cup M
    <3>1. \A u \in Threads \ {t} : MapsOf(cache[t]) \cap MapsOf(cache[u]) = {}
      BY DEF Inv, InvDisjoint
    <3>2. ASSUME NEW u \in Threads \ {t} PROVE M \cap MapsOf(cache[u]) = {}
      <4>1. MapsOf(cache[t]) \cap MapsOf(cache[u]) = {}
        BY <3>1
      <4> QED BY <2>1, <4>1 DEF Dropped
    <3> QED BY <1>1, <2>1, <3>2 DEF Dropped
  <2>3. \A m \in Maps \ M : /\ extent'[m] = extent[m] /\ header'[m] = header[m]
                            /\ content'[m] = content[m] /\ obj'[m] = obj[m]
    BY <1>1, <1>6, <2>1
  <2>4. ASSUME NEW m \in M
        PROVE  /\ LiveOK(obj'[m], extent'[m], header'[m], content'[m])
               /\ extent'[m] # 0 => obj'[m] # Free \/ m \in MapsOf(es)
    <3>1. m \in Maps /\ obj'[m] = Free /\ extent'[m] = 0
      BY <1>1, <1>6, <2>1, <2>4
    <3> QED BY <3>1 DEF LiveOK
  <2>5. /\ extent' \in [Maps -> Nat] /\ header' \in [Maps -> Nat]
        /\ content' \in [Maps -> {"zero", "stale"}] /\ obj' \in [Maps -> Objects]
        /\ CacheOK(es, total, s, extent', obj')
    <3>1. extent' = ext /\ header' = header /\ content' = content /\ obj' = obj
      BY <1>6
    <3> QED BY <1>1, <1>4, <3>1
  <2> QED BY <1>1, <1>3, <2>2, <2>3, <2>4, <2>5, StepKeeps
<1> QED BY <1>5, <1>6 DEF Miss

-----------------------------------------------------------------------------
(* dealloc_large.                                                          *)

\* What becomes of t's cache, of the mapping m freed and of the entries given up.
Freed(t, m, hs, d, gs) ==
  /\ hs \in Seq(Entries) /\ gs \in Seq(Entries) /\ d \in Nat
  /\ d = Pages(hs, Len(hs)) /\ d <= MaxCacheBytes /\ Len(hs) <= CacheSlots
  /\ slot[t] \notin Heaps => hs = <<>>
  /\ Distinct(hs) /\ Distinct(gs)
  /\ MapsOf(hs) \cap MapsOf(gs) = {}
  /\ MapsOf(hs) \cup MapsOf(gs) = MapsOf(cache[t]) \cup {m}
  /\ From(hs, cache[t], Entry(m, header[m])) /\ From(gs, cache[t], Entry(m, header[m]))

\* A freed mapping is stored, in the place of others or not, or it is unmapped; it
\* is stored only when the slot is bound to its instance.
LEMMA DeallocShape ==
  ASSUME Inv, NEW t \in Threads, NEW m \in Maps, DeallocLarge(t, m)
  PROVE  \E hs, d, gs :
           /\ Freed(t, m, hs, d, gs)
           /\ cache' = [cache EXCEPT ![t] = hs] /\ bytes' = [bytes EXCEPT ![t] = d]
           /\ extent' = Unmap(extent, gs)
           /\ content' = content \/ content' = [content EXCEPT ![m] = "zero"]
           /\ slot[t] # obj[m].heap => hs = cache[t]
<1>1. PICK size : size = header[m]
  OBVIOUS
<1>2. PICK put : put = IF MayCache(t, obj[m].heap) THEN Put(cache[t], bytes[t], m, size)
                       ELSE [entries |-> cache[t], bytes |-> bytes[t], unmapped |-> <<Entry(m, size)>>]
  OBVIOUS
<1>3. /\ m \in Live
      /\ cache' = [cache EXCEPT ![t] = put.entries] /\ bytes' = [bytes EXCEPT ![t] = put.bytes]
      /\ extent' = Unmap(extent, put.unmapped)
      /\ content' = content \/ content' = [content EXCEPT ![m] = "zero"]
  BY <1>1, <1>2, Zenon DEF DeallocLarge
<1>4. TypeOK
  BY DEF Inv
<1>5. size \in Nat /\ obj[m] # Free /\ obj[m].heap \in Heaps
  BY <1>1, <1>3, <1>4, ObjectIs
<1>6. PICK es : es = cache[t]
  OBVIOUS
<1>7. /\ es \in Seq(Entries) /\ bytes[t] \in Nat /\ Distinct(es)
      /\ bytes[t] = Pages(es, Len(es)) /\ bytes[t] <= MaxCacheBytes /\ Len(es) <= CacheSlots
      /\ slot[t] \notin Heaps => es = <<>>
      /\ m \notin MapsOf(es)
  BY <1>5, <1>6, CacheIs
<1>8. CASE MayCache(t, obj[m].heap)
  <2>1. put = Put(es, Pages(es, Len(es)), m, size)
    BY <1>2, <1>6, <1>7, <1>8
  <2>2. IsPut(put, es, m, size)
    BY <1>5, <1>7, <2>1, PutIs
  <2>3. slot[t] = obj[m].heap
    BY <1>8 DEF MayCache
  <2>4. Freed(t, m, put.entries, put.bytes, put.unmapped)
    BY <1>1, <1>5, <1>6, <2>2, <2>3, Zenon DEF Freed, IsPut
  <2> QED BY <1>3, <2>3, <2>4
<1>9. CASE ~ MayCache(t, obj[m].heap)
  <2>1. PICK gs : gs = <<Entry(m, size)>>
    OBVIOUS
  <2>2. put.entries = es /\ put.bytes = bytes[t] /\ put.unmapped = gs
    BY <1>2, <1>6, <1>9, <2>1
  <2>3. IsMore(gs, <<>>, m, size)
    <3>1. <<>> \o <<Entry(m, size)>> = <<Entry(m, size)>>
      OBVIOUS
    <3>2. IsMore(<<>> \o <<Entry(m, size)>>, <<>>, m, size)
      BY <1>5, EmptyIs, MoreIs
    <3> QED BY <2>1, <3>1, <3>2
  <2>4. gs \in Seq(Entries) /\ Len(gs) = 1 /\ MapsOf(gs) = {m} /\ Distinct(gs) /\ gs[1] = Entry(m, size)
    BY <2>3, EmptyIs DEF IsMore
  <2>5. From(es, es, Entry(m, size))
    BY DEF From
  <2>6. From(gs, es, Entry(m, size))
    <3>1. DOMAIN gs = {1}
      BY <2>4, EntryAt
    <3> QED BY <2>4, <3>1 DEF From
  <2>7. MapsOf(es) \cap MapsOf(gs) = {} /\ MapsOf(es) \cup MapsOf(gs) = MapsOf(es) \cup {m}
    BY <1>7, <2>4
  <2>8. Freed(t, m, es, bytes[t], gs)
    BY <1>1, <1>6, <1>7, <2>4, <2>5, <2>6, <2>7, Zenon DEF Freed
  <2> QED BY <1>3, <1>6, <2>2, <2>8
<1> QED BY <1>8, <1>9

\* Freeing keeps the invariant.
LEMMA DeallocKeeps ==
  ASSUME Inv, NEW t \in Threads, NEW m \in Maps, DeallocLarge(t, m)
  PROVE  Inv'
<1>1. PICK hs, d, gs :
        /\ Freed(t, m, hs, d, gs)
        /\ cache' = [cache EXCEPT ![t] = hs] /\ bytes' = [bytes EXCEPT ![t] = d]
        /\ extent' = Unmap(extent, gs)
        /\ content' = content \/ content' = [content EXCEPT ![m] = "zero"]
  BY DeallocShape
<1>2. obj' = [obj EXCEPT ![m] = Free] /\ header' = header /\ slot' = slot /\ m \in Live
  BY Zenon DEF DeallocLarge
<1>3. /\ extent \in [Maps -> Nat] /\ header \in [Maps -> Nat] /\ content \in [Maps -> {"zero", "stale"}]
      /\ obj \in [Maps -> Objects] /\ slot \in [Threads -> Slots]
  BY DEF Inv, TypeOK, Objects, Slots
<1>4. obj[m] # Free /\ header[m] = extent[m] /\ extent[m] # 0 /\ extent[m] \in Nat
  <2>1. TypeOK /\ LiveOK(obj[m], extent[m], header[m], content[m])
    BY DEF Inv, InvLive
  <2>2. obj[m] # Free
    BY <1>2, <2>1, ObjectIs
  <2> QED BY <1>3, <2>1, <2>2 DEF LiveOK
<1>5. PICK es, e : es = cache[t] /\ e = Entry(m, header[m])
  OBVIOUS
<1>6. /\ es \in Seq(Entries) /\ MapsOf(es) \subseteq Maps
      /\ \A i \in DOMAIN es : EntryOK(es[i], extent, obj)
      /\ \A x \in MapsOf(es) : extent[x] # 0 /\ obj[x] = Free
  BY <1>5, CacheIs
<1>7. /\ hs \in Seq(Entries) /\ gs \in Seq(Entries) /\ d \in Nat
      /\ d = Pages(hs, Len(hs)) /\ d <= MaxCacheBytes /\ Len(hs) <= CacheSlots
      /\ slot[t] \notin Heaps => hs = <<>>
      /\ Distinct(hs) /\ Distinct(gs)
      /\ MapsOf(hs) \cap MapsOf(gs) = {}
      /\ MapsOf(hs) \cup MapsOf(gs) = MapsOf(es) \cup {m}
      /\ From(hs, es, e) /\ From(gs, es, e)
  BY <1>1, <1>5, Zenon DEF Freed
<1>8. e.map = m /\ e.size = extent[m]
  BY <1>4, <1>5 DEF Entry
<1>9. /\ \A i \in DOMAIN hs : hs[i].size # 0 /\ hs[i].size = extent[hs[i].map]
      /\ \A i \in DOMAIN gs : gs[i].size = extent[gs[i].map]
  BY <1>4, <1>6, <1>7, <1>8 DEF From, EntryOK
<1>10. PICK ext : ext = extent'
  OBVIOUS
<1>11. ext \in [Maps -> Nat] /\ \A x \in Maps : ext[x] = IF x \in MapsOf(gs) THEN 0 ELSE extent[x]
  <2>1. PICK old : old = extent
    OBVIOUS
  <2>2. /\ Unmap(old, gs) \in [Maps -> Nat]
        /\ \A x \in Maps : Unmap(old, gs)[x] = IF x \in MapsOf(gs) THEN 0 ELSE old[x]
    <3>1. /\ old \in [Maps -> Nat] /\ gs \in Seq(Entries) /\ Distinct(gs)
          /\ \A i \in DOMAIN gs : gs[i].size = old[gs[i].map]
      BY <1>3, <1>7, <1>9, <2>1
    <3> QED BY <3>1, UnmapIs, Zenon
  <2>3. ext = Unmap(old, gs)
    BY <1>1, <1>10, <2>1
  <2> QED BY <2>1, <2>2, <2>3
<1>12. /\ obj' \in [Maps -> Objects] /\ content' \in [Maps -> {"zero", "stale"}]
       /\ obj'[m] = Free
       /\ \A x \in Maps : x # m => obj'[x] = obj[x] /\ content'[x] = content[x]
  BY <1>1, <1>2, <1>3 DEF Objects
<1>13. \A x \in MapsOf(es) \cup {m} : x \in Maps /\ obj'[x] = Free
  BY <1>6, <1>12
<1>14. ASSUME NEW i \in DOMAIN hs PROVE EntryOK(hs[i], ext, obj')
  <2>1. hs[i].map \in MapsOf(hs)
    BY DEF MapsOf
  <2>2. hs[i].map \notin MapsOf(gs) /\ hs[i].map \in MapsOf(es) \cup {m}
    BY <1>7, <2>1
  <2> QED BY <1>9, <1>11, <1>13, <2>2 DEF EntryOK
<1>15. CacheOK(hs, d, slot[t], ext, obj')
  BY <1>7, <1>14 DEF CacheOK
<1>16. PICK M : M = MapsOf(gs) \cup {m}
  OBVIOUS
<1>17. /\ M \in SUBSET Maps
       /\ MapsOf(hs) \subseteq MapsOf(es) \cup M /\ MapsOf(es) \subseteq MapsOf(hs) \cup M
       /\ M \subseteq MapsOf(es) \cup {m}
  BY <1>6, <1>7, <1>16
<1>18. ASSUME NEW u \in Threads \ {t} PROVE M \cap MapsOf(cache[u]) = {}
  <2>1. MapsOf(es) \cap MapsOf(cache[u]) = {}
    BY <1>5 DEF Inv, InvDisjoint
  <2>2. m \notin MapsOf(cache[u])
    BY <1>4, CacheIs
  <2> QED BY <1>17, <2>1, <2>2
<1>19. \A x \in Maps \ M : /\ extent'[x] = extent[x] /\ header'[x] = header[x]
                           /\ content'[x] = content[x] /\ obj'[x] = obj[x]
  BY <1>2, <1>10, <1>11, <1>12, <1>16
<1>20. ASSUME NEW x \in M
       PROVE  /\ LiveOK(obj'[x], extent'[x], header'[x], content'[x])
              /\ extent'[x] # 0 => obj'[x] # Free \/ x \in MapsOf(hs)
  <2>1. x \in Maps /\ obj'[x] = Free
    BY <1>13, <1>17
  <2>2. LiveOK(obj'[x], extent'[x], header'[x], content'[x])
    BY <2>1 DEF LiveOK
  <2>3. ASSUME extent'[x] # 0 PROVE x \in MapsOf(hs)
    <3>1. x \notin MapsOf(gs)
      BY <1>10, <1>11, <2>1, <2>3
    <3> QED BY <1>7, <1>17, <3>1
  <2> QED BY <2>2, <2>3
<1>21. PICK s : s = slot[t]
  OBVIOUS
<1>22. slot' = [slot EXCEPT ![t] = s] /\ s \in Slots /\ CacheOK(hs, d, s, extent', obj')
  BY <1>2, <1>3, <1>10, <1>15, <1>21
<1>23. /\ extent' \in [Maps -> Nat] /\ header' \in [Maps -> Nat]
       /\ MapsOf(hs) \subseteq MapsOf(cache[t]) \cup M /\ MapsOf(cache[t]) \subseteq MapsOf(hs) \cup M
       /\ M \in SUBSET Maps /\ hs \in Seq(Entries) /\ d \in Nat
  BY <1>2, <1>3, <1>5, <1>7, <1>10, <1>11, <1>17
<1> QED BY <1>1, <1>12, <1>18, <1>19, <1>20, <1>22, <1>23, StepKeeps

-----------------------------------------------------------------------------
(* The TLS slot and the program's writes.                                  *)

\* A thread that exits gives its mappings back.
LEMMA ExitKeeps ==
  ASSUME Inv, NEW t \in Threads, ThreadExit(t)
  PROVE  Inv'
<1>1. /\ slot' = [slot EXCEPT ![t] = "destroyed"] /\ extent' = Flushed(t)
      /\ cache' = [cache EXCEPT ![t] = <<>>] /\ bytes' = [bytes EXCEPT ![t] = 0]
      /\ header' = header /\ content' = content /\ obj' = obj
  BY DEF ThreadExit
<1>2. PICK ext : ext = Flushed(t)
  OBVIOUS
<1>3. /\ ext \in [Maps -> Nat]
      /\ \A m \in Maps : ext[m] = IF m \in MapsOf(cache[t]) THEN 0 ELSE extent[m]
  BY <1>2, FlushIs
<1>4. /\ header \in [Maps -> Nat] /\ content \in [Maps -> {"zero", "stale"}] /\ obj \in [Maps -> Objects]
  BY DEF Inv, TypeOK, Objects
<1>5. /\ MapsOf(cache[t]) \in SUBSET Maps
      /\ \A m \in MapsOf(cache[t]) : obj[m] = Free
      /\ \A u \in Threads \ {t} : MapsOf(cache[t]) \cap MapsOf(cache[u]) = {}
  BY CacheIs DEF Inv, InvDisjoint
<1>6. CacheOK(<<>>, 0, "destroyed", ext, obj)
  BY EmptyIs, LargeCacheAssumption DEF CacheOK
<1>7. PICK M : M = MapsOf(cache[t])
  OBVIOUS
<1>8. ASSUME NEW m \in M
      PROVE  /\ LiveOK(obj'[m], extent'[m], header'[m], content'[m])
             /\ extent'[m] # 0 => obj'[m] # Free \/ m \in MapsOf(<<>>)
  <2>1. obj'[m] = Free /\ extent'[m] = 0
    BY <1>1, <1>2, <1>3, <1>5, <1>7
  <2> QED BY <2>1 DEF LiveOK
<1>9. PICK es, total, s : es = <<>> /\ total = 0 /\ s = "destroyed"
  OBVIOUS
<1>10. /\ es \in Seq(Entries) /\ total \in Nat /\ s \in Slots /\ MapsOf(es) = {}
       /\ M \in SUBSET Maps /\ \A u \in Threads \ {t} : M \cap MapsOf(cache[u]) = {}
  BY <1>5, <1>7, <1>9, EmptyIs DEF Slots
<1>11. /\ MapsOf(es) \subseteq MapsOf(cache[t]) \cup M /\ MapsOf(cache[t]) \subseteq MapsOf(es) \cup M
       /\ CacheOK(es, total, s, extent', obj')
  BY <1>1, <1>2, <1>6, <1>7, <1>9, <1>10
<1>12. /\ extent' \in [Maps -> Nat] /\ header' \in [Maps -> Nat]
       /\ content' \in [Maps -> {"zero", "stale"}] /\ obj' \in [Maps -> Objects]
       /\ \A m \in Maps \ M : /\ extent'[m] = extent[m] /\ header'[m] = header[m]
                              /\ content'[m] = content[m] /\ obj'[m] = obj[m]
  BY <1>1, <1>2, <1>3, <1>4, <1>7
<1>13. /\ cache' = [cache EXCEPT ![t] = es] /\ bytes' = [bytes EXCEPT ![t] = total]
       /\ slot' = [slot EXCEPT ![t] = s]
       /\ \A m \in M : /\ LiveOK(obj'[m], extent'[m], header'[m], content'[m])
                       /\ extent'[m] # 0 => obj'[m] # Free \/ m \in MapsOf(es)
  BY <1>1, <1>8, <1>9
<1> QED BY <1>10, <1>11, <1>12, <1>13, StepKeeps

\* A new thread has an empty cache.
LEMMA StartKeeps ==
  ASSUME Inv, NEW t \in Threads, ThreadStart(t)
  PROVE  Inv'
<1>1. /\ slot' = [slot EXCEPT ![t] = "none"] /\ slot[t] = "destroyed"
      /\ extent' = extent /\ header' = header /\ content' = content /\ obj' = obj
      /\ cache' = cache /\ bytes' = bytes
  BY DEF ThreadStart
<1>2. slot \in [Threads -> Slots]
  BY DEF Inv, TypeOK, Slots
<1>3. TypeOK'
  <2>1. slot' \in [Threads -> Slots]
    BY <1>1, <1>2 DEF Slots
  <2> QED BY <1>1, <2>1 DEF Inv, TypeOK, Slots
<1>4. InvCaches'
  <2> SUFFICES ASSUME NEW u \in Threads
               PROVE  CacheOK(cache[u], bytes[u], slot'[u], extent, obj)
    BY <1>1 DEF InvCaches
  <2>1. CacheOK(cache[u], bytes[u], slot[u], extent, obj)
    BY DEF Inv, InvCaches
  <2>2. slot'[u] \notin Heaps => slot[u] \notin Heaps
    BY <1>1, <1>2, LargeAssumption
  <2> QED BY <2>1, <2>2 DEF CacheOK
<1>5. InvDisjoint' /\ InvLive' /\ InvOwned'
  BY <1>1 DEF Inv, InvDisjoint, InvLive, InvOwned
<1> QED BY <1>3, <1>4, <1>5 DEF Inv

\* The program writes to an object it holds.
LEMMA WriteKeeps ==
  ASSUME Inv, NEW m \in Maps, Write(m)
  PROVE  Inv'
<1>1. /\ m \in Live
      /\ content' = [content EXCEPT ![m] = "stale"] /\ obj' = [obj EXCEPT ![m].zeroed = FALSE]
      /\ extent' = extent /\ header' = header /\ slot' = slot /\ cache' = cache /\ bytes' = bytes
  BY DEF Write
<1>2. content \in [Maps -> {"zero", "stale"}] /\ obj \in [Maps -> Objects] /\ TypeOK
  BY DEF Inv, TypeOK, Objects
<1>3. obj[m] # Free /\ obj[m] \in Objects
  BY <1>1, <1>2, ObjectIs
<1>4. PICK o : o = [obj[m] EXCEPT !.zeroed = FALSE]
  OBVIOUS
<1>5. o \in Objects /\ o # Free /\ o.size = obj[m].size /\ o.zeroed = FALSE
  <2>1. obj[m] \in [state : {"live"}, heap : Heaps, size : Sizes, zeroed : BOOLEAN]
    BY <1>3 DEF Objects
  <2>2. o \in [state : {"live"}, heap : Heaps, size : Sizes, zeroed : BOOLEAN]
    BY <1>4, <2>1
  <2>3. o.size = obj[m].size /\ o.zeroed = FALSE /\ o.state = "live"
    BY <1>4, <2>1
  <2>4. Free.state # "live"
    BY DEF Free
  <2> QED BY <2>2, <2>3, <2>4 DEF Objects
<1>6. obj' = [obj EXCEPT ![m] = o]
  BY <1>1, <1>4
<1>7. /\ obj' \in [Maps -> Objects] /\ content' \in [Maps -> {"zero", "stale"}] /\ obj'[m] = o
      /\ \A x \in Maps : x # m => obj'[x] = obj[x] /\ content'[x] = content[x]
  BY <1>1, <1>2, <1>5, <1>6
<1>8. TypeOK'
  BY <1>1, <1>2, <1>7 DEF TypeOK, Objects
<1>9. InvCaches'
  <2> SUFFICES ASSUME NEW t \in Threads
               PROVE  CacheOK(cache[t], bytes[t], slot[t], extent, obj')
    BY <1>1 DEF InvCaches
  <2>1. PICK es, d, s, ob2, ob, ext :
          es = cache[t] /\ d = bytes[t] /\ s = slot[t] /\ ob2 = obj' /\ ob = obj /\ ext = extent
    OBVIOUS
  <2>2. CacheOK(es, d, s, ext, ob)
    BY <2>1 DEF Inv, InvCaches
  <2>3. \A x \in MapsOf(es) : ext[x] = ext[x] /\ ob2[x] = ob[x]
    <3>1. \A x \in MapsOf(es) : x \in Maps /\ x # m
      BY <1>3, <2>1, CacheIs
    <3> QED BY <1>7, <2>1, <3>1
  <2>4. CacheOK(es, d, s, ext, ob2)
    BY <2>2, <2>3, CacheStays
  <2> QED BY <2>1, <2>4
<1>10. InvDisjoint'
  BY <1>1 DEF Inv, InvDisjoint
<1>11. InvLive'
  <2> SUFFICES ASSUME NEW x \in Maps PROVE LiveOK(obj'[x], extent[x], header[x], content'[x])
    BY <1>1 DEF InvLive
  <2>1. LiveOK(obj[x], extent[x], header[x], content[x])
    BY DEF Inv, InvLive
  <2>2. CASE x = m
    BY <1>3, <1>5, <1>7, <2>1, <2>2 DEF LiveOK
  <2>3. CASE x # m
    BY <1>7, <2>1, <2>3
  <2> QED BY <2>2, <2>3
<1>12. InvOwned'
  <2> SUFFICES ASSUME NEW x \in Maps, extent[x] # 0, obj'[x] = Free
               PROVE  \E t \in Threads : x \in MapsOf(cache[t])
    BY <1>1 DEF InvOwned
  <2>1. obj[x] = Free
    BY <1>5, <1>7
  <2> QED BY <2>1 DEF Inv, InvOwned
<1> QED BY <1>8, <1>9, <1>10, <1>11, <1>12 DEF Inv

-----------------------------------------------------------------------------
(* The theorems.                                                           *)

\* Nothing is mapped and no cache has entries at the start.
LEMMA InitInv == Init => Inv
<1> SUFFICES ASSUME Init PROVE Inv
  OBVIOUS
<1>1. TypeOK
  BY EmptyIs DEF Init, TypeOK, Entries
<1>2. InvCaches
  <2> SUFFICES ASSUME NEW t \in Threads PROVE CacheOK(cache[t], bytes[t], slot[t], extent, obj)
    BY DEF InvCaches
  <2>1. cache[t] = <<>> /\ bytes[t] = 0
    BY DEF Init
  <2>2. CacheOK(<<>>, 0, slot[t], extent, obj)
    BY EmptyIs, LargeCacheAssumption DEF CacheOK
  <2> QED BY <2>1, <2>2
<1>3. InvDisjoint
  BY EmptyIs DEF Init, InvDisjoint
<1>4. InvLive /\ InvOwned
  BY DEF Init, InvLive, LiveOK, InvOwned
<1> QED BY <1>1, <1>2, <1>3, <1>4 DEF Inv

\* Every step keeps the invariant.
LEMMA StepInv == Inv /\ [Next]_vars => Inv'
<1> SUFFICES ASSUME Inv, [Next]_vars PROVE Inv'
  OBVIOUS
<1>1. ASSUME NEW t \in Threads, NEW h \in Heaps, NEW size \in Sizes, NEW zeroed \in BOOLEAN,
             AllocLarge(t, h, size, zeroed)
      PROVE  Inv'
  <2>1. PICK es, total, s, ext :
          /\ Begun(t, h, es, total, s, ext)
          /\ slot' = [slot EXCEPT ![t] = s]
          /\ \/ Hit(t, h, size, zeroed, es, total, ext, TakeIndex(es, size))
             \/ Miss(t, h, size, zeroed, es, total, ext)
    BY <1>1, AllocShape
  <2> QED BY <2>1, HitKeeps, MissKeeps
<1>2. ASSUME NEW m \in Maps, Write(m) PROVE Inv'
  BY <1>2, WriteKeeps
<1>3. ASSUME NEW m \in Maps, NEW t \in Threads, DeallocLarge(t, m) PROVE Inv'
  BY <1>3, DeallocKeeps
<1>4. ASSUME NEW t \in Threads, ThreadExit(t) PROVE Inv'
  BY <1>4, ExitKeeps
<1>5. ASSUME NEW t \in Threads, ThreadStart(t) PROVE Inv'
  BY <1>5, StartKeeps
<1>6. CASE UNCHANGED vars
  BY <1>6 DEF vars, Inv, TypeOK, Live, InvCaches, InvDisjoint, InvLive, InvOwned
<1> QED BY <1>1, <1>2, <1>3, <1>4, <1>5, <1>6 DEF Next

\* The invariant holds of every behaviour of the large-object path: every
\* interleaving of allocations, frees, writes, instance switches and thread exits.
THEOREM Safety == Spec => []Inv
<1>1. Init => Inv
  BY InitInv
<1>2. Inv /\ [Next]_vars => Inv'
  BY StepInv
<1> QED BY <1>1, <1>2, PTL DEF Spec

\* Every variable keeps to its values: header and bytes never go below zero, and
\* the cache holds mappings with their sizes.
THEOREM TypeCorrect == Spec => []TypeOK
<1>1. Inv => TypeOK
  BY DEF Inv
<1> QED BY <1>1, Safety, PTL

\* A cache has as many mappings as entries.
LEMMA MapsCount ==
  ASSUME NEW es \in Seq(Entries), Distinct(es)
  PROVE  Cardinality(MapsOf(es)) = Len(es)
<1> DEFINE n == Len(es)
           f == [i \in 1 .. n |-> es[i].map]
<1>1. n \in Nat /\ DOMAIN es = 1 .. n
  BY EntryAt
<1>2. \A x : x \in MapsOf(es) <=> \E i \in 1 .. n : es[i].map = x
  BY <1>1 DEF MapsOf
<1>3. f \in Bijection(1 .. n, MapsOf(es))
  <2>1. f \in [1 .. n -> MapsOf(es)]
    BY <1>2
  <2>2. \A i, j \in 1 .. n : f[i] = f[j] => i = j
    BY <1>1 DEF Distinct
  <2>3. \A x \in MapsOf(es) : \E i \in 1 .. n : f[i] = x
    BY <1>2
  <2> HIDE DEF f
  <2> QED BY <2>1, <2>2, <2>3 DEF Bijection, Injection, Surjection, IsInjective
<1>4. 1 \in Int /\ n \in Int /\ IsFiniteSet(1 .. n) /\ Cardinality(1 .. n) = IF 1 > n THEN 0 ELSE n - 1 + 1
  BY <1>1, FS_Interval
<1>5. Cardinality(1 .. n) = n
  BY <1>1, <1>4
<1>6. Cardinality(MapsOf(es)) = Cardinality(1 .. n)
  <2>1. ExistsBijection(1 .. n, MapsOf(es))
    BY <1>3 DEF ExistsBijection
  <2> HIDE DEF n
  <2> QED BY <1>4, <2>1, FS_Bijection
<1> QED BY <1>5, <1>6

\* Nothing is leaked, unmapped under an owner or handed out twice: a mapping is
\* there exactly when the program has an object in it or one thread one entry for it.
THEOREM OneOwner == Spec => []OwnedOnce
<1>1. ASSUME Inv PROVE OwnedOnce
  <2>1. TypeOK
    BY <1>1 DEF Inv
  <2>2. \A m \in Maps : m \in Live <=> obj[m] # Free
    BY <2>1, ObjectIs
  <2>3. \A t \in Threads : /\ Cached(t) \subseteq Maps
                           /\ \A m \in Cached(t) : extent[m] # 0 /\ obj[m] = Free
    BY <1>1, CacheIs DEF Cached
  <2>4. \A m \in Maps : m \in Live => extent[m] # 0
    BY <1>1, <2>2 DEF Inv, InvLive, LiveOK
  <2>5. \A m \in Maps : extent[m] # 0 => m \in Live \/ \E t \in Threads : m \in Cached(t)
    BY <1>1, <2>2 DEF Inv, InvOwned, Cached
  <2>6. Live \subseteq Maps
    BY DEF Live
  <2>7. {m \in Maps : extent[m] # 0} = Live \cup (UNION {Cached(t) : t \in Threads})
    BY <2>3, <2>4, <2>5, <2>6
  <2>8. ASSUME NEW t \in Threads
        PROVE  /\ Cached(t) \cap Live = {}
               /\ Cardinality(Cached(t)) = Len(cache[t])
               /\ \A u \in Threads \ {t} : Cached(t) \cap Cached(u) = {}
    <3>1. Cached(t) \cap Live = {}
      BY <2>2, <2>3
    <3>2. Cardinality(Cached(t)) = Len(cache[t])
      <4>1. cache[t] \in Seq(Entries) /\ Distinct(cache[t])
        BY <1>1, CacheIs
      <4>2. Cardinality(MapsOf(cache[t])) = Len(cache[t])
        BY <4>1, MapsCount
      <4> QED BY <4>2 DEF Cached
    <3>3. \A u \in Threads \ {t} : Cached(t) \cap Cached(u) = {}
      BY <1>1 DEF Inv, InvDisjoint, Cached
    <3> QED BY <3>1, <3>2, <3>3
  <2> QED BY <2>7, <2>8 DEF OwnedOnce
<1> QED BY <1>1, Safety, PTL

\* What munmap will be told is the extent of the mapping, however often the mapping
\* was reused for a smaller request.
THEOREM ExtentKept == Spec => []ExtentRemembered
<1>1. ASSUME Inv PROVE ExtentRemembered
  <2>1. TypeOK
    BY <1>1 DEF Inv
  <2>2. \A m \in Live : m \in Maps /\ obj[m] # Free
    BY <2>1, ObjectIs DEF Live
  <2>3. \A m \in Live : header[m] = extent[m]
    BY <1>1, <2>2 DEF Inv, InvLive, LiveOK
  <2>4. \A t \in Threads : \A i \in DOMAIN cache[t] : EntryOK(cache[t][i], extent, obj)
    BY <1>1, CacheIs
  <2> QED BY <2>3, <2>4 DEF ExtentRemembered, EntryOK
<1> QED BY <1>1, Safety, PTL

\* The byte counter of a LargeCache is the sum of its entries, and the byte and slot
\* limits hold after every put, take and flush.
THEOREM Accounting == Spec => []CacheAccounted
<1>1. ASSUME Inv PROVE CacheAccounted
  BY <1>1, CacheIs DEF CacheAccounted
<1> QED BY <1>1, Safety, PTL

\* alloc_zeroed returns zeros, from a fresh mapping and from a reused one.
THEOREM Zeroed == Spec => []ZeroedIsZero
<1>1. ASSUME Inv PROVE ZeroedIsZero
  <2>1. TypeOK
    BY <1>1 DEF Inv
  <2>2. \A m \in Live : m \in Maps /\ obj[m] # Free
    BY <2>1, ObjectIs DEF Live
  <2> QED BY <1>1, <2>2 DEF ZeroedIsZero, Inv, InvLive, LiveOK
<1> QED BY <1>1, Safety, PTL

\* Close-size reuse wastes no more than the tolerance, and does not add up.
THEOREM BoundedWaste == Spec => []WasteBounded
<1>1. ASSUME Inv PROVE WasteBounded
  <2>1. TypeOK
    BY <1>1 DEF Inv
  <2>2. \A m \in Live : m \in Maps /\ obj[m] # Free
    BY <2>1, ObjectIs DEF Live
  <2> QED BY <1>1, <2>2 DEF WasteBounded, Inv, InvLive, LiveOK
<1> QED BY <1>1, Safety, PTL

\* A thread's cache gets only mappings freed through the instance its slot is bound
\* to, and is empty whenever the slot changes: try_cache_large, thread_heap's rebind
\* and the TLS destructor never leave one instance's mappings to another.
THEOREM ServesItsHeap == Spec => CacheServesItsHeap
<1> DEFINE Serves == \A t \in Threads :
             LET stored == MapsOf(cache'[t]) \ Cached(t)
             IN /\ \A m \in stored : obj[m].heap = slot'[t]
                /\ slot'[t] # slot[t] => MapsOf(cache'[t]) = {}
<1>1. ASSUME Inv, [Next]_vars PROVE [Serves]_vars
  <2> SUFFICES ASSUME Next, NEW u \in Threads
               PROVE  /\ \A m \in MapsOf(cache'[u]) \ Cached(u) : obj[m].heap = slot'[u]
                      /\ slot'[u] # slot[u] => MapsOf(cache'[u]) = {}
    BY <1>1
  <2> USE DEF Cached
  <2>0. cache \in [Threads -> Seq(Entries)] /\ slot \in [Threads -> Slots]
    BY <1>1 DEF Inv, TypeOK, Entries, Slots
  <2>1. ASSUME NEW t \in Threads, NEW h \in Heaps, NEW size \in Sizes, NEW zeroed \in BOOLEAN,
               AllocLarge(t, h, size, zeroed)
        PROVE  /\ MapsOf(cache'[u]) \subseteq MapsOf(cache[u])
               /\ slot'[u] # slot[u] => MapsOf(cache'[u]) = {}
    <3>1. PICK es, total, s, ext :
            /\ Begun(t, h, es, total, s, ext)
            /\ slot' = [slot EXCEPT ![t] = s]
            /\ s # slot[t] => es = <<>>
            /\ \/ Hit(t, h, size, zeroed, es, total, ext, TakeIndex(es, size))
               \/ Miss(t, h, size, zeroed, es, total, ext)
      BY <2>1, AllocShape
    <3>2. es \in Seq(Entries) /\ MapsOf(es) \subseteq MapsOf(cache[t]) /\ Distinct(es)
      <4>1. es \in Seq(Entries) /\ MapsOf(es) \subseteq MapsOf(cache[t]) /\ CacheOK(es, total, s, ext, obj)
        BY <1>1, <3>1, BegunIs
      <4> QED BY <4>1 DEF CacheOK
    <3>3. \E fs : /\ cache' = [cache EXCEPT ![t] = fs] /\ MapsOf(fs) \subseteq MapsOf(cache[t])
                  /\ s # slot[t] => MapsOf(fs) = {}
      <4>1. CASE Hit(t, h, size, zeroed, es, total, ext, TakeIndex(es, size))
        <5>1. PICK i : i = TakeIndex(es, size)
          OBVIOUS
        <5>2. i # 0 /\ cache' = [cache EXCEPT ![t] = SwapRemove(es, i)]
          BY <4>1, <5>1 DEF Hit
        <5>3. i \in DOMAIN es
          <6>1. size \in Nat
            BY LargeAssumption
          <6> QED BY <3>2, <5>1, <5>2, <6>1, TakeIndexIs
        <5>4. PICK fs : fs = SwapRemove(es, i)
          OBVIOUS
        <5>5. MapsOf(fs) = MapsOf(es) \ {es[i].map}
          BY <3>2, <5>3, <5>4, SwapRemoveIs
        <5>6. s = slot[t]
          BY <3>1, <5>3, EmptyIs
        <5> QED BY <3>2, <5>2, <5>4, <5>5, <5>6
      <4>2. CASE Miss(t, h, size, zeroed, es, total, ext)
        <5>1. cache' = [cache EXCEPT ![t] = es]
          BY <4>2 DEF Miss
        <5> QED BY <3>1, <3>2, <5>1, EmptyIs
      <4> QED BY <3>1, <4>1, <4>2
    <3>4. PICK fs : /\ cache' = [cache EXCEPT ![t] = fs] /\ MapsOf(fs) \subseteq MapsOf(cache[t])
                    /\ s # slot[t] => MapsOf(fs) = {}
      BY <3>3
    <3>5. /\ u = t => cache'[u] = fs /\ slot'[u] = s
          /\ u # t => cache'[u] = cache[u] /\ slot'[u] = slot[u]
      BY <2>0, <3>1, <3>4
    <3> QED BY <3>4, <3>5
  <2>2. ASSUME NEW m \in Maps, Write(m) PROVE cache' = cache /\ slot' = slot
    BY <2>2 DEF Write
  <2>3. ASSUME NEW m \in Maps, NEW t \in Threads, DeallocLarge(t, m)
        PROVE  /\ \A x \in MapsOf(cache'[u]) \ MapsOf(cache[u]) : obj[x].heap = slot'[u]
               /\ slot' = slot
    <3>1. PICK hs, d, gs :
            /\ Freed(t, m, hs, d, gs) /\ cache' = [cache EXCEPT ![t] = hs]
            /\ slot[t] # obj[m].heap => hs = cache[t]
      BY <1>1, <2>3, DeallocShape
    <3>2. slot' = slot
      BY <2>3, Zenon DEF DeallocLarge
    <3>3. MapsOf(hs) \cup MapsOf(gs) = MapsOf(cache[t]) \cup {m}
      BY <3>1, Zenon DEF Freed
    <3>4. \A x \in MapsOf(hs) \ MapsOf(cache[t]) : obj[x].heap = slot[t]
      BY <3>1, <3>3
    <3>5. /\ u = t => cache'[u] = hs
          /\ u # t => cache'[u] = cache[u]
      BY <2>0, <3>1
    <3> QED BY <3>2, <3>4, <3>5
  <2>4. ASSUME NEW t \in Threads, ThreadExit(t)
        PROVE  /\ MapsOf(cache'[u]) \subseteq MapsOf(cache[u])
               /\ slot'[u] # slot[u] => MapsOf(cache'[u]) = {}
    <3>1. cache' = [cache EXCEPT ![t] = <<>>] /\ slot' = [slot EXCEPT ![t] = "destroyed"]
      BY <2>4 DEF ThreadExit
    <3>2. PICK es, s : es = <<>> /\ s = "destroyed"
      OBVIOUS
    <3>3. /\ u = t => cache'[u] = es /\ slot'[u] = s
          /\ u # t => cache'[u] = cache[u] /\ slot'[u] = slot[u]
      BY <2>0, <3>1, <3>2
    <3> QED BY <3>2, <3>3, EmptyIs
  <2>5. ASSUME NEW t \in Threads, ThreadStart(t)
        PROVE  cache' = cache /\ (slot'[u] # slot[u] => MapsOf(cache[u]) = {})
    <3>1. cache' = cache /\ slot' = [slot EXCEPT ![t] = "none"] /\ slot[t] = "destroyed"
      BY <2>5 DEF ThreadStart
    <3>2. slot[t] \notin Heaps
      BY <3>1, LargeAssumption
    <3>3. MapsOf(cache[t]) = {}
      BY <1>1, <3>2, CacheIs, EmptyIs
    <3>4. u # t => slot'[u] = slot[u]
      BY <1>1, <3>1 DEF Inv, TypeOK
    <3> QED BY <3>1, <3>3, <3>4
  <2> QED BY <2>1, <2>2, <2>3, <2>4, <2>5 DEF Next
<1> QED BY <1>1, Safety, PTL DEF Spec, CacheServesItsHeap
=============================================================================
