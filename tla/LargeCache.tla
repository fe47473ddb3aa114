------------------------------ MODULE LargeCache ------------------------------
(***************************************************************************)
(* The array a thread keeps freed mappings in: entries[0..count] as a      *)
(* sequence, the entry take finds and removes, and what put evicts.        *)
(***************************************************************************)
EXTENDS Integers, Sequences

CONSTANTS
  Maps,             \* addresses the kernel places mappings at
  CacheSlots,       \* LARGE_CACHE_SLOTS
  MaxCacheBytes,    \* MAX_LARGE_CACHE_BYTES
  Tolerance         \* CLOSE_SIZE_TOLERANCE

ASSUME LargeCacheAssumption ==
  CacheSlots \in Nat \ {0} /\ MaxCacheBytes \in Nat /\ Tolerance \in Nat

Entries == [map : Maps, size : Nat]

Entry(m, size) == [map |-> m, size |-> size]

MapsOf(es) == {es[i].map : i \in DOMAIN es}

\* Pages of the first k entries.
Pages(es, k) ==
  LET sum[i \in 0 .. Len(es)] == IF i = 0 THEN 0 ELSE sum[i - 1] + es[i].size
  IN sum[k]

\* Faulty variant of TakeIndex: any entry that is large enough.
TakeAnyIndex(es, size) ==
  LET fits == {i \in DOMAIN es : es[i].size >= size}
  IN IF fits # {} THEN CHOOSE i \in fits : \A j \in fits : i <= j ELSE 0

\* The first entry of exactly this size; otherwise the first of those that
\* waste least, within the tolerance; 0 when there is none.
TakeIndex(es, size) ==
  LET exact == {i \in DOMAIN es : es[i].size = size}
      close == {i \in DOMAIN es : es[i].size > size /\ es[i].size - size <= Tolerance}
      best == {i \in close : \A j \in close : es[i].size <= es[j].size}
      First(S) == CHOOSE i \in S : \A j \in S : i <= j
  IN IF exact # {} THEN First(exact) ELSE IF best # {} THEN First(best) ELSE 0

\* Faulty variant of SwapRemove: the last entry is dropped, not moved.
TruncateRemove(es, i) == SubSeq(es, 1, Len(es) - 1)

\* entries[i] = entries[count - 1], and one entry less.
SwapRemove(es, i) ==
  [j \in 1 .. Len(es) - 1 |-> IF j = i THEN es[Len(es)] ELSE es[j]]

\* How many entries put keeps, evicting from the end while there are `slots' of
\* them or a mapping of `size' would take the cache over the byte limit.
KeptBelow(es, total, size, slots) ==
  LET left(k) == total - (Pages(es, Len(es)) - Pages(es, k))
      fits == {k \in 0 .. Len(es) : k = 0 \/ (k < slots /\ left(k) + size <= MaxCacheBytes)}
  IN CHOOSE k \in fits : \A j \in fits : j <= k

\* Faulty variant of Kept: one entry more than there are slots.
KeptOneMore(es, total, size) == KeptBelow(es, total, size, CacheSlots + 1)

Kept(es, total, size) == KeptBelow(es, total, size, CacheSlots)

\* put: the entries and the byte counter it leaves, and what it unmaps.  A
\* mapping over the byte limit by itself is not stored, and is left to the
\* caller to unmap.
Put(es, total, m, size) ==
  LET k == Kept(es, total, size)
      left == total - (Pages(es, Len(es)) - Pages(es, k))
      stored == left + size <= MaxCacheBytes
      new == <<Entry(m, size)>>
  IN [entries |-> SubSeq(es, 1, k) \o (IF stored THEN new ELSE <<>>),
      bytes |-> IF stored THEN left + size ELSE left,
      unmapped |-> SubSeq(es, k + 1, Len(es)) \o (IF stored THEN <<>> ELSE new)]
=============================================================================
