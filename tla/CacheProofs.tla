------------------------------ MODULE CacheProofs ------------------------------
(***************************************************************************)
(* What the operators of LargeCache compute, for every number of slots,    *)
(* limit and tolerance.                                                    *)
(***************************************************************************)
EXTENDS LargeCache, SequenceTheorems, WellFoundedInduction, TLAPS

-----------------------------------------------------------------------------
(* In the place of induction.                                              *)

\* A set of numbers that is not empty has a least one.
LEMMA FirstIn ==
  ASSUME NEW S \in SUBSET Nat, S # {}
  PROVE  \E x \in S : \A y \in S : x <= y
<1> DEFINE R == OpToRel(<, Nat)
<1>1. IsWellFoundedOn(R, Nat)
  BY NatLessThanWellFounded
<1>2. PICK x \in S : \A y \in S : ~ (<<y, x>> \in R)
  <2> HIDE DEF R
  <2> QED BY <1>1, WFMin
<1>3. \A y \in S : ~ (y < x)
  BY <1>2 DEF OpToRel
<1> QED BY <1>3

\* Below a bound it has a greatest one.
LEMMA LastIn ==
  ASSUME NEW n \in Nat, NEW S \in SUBSET (0 .. n), S # {}
  PROVE  \E x \in S : \A y \in S : y <= x
<1> DEFINE D == {d \in Nat : n - d \in S}
<1>1. D \in SUBSET Nat /\ D # {}
  <2>1. PICK y \in S : TRUE
    OBVIOUS
  <2>2. n - y \in Nat /\ n - (n - y) = y
    BY <2>1
  <2> QED BY <2>2
<1>2. PICK d \in D : \A e \in D : d <= e
  <2> HIDE DEF D
  <2> QED BY <1>1, FirstIn
<1>3. ASSUME NEW y \in S PROVE y <= n - d
  <2>1. n - y \in Nat /\ n - (n - y) = y
    OBVIOUS
  <2>2. n - y \in D
    BY <2>1
  <2>3. d <= n - y
    BY <1>2, <2>2
  <2> QED BY <2>1, <2>3
<1> QED BY <1>3

\* A set that has 0, and below a bound the successor of each of its numbers, has
\* all numbers up to the bound.
LEMMA EachUpTo ==
  ASSUME NEW n \in Nat, NEW T, 0 \in T, \A k \in 1 .. n : k - 1 \in T => k \in T
  PROVE  \A k \in 0 .. n : k \in T
<1> SUFFICES ASSUME NEW m \in 0 .. n, m \notin T PROVE FALSE
  OBVIOUS
<1> DEFINE Out == {k \in 0 .. n : k \notin T}
<1>1. Out \in SUBSET Nat /\ Out # {}
  OBVIOUS
<1>2. PICK x \in Out : \A y \in Out : x <= y
  <2> HIDE DEF Out
  <2> QED BY <1>1, FirstIn
<1>3. x \in 1 .. n /\ x - 1 \in 0 .. n /\ ~ (x <= x - 1)
  BY <1>2
<1>4. x - 1 \in T
  BY <1>2, <1>3
<1> QED BY <1>2, <1>3, <1>4

-----------------------------------------------------------------------------
(* The sum of the entries.                                                 *)

\* What an entry is.
LEMMA EntryAt ==
  ASSUME NEW es \in Seq(Entries)
  PROVE  /\ Len(es) \in Nat /\ DOMAIN es = 1 .. Len(es)
         /\ \A i \in 1 .. Len(es) : es[i] \in Entries /\ es[i].map \in Maps /\ es[i].size \in Nat
<1>1. Len(es) \in Nat /\ DOMAIN es = 1 .. Len(es) /\ \A i \in 1 .. Len(es) : es[i] \in Entries
  OBVIOUS
<1> QED BY <1>1 DEF Entries

\* s gives the pages of the first n entries or fewer.
IsSum(s, es, n) == s = [i \in 0 .. n |-> IF i = 0 THEN 0 ELSE s[i - 1] + es[i].size]

\* There is such a function for every number of entries.
LEMMA SumExists ==
  ASSUME NEW es \in Seq(Entries)
  PROVE  \A n \in 0 .. Len(es) : \E s : IsSum(s, es, n)
<1> DEFINE T == {n \in 0 .. Len(es) : \E s : IsSum(s, es, n)}
<1>1. 0 \in T
  <2> DEFINE s == [i \in 0 .. 0 |-> 0]
  <2>1. s = [i \in 0 .. 0 |-> IF i = 0 THEN 0 ELSE s[i - 1] + es[i].size]
    OBVIOUS
  <2> HIDE DEF s
  <2> QED BY <2>1 DEF IsSum
<1>2. ASSUME NEW n \in 1 .. Len(es), n - 1 \in T PROVE n \in T
  <2>1. PICK v : v = [i \in 0 .. n - 1 |-> IF i = 0 THEN 0 ELSE v[i - 1] + es[i].size]
    BY <1>2 DEF IsSum
  <2> DEFINE s == [i \in 0 .. n |-> IF i <= n - 1 THEN v[i] ELSE v[n - 1] + es[n].size]
  <2>2. ASSUME NEW i \in 0 .. n
        PROVE  s[i] = IF i = 0 THEN 0 ELSE s[i - 1] + es[i].size
    <3>1. CASE i = 0
      BY <2>1, <3>1
    <3>2. CASE i # 0 /\ i <= n - 1
      <4>1. s[i] = v[i] /\ s[i - 1] = v[i - 1] /\ i \in 0 .. n - 1
        BY <3>2
      <4> QED BY <2>1, <3>2, <4>1
    <3>3. CASE i = n
      <4>1. s[i] = v[n - 1] + es[n].size /\ s[i - 1] = v[n - 1] /\ i # 0
        BY <3>3
      <4> QED BY <3>3, <4>1
    <3> QED BY <3>1, <3>2, <3>3
  <2>3. s = [i \in 0 .. n |-> s[i]]
    OBVIOUS
  <2> HIDE DEF s
  <2>4. s = [i \in 0 .. n |-> IF i = 0 THEN 0 ELSE s[i - 1] + es[i].size]
    BY <2>2, <2>3
  <2> QED BY <2>4 DEF IsSum
<1> HIDE DEF T
<1>3. Len(es) \in Nat
  OBVIOUS
<1>4. \A n \in 0 .. Len(es) : n \in T
  BY <1>1, <1>2, <1>3, EachUpTo
<1> QED BY <1>4 DEF T

\* The function Pages is defined with.
Sum(es) == CHOOSE s : IsSum(s, es, Len(es))

\* What Pages computes.
LEMMA PagesIs ==
  ASSUME NEW es \in Seq(Entries)
  PROVE  /\ Pages(es, 0) = 0
         /\ \A k \in 1 .. Len(es) : Pages(es, k) = Pages(es, k - 1) + es[k].size
         /\ \A k \in 0 .. Len(es) : Pages(es, k) \in Nat
<1> DEFINE n == Len(es)
<1>1. n \in Nat /\ \A k \in 1 .. n : es[k].size \in Nat
  BY EntryAt
<1>2. IsSum(Sum(es), es, n)
  <2>1. \E s : IsSum(s, es, n)
    BY <1>1, SumExists
  <2> QED BY <2>1, Zenon DEF Sum
<1>3. \A k : Pages(es, k) = Sum(es)[k]
  BY Zenon DEF Pages, Sum, IsSum
<1> HIDE DEF n
<1>4. \A k \in 0 .. n : Sum(es)[k] = IF k = 0 THEN 0 ELSE Sum(es)[k - 1] + es[k].size
  <2>1. Sum(es) = [i \in 0 .. n |-> IF i = 0 THEN 0 ELSE Sum(es)[i - 1] + es[i].size]
    BY <1>2 DEF IsSum
  <2> QED BY <2>1
<1>5. Pages(es, 0) = 0
  BY <1>1, <1>3, <1>4
<1>6. \A k \in 1 .. n : Pages(es, k) = Pages(es, k - 1) + es[k].size
  BY <1>1, <1>3, <1>4
<1>7. \A k \in 0 .. n : Pages(es, k) \in Nat
  <2> DEFINE T == {k \in 0 .. n : Pages(es, k) \in Nat}
  <2>1. 0 \in T
    BY <1>1, <1>5
  <2>2. ASSUME NEW k \in 1 .. n, k - 1 \in T PROVE k \in T
    <3>1. Pages(es, k - 1) \in Nat /\ es[k].size \in Nat
      BY <1>1, <2>2
    <3> QED BY <1>6, <3>1
  <2> HIDE DEF T
  <2>3. \A k \in 0 .. n : k \in T
    BY <1>1, <2>1, <2>2, EachUpTo
  <2> QED BY <2>3 DEF T
<1> QED BY <1>5, <1>6, <1>7 DEF n

\* It looks at the first k entries only.
LEMMA PagesPrefix ==
  ASSUME NEW es \in Seq(Entries), NEW fs \in Seq(Entries), NEW n \in Nat,
         n <= Len(es), n <= Len(fs), \A i \in 1 .. n : es[i] = fs[i]
  PROVE  Pages(es, n) = Pages(fs, n)
<1> DEFINE T == {k \in 0 .. n : Pages(es, k) = Pages(fs, k)}
<1>1. 0 \in T
  BY PagesIs
<1>2. ASSUME NEW k \in 1 .. n, k - 1 \in T PROVE k \in T
  <2>1. k \in 1 .. Len(es) /\ k \in 1 .. Len(fs) /\ es[k] = fs[k]
    BY EntryAt
  <2>2. Pages(es, k) = Pages(es, k - 1) + es[k].size
    BY <2>1, PagesIs
  <2>3. Pages(fs, k) = Pages(fs, k - 1) + fs[k].size
    BY <2>1, PagesIs
  <2> QED BY <1>2, <2>1, <2>2, <2>3
<1> HIDE DEF T
<1>3. \A k \in 0 .. n : k \in T
  BY <1>1, <1>2, EachUpTo
<1> QED BY <1>3 DEF T

-----------------------------------------------------------------------------
(* The operations of LargeCache.                                           *)

\* No mapping is in two entries.
Distinct(es) == \A i, j \in DOMAIN es : es[i].map = es[j].map => i = j

\* Every entry of fs is one of es.
Within(fs, es) == \A i \in DOMAIN fs : \E j \in DOMAIN es : fs[i] = es[j]

\* take returns an entry that is large enough and wastes no more than the tolerance.
LEMMA TakeIndexIs ==
  ASSUME NEW es \in Seq(Entries), NEW size \in Nat
  PROVE  LET i == TakeIndex(es, size)
         IN i # 0 => /\ i \in DOMAIN es
                     /\ es[i].size >= size /\ es[i].size - size <= Tolerance
<1> DEFINE exact == {i \in DOMAIN es : es[i].size = size}
           close == {i \in DOMAIN es : es[i].size > size /\ es[i].size - size <= Tolerance}
           best == {i \in close : \A j \in close : es[i].size <= es[j].size}
           First(S) == CHOOSE i \in S : \A j \in S : i <= j
<1>1. TakeIndex(es, size) = IF exact # {} THEN First(exact) ELSE IF best # {} THEN First(best) ELSE 0
  BY Zenon DEF TakeIndex
<1>2. exact \in SUBSET Nat /\ best \in SUBSET Nat /\ best \subseteq close
  BY EntryAt
<1>3. ASSUME NEW S \in SUBSET Nat, S # {} PROVE First(S) \in S
  BY <1>3, FirstIn
<1>4. size - size = 0 /\ 0 <= Tolerance /\ size >= size
  BY LargeCacheAssumption
<1>5. ASSUME NEW i \in exact
      PROVE  i \in DOMAIN es /\ es[i].size >= size /\ es[i].size - size <= Tolerance
  BY <1>4
<1>6. ASSUME NEW i \in close
      PROVE  i \in DOMAIN es /\ es[i].size >= size /\ es[i].size - size <= Tolerance
  BY EntryAt
<1> HIDE DEF exact, close, best, First
<1> QED BY <1>1, <1>2, <1>3, <1>5, <1>6

\* An empty cache has nothing to take.
LEMMA TakeFromEmpty == \A size : TakeIndex(<<>>, size) = 0
<1> TAKE size
<1>1. DOMAIN <<>> = {}
  OBVIOUS
<1> QED BY <1>1 DEF TakeIndex

\* take leaves all entries but the one it returns.
LEMMA SwapRemoveIs ==
  ASSUME NEW es \in Seq(Entries), NEW i \in DOMAIN es, NEW fs, fs = SwapRemove(es, i)
  PROVE  /\ fs \in Seq(Entries) /\ Len(fs) = Len(es) - 1
         /\ Within(fs, es)
         /\ Distinct(es) => Distinct(fs) /\ MapsOf(fs) = MapsOf(es) \ {es[i].map}
         /\ Pages(fs, Len(fs)) = Pages(es, Len(es)) - es[i].size
<1> DEFINE n == Len(es)
<1>1. /\ n \in Nat /\ n - 1 \in Nat /\ i \in 1 .. n /\ DOMAIN es = 1 .. n /\ n \in 1 .. n
      /\ \A k \in 1 .. n : es[k] \in Entries /\ es[k].map \in Maps /\ es[k].size \in Nat
  BY EntryAt
<1>2. fs = [j \in 1 .. n - 1 |-> IF j = i THEN es[n] ELSE es[j]]
  BY DEF SwapRemove
<1> HIDE DEF n
<1>3. fs \in Seq(Entries) /\ Len(fs) = n - 1 /\ DOMAIN fs = 1 .. n - 1
  <2>1. \A j \in 1 .. n - 1 : (IF j = i THEN es[n] ELSE es[j]) \in Entries
    BY <1>1
  <2>2. fs \in [1 .. n - 1 -> Entries]
    BY <1>2, <2>1
  <2> QED BY <1>1, <2>2
<1>4. \A j \in 1 .. n - 1 : fs[j] = IF j = i THEN es[n] ELSE es[j]
  BY <1>2
<1>5. Within(fs, es)
  BY <1>1, <1>3, <1>4 DEF Within
<1>6. ASSUME Distinct(es) PROVE Distinct(fs)
  <2> SUFFICES ASSUME NEW a \in 1 .. n - 1, NEW b \in 1 .. n - 1, fs[a].map = fs[b].map PROVE a = b
    BY <1>3 DEF Distinct
  <2>1. PICK x \in 1 .. n : fs[a] = es[x] /\ x = IF a = i THEN n ELSE a
    BY <1>1, <1>4
  <2>2. PICK y \in 1 .. n : fs[b] = es[y] /\ y = IF b = i THEN n ELSE b
    BY <1>1, <1>4
  <2>3. x = y
    BY <1>1, <1>6, <2>1, <2>2 DEF Distinct
  <2> QED BY <1>1, <2>1, <2>2, <2>3
<1>7. ASSUME Distinct(es) PROVE MapsOf(fs) = MapsOf(es) \ {es[i].map}
  <2>1. ASSUME NEW j \in 1 .. n - 1 PROVE fs[j].map \in MapsOf(es) /\ fs[j].map # es[i].map
    <3>1. PICK x \in 1 .. n : fs[j] = es[x] /\ x = IF j = i THEN n ELSE j
      BY <1>1, <1>4
    <3>2. x # i
      BY <1>1, <3>1
    <3> QED BY <1>1, <1>7, <3>1, <3>2 DEF Distinct, MapsOf
  <2>2. ASSUME NEW x \in 1 .. n, es[x].map # es[i].map PROVE \E j \in 1 .. n - 1 : fs[j].map = es[x].map
    <3>1. CASE x = n
      <4>1. i \in 1 .. n - 1 /\ fs[i] = es[n]
        BY <1>1, <1>4, <2>2, <3>1
      <4> QED BY <3>1, <4>1
    <3>2. CASE x # n
      <4>1. x \in 1 .. n - 1 /\ x # i
        BY <1>1, <2>2, <3>2
      <4> QED BY <1>4, <4>1
    <3> QED BY <3>1, <3>2
  <2>3. /\ \A m : m \in MapsOf(fs) <=> \E j \in 1 .. n - 1 : fs[j].map = m
        /\ \A m : m \in MapsOf(es) <=> \E j \in 1 .. n : es[j].map = m
    BY <1>1, <1>3 DEF MapsOf
  <2> QED BY <2>1, <2>2, <2>3
<1>8. Pages(fs, n - 1) = Pages(es, n) - es[i].size
  <2> DEFINE T == {k \in 0 .. n - 1 :
                     Pages(fs, k) = IF k < i THEN Pages(es, k)
                                    ELSE Pages(es, k) + es[n].size - es[i].size}
  <2>1. /\ Pages(fs, 0) = 0 /\ Pages(es, 0) = 0
        /\ \A k \in 1 .. n - 1 : Pages(fs, k) = Pages(fs, k - 1) + fs[k].size
        /\ \A k \in 0 .. n - 1 : Pages(fs, k) \in Nat
    BY <1>3, PagesIs
  <2>2. /\ Pages(es, 0) = 0
        /\ \A k \in 1 .. n : Pages(es, k) = Pages(es, k - 1) + es[k].size
        /\ \A k \in 0 .. n : Pages(es, k) \in Nat
    BY PagesIs DEF n
  <2>3. 0 \in T
    BY <1>1, <2>1, <2>2
  <2>4. ASSUME NEW k \in 1 .. n - 1, k - 1 \in T PROVE k \in T
    <3>0. k \in 1 .. n
      BY <1>1
    <3>1. /\ Pages(fs, k) = Pages(fs, k - 1) + fs[k].size
          /\ Pages(es, k) = Pages(es, k - 1) + es[k].size
          /\ es[k].size \in Nat /\ es[n].size \in Nat /\ es[i].size \in Nat
      <4>1. Pages(fs, k) = Pages(fs, k - 1) + fs[k].size
        BY <2>1
      <4>2. Pages(es, k) = Pages(es, k - 1) + es[k].size
        BY <2>2, <3>0
      <4>3. es[k].size \in Nat /\ es[n].size \in Nat /\ es[i].size \in Nat
        BY <1>1, <3>0
      <4> QED BY <4>1, <4>2, <4>3
    <3>5. k - 1 \in 0 .. n - 1 /\ k \in 0 .. n - 1 /\ k - 1 \in 0 .. n
      BY <1>1
    <3>6. Pages(es, k - 1) \in Nat /\ Pages(fs, k - 1) \in Nat
      BY <2>1, <2>2, <3>5
    <3>2. CASE k < i
      BY <1>1, <1>4, <2>4, <3>1, <3>2, <3>5, <3>6
    <3>3. CASE k = i
      <4>1. fs[k] = es[n] /\ k - 1 < i
        BY <1>1, <1>4, <3>3
      <4>2. Pages(fs, k - 1) = Pages(es, k - 1)
        BY <2>4, <4>1
      <4> QED BY <3>1, <3>3, <3>5, <3>6, <4>1, <4>2
    <3>4. CASE k > i
      <4>1. fs[k] = es[k] /\ ~ (k - 1 < i) /\ ~ (k < i)
        BY <1>1, <1>4, <3>4
      <4>2. Pages(fs, k - 1) = Pages(es, k - 1) + es[n].size - es[i].size
        BY <2>4, <4>1
      <4> QED BY <3>1, <3>5, <3>6, <4>1, <4>2
    <3> QED BY <1>1, <3>2, <3>3, <3>4
  <2>5. n - 1 \in T
    <3> HIDE DEF T
    <3>1. \A k \in 0 .. n - 1 : k \in T
      BY <1>1, <2>3, <2>4, EachUpTo
    <3> QED BY <1>1, <3>1
  <2>6. Pages(es, n) = Pages(es, n - 1) + es[n].size /\ Pages(es, n - 1) \in Nat
    BY <1>1, <2>2
  <2>7. CASE i = n
    BY <1>1, <2>5, <2>6, <2>7
  <2>8. CASE i < n
    BY <1>1, <2>5, <2>6, <2>8
  <2> QED BY <1>1, <2>7, <2>8
<1> QED BY <1>3, <1>5, <1>6, <1>7, <1>8 DEF n

\* put evicts until there is a free slot and room for the mapping, or nothing is left.
LEMMA KeptIs ==
  ASSUME NEW es \in Seq(Entries), NEW size \in Nat, NEW k,
         k = Kept(es, Pages(es, Len(es)), size)
  PROVE  /\ k \in 0 .. Len(es)
         /\ k = 0 \/ (k < CacheSlots /\ Pages(es, k) + size <= MaxCacheBytes)
<1> DEFINE n == Len(es)
           total == Pages(es, n)
           left(j) == total - (Pages(es, n) - Pages(es, j))
           fits == {j \in 0 .. n : j = 0 \/ (j < CacheSlots /\ left(j) + size <= MaxCacheBytes)}
<1>1. n \in Nat /\ total \in Nat /\ \A j \in 0 .. n : Pages(es, j) \in Nat
  BY PagesIs, EntryAt
<1>2. k = CHOOSE j \in fits : \A i \in fits : i <= j
  BY Zenon DEF Kept, KeptBelow
<1>3. fits \in SUBSET (0 .. n) /\ fits # {}
  BY <1>1
<1>4. k \in fits
  <2> HIDE DEF fits
  <2>1. \E j \in fits : \A i \in fits : i <= j
    BY <1>1, <1>3, LastIn
  <2> QED BY <1>2, <2>1, Zenon
<1>5. left(k) = Pages(es, k)
  BY <1>1, <1>4
<1> HIDE DEF left
<1> QED BY <1>4, <1>5

\* What put stores and what it gives up: the entries below some k and the mapping
\* itself are stored; or nothing is.
LEMMA PutShape ==
  ASSUME NEW es \in Seq(Entries), NEW m \in Maps, NEW size \in Nat, NEW put,
         put = Put(es, Pages(es, Len(es)), m, size)
  PROVE  \/ \E k \in 0 .. Len(es) :
              /\ k < CacheSlots /\ Pages(es, k) + size <= MaxCacheBytes
              /\ put.entries = SubSeq(es, 1, k) \o <<Entry(m, size)>>
              /\ put.bytes = Pages(es, k) + size
              /\ put.unmapped = SubSeq(es, k + 1, Len(es))
         \/ put.entries = <<>> /\ put.bytes = 0 /\ put.unmapped = es \o <<Entry(m, size)>>
<1> DEFINE n == Len(es)
<1>1. PICK k : k = Kept(es, Pages(es, n), size)
  OBVIOUS
<1>2. k \in 0 .. n /\ (k = 0 \/ (k < CacheSlots /\ Pages(es, k) + size <= MaxCacheBytes))
  BY <1>1, KeptIs
<1>3. n \in Nat /\ Pages(es, 0) = 0 /\ Pages(es, n) \in Nat /\ Pages(es, k) \in Nat
  BY <1>2, PagesIs, EntryAt
<1>4. PICK left : left = Pages(es, n) - (Pages(es, n) - Pages(es, k))
  OBVIOUS
<1>5. left = Pages(es, k)
  BY <1>3, <1>4
<1>6. PICK x, y : /\ x = IF left + size <= MaxCacheBytes THEN <<Entry(m, size)>> ELSE <<>>
                  /\ y = IF left + size <= MaxCacheBytes THEN <<>> ELSE <<Entry(m, size)>>
  OBVIOUS
<1>10. put = [entries |-> SubSeq(es, 1, k) \o x,
              bytes |-> IF left + size <= MaxCacheBytes THEN left + size ELSE left,
              unmapped |-> SubSeq(es, k + 1, n) \o y]
  BY <1>1, <1>4, <1>6, Zenon DEF Put
<1>11. /\ put.entries = SubSeq(es, 1, k) \o x
       /\ put.bytes = IF left + size <= MaxCacheBytes THEN left + size ELSE left
       /\ put.unmapped = SubSeq(es, k + 1, n) \o y
  <2>1. ASSUME NEW a, NEW b, NEW c, put = [entries |-> a, bytes |-> b, unmapped |-> c]
        PROVE  put.entries = a /\ put.bytes = b /\ put.unmapped = c
    BY <2>1
  <2> QED BY <1>10, <2>1, Zenon
<1>7. SubSeq(es, k + 1, n) \in Seq(Entries)
  BY <1>2, <1>3
<1>8. CASE left + size <= MaxCacheBytes
  <2>1. /\ put.entries = SubSeq(es, 1, k) \o <<Entry(m, size)>>
        /\ put.bytes = left + size
        /\ put.unmapped = SubSeq(es, k + 1, n) \o <<>>
    BY <1>6, <1>8, <1>11
  <2>2. put.unmapped = SubSeq(es, k + 1, n)
    BY <1>7, <2>1, ConcatEmptySeq
  <2>3. k < CacheSlots
    BY <1>2, LargeCacheAssumption
  <2> QED BY <1>2, <1>5, <1>8, <2>1, <2>2, <2>3
<1>9. CASE ~ (left + size <= MaxCacheBytes)
  <2>1. k = 0
    BY <1>2, <1>5, <1>9
  <2>2. /\ put.entries = SubSeq(es, 1, 0) \o <<>> /\ put.bytes = left
        /\ put.unmapped = SubSeq(es, 1, n) \o <<Entry(m, size)>>
    <3>1. x = <<>> /\ y = <<Entry(m, size)>>
      BY <1>6, <1>9
    <3> QED BY <1>9, <1>11, <2>1, <3>1
  <2>3. SubSeq(es, 1, 0) = <<>> /\ SubSeq(es, 1, n) = es
    BY SubSeqFull, SubSeqEmpty
  <2>4. <<>> \o <<>> = <<>>
    OBVIOUS
  <2> QED BY <1>3, <1>5, <2>1, <2>2, <2>3, <2>4
<1> QED BY <1>8, <1>9

\* fs holds the entries a to b of es.
IsPart(fs, es, a, b) ==
  /\ fs \in Seq(Entries) /\ Len(fs) = b + 1 - a
  /\ \A i \in 1 .. Len(fs) : fs[i] = es[a + i - 1] /\ a + i - 1 \in a .. b
  /\ MapsOf(fs) = {es[i].map : i \in a .. b}
  /\ Distinct(es) => Distinct(fs)

\* The entries of a part of a sequence.
LEMMA PartIs ==
  ASSUME NEW es \in Seq(Entries), NEW a \in 1 .. Len(es) + 1, NEW b \in 0 .. Len(es), a <= b + 1
  PROVE  IsPart(SubSeq(es, a, b), es, a, b)
<1>0. PICK fs : fs = SubSeq(es, a, b)
  OBVIOUS
<1>1. Len(es) \in Nat /\ DOMAIN es = 1 .. Len(es)
  BY EntryAt
<1>2. fs \in Seq(Entries) /\ Len(fs) = b + 1 - a /\ DOMAIN fs = 1 .. Len(fs)
  BY <1>0, <1>1
<1>3. \A i \in 1 .. Len(fs) : fs[i] = es[a + i - 1] /\ a + i - 1 \in a .. b
  BY <1>0, <1>1, <1>2
<1>4. \A j \in a .. b : j - a + 1 \in 1 .. Len(fs) /\ a + (j - a + 1) - 1 = j
  BY <1>1, <1>2
<1>5. \A j \in a .. b : fs[j - a + 1] = es[j] /\ j - a + 1 \in DOMAIN fs
  BY <1>2, <1>3, <1>4
<1>6. MapsOf(fs) = {es[i].map : i \in a .. b}
  <2>1. \A x : x \in MapsOf(fs) <=> \E i \in 1 .. Len(fs) : fs[i].map = x
    BY <1>2 DEF MapsOf
  <2>4. \A x : x \in {es[j].map : j \in a .. b} <=> \E j \in a .. b : es[j].map = x
    OBVIOUS
  <2>2. \A i \in 1 .. Len(fs) : \E j \in a .. b : fs[i].map = es[j].map
    BY <1>3
  <2>3. \A j \in a .. b : \E i \in 1 .. Len(fs) : fs[i].map = es[j].map
    BY <1>2, <1>5
  <2>5. \A x : x \in MapsOf(fs) <=> x \in {es[j].map : j \in a .. b}
    BY <2>1, <2>2, <2>3, <2>4, Zenon
  <2> QED BY <2>5, Zenon
<1>7. ASSUME Distinct(es), NEW i \in 1 .. Len(fs), NEW j \in 1 .. Len(fs), fs[i].map = fs[j].map
      PROVE  i = j
  <2>1. a + i - 1 \in DOMAIN es /\ a + j - 1 \in DOMAIN es
    BY <1>1, <1>3
  <2>2. a + i - 1 = a + j - 1
    BY <1>3, <1>7, <2>1 DEF Distinct
  <2> QED BY <1>1, <2>2
<1>8. Distinct(es) => Distinct(fs)
  BY <1>2, <1>7 DEF Distinct
<1>9. IsPart(fs, es, a, b)
  BY <1>2, <1>3, <1>6, <1>8 DEF IsPart
<1> QED BY <1>0, <1>9

\* fs is es with an entry for m at the end.
IsMore(fs, es, m, size) ==
  /\ fs \in Seq(Entries) /\ Len(fs) = Len(es) + 1
  /\ \A i \in 1 .. Len(es) : fs[i] = es[i]
  /\ fs[Len(es) + 1] = Entry(m, size)
  /\ MapsOf(fs) = MapsOf(es) \cup {m}
  /\ Distinct(es) /\ m \notin MapsOf(es) => Distinct(fs)
  /\ Pages(fs, Len(fs)) = Pages(es, Len(es)) + size

\* The entries of a sequence and one more.
LEMMA MoreIs ==
  ASSUME NEW es \in Seq(Entries), NEW m \in Maps, NEW size \in Nat
  PROVE  IsMore(es \o <<Entry(m, size)>>, es, m, size)
<1>0. PICK fs : fs = es \o <<Entry(m, size)>>
  OBVIOUS
<1> DEFINE n == Len(es)
<1>1. n \in Nat /\ DOMAIN es = 1 .. n
  BY EntryAt
<1>2. PICK e : e = Entry(m, size)
  OBVIOUS
<1>3. e \in Entries /\ e.map = m /\ e.size = size
  BY <1>2 DEF Entry, Entries
<1>4. fs \in Seq(Entries) /\ Len(fs) = n + 1 /\ fs[n + 1] = e /\ \A i \in 1 .. n : fs[i] = es[i]
  BY <1>0, <1>1, <1>2, <1>3
<1>5. DOMAIN fs = 1 .. n + 1
  BY <1>4, EntryAt
<1> HIDE DEF n
<1>6. MapsOf(fs) = MapsOf(es) \cup {m}
  <2>1. /\ \A x : x \in MapsOf(fs) <=> \E i \in 1 .. n + 1 : fs[i].map = x
        /\ \A x : x \in MapsOf(es) <=> \E i \in 1 .. n : es[i].map = x
    BY <1>1, <1>5 DEF MapsOf
  <2>2. \A i \in 1 .. n + 1 : i \in 1 .. n \/ i = n + 1
    BY <1>1
  <2>3. n + 1 \in 1 .. n + 1 /\ \A i \in 1 .. n : i \in 1 .. n + 1
    BY <1>1
  <2> QED BY <1>3, <1>4, <2>1, <2>2, <2>3
<1>7. ASSUME Distinct(es), m \notin MapsOf(es) PROVE Distinct(fs)
  <2>1. \A i \in 1 .. n : fs[i].map # m
    BY <1>1, <1>4, <1>7 DEF MapsOf
  <2> SUFFICES ASSUME NEW i \in 1 .. n + 1, NEW j \in 1 .. n + 1, fs[i].map = fs[j].map PROVE i = j
    BY <1>5 DEF Distinct
  <2>2. CASE i \in 1 .. n /\ j \in 1 .. n
    BY <1>1, <1>4, <1>7, <2>2 DEF Distinct
  <2>3. CASE ~ (i \in 1 .. n /\ j \in 1 .. n)
    BY <1>1, <1>3, <1>4, <2>1, <2>3
  <2> QED BY <2>2, <2>3
<1>8. Pages(fs, n + 1) = Pages(es, n) + size
  <2>1. Pages(fs, n + 1) = Pages(fs, n) + fs[n + 1].size
    <3>1. n + 1 \in 1 .. Len(fs) /\ (n + 1) - 1 = n
      BY <1>1, <1>4
    <3> QED BY <1>4, <3>1, PagesIs
  <2>2. Pages(fs, n) = Pages(es, n)
    <3>1. n <= Len(es) /\ n <= Len(fs)
      BY <1>1, <1>4 DEF n
    <3> QED BY <1>1, <1>4, <3>1, PagesPrefix
  <2> QED BY <1>3, <1>4, <2>1, <2>2
<1>9. IsMore(fs, es, m, size)
  BY <1>2, <1>4, <1>6, <1>7, <1>8 DEF n, IsMore
<1> QED BY <1>0, <1>9

\* An empty cache.
LEMMA EmptyIs ==
  /\ <<>> \in Seq(Entries) /\ Len(<<>>) = 0 /\ DOMAIN <<>> = {}
  /\ MapsOf(<<>>) = {} /\ Distinct(<<>>) /\ Pages(<<>>, 0) = 0
<1>1. <<>> \in Seq(Entries) /\ Len(<<>>) = 0 /\ DOMAIN <<>> = {}
  OBVIOUS
<1>2. Pages(<<>>, 0) = 0
  BY <1>1, PagesIs
<1> QED BY <1>1, <1>2 DEF MapsOf, Distinct

\* Every entry of fs is e or one of es.
From(fs, es, e) == \A i \in DOMAIN fs : fs[i] = e \/ \E j \in DOMAIN es : fs[i] = es[j]

\* What put makes of the entries es and a mapping m that is not among them.
IsPut(put, es, m, size) ==
  /\ put.entries \in Seq(Entries) /\ put.unmapped \in Seq(Entries)
  /\ put.bytes = Pages(put.entries, Len(put.entries))
  /\ put.bytes \in Nat /\ put.bytes <= MaxCacheBytes /\ Len(put.entries) <= CacheSlots
  /\ Distinct(put.entries) /\ Distinct(put.unmapped)
  /\ MapsOf(put.entries) \cap MapsOf(put.unmapped) = {}
  /\ MapsOf(put.entries) \cup MapsOf(put.unmapped) = MapsOf(es) \cup {m}
  /\ From(put.entries, es, Entry(m, size)) /\ From(put.unmapped, es, Entry(m, size))

\* put keeps the accounts and the limits, and what it does not store it unmaps.
LEMMA PutIs ==
  ASSUME NEW es \in Seq(Entries), NEW m \in Maps, NEW size \in Nat, NEW put,
         put = Put(es, Pages(es, Len(es)), m, size),
         Distinct(es), m \notin MapsOf(es)
  PROVE  IsPut(put, es, m, size)
<1> DEFINE n == Len(es)
<1>1. n \in Nat /\ DOMAIN es = 1 .. n /\ \A k \in 0 .. n : Pages(es, k) \in Nat
  BY EntryAt, PagesIs
<1>2. CASE \E k \in 0 .. n :
             /\ k < CacheSlots /\ Pages(es, k) + size <= MaxCacheBytes
             /\ put.entries = SubSeq(es, 1, k) \o <<Entry(m, size)>>
             /\ put.bytes = Pages(es, k) + size
             /\ put.unmapped = SubSeq(es, k + 1, n)
  <2>1. PICK k \in 0 .. n :
             /\ k < CacheSlots /\ Pages(es, k) + size <= MaxCacheBytes
             /\ put.entries = SubSeq(es, 1, k) \o <<Entry(m, size)>>
             /\ put.bytes = Pages(es, k) + size
             /\ put.unmapped = SubSeq(es, k + 1, n)
    BY <1>2
  <2>2. PICK fs : fs = SubSeq(es, 1, k)
    OBVIOUS
  <2>3. PICK gs : gs = put.unmapped
    OBVIOUS
  <2>4. PICK hs : hs = put.entries
    OBVIOUS
  <2>5. /\ fs \in Seq(Entries) /\ Len(fs) = k /\ Distinct(fs)
        /\ \A i \in 1 .. k : fs[i] = es[i]
        /\ MapsOf(fs) = {es[i].map : i \in 1 .. k}
    <3>1. 1 \in 1 .. n + 1 /\ 1 <= k + 1 /\ k + 1 - 1 = k
      BY <1>1
    <3>2. /\ fs \in Seq(Entries) /\ Len(fs) = k + 1 - 1 /\ Distinct(fs)
          /\ \A i \in 1 .. Len(fs) : fs[i] = es[1 + i - 1] /\ 1 + i - 1 \in 1 .. k
          /\ MapsOf(fs) = {es[i].map : i \in 1 .. k}
      <4>1. IsPart(fs, es, 1, k)
        BY <2>1, <2>2, <3>1, PartIs
      <4> QED BY <4>1, Zenon DEF IsPart
    <3>3. \A i \in 1 .. k : 1 + i - 1 = i
      BY <1>1
    <3> QED BY <3>1, <3>2, <3>3
  <2>6. /\ gs \in Seq(Entries) /\ Distinct(gs)
        /\ \A i \in 1 .. Len(gs) : gs[i] = es[k + i] /\ k + i \in DOMAIN es
        /\ MapsOf(gs) = {es[i].map : i \in k + 1 .. n}
    <3>1. k + 1 \in 1 .. n + 1 /\ k + 1 <= n + 1 /\ n \in 0 .. n
      BY <1>1
    <3>2. /\ gs \in Seq(Entries) /\ Distinct(gs) /\ Len(gs) = n + 1 - (k + 1)
          /\ \A i \in 1 .. Len(gs) : gs[i] = es[k + 1 + i - 1] /\ k + 1 + i - 1 \in k + 1 .. n
          /\ MapsOf(gs) = {es[i].map : i \in k + 1 .. n}
      <4>1. IsPart(gs, es, k + 1, n)
        BY <2>1, <2>3, <3>1, PartIs
      <4> QED BY <4>1, Zenon DEF IsPart
    <3>3. \A i \in 1 .. Len(gs) : k + 1 + i - 1 = k + i
      BY <1>1, <3>2
    <3> QED BY <1>1, <3>2, <3>3
  <2>7. m \notin MapsOf(fs) /\ m \notin MapsOf(gs)
    <3>1. \A i \in 1 .. n : es[i].map # m
      BY <1>1 DEF MapsOf
    <3>2. (\A i \in 1 .. k : i \in 1 .. n) /\ (\A i \in k + 1 .. n : i \in 1 .. n)
      BY <1>1
    <3> HIDE DEF n
    <3> QED BY <2>5, <2>6, <3>1, <3>2
  <2>8. /\ hs \in Seq(Entries) /\ Len(hs) = k + 1 /\ Distinct(hs)
        /\ \A i \in 1 .. k : hs[i] = fs[i]
        /\ hs[k + 1] = Entry(m, size)
        /\ MapsOf(hs) = MapsOf(fs) \cup {m}
        /\ Pages(hs, Len(hs)) = Pages(fs, k) + size
    <3>1. hs = fs \o <<Entry(m, size)>>
      BY <2>1, <2>2, <2>4
    <3>2. IsMore(hs, fs, m, size)
      BY <2>5, <3>1, MoreIs
    <3> QED BY <2>5, <2>7, <3>2 DEF IsMore
  <2>9. Pages(fs, k) = Pages(es, k)
    BY <1>1, <2>5, PagesPrefix
  <2>10. put.bytes = Pages(hs, Len(hs)) /\ put.bytes \in Nat /\ put.bytes <= MaxCacheBytes
    BY <1>1, <2>1, <2>8, <2>9
  <2>11. Len(hs) <= CacheSlots
    BY <1>1, <2>1, <2>8, LargeCacheAssumption
  <2>12. MapsOf(hs) \cap MapsOf(gs) = {}
    <3>1. ASSUME NEW i \in 1 .. k, NEW j \in k + 1 .. n PROVE es[i].map # es[j].map
      BY <1>1 DEF Distinct
    <3> QED BY <2>5, <2>6, <2>7, <2>8, <3>1
  <2>13. MapsOf(hs) \cup MapsOf(gs) = MapsOf(es) \cup {m}
    <3>1. \A i \in 1 .. n : i \in 1 .. k \/ i \in k + 1 .. n
      BY <1>1
    <3>2. (\A i \in 1 .. k : i \in 1 .. n) /\ (\A i \in k + 1 .. n : i \in 1 .. n)
      BY <1>1
    <3>3. \A x : x \in MapsOf(es) <=> \E i \in 1 .. n : es[i].map = x
      BY <1>1 DEF MapsOf
    <3>4. /\ \A x : x \in MapsOf(fs) <=> \E i \in 1 .. k : es[i].map = x
          /\ \A x : x \in MapsOf(gs) <=> \E i \in k + 1 .. n : es[i].map = x
      BY <2>5, <2>6
    <3>5. \A x : x \in MapsOf(es) <=> x \in MapsOf(fs) \/ x \in MapsOf(gs)
      BY <3>1, <3>2, <3>3, <3>4
    <3> QED BY <2>8, <3>5
  <2>14. From(hs, es, Entry(m, size))
    <3>1. \A i \in 1 .. k + 1 : i \in 1 .. k \/ i = k + 1
      BY <1>1
    <3>2. DOMAIN hs = 1 .. k + 1 /\ \A i \in 1 .. k : i \in DOMAIN es
      BY <1>1, <2>8, EntryAt
    <3> QED BY <2>5, <2>8, <3>1, <3>2 DEF From
  <2>15. From(gs, es, Entry(m, size))
    <3>1. DOMAIN gs = 1 .. Len(gs)
      BY <2>6, EntryAt
    <3> QED BY <2>6, <3>1 DEF From
  <2> QED BY <2>3, <2>4, <2>6, <2>8, <2>10, <2>11, <2>12, <2>13, <2>14, <2>15 DEF IsPut
<1>3. CASE put.entries = <<>> /\ put.bytes = 0 /\ put.unmapped = es \o <<Entry(m, size)>>
  <2>1. PICK gs : gs = put.unmapped
    OBVIOUS
  <2>2. /\ gs \in Seq(Entries) /\ Len(gs) = n + 1 /\ Distinct(gs)
        /\ \A i \in 1 .. n : gs[i] = es[i]
        /\ gs[n + 1] = Entry(m, size)
        /\ MapsOf(gs) = MapsOf(es) \cup {m}
    <3>1. gs = es \o <<Entry(m, size)>>
      BY <1>3, <2>1
    <3>2. IsMore(gs, es, m, size)
      BY <3>1, MoreIs
    <3> QED BY <3>2 DEF IsMore
  <2>3. From(gs, es, Entry(m, size))
    <3>1. DOMAIN gs = 1 .. n + 1 /\ \A i \in 1 .. n + 1 : i \in 1 .. n \/ i = n + 1
      BY <1>1, <2>2, EntryAt
    <3> QED BY <1>1, <2>2, <3>1 DEF From
  <2>4. put.bytes = Pages(<<>>, Len(<<>>)) /\ put.bytes \in Nat /\ put.bytes <= MaxCacheBytes
    BY <1>3, EmptyIs, LargeCacheAssumption
  <2>5. Len(<<>>) <= CacheSlots
    BY EmptyIs, LargeCacheAssumption
  <2>6. From(<<>>, es, Entry(m, size))
    BY EmptyIs DEF From
  <2> QED BY <1>3, <2>1, <2>2, <2>3, <2>4, <2>5, <2>6, EmptyIs DEF IsPut
<1> QED BY <1>2, <1>3, PutShape
=============================================================================
