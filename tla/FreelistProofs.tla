---------------------------- MODULE FreelistProofs ----------------------------
(***************************************************************************)
(* Freelist keeps its invariant, for every number of threads and blocks,   *)
(* every batch, limit and bag, and every number of tag values; and what    *)
(* follows: the properties that walk the links, the pool of blocks it      *)
(* implements, and the order of the accesses to a link.                    *)
(*                                                                         *)
(* Three functions on blocks, which the program does not have, say what    *)
(* the links mean: `kind' and `who' give the place a block is in, `rank'   *)
(* its distance from the end of the chain it is on, counted from one.      *)
(***************************************************************************)
EXTENDS FreelistOrder, FiniteSetTheorems, WellFoundedInduction, TLAPS

\* The blocks of S form one chain that starts at `root' and follows nx down to
\* the block of rank one.
Threaded(S, root, nx, rank) ==
  /\ S = {} => root = NULL
  /\ S # {} => root \in S /\ \A b \in S : rank[b] <= rank[root]
  /\ \A b \in S : rank[b] \in Nat /\ rank[b] >= 1
  /\ \A a, b \in S : rank[a] = rank[b] => a = b
  /\ \A b \in S : rank[b] > 1 => nx[b] \in S /\ rank[nx[b]] = rank[b] - 1

\* The chain ends at its block of rank one.
Closed(S, nx, rank) == \A b \in S : rank[b] = 1 => nx[b] = NULL

-----------------------------------------------------------------------------
(* The invariant.                                                          *)

Kind == {"fresh", "live", "stack", "list", "spare", "chain"}

\* The blocks of one kind, and those one thread has of it.
OfKind(kind, k) == {b \in Block : kind[b] = k}
OfThread(kind, who, k, t) == {b \in Block : kind[b] = k /\ who[b] = t}

\* A ThreadFreelist: its chain ends, and its fields describe it.
ListOK(S, f, nx, rank) ==
  /\ Threaded(S, f.head, nx, rank)
  /\ Closed(S, nx, rank)
  /\ f.head = NULL => f.count = 0 /\ f.tail = NULL
  /\ f.head # NULL => /\ f.count = rank[f.head]
                      /\ f.tail \in S /\ rank[f.tail] = 1

\* The chain in a thread's locals.  While it is published its last link is not
\* its own; while a loop walks it the loop is at `last'.
ChainOK(S, c, label, w, nx, rank) ==
  /\ Threaded(S, c.first, nx, rank)
  /\ label \in {"refill", "exitWalk"} => c.last \in S /\ Closed(S, nx, rank)
  /\ label = "refill" => c.n >= 1 /\ rank[c.first] = rank[c.last] + c.n - 1
  /\ label \in {"pushLoad", "pushCas"} => c.last \in S /\ rank[c.last] = 1
  /\ label = "pushCas" => nx[c.last] = w.ptr
  /\ label \notin {"refill", "exitWalk", "pushLoad", "pushCas"} => S = {}

\* Where a thread can be, given its slot and its list.
ControlOK(S, f, c, label, slot, w, rank) ==
  /\ label \in {"takeLoad", "takeCas", "refill", "carve", "pop", "drain"} => slot = "here"
  /\ label \in {"exitSpare", "exitWalk"} => slot = "dropping"
  /\ slot = "dropping" => /\ label \in {"exitSpare", "exitWalk", "pushLoad", "pushCas"}
                          /\ f.head = NULL
  /\ slot \in {"none", "elsewhere", "destroyed"} => f.head = NULL /\ f.spare = NULL
  /\ label \in {"takeLoad", "takeCas", "carve", "refill"} => f.head = NULL /\ f.spare = NULL
  /\ label = "takeCas" => w.ptr # NULL
  /\ label = "pop" => f.head # NULL
  /\ label = "drain" => /\ c.last \in S /\ c.n >= 1 /\ c.n <= Keep
                        /\ rank[c.last] = f.count - c.n + 1
                        /\ f.count > CacheLimit

ThreadOK(t, kind, who, rank) ==
  /\ ListOK(OfThread(kind, who, "list", t), fl[t], next, rank)
  /\ Threaded(OfThread(kind, who, "spare", t), fl[t].spare, next, rank)
  /\ Closed(OfThread(kind, who, "spare", t), next, rank)
  /\ ChainOK(OfThread(kind, who, "chain", t), chain[t], pc[t], cur[t], next, rank)
  /\ ControlOK(OfThread(kind, who, "list", t), fl[t], chain[t], pc[t], bound[t], cur[t], rank)

\* The places nobody owns: the program's blocks, the untouched part of the region
\* and the node's stack.
SharedOK(kind, rank) ==
  /\ live = OfKind(kind, "live")
  /\ OfKind(kind, "fresh") = {b \in Block : b >= bump}
  /\ Threaded(OfKind(kind, "stack"), head.ptr, next, rank)
  /\ Closed(OfKind(kind, "stack"), next, rank)

\* A block in a thread's list, spare chain or chain is some thread's.
GhostOK(kind, who, rank) ==
  /\ kind \in [Block -> Kind] /\ who \in [Block -> Threads \cup {NULL}] /\ rank \in [Block -> Nat]
  /\ \A b \in Block : kind[b] \in {"list", "spare", "chain"} => who[b] \in Threads

Placed(kind, who, rank) ==
  /\ GhostOK(kind, who, rank)
  /\ SharedOK(kind, rank)
  /\ \A t \in Threads : ThreadOK(t, kind, who, rank)

\* Every block has a place, and the pointers describe the places.
Inv == TypeOK /\ \E kind, who, rank : Placed(kind, who, rank)

-----------------------------------------------------------------------------
(* Chains.                                                                 *)

\* Option::None is not a block.
LEMMA NullNotBlock == NULL \notin Block
BY NullAssumption

\* A chain depends on the links and the ranks of its own blocks only.
LEMMA ChainFrame ==
  ASSUME NEW S, NEW root, NEW nx, NEW rank, NEW nx2, NEW rank2,
         Threaded(S, root, nx, rank),
         \A b \in S : nx2[b] = nx[b] /\ rank2[b] = rank[b]
  PROVE  /\ Threaded(S, root, nx2, rank2)
         /\ Closed(S, nx, rank) => Closed(S, nx2, rank2)
BY DEF Threaded, Closed

\* The first block can be taken off.
LEMMA ChainPop ==
  ASSUME NEW S \in SUBSET Block, NEW root, NEW nx, NEW rank,
         Threaded(S, root, nx, rank), Closed(S, nx, rank), S # {}
  PROVE  /\ Threaded(S \ {root}, nx[root], nx, rank)
         /\ Closed(S \ {root}, nx, rank)
<1>1. root \in S /\ rank[root] \in Nat /\ rank[root] >= 1
  BY DEF Threaded
<1>2. Closed(S \ {root}, nx, rank)
  BY DEF Closed
<1>3. CASE rank[root] = 1
  <2>1. S \ {root} = {} /\ nx[root] = NULL
    BY <1>1, <1>3 DEF Threaded, Closed
  <2> QED BY <1>2, <2>1 DEF Threaded
<1>4. CASE rank[root] > 1
  <2>1. nx[root] \in S /\ rank[nx[root]] = rank[root] - 1
    BY <1>1, <1>4 DEF Threaded
  <2>2. nx[root] \in S \ {root}
    BY <1>1, <2>1
  <2>3. ASSUME NEW b \in S \ {root}
        PROVE  /\ rank[b] \in Nat /\ rank[b] >= 1 /\ rank[b] <= rank[root] - 1
               /\ rank[b] > 1 => nx[b] \in S \ {root} /\ rank[nx[b]] = rank[b] - 1
    BY <1>1 DEF Threaded
  <2> QED BY <1>2, <2>1, <2>2, <2>3 DEF Threaded
<1> QED BY <1>1, <1>3, <1>4

\* A block can be put on top.
LEMMA ChainPush ==
  ASSUME NEW S \in SUBSET Block, NEW root, NEW nx, NEW rank, NEW nx2, NEW rank2,
         NEW b \in Block \ S,
         Threaded(S, root, nx, rank), Closed(S, nx, rank),
         \A c \in S : nx2[c] = nx[c] /\ rank2[c] = rank[c],
         nx2[b] = root,
         rank2[b] = IF root = NULL THEN 1 ELSE rank[root] + 1
  PROVE  /\ Threaded(S \cup {b}, b, nx2, rank2)
         /\ Closed(S \cup {b}, nx2, rank2)
<1>1. CASE S = {}
  <2>1. root = NULL /\ rank2[b] = 1 /\ S \cup {b} = {b}
    BY <1>1 DEF Threaded
  <2> QED BY <2>1 DEF Threaded, Closed
<1>2. CASE S # {}
  <2>1. /\ root \in S /\ root # NULL /\ rank[root] \in Nat /\ rank[root] >= 1
        /\ rank2[b] = rank[root] + 1
    BY <1>2, NullNotBlock DEF Threaded
  <2>2. ASSUME NEW c \in S
        PROVE  /\ rank2[c] \in Nat /\ rank2[c] >= 1 /\ rank2[c] < rank2[b]
               /\ rank2[c] > 1 => nx2[c] \in S /\ rank2[nx2[c]] = rank2[c] - 1
               /\ rank2[c] = 1 => nx2[c] = NULL
    BY <2>1 DEF Threaded, Closed
  <2>3. \A a, c \in S : rank2[a] = rank2[c] => a = c
    BY DEF Threaded
  <2>4. nx2[b] \in S /\ rank2[nx2[b]] = rank2[b] - 1
    BY <2>1
  <2> QED BY <2>1, <2>2, <2>3, <2>4 DEF Threaded, Closed
<1> QED BY <1>1, <1>2

\* What is below a block of a chain is a chain.
LEMMA ChainBelow ==
  ASSUME NEW S \in SUBSET Block, NEW root, NEW nx, NEW rank, NEW m \in S,
         Threaded(S, root, nx, rank), Closed(S, nx, rank)
  PROVE  LET D == {b \in S : rank[b] < rank[m]}
         IN Threaded(D, nx[m], nx, rank) /\ Closed(D, nx, rank)
<1> DEFINE D == {b \in S : rank[b] < rank[m]}
<1>1. rank[m] \in Nat /\ rank[m] >= 1
  BY DEF Threaded
<1>2. Closed(D, nx, rank)
  BY DEF Closed
<1>3. CASE rank[m] = 1
  <2>1. D = {} /\ nx[m] = NULL
    BY <1>3 DEF Threaded, Closed
  <2> QED BY <1>2, <2>1 DEF Threaded
<1>4. CASE rank[m] > 1
  <2>1. nx[m] \in D /\ rank[nx[m]] = rank[m] - 1
    BY <1>1, <1>4 DEF Threaded
  <2>2. ASSUME NEW b \in D
        PROVE  /\ rank[b] \in Nat /\ rank[b] >= 1 /\ rank[b] <= rank[m] - 1
               /\ rank[b] > 1 => nx[b] \in D /\ rank[nx[b]] = rank[b] - 1
    BY <1>1 DEF Threaded
  <2>3. \A a, b \in D : rank[a] = rank[b] => a = b
    BY DEF Threaded
  <2> QED BY <1>2, <2>1, <2>2, <2>3 DEF Threaded
<1> QED BY <1>1, <1>3, <1>4

\* What is above a block of a chain, the block included, is a chain once its
\* last link is cut and its ranks are counted from there.
LEMMA ChainAbove ==
  ASSUME NEW S \in SUBSET Block, NEW root, NEW nx, NEW rank, NEW m \in S,
         NEW nx2, NEW rank2,
         Threaded(S, root, nx, rank),
         \A b \in S : rank[b] >= rank[m] => rank2[b] = rank[b] - rank[m] + 1,
         \A b \in S : rank[b] > rank[m] => nx2[b] = nx[b],
         nx2[m] = NULL
  PROVE  LET U == {b \in S : rank[b] >= rank[m]}
         IN Threaded(U, root, nx2, rank2) /\ Closed(U, nx2, rank2)
<1> DEFINE U == {b \in S : rank[b] >= rank[m]}
<1>1. rank[m] \in Nat /\ rank[m] >= 1 /\ m \in U
  BY DEF Threaded
<1>2. root \in U /\ rank[root] \in Nat
  BY <1>1 DEF Threaded
<1>3. ASSUME NEW b \in U
      PROVE  /\ rank2[b] \in Nat /\ rank2[b] >= 1 /\ rank2[b] <= rank2[root]
             /\ rank2[b] = 1 => b = m
             /\ rank2[b] > 1 => nx2[b] \in U /\ rank2[nx2[b]] = rank2[b] - 1
  <2>1. rank[b] \in Nat /\ rank[b] <= rank[root] /\ rank2[b] = rank[b] - rank[m] + 1
    BY DEF Threaded
  <2>2. rank2[root] = rank[root] - rank[m] + 1
    BY <1>2
  <2>3. rank2[b] = 1 => b = m
    BY <1>1, <2>1 DEF Threaded
  <2>4. ASSUME rank2[b] > 1
        PROVE  nx2[b] \in U /\ rank2[nx2[b]] = rank2[b] - 1
    <3>1. rank[b] > rank[m] /\ rank[b] > 1
      BY <1>1, <2>1, <2>4
    <3>2. nx2[b] = nx[b] /\ nx[b] \in S /\ rank[nx[b]] = rank[b] - 1
      BY <3>1 DEF Threaded
    <3>3. nx[b] \in U
      BY <1>1, <2>1, <3>1, <3>2
    <3> QED BY <1>1, <2>1, <3>2, <3>3
  <2> QED BY <1>1, <1>2, <2>1, <2>2, <2>3, <2>4
<1>4. \A a, b \in U : rank2[a] = rank2[b] => a = b
  BY <1>1 DEF Threaded
<1> QED BY <1>2, <1>3, <1>4 DEF Threaded, Closed

\* A chain whose last link is the root of another goes on top of it.
LEMMA ChainConcat ==
  ASSUME NEW C \in SUBSET Block, NEW S \in SUBSET Block, C \cap S = {},
         NEW first, NEW last \in C, NEW root, NEW nx, NEW rank, NEW rank2,
         Threaded(C, first, nx, rank), rank[last] = 1, nx[last] = root,
         Threaded(S, root, nx, rank), Closed(S, nx, rank),
         \A b \in S : rank2[b] = rank[b],
         \A b \in C : rank2[b] = rank[b] + (IF root = NULL THEN 0 ELSE rank[root])
  PROVE  /\ Threaded(C \cup S, first, nx, rank2)
         /\ Closed(C \cup S, nx, rank2)
<1> DEFINE k == IF root = NULL THEN 0 ELSE rank[root]
<1>1. k \in Nat /\ \A b \in S : rank[b] \in Nat /\ rank[b] >= 1 /\ rank[b] <= k
  BY NullNotBlock DEF Threaded
<1>2. \A b \in C : rank[b] \in Nat /\ rank[b] >= 1 /\ rank2[b] = rank[b] + k
  BY DEF Threaded
<1> HIDE DEF k
<1>3. first \in C /\ \A b \in C : rank[b] <= rank[first]
  BY DEF Threaded
<1>4. \A b \in C \cup S : rank2[b] \in Nat /\ rank2[b] >= 1 /\ rank2[b] <= rank2[first]
  BY <1>1, <1>2, <1>3
<1>5. \A a, b \in C \cup S : rank2[a] = rank2[b] => a = b
  <2>1. \A a, b \in C : rank2[a] = rank2[b] => a = b
    BY <1>1, <1>2 DEF Threaded
  <2>2. \A a, b \in S : rank2[a] = rank2[b] => a = b
    BY DEF Threaded
  <2>3. \A a \in C, b \in S : rank2[a] # rank2[b]
    BY <1>1, <1>2
  <2> QED BY <2>1, <2>2, <2>3
<1>6. ASSUME NEW b \in S
      PROVE  /\ rank2[b] > 1 => nx[b] \in C \cup S /\ rank2[nx[b]] = rank2[b] - 1
             /\ rank2[b] = 1 => nx[b] = NULL
  BY DEF Threaded, Closed
<1>7. ASSUME NEW b \in C
      PROVE  /\ rank2[b] > 1 => nx[b] \in C \cup S /\ rank2[nx[b]] = rank2[b] - 1
             /\ rank2[b] = 1 => nx[b] = NULL
  <2>1. CASE rank[b] = 1
    <3>1. b = last
      BY <2>1 DEF Threaded
    <3>2. CASE root = NULL
      <4>1. k = 0
        BY <3>2 DEF k
      <4> QED BY <1>2, <2>1, <3>1, <3>2, <4>1
    <3>3. CASE root # NULL
      <4>1. root \in S /\ k = rank[root]
        BY <3>3 DEF Threaded, k
      <4>2. rank2[b] = 1 + k /\ k >= 1 /\ rank2[root] = k
        BY <1>1, <1>2, <2>1, <4>1
      <4> QED BY <1>1, <3>1, <4>1, <4>2
    <3> QED BY <3>2, <3>3
  <2>2. CASE rank[b] > 1
    <3>1. nx[b] \in C /\ rank[nx[b]] = rank[b] - 1
      BY <2>2 DEF Threaded
    <3>2. rank2[b] > 1 /\ rank2[nx[b]] = rank2[b] - 1
      BY <1>1, <1>2, <2>2, <3>1
    <3> QED BY <1>1, <1>2, <3>1, <3>2
  <2> QED BY <1>2, <2>1, <2>2
<1> QED BY <1>3, <1>4, <1>5, <1>6, <1>7 DEF Threaded, Closed

\* A bag whose objects were pushed in address order is a chain.
LEMMA ChainBag ==
  ASSUME NEW lo \in Nat, NEW n \in Nat \ {0}, NEW nx, NEW rank,
         \A b \in lo .. lo + n - 1 :
           /\ nx[b] = IF b = lo THEN NULL ELSE b - 1
           /\ rank[b] = b - lo + 1
  PROVE  LET S == lo .. lo + n - 1
         IN Threaded(S, lo + n - 1, nx, rank) /\ Closed(S, nx, rank)
<1> DEFINE S == lo .. lo + n - 1
<1>1. lo + n - 1 \in S
  OBVIOUS
<1>2. \A b \in S : b \in Nat /\ rank[b] \in Nat /\ rank[b] >= 1 /\ rank[b] <= rank[lo + n - 1]
  OBVIOUS
<1>3. \A a, b \in S : rank[a] = rank[b] => a = b
  OBVIOUS
<1>4. \A b \in S : /\ rank[b] > 1 => nx[b] \in S /\ rank[nx[b]] = rank[b] - 1
                   /\ rank[b] = 1 => nx[b] = NULL
  OBVIOUS
<1> QED BY <1>1, <1>2, <1>3, <1>4 DEF Threaded, Closed

-----------------------------------------------------------------------------
(* Places.                                                                 *)

\* Thread u has block b, in one of its places.
Has(kind, who, u, b) == kind[b] \in {"list", "spare", "chain"} /\ who[b] = u

\* Between two states with their ghosts, nothing about b changed.
Untouched(b, kind, who, rank, kind2, who2, rank2) ==
  /\ kind2[b] = kind[b] /\ who2[b] = who[b] /\ rank2[b] = rank[b]
  /\ next'[b] = next[b]

\* Thread u takes no step.
Stays(u) ==
  /\ fl'[u] = fl[u] /\ chain'[u] = chain[u] /\ pc'[u] = pc[u]
  /\ bound'[u] = bound[u] /\ cur'[u] = cur[u]

\* A thread that does not move, and whose blocks nobody touched, is as it was.
LEMMA OtherThread ==
  ASSUME NEW u \in Threads,
         NEW kind, NEW who, NEW rank, NEW kind2, NEW who2, NEW rank2,
         ThreadOK(u, kind, who, rank),
         Stays(u),
         \A b \in Block :
           \/ Untouched(b, kind, who, rank, kind2, who2, rank2)
           \/ ~ Has(kind, who, u, b) /\ ~ Has(kind2, who2, u, b)
  PROVE  ThreadOK(u, kind2, who2, rank2)'
<1> DEFINE L == OfThread(kind, who, "list", u)
           S == OfThread(kind, who, "spare", u)
           C == OfThread(kind, who, "chain", u)
<1>1. /\ OfThread(kind2, who2, "list", u) = L
      /\ OfThread(kind2, who2, "spare", u) = S
      /\ OfThread(kind2, who2, "chain", u) = C
  BY DEF OfThread, Has, Untouched
<1>2. \A b \in L \cup S \cup C : next'[b] = next[b] /\ rank2[b] = rank[b]
  BY DEF OfThread, Has, Untouched
<1>3. L \subseteq Block /\ S \subseteq Block /\ C \subseteq Block
  BY DEF OfThread
<1> HIDE DEF L, S, C
<1>4. ListOK(L, fl[u], next', rank2)
  <2>1. ListOK(L, fl[u], next, rank)
    BY DEF ThreadOK, L
  <2>2. Threaded(L, fl[u].head, next', rank2) /\ Closed(L, next', rank2)
    BY <1>2, <2>1, ChainFrame DEF ListOK
  <2>3. fl[u].head # NULL => fl[u].head \in L
    BY <2>1 DEF ListOK, Threaded
  <2> QED BY <1>2, <2>1, <2>2, <2>3 DEF ListOK
<1>5. Threaded(S, fl[u].spare, next', rank2) /\ Closed(S, next', rank2)
  <2>1. Threaded(S, fl[u].spare, next, rank) /\ Closed(S, next, rank)
    BY DEF ThreadOK, S
  <2> QED BY <1>2, <2>1, ChainFrame
<1>6. ChainOK(C, chain[u], pc[u], cur[u], next', rank2)
  <2>1. ChainOK(C, chain[u], pc[u], cur[u], next, rank)
    BY DEF ThreadOK, C
  <2>2. /\ Threaded(C, chain[u].first, next', rank2)
        /\ Closed(C, next, rank) => Closed(C, next', rank2)
    BY <1>2, <2>1, ChainFrame DEF ChainOK
  <2>3. C # {} => chain[u].first \in C
    BY <2>1 DEF ChainOK, Threaded
  <2> QED BY <1>2, <2>1, <2>2, <2>3 DEF ChainOK
<1>7. ControlOK(L, fl[u], chain[u], pc[u], bound[u], cur[u], rank2)
  <2>1. ControlOK(L, fl[u], chain[u], pc[u], bound[u], cur[u], rank)
    BY DEF ThreadOK, L
  <2> QED BY <1>2, <2>1 DEF ControlOK
<1> QED BY <1>1, <1>4, <1>5, <1>6, <1>7 DEF ThreadOK, Stays

\* The stack is as it was when its head is and nobody touched its blocks.
LEMMA StackFrame ==
  ASSUME NEW kind, NEW who, NEW rank, NEW kind2, NEW who2, NEW rank2,
         SharedOK(kind, rank), head'.ptr = head.ptr,
         \A b \in Block :
           \/ Untouched(b, kind, who, rank, kind2, who2, rank2)
           \/ kind[b] # "stack" /\ kind2[b] # "stack"
  PROVE  /\ Threaded(OfKind(kind2, "stack"), head'.ptr, next', rank2)
         /\ Closed(OfKind(kind2, "stack"), next', rank2)
<1> DEFINE S == OfKind(kind, "stack")
<1>1. OfKind(kind2, "stack") = S
  BY DEF OfKind, Untouched
<1>2. \A b \in S : next'[b] = next[b] /\ rank2[b] = rank[b]
  BY DEF OfKind, Untouched
<1>3. Threaded(S, head.ptr, next, rank) /\ Closed(S, next, rank)
  BY DEF SharedOK
<1> HIDE DEF S
<1> QED BY <1>1, <1>2, <1>3, ChainFrame

-----------------------------------------------------------------------------
\* Initially every block is fresh.
LEMMA InitInv == Init => Inv
<1> SUFFICES ASSUME Init PROVE Inv
  OBVIOUS
<1>1. TypeOK
  BY FreelistAssumption, NullAssumption
  DEF Init, TypeOK, Word, Ptr, Bound, PC, NoWord, NoChain, EmptyFreelist, Block
<1> DEFINE kind == [b \in Block |-> "fresh"]
           who == [b \in Block |-> NULL]
           rank == [b \in Block |-> 0]
<1>2. GhostOK(kind, who, rank)
  BY DEF GhostOK, Kind
<1>3. SharedOK(kind, rank)
  <2>1. OfKind(kind, "live") = {} /\ OfKind(kind, "stack") = {} /\ OfKind(kind, "fresh") = Block
    BY DEF OfKind
  <2>2. Block = {b \in Block : b >= 0}
    BY FreelistAssumption DEF Block
  <2> QED BY <2>1, <2>2 DEF Init, SharedOK, NoWord, Threaded, Closed
<1>4. ASSUME NEW t \in Threads PROVE ThreadOK(t, kind, who, rank)
  <2>1. \A k \in {"list", "spare", "chain"} : OfThread(kind, who, k, t) = {}
    BY DEF OfThread
  <2>2. /\ fl[t] = EmptyFreelist /\ pc[t] = "idle" /\ bound[t] = "none"
        /\ chain[t] = NoChain
    BY DEF Init
  <2> QED BY <2>1, <2>2
    DEF ThreadOK, ListOK, ChainOK, ControlOK, Threaded, Closed, EmptyFreelist, NoChain
<1>5. Placed(kind, who, rank)
  BY <1>2, <1>3, <1>4 DEF Placed
<1> HIDE DEF kind, who, rank
<1> QED BY <1>1, <1>5 DEF Inv

\* A step of t that only sets t's fields, and leaves every block where it is.
LEMMA QuietStep ==
  ASSUME NEW t \in Threads, NEW kind, NEW who, NEW rank,
         Placed(kind, who, rank),
         UNCHANGED <<bump, live>>, head'.ptr = head.ptr,
         \A u \in Threads \ {t} : Stays(u),
         \A b \in Block : next'[b] = next[b] \/ (kind[b] = "chain" /\ who[b] = t),
         ThreadOK(t, kind, who, rank)'
  PROVE  Placed(kind, who, rank)'
<1>1. \A b \in Block : \/ Untouched(b, kind, who, rank, kind, who, rank)
                       \/ (kind[b] = "chain" /\ who[b] = t)
  BY DEF Untouched
<1>2. SharedOK(kind, rank)'
  <2>1. SharedOK(kind, rank)
    BY DEF Placed
  <2>2. \A b \in Block : \/ Untouched(b, kind, who, rank, kind, who, rank)
                         \/ kind[b] # "stack" /\ kind[b] # "stack"
    BY <1>1
  <2>3. /\ Threaded(OfKind(kind, "stack"), head'.ptr, next', rank)
        /\ Closed(OfKind(kind, "stack"), next', rank)
    BY <2>1, <2>2, StackFrame
  <2> QED BY <2>1, <2>3 DEF SharedOK
<1>3. ASSUME NEW u \in Threads PROVE ThreadOK(u, kind, who, rank)'
  <2>1. CASE u = t
    BY <2>1
  <2>2. CASE u # t
    <3>1. \A b \in Block : \/ Untouched(b, kind, who, rank, kind, who, rank)
                           \/ ~ Has(kind, who, u, b) /\ ~ Has(kind, who, u, b)
      BY <1>1, <2>2 DEF Has
    <3>2. ThreadOK(u, kind, who, rank)
      BY DEF Placed
    <3> QED BY <2>2, <3>1, <3>2, OtherThread
  <2> QED BY <2>1, <2>2
<1>4. GhostOK(kind, who, rank)
  BY DEF Placed
<1> QED BY <1>2, <1>3, <1>4 DEF Placed

\* Every link of a chain leads to a block of it, or ends it.
LEMMA ChainLinks ==
  ASSUME NEW S, NEW root, NEW nx, NEW rank,
         Threaded(S, root, nx, rank), Closed(S, nx, rank)
  PROVE  \A b \in S : nx[b] \in S \cup {NULL} /\ (nx[b] = NULL => rank[b] = 1 \/ NULL \in S)
BY DEF Threaded, Closed

\* Binding a thread moves no block.
LEMMA InitThreadHeapInv ==
  ASSUME NEW t \in Threads, Inv, InitThreadHeap(t)
  PROVE  Inv'
<1>1. PICK kind, who, rank : Placed(kind, who, rank)
  BY DEF Inv
<1>2. TypeOK'
  BY DEF Inv, TypeOK, InitThreadHeap, Bound
<1>3. ThreadOK(t, kind, who, rank)'
  <2>1. ThreadOK(t, kind, who, rank)
    BY <1>1 DEF Placed
  <2>2. bound'[t] \in {"here", "elsewhere"}
    BY DEF Inv, TypeOK, InitThreadHeap
  <2> QED BY <2>1, <2>2 DEF ThreadOK, ControlOK, InitThreadHeap
<1>4. Placed(kind, who, rank)'
  <2>1. \A u \in Threads \ {t} : Stays(u)
    BY DEF InitThreadHeap, Stays, Inv, TypeOK
  <2>2. UNCHANGED <<bump, live>> /\ head'.ptr = head.ptr
    BY DEF InitThreadHeap
  <2>3. \A b \in Block : next'[b] = next[b] \/ (kind[b] = "chain" /\ who[b] = t)
    BY DEF InitThreadHeap
  <2> QED BY <1>1, <1>3, <2>1, <2>2, <2>3, QuietStep
<1> QED BY <1>2, <1>4 DEF Inv

\* Nor does a new thread.
LEMMA ThreadStartInv ==
  ASSUME NEW t \in Threads, Inv, ThreadStart(t)
  PROVE  Inv'
<1>1. PICK kind, who, rank : Placed(kind, who, rank)
  BY DEF Inv
<1>2. TypeOK'
  BY DEF Inv, TypeOK, ThreadStart, Bound
<1>3. ThreadOK(t, kind, who, rank)'
  <2>1. ThreadOK(t, kind, who, rank)
    BY <1>1 DEF Placed
  <2>2. bound'[t] = "none"
    BY DEF Inv, TypeOK, ThreadStart
  <2> QED BY <2>1, <2>2 DEF ThreadOK, ControlOK, ThreadStart
<1>4. Placed(kind, who, rank)'
  <2>1. \A u \in Threads \ {t} : Stays(u)
    BY DEF ThreadStart, Stays, Inv, TypeOK
  <2>2. UNCHANGED <<bump, live>> /\ head'.ptr = head.ptr
    BY DEF ThreadStart
  <2>3. \A b \in Block : next'[b] = next[b] \/ (kind[b] = "chain" /\ who[b] = t)
    BY DEF ThreadStart
  <2> QED BY <1>1, <1>3, <2>1, <2>2, <2>3, QuietStep
<1> QED BY <1>2, <1>4 DEF Inv

\* The load of take_all moves no block; it remembers a head that was not null.
LEMMA TakeAllLoadInv ==
  ASSUME NEW t \in Threads, Inv, TakeAllLoad(t)
  PROVE  Inv'
<1>1. PICK kind, who, rank : Placed(kind, who, rank)
  BY DEF Inv
<1>2. TypeOK'
  BY DEF Inv, TypeOK, TakeAllLoad, Goto, PC
<1>3. ThreadOK(t, kind, who, rank)'
  <2>1. ThreadOK(t, kind, who, rank) /\ pc[t] = "takeLoad"
    BY <1>1 DEF Placed, TakeAllLoad
  <2>2. \/ pc'[t] = "carve"
        \/ pc'[t] = "takeCas" /\ cur'[t].ptr # NULL
    BY DEF Inv, TypeOK, TakeAllLoad, Goto
  <2>3. fl' = fl /\ chain' = chain /\ bound' = bound /\ next' = next
    BY DEF TakeAllLoad
  <2>4. ChainOK(OfThread(kind, who, "chain", t), chain[t], pc'[t], cur'[t], next, rank)
    BY <2>1, <2>2 DEF ThreadOK, ChainOK
  <2>5. ControlOK(OfThread(kind, who, "list", t), fl[t], chain[t], pc'[t], bound[t], cur'[t], rank)
    BY <2>1, <2>2 DEF ThreadOK, ControlOK
  <2> QED BY <2>1, <2>3, <2>4, <2>5 DEF ThreadOK
<1>4. Placed(kind, who, rank)'
  <2>1. \A u \in Threads \ {t} : Stays(u)
    BY DEF TakeAllLoad, Goto, Stays, Inv, TypeOK
  <2>2. UNCHANGED <<bump, live>> /\ head'.ptr = head.ptr
    BY DEF TakeAllLoad
  <2>3. \A b \in Block : next'[b] = next[b] \/ (kind[b] = "chain" /\ who[b] = t)
    BY DEF TakeAllLoad
  <2> QED BY <1>1, <1>3, <2>1, <2>2, <2>3, QuietStep
<1> QED BY <1>2, <1>4 DEF Inv

\* A failed compare-and-swap moves no block; a stale last link is rewritten.
LEMMA RetryInv ==
  ASSUME NEW t \in Threads, Inv, pc[t] \in {"takeCas", "pushCas"}, Retry(t)
  PROVE  Inv'
<1>1. PICK kind, who, rank : Placed(kind, who, rank)
  BY DEF Inv
<1>2. NoWord \in Word
  BY FreelistAssumption DEF NoWord, Word, Ptr
<1>3. TypeOK'
  BY <1>2 DEF Inv, TypeOK, Retry, PC
<1>4. ThreadOK(t, kind, who, rank)'
  <2>1. ThreadOK(t, kind, who, rank)
    BY <1>1 DEF Placed
  <2>2. \/ pc[t] = "takeCas" /\ pc'[t] = "takeLoad"
        \/ pc[t] = "pushCas" /\ pc'[t] = "pushLoad"
    BY DEF Inv, TypeOK, Retry
  <2>3. fl' = fl /\ chain' = chain /\ bound' = bound /\ next' = next
    BY DEF Retry
  <2>4. ChainOK(OfThread(kind, who, "chain", t), chain[t], pc'[t], cur'[t], next, rank)
    BY <2>1, <2>2 DEF ThreadOK, ChainOK
  <2>5. ControlOK(OfThread(kind, who, "list", t), fl[t], chain[t], pc'[t], bound[t], cur'[t], rank)
    BY <2>1, <2>2 DEF ThreadOK, ControlOK
  <2> QED BY <2>1, <2>3, <2>4, <2>5 DEF ThreadOK
<1>5. Placed(kind, who, rank)'
  <2>1. \A u \in Threads \ {t} : Stays(u)
    BY DEF Retry, Stays, Inv, TypeOK
  <2>2. UNCHANGED <<bump, live>> /\ head'.ptr = head.ptr
    BY DEF Retry
  <2>3. \A b \in Block : next'[b] = next[b] \/ (kind[b] = "chain" /\ who[b] = t)
    BY DEF Retry
  <2> QED BY <1>1, <1>4, <2>1, <2>2, <2>3, QuietStep
<1> QED BY <1>3, <1>5 DEF Inv

\* push_chain rewrites the link of a block nobody else can reach.
LEMMA PushChainLoadInv ==
  ASSUME NEW t \in Threads, Inv, PushChainLoad(t)
  PROVE  Inv'
<1>1. PICK kind, who, rank : Placed(kind, who, rank)
  BY DEF Inv
<1> DEFINE C == OfThread(kind, who, "chain", t)
           last == chain[t].last
<1>2. ThreadOK(t, kind, who, rank) /\ pc[t] = "pushLoad"
  BY <1>1 DEF Placed, PushChainLoad
<1>3. last \in C /\ rank[last] = 1 /\ C \subseteq Block
  BY <1>2 DEF ThreadOK, ChainOK, OfThread
<1>4. TypeOK'
  BY <1>3 DEF Inv, TypeOK, PushChainLoad, Goto, PC, Word
<1>5. /\ next'[last] = head.ptr /\ cur'[t] = head /\ pc'[t] = "pushCas"
      /\ \A b \in Block \ {last} : next'[b] = next[b]
      /\ fl' = fl /\ chain' = chain /\ bound' = bound
  BY <1>3 DEF Inv, TypeOK, PushChainLoad, Goto
<1>6. ThreadOK(t, kind, who, rank)'
  <2>1. \A k \in {"list", "spare"} : OfThread(kind, who, k, t) \subseteq Block \ {last}
    BY <1>3 DEF OfThread
  <2>2. ListOK(OfThread(kind, who, "list", t), fl[t], next', rank)
    <3>1. ListOK(OfThread(kind, who, "list", t), fl[t], next, rank)
      BY <1>2 DEF ThreadOK
    <3>2. \A b \in OfThread(kind, who, "list", t) : next'[b] = next[b] /\ rank[b] = rank[b]
      BY <1>5, <2>1
    <3> QED BY <3>1, <3>2, ChainFrame DEF ListOK
  <2>3. /\ Threaded(OfThread(kind, who, "spare", t), fl[t].spare, next', rank)
        /\ Closed(OfThread(kind, who, "spare", t), next', rank)
    <3>1. \A b \in OfThread(kind, who, "spare", t) : next'[b] = next[b] /\ rank[b] = rank[b]
      BY <1>5, <2>1
    <3> QED BY <1>2, <3>1, ChainFrame DEF ThreadOK
  <2>4. ChainOK(C, chain[t], "pushCas", head, next', rank)
    <3>1. Threaded(C, chain[t].first, next, rank)
      BY <1>2 DEF ThreadOK, ChainOK
    <3>2. \A b \in C : rank[b] > 1 => next'[b] = next[b]
      BY <1>3, <1>5
    <3>3. Threaded(C, chain[t].first, next', rank)
      BY <3>1, <3>2 DEF Threaded
    <3> QED BY <1>3, <1>5, <3>3 DEF ChainOK
  <2>5. ControlOK(OfThread(kind, who, "list", t), fl[t], chain[t], "pushCas", bound[t], head, rank)
    BY <1>2 DEF ThreadOK, ControlOK
  <2> QED BY <1>5, <2>2, <2>3, <2>4, <2>5 DEF ThreadOK
<1>7. Placed(kind, who, rank)'
  <2>1. \A b \in Block : next'[b] = next[b] \/ (kind[b] = "chain" /\ who[b] = t)
    <3>1. kind[last] = "chain" /\ who[last] = t
      BY <1>3 DEF OfThread
    <3> QED BY <1>5, <3>1
  <2>2. \A u \in Threads \ {t} : Stays(u)
    BY DEF PushChainLoad, Goto, Stays, Inv, TypeOK
  <2>3. UNCHANGED <<bump, live>> /\ head'.ptr = head.ptr
    BY DEF PushChainLoad
  <2> QED BY <1>1, <1>6, <2>1, <2>2, <2>3, QuietStep
<1> QED BY <1>4, <1>7 DEF Inv

-----------------------------------------------------------------------------
(* Steps that move blocks.                                                 *)

\* Block b is nobody else's.
Mine(kind, who, t, b) == kind[b] \in {"list", "spare", "chain"} => who[b] = t

\* A step of t that touches no block of another thread.
LEMMA MoveStep ==
  ASSUME NEW t \in Threads,
         NEW kind, NEW who, NEW rank, NEW kind2, NEW who2, NEW rank2,
         Placed(kind, who, rank), GhostOK(kind2, who2, rank2),
         \A u \in Threads \ {t} : Stays(u),
         \A b \in Block :
           \/ Untouched(b, kind, who, rank, kind2, who2, rank2)
           \/ Mine(kind, who, t, b) /\ Mine(kind2, who2, t, b),
         SharedOK(kind2, rank2)', ThreadOK(t, kind2, who2, rank2)'
  PROVE  Placed(kind2, who2, rank2)'
<1>1. ASSUME NEW u \in Threads PROVE ThreadOK(u, kind2, who2, rank2)'
  <2>1. CASE u = t
    BY <2>1
  <2>2. CASE u # t
    <3>1. \A b \in Block :
            \/ Untouched(b, kind, who, rank, kind2, who2, rank2)
            \/ ~ Has(kind, who, u, b) /\ ~ Has(kind2, who2, u, b)
      BY <2>2 DEF Has, Mine
    <3>2. ThreadOK(u, kind, who, rank) /\ Stays(u)
      BY <2>2 DEF Placed
    <3> QED BY <3>1, <3>2, OtherThread
  <2> QED BY <2>1, <2>2
<1> QED BY <1>1 DEF Placed

\* The places after t's blocks of kind `from' became its chain.
AsChain(kind, who, from, t) ==
  [b \in Block |-> IF kind[b] = from /\ who[b] = t THEN "chain" ELSE kind[b]]

\* What becomes of the places when t's blocks of one kind become its chain.
LEMMA ToChain ==
  ASSUME NEW t \in Threads, NEW kind, NEW who, NEW rank,
         NEW from \in {"list", "spare"},
         GhostOK(kind, who, rank),
         NEW kind2, kind2 = AsChain(kind, who, from, t)
  PROVE  /\ GhostOK(kind2, who, rank)
         /\ OfKind(kind2, "fresh") = OfKind(kind, "fresh")
         /\ OfKind(kind2, "live") = OfKind(kind, "live")
         /\ OfKind(kind2, "stack") = OfKind(kind, "stack")
         /\ \A b \in Block :
              \/ kind2[b] = kind[b]
              \/ Mine(kind, who, t, b) /\ Mine(kind2, who, t, b)
<1>1. GhostOK(kind2, who, rank)
  BY DEF GhostOK, Kind, AsChain
<1>2. /\ OfKind(kind2, "fresh") = OfKind(kind, "fresh")
      /\ OfKind(kind2, "live") = OfKind(kind, "live")
      /\ OfKind(kind2, "stack") = OfKind(kind, "stack")
  BY DEF OfKind, AsChain
<1>3. \A b \in Block :
        \/ kind2[b] = kind[b]
        \/ Mine(kind, who, t, b) /\ Mine(kind2, who, t, b)
  BY DEF Mine, AsChain
<1> QED BY <1>1, <1>2, <1>3

\* A step that makes t's list or spare chain its chain, and moves nothing else.
LEMMA ToChainStep ==
  ASSUME NEW t \in Threads, NEW kind, NEW who, NEW rank,
         NEW from \in {"list", "spare"},
         Placed(kind, who, rank),
         UNCHANGED <<bump, live, head, next>>,
         \A u \in Threads \ {t} : Stays(u),
         ThreadOK(t, AsChain(kind, who, from, t), who, rank)'
  PROVE  Placed(AsChain(kind, who, from, t), who, rank)'
<1>0. PICK kind2 : kind2 = AsChain(kind, who, from, t)
  OBVIOUS
<1>1. GhostOK(kind, who, rank)
  BY DEF Placed
<1>2. /\ GhostOK(kind2, who, rank)
      /\ OfKind(kind2, "fresh") = OfKind(kind, "fresh")
      /\ OfKind(kind2, "live") = OfKind(kind, "live")
      /\ OfKind(kind2, "stack") = OfKind(kind, "stack")
      /\ \A b \in Block :
           \/ kind2[b] = kind[b]
           \/ Mine(kind, who, t, b) /\ Mine(kind2, who, t, b)
  BY <1>0, <1>1, ToChain
<1>3. SharedOK(kind2, rank)'
  BY <1>2 DEF Placed, SharedOK
<1>4. \A b \in Block :
        \/ Untouched(b, kind, who, rank, kind2, who, rank)
        \/ Mine(kind, who, t, b) /\ Mine(kind2, who, t, b)
  BY <1>2 DEF Untouched
<1> QED BY <1>0, <1>2, <1>3, <1>4, MoveStep

\* take_spare turns the spare chain into the chain of the refill.
LEMMA AllocMissInv ==
  ASSUME NEW t \in Threads, Inv, AllocMiss(t)
  PROVE  Inv'
<1>1. PICK kind, who, rank : Placed(kind, who, rank)
  BY DEF Inv
<1>2. /\ ThreadOK(t, kind, who, rank)
      /\ pc[t] = "idle" /\ bound[t] = "here" /\ fl[t].head = NULL
  BY <1>1 DEF Placed, AllocMiss
<1>3. OfThread(kind, who, "chain", t) = {}
  BY <1>2 DEF ThreadOK, ChainOK
<1>4. CASE fl[t].spare # NULL
  <2>0. PICK kind2 : kind2 = AsChain(kind, who, "spare", t)
    OBVIOUS
  <2> DEFINE S == OfThread(kind, who, "spare", t)
             spare == fl[t].spare
             c == [first |-> spare, last |-> spare, n |-> 1]
  <2>1. /\ fl' = [fl EXCEPT ![t].spare = NULL]
        /\ chain' = [chain EXCEPT ![t] = c]
        /\ pc' = [pc EXCEPT ![t] = "refill"]
        /\ UNCHANGED <<bump, head, next, live, bound, cur>>
    BY <1>4 DEF AllocMiss, Goto
  <2>2. TypeOK'
    BY <2>1 DEF Inv, TypeOK, Ptr, PC
  <2>3. /\ fl'[t].head = NULL /\ fl'[t].spare = NULL
        /\ fl'[t].count = fl[t].count /\ fl'[t].tail = fl[t].tail
        /\ chain'[t] = c /\ pc'[t] = "refill" /\ cur'[t] = cur[t]
        /\ bound'[t] = "here" /\ next' = next
    BY <1>2, <2>1 DEF Inv, TypeOK
  <2>4. /\ OfThread(kind2, who, "chain", t) = S
        /\ OfThread(kind2, who, "spare", t) = {}
        /\ OfThread(kind2, who, "list", t) = OfThread(kind, who, "list", t)
    BY <1>3, <2>0 DEF OfThread, AsChain
  <2>5. Threaded(S, spare, next, rank) /\ Closed(S, next, rank)
    BY <1>2 DEF ThreadOK
  <2>6. spare \in S /\ rank[spare] \in Nat
    BY <1>4, <2>5 DEF Threaded
  <2> HIDE DEF S
  <2>7. ThreadOK(t, kind2, who, rank)'
    <3>1. ListOK(OfThread(kind2, who, "list", t), fl'[t], next, rank)
      BY <1>2, <2>3, <2>4 DEF ThreadOK, ListOK
    <3>2. Threaded({}, NULL, next, rank) /\ Closed({}, next, rank)
      BY DEF Threaded, Closed
    <3>3. ChainOK(S, c, "refill", cur[t], next, rank)
      BY <2>5, <2>6 DEF ChainOK
    <3>4. ControlOK(OfThread(kind2, who, "list", t), fl'[t], c, "refill", "here", cur[t], rank)
      BY <2>3 DEF ControlOK
    <3> QED BY <2>3, <2>4, <3>1, <3>2, <3>3, <3>4 DEF ThreadOK
  <2>8. \A u \in Threads \ {t} : Stays(u)
    BY <2>1 DEF Stays, Inv, TypeOK
  <2>9. Placed(kind2, who, rank)'
    BY <1>1, <1>3, <2>0, <2>1, <2>7, <2>8, ToChainStep
  <2> QED BY <2>2, <2>9 DEF Inv
<1>5. CASE fl[t].spare = NULL
  <2>1. pc' = [pc EXCEPT ![t] = "takeLoad"] /\ UNCHANGED <<bump, head, next, live, bound, cur, fl, chain>>
    BY <1>5 DEF AllocMiss, Goto
  <2>2. TypeOK'
    BY <2>1 DEF Inv, TypeOK, PC
  <2>3. pc'[t] = "takeLoad"
    BY <2>1 DEF Inv, TypeOK
  <2>4. ThreadOK(t, kind, who, rank)'
    BY <1>2, <1>3, <1>5, <2>1, <2>3 DEF ThreadOK, ChainOK, ControlOK
  <2>5. \A u \in Threads \ {t} : Stays(u)
    BY <2>1 DEF Stays, Inv, TypeOK
  <2>6. Placed(kind, who, rank)'
    BY <1>1, <2>1, <2>4, <2>5, QuietStep
  <2> QED BY <2>2, <2>6 DEF Inv
<1> QED BY <1>4, <1>5

\* take_spare at exit turns the spare chain into the chain of the walk.
LEMMA DropSpareInv ==
  ASSUME NEW t \in Threads, Inv, DropSpare(t)
  PROVE  Inv'
<1>1. PICK kind, who, rank : Placed(kind, who, rank)
  BY DEF Inv
<1>2. /\ ThreadOK(t, kind, who, rank)
      /\ pc[t] = "exitSpare" /\ bound[t] = "dropping" /\ fl[t].head = NULL
  BY <1>1 DEF Placed, DropSpare, ThreadOK, ControlOK
<1>3. OfThread(kind, who, "chain", t) = {}
  BY <1>2 DEF ThreadOK, ChainOK
<1>4. CASE fl[t].spare # NULL
  <2>0. PICK kind2 : kind2 = AsChain(kind, who, "spare", t)
    OBVIOUS
  <2> DEFINE S == OfThread(kind, who, "spare", t)
             spare == fl[t].spare
             c == [first |-> spare, last |-> spare, n |-> 0]
  <2>1. /\ fl' = [fl EXCEPT ![t].spare = NULL]
        /\ chain' = [chain EXCEPT ![t] = c]
        /\ pc' = [pc EXCEPT ![t] = "exitWalk"]
        /\ UNCHANGED <<bump, head, next, live, bound, cur>>
    BY <1>4 DEF DropSpare, Goto
  <2>2. TypeOK'
    BY <2>1 DEF Inv, TypeOK, Ptr, PC
  <2>3. /\ fl'[t].head = NULL /\ fl'[t].spare = NULL
        /\ fl'[t].count = fl[t].count /\ fl'[t].tail = fl[t].tail
        /\ chain'[t] = c /\ pc'[t] = "exitWalk" /\ cur'[t] = cur[t]
        /\ bound'[t] = "dropping" /\ next' = next
    BY <1>2, <2>1 DEF Inv, TypeOK
  <2>4. /\ OfThread(kind2, who, "chain", t) = S
        /\ OfThread(kind2, who, "spare", t) = {}
        /\ OfThread(kind2, who, "list", t) = OfThread(kind, who, "list", t)
    BY <1>3, <2>0 DEF OfThread, AsChain
  <2>5. Threaded(S, spare, next, rank) /\ Closed(S, next, rank)
    BY <1>2 DEF ThreadOK
  <2>6. spare \in S
    BY <1>4, <2>5 DEF Threaded
  <2> HIDE DEF S
  <2>7. ThreadOK(t, kind2, who, rank)'
    <3>1. ListOK(OfThread(kind2, who, "list", t), fl'[t], next, rank)
      BY <1>2, <2>3, <2>4 DEF ThreadOK, ListOK
    <3>2. Threaded({}, NULL, next, rank) /\ Closed({}, next, rank)
      BY DEF Threaded, Closed
    <3>3. ChainOK(S, c, "exitWalk", cur[t], next, rank)
      BY <2>5, <2>6 DEF ChainOK
    <3>4. ControlOK(OfThread(kind2, who, "list", t), fl'[t], c, "exitWalk", "dropping", cur[t], rank)
      BY <2>3 DEF ControlOK
    <3> QED BY <2>3, <2>4, <3>1, <3>2, <3>3, <3>4 DEF ThreadOK
  <2>8. \A u \in Threads \ {t} : Stays(u)
    BY <2>1 DEF Stays, Inv, TypeOK
  <2>9. Placed(kind2, who, rank)'
    BY <1>1, <2>0, <2>1, <2>7, <2>8, ToChainStep
  <2> QED BY <2>2, <2>9 DEF Inv
<1>5. CASE fl[t].spare = NULL
  <2>1. /\ \E slot \in {"none", "destroyed"} : bound' = [bound EXCEPT ![t] = slot]
        /\ pc' = [pc EXCEPT ![t] = "idle"]
        /\ UNCHANGED <<bump, head, next, live, cur, fl, chain>>
    BY <1>5 DEF DropSpare, Goto
  <2>2. TypeOK'
    BY <2>1 DEF Inv, TypeOK, PC, Bound
  <2>3. pc'[t] = "idle" /\ bound'[t] \in {"none", "destroyed"}
    BY <2>1 DEF Inv, TypeOK
  <2>4. ThreadOK(t, kind, who, rank)'
    BY <1>2, <1>3, <1>5, <2>1, <2>3 DEF ThreadOK, ChainOK, ControlOK
  <2>5. \A u \in Threads \ {t} : Stays(u)
    BY <2>1 DEF Stays, Inv, TypeOK
  <2>6. Placed(kind, who, rank)'
    BY <1>1, <2>1, <2>4, <2>5, QuietStep
  <2> QED BY <2>2, <2>6 DEF Inv
<1> QED BY <1>4, <1>5

\* drain_all turns the list into the chain to publish.
LEMMA DropListInv ==
  ASSUME NEW t \in Threads, Inv, DropList(t)
  PROVE  Inv'
<1>1. PICK kind, who, rank : Placed(kind, who, rank)
  BY DEF Inv
<1> DEFINE S == OfThread(kind, who, "list", t)
<1>2. /\ ThreadOK(t, kind, who, rank) /\ pc[t] = "idle"
      /\ bound' = [bound EXCEPT ![t] = "dropping"]
      /\ UNCHANGED <<bump, head, next, live, cur>>
  BY <1>1 DEF Placed, DropList
<1>3. OfThread(kind, who, "chain", t) = {}
  BY <1>2 DEF ThreadOK, ChainOK
<1>4. ListOK(S, fl[t], next, rank)
  BY <1>2 DEF ThreadOK
<1>5. fl[t].head # NULL => fl[t].head \in S /\ fl[t].count >= 1
  BY <1>4 DEF ListOK, Threaded
<1>6. CASE fl[t].count # 0
  <2>0. PICK kind2 : kind2 = AsChain(kind, who, "list", t)
    OBVIOUS
  <2> DEFINE c == [first |-> fl[t].head, last |-> fl[t].tail, n |-> 0]
  <2>1. /\ fl' = [fl EXCEPT ![t] = Drained(@)]
        /\ chain' = [chain EXCEPT ![t] = c]
        /\ pc' = [pc EXCEPT ![t] = "pushLoad"]
    BY <1>6 DEF DropList, Goto
  <2>2. TypeOK'
    BY <1>2, <2>1 DEF Inv, TypeOK, Ptr, PC, Bound, Drained, EmptyFreelist
  <2>3. /\ fl'[t] = [EmptyFreelist EXCEPT !.spare = fl[t].spare]
        /\ chain'[t] = c /\ pc'[t] = "pushLoad" /\ cur'[t] = cur[t]
        /\ bound'[t] = "dropping" /\ next' = next
    BY <1>2, <2>1 DEF Inv, TypeOK, Drained
  <2>4. /\ OfThread(kind2, who, "chain", t) = S
        /\ OfThread(kind2, who, "list", t) = {}
        /\ OfThread(kind2, who, "spare", t) = OfThread(kind, who, "spare", t)
    BY <1>3, <2>0 DEF OfThread, AsChain
  <2>5. fl[t].head # NULL
    BY <1>4, <1>6 DEF ListOK
  <2> HIDE DEF S
  <2>7. ThreadOK(t, kind2, who, rank)'
    <3>1. ListOK({}, fl'[t], next, rank)
      BY <2>3 DEF ListOK, EmptyFreelist, Threaded, Closed
    <3>2. /\ Threaded(OfThread(kind, who, "spare", t), fl'[t].spare, next, rank)
          /\ Closed(OfThread(kind, who, "spare", t), next, rank)
      BY <1>2, <2>3 DEF ThreadOK, EmptyFreelist
    <3>3. ChainOK(S, c, "pushLoad", cur[t], next, rank)
      BY <1>4, <2>5 DEF ChainOK, ListOK
    <3>4. ControlOK({}, fl'[t], c, "pushLoad", "dropping", cur[t], rank)
      BY <2>3 DEF ControlOK, EmptyFreelist
    <3> QED BY <2>3, <2>4, <3>1, <3>2, <3>3, <3>4 DEF ThreadOK
  <2>8. \A u \in Threads \ {t} : Stays(u)
    BY <1>2, <2>1 DEF Stays, Inv, TypeOK
  <2>9. Placed(kind2, who, rank)'
    BY <1>1, <1>2, <2>0, <2>7, <2>8, ToChainStep
  <2> QED BY <2>2, <2>9 DEF Inv
<1>7. CASE fl[t].count = 0
  <2>1. pc' = [pc EXCEPT ![t] = "exitSpare"] /\ UNCHANGED <<fl, chain>>
    BY <1>7 DEF DropList, Goto
  <2>2. TypeOK'
    BY <1>2, <2>1 DEF Inv, TypeOK, PC, Bound
  <2>3. pc'[t] = "exitSpare" /\ bound'[t] = "dropping" /\ fl[t].head = NULL
    BY <1>2, <1>5, <1>7, <2>1 DEF Inv, TypeOK
  <2>4. ThreadOK(t, kind, who, rank)'
    BY <1>2, <1>3, <2>1, <2>3 DEF ThreadOK, ChainOK, ControlOK
  <2>5. \A u \in Threads \ {t} : Stays(u)
    BY <1>2, <2>1 DEF Stays, Inv, TypeOK
  <2>6. Placed(kind, who, rank)'
    BY <1>1, <1>2, <2>4, <2>5, QuietStep
  <2> QED BY <2>2, <2>6 DEF Inv
<1> QED BY <1>6, <1>7

\* The walk at exit follows the chain and stops at its last block.
LEMMA DropWalkInv ==
  ASSUME NEW t \in Threads, Inv, DropWalk(t)
  PROVE  Inv'
<1>1. PICK kind, who, rank : Placed(kind, who, rank)
  BY DEF Inv
<1> DEFINE C == OfThread(kind, who, "chain", t)
           last == chain[t].last
<1>2. /\ ThreadOK(t, kind, who, rank) /\ pc[t] = "exitWalk"
      /\ UNCHANGED <<bump, head, next, live, bound, fl, cur>>
  BY <1>1 DEF Placed, DropWalk
<1>3. /\ last \in C /\ C \subseteq Block
      /\ Threaded(C, chain[t].first, next, rank) /\ Closed(C, next, rank)
  BY <1>2 DEF ThreadOK, ChainOK, OfThread
<1>4. next[last] \in C \cup {NULL} /\ (next[last] = NULL => rank[last] = 1)
  BY <1>3, ChainLinks, NullNotBlock
<1>5. TypeOK'
  <2>1. next[last] \in Ptr
    BY <1>3, <1>4 DEF Ptr
  <2>2. \/ chain' = [chain EXCEPT ![t].last = next[last]] /\ pc' = pc
        \/ chain' = chain /\ pc' = [pc EXCEPT ![t] = "pushLoad"]
    BY DEF DropWalk, Goto
  <2> QED BY <1>2, <2>1, <2>2 DEF Inv, TypeOK, PC
<1>6. \A u \in Threads \ {t} : Stays(u)
  BY DEF Stays, Inv, TypeOK, DropWalk, Goto
<1>7. ThreadOK(t, kind, who, rank)'
  <2>1. ChainOK(C, chain'[t], pc'[t], cur[t], next, rank)
    <3>1. CASE next[last] # NULL
      <4>1. pc'[t] = "exitWalk" /\ chain'[t].first = chain[t].first /\ chain'[t].last = next[last]
        BY <1>2, <3>1 DEF Inv, TypeOK, DropWalk
      <4> QED BY <1>3, <1>4, <3>1, <4>1 DEF ChainOK
    <3>2. CASE next[last] = NULL
      <4>1. pc'[t] = "pushLoad" /\ chain'[t] = chain[t]
        BY <1>2, <3>2 DEF Inv, TypeOK, DropWalk, Goto
      <4> QED BY <1>3, <1>4, <3>2, <4>1 DEF ChainOK
    <3> QED BY <3>1, <3>2
  <2>2. pc'[t] \in {"exitWalk", "pushLoad"}
    BY <1>2 DEF Inv, TypeOK, DropWalk, Goto
  <2>3. ControlOK(OfThread(kind, who, "list", t), fl[t], chain'[t], pc'[t], bound[t], cur[t], rank)
    BY <1>2, <2>2 DEF ThreadOK, ControlOK
  <2> QED BY <1>2, <2>1, <2>3 DEF ThreadOK
<1>8. Placed(kind, who, rank)'
  BY <1>1, <1>2, <1>6, <1>7, QuietStep
<1> QED BY <1>5, <1>8 DEF Inv

\* pop takes the first block off the list.
LEMMA PopInv ==
  ASSUME NEW t \in Threads, Inv, Pop(t)
  PROVE  Inv'
<1>1. PICK kind, who, rank : Placed(kind, who, rank)
  BY DEF Inv
<1> DEFINE L == OfThread(kind, who, "list", t)
           b == fl[t].head
           f == Popped(fl[t], next[b])
<1>2. /\ ThreadOK(t, kind, who, rank) /\ GhostOK(kind, who, rank) /\ SharedOK(kind, rank)
      /\ pc[t] \in {"idle", "pop"} /\ bound[t] = "here" /\ b # NULL
  BY <1>1 DEF Placed, Pop, ThreadOK, ControlOK
<1>3. /\ fl' = [fl EXCEPT ![t] = f]
      /\ next' = [next EXCEPT ![b] = UserData]
      /\ live' = live \cup {b}
      /\ pc' = [pc EXCEPT ![t] = "idle"]
      /\ UNCHANGED <<bump, head, bound, cur, chain>>
  BY DEF Pop, Goto
<1>4. ListOK(L, fl[t], next, rank) /\ b \in L /\ L \subseteq Block
  BY <1>2 DEF ThreadOK, ListOK, Threaded, OfThread
<1>5. b \in Block /\ kind[b] = "list" /\ who[b] = t
  BY <1>4 DEF OfThread
<1>6. next[b] \in L \cup {NULL} /\ rank[b] \in Nat /\ rank[b] >= 1 /\ fl[t].count = rank[b]
  BY <1>2, <1>4, ChainLinks DEF ListOK, Threaded
<1>7. f \in [head : Ptr, tail : Ptr, count : Nat, spare : Ptr]
  <2>1. next[b] \in Ptr /\ NULL \in Ptr /\ fl[t].count - 1 \in Nat
    BY <1>4, <1>6 DEF Ptr
  <2>2. fl[t] \in [head : Ptr, tail : Ptr, count : Nat, spare : Ptr]
    BY DEF Inv, TypeOK
  <2> QED BY <2>1, <2>2 DEF Popped
<1>8. TypeOK'
  BY <1>3, <1>5, <1>7 DEF Inv, TypeOK, PC
<1>9. PICK kind2 : kind2 = [kind EXCEPT ![b] = "live"]
  OBVIOUS
<1>10. GhostOK(kind2, who, rank) /\ kind2[b] = "live" /\ \A c \in Block \ {b} : kind2[c] = kind[c]
  BY <1>2, <1>5, <1>9 DEF GhostOK, Kind
<1>11. \A c \in Block :
         \/ Untouched(c, kind, who, rank, kind2, who, rank)
         \/ c = b
  BY <1>3, <1>10 DEF Inv, TypeOK, Untouched
<1>12. SharedOK(kind2, rank)'
  <2>1. live' = OfKind(kind2, "live") /\ OfKind(kind2, "fresh") = OfKind(kind, "fresh")
    BY <1>2, <1>3, <1>5, <1>10 DEF SharedOK, OfKind
  <2>2. \A c \in Block :
          \/ Untouched(c, kind, who, rank, kind2, who, rank)
          \/ kind[c] # "stack" /\ kind2[c] # "stack"
    <3>1. kind[b] # "stack" /\ kind2[b] # "stack"
      BY <1>5, <1>10
    <3> QED BY <1>11, <3>1
  <2>3. /\ Threaded(OfKind(kind2, "stack"), head'.ptr, next', rank)
        /\ Closed(OfKind(kind2, "stack"), next', rank)
    BY <1>2, <1>3, <2>2, StackFrame
  <2> QED BY <1>2, <1>3, <2>1, <2>3 DEF SharedOK
<1>13. /\ OfThread(kind2, who, "list", t) = L \ {b}
       /\ OfThread(kind2, who, "spare", t) = OfThread(kind, who, "spare", t)
       /\ OfThread(kind2, who, "chain", t) = OfThread(kind, who, "chain", t)
       /\ OfThread(kind, who, "spare", t) \subseteq Block \ {b}
       /\ OfThread(kind, who, "chain", t) = {}
  <2>1. OfThread(kind, who, "chain", t) = {}
    BY <1>2 DEF ThreadOK, ChainOK
  <2> QED BY <1>5, <1>10, <2>1 DEF OfThread
<1>14. \A c \in Block \ {b} : next'[c] = next[c]
  BY <1>3 DEF Inv, TypeOK
<1>15. fl'[t] = f /\ pc'[t] = "idle" /\ f.spare = fl[t].spare
  BY <1>3 DEF Inv, TypeOK, Popped
<1> HIDE DEF L
<1>16. ListOK(L \ {b}, f, next', rank)
  <2>1. Threaded(L \ {b}, next[b], next, rank) /\ Closed(L \ {b}, next, rank)
    BY <1>4, ChainPop DEF ListOK
  <2>2. \A c \in L \ {b} : next'[c] = next[c] /\ rank[c] = rank[c]
    BY <1>4, <1>14
  <2>3. Threaded(L \ {b}, next[b], next', rank) /\ Closed(L \ {b}, next', rank)
    BY <2>1, <2>2, ChainFrame
  <2>4. CASE next[b] = NULL
    <3>1. rank[b] = 1
      BY <1>4, <2>4, ChainLinks, NullNotBlock DEF ListOK
    <3>2. f.head = NULL /\ f.count = 0 /\ f.tail = NULL
      BY <1>6, <2>4, <3>1 DEF Popped, Inv, TypeOK
    <3> QED BY <2>3, <2>4, <3>2 DEF ListOK
  <2>5. CASE next[b] # NULL
    <3>1. rank[b] > 1 /\ rank[next[b]] = rank[b] - 1
      BY <1>4, <1>6, <2>5 DEF ListOK, Threaded, Closed
    <3>2. f.head = next[b] /\ f.count = rank[next[b]] /\ f.tail = fl[t].tail
      BY <1>6, <2>5, <3>1 DEF Popped, Inv, TypeOK
    <3>3. fl[t].tail \in L \ {b} /\ rank[fl[t].tail] = 1
      BY <1>2, <1>4, <3>1 DEF ListOK
    <3> QED BY <2>3, <2>5, <3>2, <3>3 DEF ListOK
  <2> QED BY <2>4, <2>5
<1>17. ThreadOK(t, kind2, who, rank)'
  <2>1. /\ Threaded(OfThread(kind, who, "spare", t), fl[t].spare, next', rank)
        /\ Closed(OfThread(kind, who, "spare", t), next', rank)
    <3>1. \A c \in OfThread(kind, who, "spare", t) : next'[c] = next[c] /\ rank[c] = rank[c]
      BY <1>13, <1>14
    <3> QED BY <1>2, <3>1, ChainFrame DEF ThreadOK
  <2>2. ChainOK({}, chain[t], "idle", cur[t], next', rank)
    <3>1. chain[t].first = NULL
      BY <1>2, <1>13 DEF ThreadOK, ChainOK, Threaded
    <3> QED BY <3>1 DEF ChainOK, Threaded
  <2>3. ControlOK(L \ {b}, f, chain[t], "idle", "here", cur[t], rank)
    BY DEF ControlOK
  <2> QED BY <1>2, <1>3, <1>13, <1>15, <1>16, <2>1, <2>2, <2>3 DEF ThreadOK
<1>18. \A u \in Threads \ {t} : Stays(u)
  BY <1>3 DEF Stays, Inv, TypeOK
<1>19. \A c \in Block :
         \/ Untouched(c, kind, who, rank, kind2, who, rank)
         \/ Mine(kind, who, t, c) /\ Mine(kind2, who, t, c)
  BY <1>5, <1>10, <1>11 DEF Mine
<1>20. Placed(kind2, who, rank)'
  BY <1>1, <1>10, <1>12, <1>17, <1>18, <1>19, MoveStep
<1> QED BY <1>8, <1>20 DEF Inv

\* A successful take_all turns the whole stack into the thread's chain.
LEMMA TakeAllCasInv ==
  ASSUME NEW t \in Threads, Inv, TakeAllCas(t)
  PROVE  Inv'
<1>1. PICK kind, who, rank : Placed(kind, who, rank)
  BY DEF Inv
<1> DEFINE S == OfKind(kind, "stack")
           top == head.ptr
           c == [first |-> top, last |-> top, n |-> 1]
<1>2. /\ ThreadOK(t, kind, who, rank) /\ GhostOK(kind, who, rank) /\ SharedOK(kind, rank)
      /\ pc[t] = "takeCas" /\ cur[t] = head
  BY <1>1 DEF Placed, TakeAllCas
<1>3. /\ top # NULL /\ bound[t] = "here" /\ fl[t].head = NULL /\ fl[t].spare = NULL
      /\ OfThread(kind, who, "chain", t) = {}
  BY <1>2 DEF ThreadOK, ControlOK, ChainOK
<1>4. /\ head' = Retag(NULL, head.tag)
      /\ chain' = [chain EXCEPT ![t] = c]
      /\ cur' = [cur EXCEPT ![t] = NoWord]
      /\ pc' = [pc EXCEPT ![t] = "refill"]
      /\ UNCHANGED <<bump, next, live, bound, fl>>
  BY <1>2 DEF TakeAllCas, Goto
<1>5. Threaded(S, top, next, rank) /\ Closed(S, next, rank)
  BY <1>2 DEF SharedOK
<1>6. top \in S /\ rank[top] \in Nat
  BY <1>3, <1>5 DEF Threaded
<1>7. TypeOK'
  <2>1. head' \in Word /\ NoWord \in Word
    BY <1>4, FreelistAssumption DEF Retag, NoWord, Word, Ptr, Inv, TypeOK
  <2>2. c \in [first : Ptr, last : Ptr, n : Nat]
    BY DEF Inv, TypeOK, Word
  <2> QED BY <1>4, <2>1, <2>2 DEF Inv, TypeOK, PC
<1>8. PICK kind2 : kind2 = [b \in Block |-> IF kind[b] = "stack" THEN "chain" ELSE kind[b]]
  OBVIOUS
<1>9. PICK who2 : who2 = [b \in Block |-> IF kind[b] = "stack" THEN t ELSE who[b]]
  OBVIOUS
<1>10. GhostOK(kind2, who2, rank)
  BY <1>2, <1>8, <1>9 DEF GhostOK, Kind
<1>11. /\ OfThread(kind2, who2, "chain", t) = S
       /\ OfThread(kind2, who2, "list", t) = OfThread(kind, who, "list", t)
       /\ OfThread(kind2, who2, "spare", t) = OfThread(kind, who, "spare", t)
  BY <1>3, <1>8, <1>9 DEF OfThread, OfKind
<1>12. /\ OfKind(kind2, "live") = OfKind(kind, "live")
       /\ OfKind(kind2, "fresh") = OfKind(kind, "fresh")
       /\ OfKind(kind2, "stack") = {}
  BY <1>8 DEF OfKind
<1>13. \A b \in Block :
         \/ Untouched(b, kind, who, rank, kind2, who2, rank)
         \/ Mine(kind, who, t, b) /\ Mine(kind2, who2, t, b)
  BY <1>4, <1>8, <1>9 DEF Mine, Untouched
<1> HIDE DEF S
<1>14. SharedOK(kind2, rank)'
  <2>1. head'.ptr = NULL
    BY <1>4 DEF Retag
  <2> QED BY <1>2, <1>4, <1>12, <2>1 DEF SharedOK, Threaded, Closed
<1>15. ThreadOK(t, kind2, who2, rank)'
  <2>1. ChainOK(S, c, "refill", NoWord, next, rank)
    BY <1>5, <1>6 DEF ChainOK
  <2>2. ControlOK(OfThread(kind, who, "list", t), fl[t], c, "refill", "here", NoWord, rank)
    BY <1>3 DEF ControlOK
  <2>3. chain'[t] = c /\ pc'[t] = "refill" /\ cur'[t] = NoWord /\ bound'[t] = "here"
    BY <1>3, <1>4 DEF Inv, TypeOK
  <2> QED BY <1>2, <1>4, <1>11, <2>1, <2>2, <2>3 DEF ThreadOK
<1>16. \A u \in Threads \ {t} : Stays(u)
  BY <1>4 DEF Stays, Inv, TypeOK
<1>17. Placed(kind2, who2, rank)'
  BY <1>1, <1>10, <1>13, <1>14, <1>15, <1>16, MoveStep
<1> QED BY <1>7, <1>17 DEF Inv

\* A successful push_chain puts the thread's chain on top of the stack.
LEMMA PushChainCasInv ==
  ASSUME NEW t \in Threads, Inv, PushChainCas(t)
  PROVE  Inv'
<1>1. PICK kind, who, rank : Placed(kind, who, rank)
  BY DEF Inv
<1> DEFINE S == OfKind(kind, "stack")
           C == OfThread(kind, who, "chain", t)
           first == chain[t].first
           last == chain[t].last
           k == IF head.ptr = NULL THEN 0 ELSE rank[head.ptr]
           label == IF bound[t] = "dropping" THEN "exitSpare" ELSE "idle"
<1>2. /\ ThreadOK(t, kind, who, rank) /\ GhostOK(kind, who, rank) /\ SharedOK(kind, rank)
      /\ pc[t] = "pushCas" /\ cur[t] = head
  BY <1>1 DEF Placed, PushChainCas
<1>3. /\ Threaded(C, first, next, rank) /\ last \in C /\ rank[last] = 1
      /\ next[last] = head.ptr
  BY <1>2 DEF ThreadOK, ChainOK
<1>4. Threaded(S, head.ptr, next, rank) /\ Closed(S, next, rank)
  BY <1>2 DEF SharedOK
<1>5. C \subseteq Block /\ S \subseteq Block /\ C \cap S = {} /\ first \in C
  <2>1. first \in C
    BY <1>3 DEF Threaded
  <2> QED BY <2>1 DEF OfThread, OfKind
<1>6. /\ head' = Retag(first, head.tag)
      /\ chain' = [chain EXCEPT ![t] = NoChain]
      /\ cur' = [cur EXCEPT ![t] = NoWord]
      /\ pc' = [pc EXCEPT ![t] = label]
      /\ UNCHANGED <<bump, next, live, bound, fl>>
  BY <1>2 DEF PushChainCas, Goto
<1>7. TypeOK'
  <2>1. head' \in Word /\ NoWord \in Word
    BY <1>5, <1>6, FreelistAssumption DEF Retag, NoWord, Word, Ptr, Inv, TypeOK
  <2>2. NoChain \in [first : Ptr, last : Ptr, n : Nat]
    BY DEF NoChain, Ptr
  <2> QED BY <1>6, <2>1, <2>2 DEF Inv, TypeOK, PC
<1>8. k \in Nat
  BY <1>4 DEF Threaded
<1>9. PICK kind2 : kind2 = [b \in Block |-> IF b \in C THEN "stack" ELSE kind[b]]
  OBVIOUS
<1>10. PICK rank2 : rank2 = [b \in Block |-> IF b \in C THEN rank[b] + k ELSE rank[b]]
  OBVIOUS
<1>11. GhostOK(kind2, who, rank2)
  BY <1>2, <1>8, <1>9, <1>10 DEF GhostOK, Kind
<1>12. /\ OfThread(kind2, who, "chain", t) = {}
       /\ OfThread(kind2, who, "list", t) = OfThread(kind, who, "list", t)
       /\ OfThread(kind2, who, "spare", t) = OfThread(kind, who, "spare", t)
  BY <1>9 DEF OfThread
<1>13. /\ OfKind(kind2, "live") = OfKind(kind, "live")
       /\ OfKind(kind2, "fresh") = OfKind(kind, "fresh")
       /\ OfKind(kind2, "stack") = C \cup S
  BY <1>9 DEF OfKind, OfThread
<1>14. \A b \in Block :
         \/ Untouched(b, kind, who, rank, kind2, who, rank2)
         \/ Mine(kind, who, t, b) /\ Mine(kind2, who, t, b)
  BY <1>6, <1>9, <1>10 DEF Mine, Untouched, OfThread
<1>15. /\ \A b \in S : rank2[b] = rank[b]
       /\ \A b \in C : rank2[b] = rank[b] + k
       /\ \A kk \in {"list", "spare"} : \A b \in OfThread(kind, who, kk, t) : rank2[b] = rank[b]
  BY <1>10 DEF OfKind, OfThread
<1> HIDE DEF S, C
<1>16. SharedOK(kind2, rank2)'
  <2>1. head'.ptr = first
    BY <1>6 DEF Retag
  <2>2. Threaded(C \cup S, first, next, rank2) /\ Closed(C \cup S, next, rank2)
    BY <1>3, <1>4, <1>5, <1>15, ChainConcat
  <2> QED BY <1>2, <1>6, <1>13, <2>1, <2>2 DEF SharedOK
<1>17. ThreadOK(t, kind2, who, rank2)'
  <2> DEFINE L == OfThread(kind, who, "list", t)
             P == OfThread(kind, who, "spare", t)
  <2>1. /\ \A b \in L : next[b] = next[b] /\ rank2[b] = rank[b]
        /\ \A b \in P : next[b] = next[b] /\ rank2[b] = rank[b]
    BY <1>15
  <2>2. ListOK(L, fl[t], next, rank) /\ Threaded(P, fl[t].spare, next, rank) /\ Closed(P, next, rank)
    BY <1>2 DEF ThreadOK
  <2>3. /\ label = "exitSpare" => bound[t] = "dropping"
        /\ bound[t] = "dropping" => label = "exitSpare" /\ fl[t].head = NULL
        /\ bound[t] \in {"none", "elsewhere", "destroyed"} => fl[t].head = NULL /\ fl[t].spare = NULL
    BY <1>2 DEF ThreadOK, ControlOK
  <2> HIDE DEF L, P
  <2>4. ListOK(L, fl[t], next, rank2)
    <3>1. Threaded(L, fl[t].head, next, rank2) /\ Closed(L, next, rank2)
      BY <2>1, <2>2, ChainFrame DEF ListOK
    <3>2. fl[t].head # NULL => fl[t].head \in L
      BY <2>2 DEF ListOK, Threaded
    <3> QED BY <2>1, <2>2, <3>1, <3>2 DEF ListOK
  <2>5. Threaded(P, fl[t].spare, next, rank2) /\ Closed(P, next, rank2)
    BY <2>1, <2>2, ChainFrame
  <2>6. ChainOK({}, NoChain, label, NoWord, next, rank2)
    BY DEF ChainOK, NoChain, Threaded
  <2>7. ControlOK(L, fl[t], NoChain, label, bound[t], NoWord, rank2)
    BY <2>3 DEF ControlOK
  <2>8. chain'[t] = NoChain /\ pc'[t] = label /\ cur'[t] = NoWord
    BY <1>6 DEF Inv, TypeOK
  <2> QED BY <1>6, <1>12, <2>4, <2>5, <2>6, <2>7, <2>8 DEF ThreadOK, L, P
<1>18. \A u \in Threads \ {t} : Stays(u)
  BY <1>6 DEF Stays, Inv, TypeOK
<1>19. Placed(kind2, who, rank2)'
  BY <1>1, <1>11, <1>14, <1>16, <1>17, <1>18, MoveStep
<1> QED BY <1>7, <1>19 DEF Inv

\* A live block that t frees: into its list, or into a chain of its own.
LEMMA FreedStep ==
  ASSUME NEW t \in Threads, NEW b \in live, NEW kind, NEW who, NEW rank,
         NEW kind2, NEW who2, NEW rank2, NEW to \in {"list", "chain"},
         Inv, Placed(kind, who, rank), GhostOK(kind2, who2, rank2),
         kind2[b] = to, who2[b] = t,
         \A c \in Block \ {b} :
           /\ kind2[c] = kind[c] /\ who2[c] = who[c] /\ rank2[c] = rank[c]
           /\ next'[c] = next[c],
         live' = live \ {b}, UNCHANGED <<bump, head>>,
         \A u \in Threads \ {t} : Stays(u),
         ThreadOK(t, kind2, who2, rank2)'
  PROVE  Placed(kind2, who2, rank2)'
<1>1. SharedOK(kind, rank) /\ b \in Block /\ kind[b] = "live"
  BY DEF Placed, SharedOK, OfKind
<1>2. \A c \in Block :
        \/ Untouched(c, kind, who, rank, kind2, who2, rank2)
        \/ c = b
  BY DEF Untouched
<1>3. SharedOK(kind2, rank2)'
  <2>1. live' = OfKind(kind2, "live") /\ OfKind(kind2, "fresh") = OfKind(kind, "fresh")
    BY <1>1 DEF SharedOK, OfKind
  <2>2. kind[b] # "stack" /\ kind2[b] # "stack"
    BY <1>1
  <2>3. \A c \in Block :
          \/ Untouched(c, kind, who, rank, kind2, who2, rank2)
          \/ kind[c] # "stack" /\ kind2[c] # "stack"
    BY <1>2, <2>2
  <2>4. /\ Threaded(OfKind(kind2, "stack"), head'.ptr, next', rank2)
        /\ Closed(OfKind(kind2, "stack"), next', rank2)
    BY <1>1, <2>3, StackFrame
  <2> QED BY <1>1, <2>1, <2>4 DEF SharedOK
<1>4. \A c \in Block :
        \/ Untouched(c, kind, who, rank, kind2, who2, rank2)
        \/ Mine(kind, who, t, c) /\ Mine(kind2, who2, t, c)
  <2>1. Mine(kind, who, t, b) /\ Mine(kind2, who2, t, b)
    BY <1>1 DEF Mine
  <2> QED BY <1>2, <2>1
<1> QED BY <1>3, <1>4, MoveStep

\* What ThreadFreelist::push_chain leaves in the fields.
LEMMA WithChainFields ==
  ASSUME NEW f \in [head : Ptr, tail : Ptr, count : Nat, spare : Ptr],
         NEW a \in Block, NEW z \in Block, NEW n \in Nat
  PROVE  LET g == WithChain(f, a, z, n)
         IN /\ g.head = a /\ g.count = f.count + n /\ g.spare = f.spare
            /\ g.tail = IF f.head = NULL THEN z ELSE f.tail
            /\ g \in [head : Ptr, tail : Ptr, count : Nat, spare : Ptr]
<1> DEFINE g == WithChain(f, a, z, n)
<1>1. a \in Ptr /\ z \in Ptr /\ f.count + n \in Nat
  BY DEF Ptr
<1>2. g.head = a
  BY DEF WithChain
<1>3. g.count = f.count + n
  BY DEF WithChain
<1>4. g.spare = f.spare
  BY DEF WithChain
<1>5. g.tail = IF f.head = NULL THEN z ELSE f.tail
  BY DEF WithChain
<1>6. g \in [head : Ptr, tail : Ptr, count : Nat, spare : Ptr]
  <2>1. CASE f.head = NULL
    BY <1>1, <2>1 DEF WithChain
  <2>2. CASE f.head # NULL
    BY <1>1, <2>2 DEF WithChain
  <2> QED BY <2>1, <2>2
<1> QED BY <1>2, <1>3, <1>4, <1>5, <1>6

\* A local free puts a live block on top of the list.
LEMMA DeallocLocalInv ==
  ASSUME NEW t \in Threads, NEW b, Inv, DeallocLocal(t, b)
  PROVE  Inv'
<1>1. PICK kind, who, rank : Placed(kind, who, rank)
  BY DEF Inv
<1> DEFINE L == OfThread(kind, who, "list", t)
           P == OfThread(kind, who, "spare", t)
           f == WithChain(fl[t], b, b, 1)
           d == [first |-> NULL, last |-> b, n |-> 1]
           over == fl[t].count + 1 > CacheLimit
           top == IF fl[t].head = NULL THEN 1 ELSE rank[fl[t].head] + 1
<1>2. /\ ThreadOK(t, kind, who, rank) /\ GhostOK(kind, who, rank) /\ SharedOK(kind, rank)
      /\ pc[t] = "idle" /\ bound[t] = "here" /\ b \in live
  BY <1>1 DEF Placed, DeallocLocal
<1>3. b \in Block /\ kind[b] = "live"
  BY <1>2 DEF SharedOK, OfKind
<1>4. /\ fl' = [fl EXCEPT ![t] = f]
      /\ next' = [next EXCEPT ![b] = fl[t].head]
      /\ live' = live \ {b}
      /\ over => /\ chain' = [chain EXCEPT ![t] = d]
                 /\ pc' = [pc EXCEPT ![t] = "drain"]
      /\ ~ over => chain' = chain /\ pc' = pc
      /\ UNCHANGED <<bump, head, bound, cur>>
  BY DEF DeallocLocal, Goto
<1>5. fl[t] \in [head : Ptr, tail : Ptr, count : Nat, spare : Ptr]
  BY DEF Inv, TypeOK
<1>6. /\ f.head = b /\ f.count = fl[t].count + 1 /\ f.spare = fl[t].spare
      /\ f.tail = IF fl[t].head = NULL THEN b ELSE fl[t].tail
      /\ f \in [head : Ptr, tail : Ptr, count : Nat, spare : Ptr]
  BY <1>3, <1>5, WithChainFields
<1>7. TypeOK'
  <2>1. d \in [first : Ptr, last : Ptr, n : Nat] /\ fl[t].head \in Ptr
    BY <1>3, <1>5 DEF Ptr
  <2> QED BY <1>3, <1>4, <1>6, <2>1 DEF Inv, TypeOK, PC
<1>8. /\ fl'[t] = f /\ next'[b] = fl[t].head
      /\ \A c \in Block \ {b} : next'[c] = next[c]
      /\ over => chain'[t] = d /\ pc'[t] = "drain"
      /\ ~ over => chain'[t] = chain[t] /\ pc'[t] = "idle"
      /\ bound'[t] = "here" /\ cur'[t] = cur[t]
  BY <1>2, <1>3, <1>4 DEF Inv, TypeOK
<1>9. ListOK(L, fl[t], next, rank) /\ L \subseteq Block \ {b} /\ P \subseteq Block \ {b}
  BY <1>2, <1>3 DEF ThreadOK, OfThread
<1>10. top \in Nat /\ f.count = top
  BY <1>5, <1>6, <1>9 DEF ListOK
<1>11. PICK kind2 : kind2 = [kind EXCEPT ![b] = "list"]
  OBVIOUS
<1>12. PICK who2 : who2 = [who EXCEPT ![b] = t]
  OBVIOUS
<1>13. PICK rank2 : rank2 = [rank EXCEPT ![b] = top]
  OBVIOUS
<1>14. /\ GhostOK(kind2, who2, rank2)
       /\ kind2[b] = "list" /\ who2[b] = t /\ rank2[b] = top
       /\ \A c \in Block \ {b} : kind2[c] = kind[c] /\ who2[c] = who[c] /\ rank2[c] = rank[c]
  BY <1>2, <1>3, <1>10, <1>11, <1>12, <1>13 DEF GhostOK, Kind
<1>15. OfThread(kind, who, "chain", t) = {} /\ chain[t].first = NULL
  BY <1>2 DEF ThreadOK, ChainOK, Threaded
<1>16. /\ OfThread(kind2, who2, "list", t) = L \cup {b}
       /\ OfThread(kind2, who2, "spare", t) = P
       /\ OfThread(kind2, who2, "chain", t) = {}
  BY <1>3, <1>14, <1>15 DEF OfThread
<1>17. Threaded(P, fl[t].spare, next, rank) /\ Closed(P, next, rank)
  BY <1>2 DEF ThreadOK
<1> HIDE DEF L, P
<1>18. ListOK(L \cup {b}, f, next', rank2)
  <2>1. Threaded(L \cup {b}, b, next', rank2) /\ Closed(L \cup {b}, next', rank2)
    <3>1. \A c \in L : next'[c] = next[c] /\ rank2[c] = rank[c]
      BY <1>8, <1>9, <1>14
    <3>2. Threaded(L, fl[t].head, next, rank) /\ Closed(L, next, rank)
      BY <1>9 DEF ListOK
    <3>3. L \in SUBSET Block /\ b \in Block \ L
      BY <1>3, <1>9
    <3>4. rank2[b] = IF fl[t].head = NULL THEN 1 ELSE rank[fl[t].head] + 1
      BY <1>14
    <3> HIDE DEF top
    <3> QED BY <1>8, <3>1, <3>2, <3>3, <3>4, ChainPush
  <2>2. b # NULL
    BY <1>3, NullNotBlock
  <2>3. f.tail \in L \cup {b} /\ rank2[f.tail] = 1
    <3>1. CASE fl[t].head = NULL
      BY <1>6, <1>14, <3>1
    <3>2. CASE fl[t].head # NULL
      BY <1>6, <1>9, <1>14, <3>2 DEF ListOK
    <3> QED BY <3>1, <3>2
  <2> QED BY <1>6, <1>10, <1>14, <2>1, <2>2, <2>3 DEF ListOK
<1>19. ThreadOK(t, kind2, who2, rank2)'
  <2>1. Threaded(P, f.spare, next', rank2) /\ Closed(P, next', rank2)
    <3>1. \A c \in P : next'[c] = next[c] /\ rank2[c] = rank[c]
      BY <1>8, <1>9, <1>14
    <3> QED BY <1>6, <1>17, <3>1, ChainFrame
  <2>2. ChainOK({}, chain'[t], pc'[t], cur[t], next', rank2)
    <3>1. chain'[t].first = NULL /\ pc'[t] \in {"idle", "drain"}
      BY <1>8, <1>15
    <3> QED BY <3>1 DEF ChainOK, Threaded
  <2>3. ControlOK(L \cup {b}, f, chain'[t], pc'[t], "here", cur[t], rank2)
    <3>1. CASE over
      <4>1. Keep >= 1
        BY FreelistAssumption DEF Keep
      <4>2. d.last = b /\ d.n = 1 /\ rank2[b] = f.count - d.n + 1 /\ f.count > CacheLimit
        BY <1>6, <1>10, <1>14, <3>1
      <4> HIDE DEF f, d
      <4> QED BY <1>8, <3>1, <4>1, <4>2 DEF ControlOK
    <3>2. CASE ~ over
      BY <1>8, <3>2 DEF ControlOK
    <3> QED BY <3>1, <3>2
  <2> QED BY <1>8, <1>16, <1>18, <2>1, <2>2, <2>3 DEF ThreadOK
<1>20. \A u \in Threads \ {t} : Stays(u)
  BY <1>4 DEF Stays, Inv, TypeOK
<1>21. Placed(kind2, who2, rank2)'
  <2>1. \A c \in Block \ {b} :
          /\ kind2[c] = kind[c] /\ who2[c] = who[c] /\ rank2[c] = rank[c]
          /\ next'[c] = next[c]
    BY <1>8, <1>14
  <2> QED BY <1>1, <1>2, <1>4, <1>14, <1>19, <1>20, <2>1, FreedStep
<1> QED BY <1>7, <1>21 DEF Inv

\* A remote free makes a live block a chain of one.
LEMMA DeallocRemoteInv ==
  ASSUME NEW t \in Threads, NEW b, Inv, DeallocRemote(t, b)
  PROVE  Inv'
<1>1. PICK kind, who, rank : Placed(kind, who, rank)
  BY DEF Inv
<1> DEFINE L == OfThread(kind, who, "list", t)
           P == OfThread(kind, who, "spare", t)
           d == [first |-> b, last |-> b, n |-> 0]
<1>2. /\ ThreadOK(t, kind, who, rank) /\ GhostOK(kind, who, rank) /\ SharedOK(kind, rank)
      /\ pc[t] = "idle" /\ bound[t] \in {"elsewhere", "destroyed"} /\ b \in live
  BY <1>1 DEF Placed, DeallocRemote
<1>3. b \in Block /\ kind[b] = "live"
  BY <1>2 DEF SharedOK, OfKind
<1>4. /\ live' = live \ {b}
      /\ chain' = [chain EXCEPT ![t] = d]
      /\ pc' = [pc EXCEPT ![t] = "pushLoad"]
      /\ UNCHANGED <<bump, head, next, bound, fl, cur>>
  BY DEF DeallocRemote, Goto
<1>5. TypeOK'
  <2>1. d \in [first : Ptr, last : Ptr, n : Nat]
    BY <1>3 DEF Ptr
  <2> QED BY <1>4, <2>1 DEF Inv, TypeOK, PC
<1>6. chain'[t] = d /\ pc'[t] = "pushLoad"
  BY <1>4 DEF Inv, TypeOK
<1>7. L \subseteq Block \ {b} /\ P \subseteq Block \ {b}
  BY <1>3 DEF OfThread
<1>8. PICK kind2 : kind2 = [kind EXCEPT ![b] = "chain"]
  OBVIOUS
<1>9. PICK who2 : who2 = [who EXCEPT ![b] = t]
  OBVIOUS
<1>10. PICK rank2 : rank2 = [rank EXCEPT ![b] = 1]
  OBVIOUS
<1>11. /\ GhostOK(kind2, who2, rank2)
       /\ kind2[b] = "chain" /\ who2[b] = t /\ rank2[b] = 1
       /\ \A c \in Block \ {b} : kind2[c] = kind[c] /\ who2[c] = who[c] /\ rank2[c] = rank[c]
  BY <1>2, <1>3, <1>8, <1>9, <1>10 DEF GhostOK, Kind
<1>12. OfThread(kind, who, "chain", t) = {}
  BY <1>2 DEF ThreadOK, ChainOK
<1>13. /\ OfThread(kind2, who2, "list", t) = L
       /\ OfThread(kind2, who2, "spare", t) = P
       /\ OfThread(kind2, who2, "chain", t) = {b}
  BY <1>3, <1>11, <1>12 DEF OfThread
<1>14. /\ ListOK(L, fl[t], next, rank) /\ Threaded(P, fl[t].spare, next, rank)
       /\ Closed(P, next, rank)
  BY <1>2 DEF ThreadOK
<1> HIDE DEF L, P
<1>15. ThreadOK(t, kind2, who2, rank2)'
  <2>1. ListOK(L, fl[t], next, rank2)
    <3>1. \A c \in L : next[c] = next[c] /\ rank2[c] = rank[c]
      BY <1>7, <1>11
    <3>2. Threaded(L, fl[t].head, next, rank2) /\ Closed(L, next, rank2)
      BY <1>14, <3>1, ChainFrame DEF ListOK
    <3>3. fl[t].head # NULL => fl[t].head \in L
      BY <1>14 DEF ListOK, Threaded
    <3> QED BY <1>14, <3>1, <3>2, <3>3 DEF ListOK
  <2>2. Threaded(P, fl[t].spare, next, rank2) /\ Closed(P, next, rank2)
    <3>1. \A c \in P : next[c] = next[c] /\ rank2[c] = rank[c]
      BY <1>7, <1>11
    <3> QED BY <1>14, <3>1, ChainFrame
  <2>3. ChainOK({b}, d, "pushLoad", cur[t], next, rank2)
    BY <1>11 DEF ChainOK, Threaded
  <2>4. ControlOK(L, fl[t], d, "pushLoad", bound[t], cur[t], rank2)
    BY <1>2 DEF ThreadOK, ControlOK
  <2> QED BY <1>4, <1>6, <1>13, <2>1, <2>2, <2>3, <2>4 DEF ThreadOK
<1>16. \A u \in Threads \ {t} : Stays(u)
  BY <1>4 DEF Stays, Inv, TypeOK
<1>17. Placed(kind2, who2, rank2)'
  <2>1. \A c \in Block \ {b} :
          /\ kind2[c] = kind[c] /\ who2[c] = who[c] /\ rank2[c] = rank[c]
          /\ next'[c] = next[c]
    BY <1>4, <1>11
  <2> QED BY <1>1, <1>2, <1>4, <1>11, <1>15, <1>16, <2>1, FreedStep
<1> QED BY <1>5, <1>17 DEF Inv

\* A step in which t only rearranges what is already its own.
LEMMA OwnStep ==
  ASSUME NEW t \in Threads, NEW kind, NEW who, NEW rank, NEW kind2, NEW rank2,
         Placed(kind, who, rank), GhostOK(kind2, who, rank2),
         UNCHANGED <<bump, live, head>>,
         \A u \in Threads \ {t} : Stays(u),
         \A b \in Block :
           \/ Untouched(b, kind, who, rank, kind2, who, rank2)
           \/ Has(kind, who, t, b) /\ Has(kind2, who, t, b),
         ThreadOK(t, kind2, who, rank2)'
  PROVE  Placed(kind2, who, rank2)'
<1>1. SharedOK(kind, rank)
  BY DEF Placed
<1>2. SharedOK(kind2, rank2)'
  <2>1. /\ OfKind(kind2, "live") = OfKind(kind, "live")
        /\ OfKind(kind2, "fresh") = OfKind(kind, "fresh")
    BY DEF OfKind, Has, Untouched
  <2>2. \A b \in Block :
          \/ Untouched(b, kind, who, rank, kind2, who, rank2)
          \/ kind[b] # "stack" /\ kind2[b] # "stack"
    BY DEF Has
  <2>3. /\ Threaded(OfKind(kind2, "stack"), head'.ptr, next', rank2)
        /\ Closed(OfKind(kind2, "stack"), next', rank2)
    BY <1>1, <2>2, StackFrame
  <2> QED BY <1>1, <2>1, <2>3 DEF SharedOK
<1>3. \A b \in Block :
        \/ Untouched(b, kind, who, rank, kind2, who, rank2)
        \/ Mine(kind, who, t, b) /\ Mine(kind2, who, t, b)
  BY DEF Has, Mine
<1> QED BY <1>2, <1>3, MoveStep

\* The bag goes into the list of the thread that carved it.
LEMMA CarveInv ==
  ASSUME NEW t \in Threads, Inv, Carve(t)
  PROVE  Inv'
<1>1. PICK kind, who, rank : Placed(kind, who, rank)
  BY DEF Inv
<1>2. /\ ThreadOK(t, kind, who, rank) /\ GhostOK(kind, who, rank) /\ SharedOK(kind, rank)
      /\ pc[t] = "carve" /\ UNCHANGED <<head, live, bound, cur, chain>>
  BY <1>1 DEF Placed, Carve
<1>3. /\ bound[t] = "here" /\ fl[t].head = NULL /\ fl[t].spare = NULL
      /\ OfThread(kind, who, "chain", t) = {} /\ chain[t].first = NULL
  BY <1>2 DEF ThreadOK, ControlOK, ChainOK, Threaded
<1>4. CASE bump + BagObjects > RegionBlocks
  <2>1. pc' = [pc EXCEPT ![t] = "idle"] /\ UNCHANGED <<bump, next, fl>>
    BY <1>4, FreelistAssumption DEF Carve, Goto, Inv, TypeOK
  <2>2. TypeOK'
    BY <1>2, <2>1 DEF Inv, TypeOK, PC
  <2>3. pc'[t] = "idle"
    BY <2>1 DEF Inv, TypeOK
  <2>4. ThreadOK(t, kind, who, rank)'
    BY <1>2, <1>3, <2>1, <2>3 DEF ThreadOK, ChainOK, ControlOK
  <2>5. \A u \in Threads \ {t} : Stays(u)
    BY <1>2, <2>1 DEF Stays, Inv, TypeOK
  <2>6. Placed(kind, who, rank)'
    BY <1>1, <1>2, <2>1, <2>4, <2>5, QuietStep
  <2> QED BY <2>2, <2>6 DEF Inv
<1>5. CASE bump + BagObjects <= RegionBlocks
  <2> DEFINE bag == bump .. bump + BagObjects - 1
             lastB == bump + BagObjects - 1
             f == WithChain(fl[t], lastB, bump, BagObjects)
             P == OfThread(kind, who, "spare", t)
  <2>1. bump \in Nat /\ BagObjects \in Nat \ {0} /\ RegionBlocks \in Nat
    BY FreelistAssumption DEF Inv, TypeOK
  <2>2. bag \subseteq Block /\ bump \in bag /\ lastB \in bag
    BY <1>5, <2>1 DEF Block
  <2>3. /\ bump' = bump + BagObjects
        /\ next' = [b \in Block |-> IF b \notin bag THEN next[b]
                                    ELSE IF b = bump THEN NULL ELSE b - 1]
        /\ fl' = [fl EXCEPT ![t] = f]
        /\ pc' = [pc EXCEPT ![t] = "pop"]
    BY <1>3, <1>5 DEF Carve, Goto
  <2>4. fl[t] \in [head : Ptr, tail : Ptr, count : Nat, spare : Ptr]
    BY DEF Inv, TypeOK
  <2>5. ListOK(OfThread(kind, who, "list", t), fl[t], next, rank)
    BY <1>2 DEF ThreadOK
  <2>6. fl[t].count = 0 /\ OfThread(kind, who, "list", t) = {}
    <3>1. OfThread(kind, who, "list", t) \subseteq Block
      BY DEF OfThread
    <3> QED BY <1>3, <2>5, <3>1, NullNotBlock DEF ListOK, Threaded
  <2>7. /\ f.head = lastB /\ f.tail = bump /\ f.count = BagObjects /\ f.spare = NULL
        /\ f \in [head : Ptr, tail : Ptr, count : Nat, spare : Ptr]
    <3>1. lastB \in Block /\ bump \in Block /\ BagObjects \in Nat
      BY <2>1, <2>2
    <3>2. fl[t].count + BagObjects = BagObjects
      BY <2>1, <2>6
    <3> HIDE DEF lastB
    <3> QED BY <1>3, <2>4, <3>1, <3>2, WithChainFields
  <2> HIDE DEF f
  <2>8. TypeOK'
    <3>1. bump' \in 0 .. RegionBlocks
      BY <1>5, <2>1, <2>3
    <3>2. next' \in [Block -> Ptr \cup {UserData}]
      <4>1. \A b \in bag : b # bump => b - 1 \in Block
        BY <1>5, <2>1 DEF Block
      <4>2. next \in [Block -> Ptr \cup {UserData}]
        BY DEF Inv, TypeOK
      <4> HIDE DEF bag
      <4> QED BY <2>3, <4>1, <4>2 DEF Ptr
    <3> QED BY <1>2, <2>3, <2>7, <3>1, <3>2 DEF Inv, TypeOK, PC
  <2>9. PICK kind2 : kind2 = [b \in Block |-> IF b \in bag THEN "list" ELSE kind[b]]
    OBVIOUS
  <2>10. PICK who2 : who2 = [b \in Block |-> IF b \in bag THEN t ELSE who[b]]
    OBVIOUS
  <2>11. PICK rank2 : rank2 = [b \in Block |-> IF b \in bag THEN b - bump + 1 ELSE rank[b]]
    OBVIOUS
  <2>12. GhostOK(kind2, who2, rank2)
    <3>1. \A b \in bag : b - bump + 1 \in Nat
      BY <2>1
    <3> HIDE DEF bag
    <3> QED BY <1>2, <2>9, <2>10, <2>11, <3>1 DEF GhostOK, Kind
  <2>13. \A b \in bag : /\ kind2[b] = "list" /\ who2[b] = t /\ rank2[b] = b - bump + 1
                        /\ next'[b] = IF b = bump THEN NULL ELSE b - 1
                        /\ kind[b] = "fresh"
    <3>1. \A b \in bag : b >= bump
      BY <2>1
    <3>2. \A b \in bag : kind[b] = "fresh"
      BY <1>2, <2>2, <3>1 DEF SharedOK, OfKind
    <3> HIDE DEF bag
    <3> QED BY <2>2, <2>3, <2>9, <2>10, <2>11, <3>2
  <2>14. \A b \in Block \ bag : Untouched(b, kind, who, rank, kind2, who2, rank2)
    <3> HIDE DEF bag
    <3> QED BY <2>3, <2>9, <2>10, <2>11 DEF Untouched
  <2>15. Threaded(bag, lastB, next', rank2) /\ Closed(bag, next', rank2)
    BY <2>1, <2>13, ChainBag
  <2>16. rank2[lastB] = BagObjects /\ rank2[bump] = 1 /\ lastB # NULL
    BY <2>1, <2>2, <2>13, NullNotBlock
  <2>17. OfKind(kind2, "fresh") = {b \in Block : b >= bump'}
    <3>1. \A b \in Block : b \in bag <=> b >= bump /\ ~ (b >= bump')
      BY <2>1, <2>3 DEF Block
    <3>2. \A b \in Block : kind[b] = "fresh" <=> b >= bump
      BY <1>2 DEF SharedOK, OfKind
    <3>3. \A b \in Block : b >= bump' => b >= bump
      BY <2>1, <2>3 DEF Block
    <3> HIDE DEF bag
    <3>4. ASSUME NEW b \in Block PROVE kind2[b] = "fresh" <=> b >= bump'
      <4>1. CASE b \in bag
        BY <2>13, <3>1, <4>1
      <4>2. CASE b \notin bag
        <5>1. kind2[b] = kind[b]
          BY <2>14, <4>2 DEF Untouched
        <5> QED BY <3>1, <3>2, <3>3, <4>2, <5>1
      <4> QED BY <4>1, <4>2
    <3> QED BY <3>4 DEF OfKind
  <2> HIDE DEF bag
  <2>18. /\ OfThread(kind2, who2, "list", t) = bag
         /\ OfThread(kind2, who2, "spare", t) = P
         /\ OfThread(kind2, who2, "chain", t) = {}
    BY <1>3, <2>2, <2>6, <2>13, <2>14 DEF OfThread, Untouched
  <2>19. OfKind(kind2, "live") = OfKind(kind, "live")
    BY <2>13, <2>14 DEF OfKind, Untouched
  <2>20. \A b \in Block :
           \/ Untouched(b, kind, who, rank, kind2, who2, rank2)
           \/ kind[b] # "stack" /\ kind2[b] # "stack"
    BY <2>13, <2>14
  <2>21. SharedOK(kind2, rank2)'
    <3>1. /\ Threaded(OfKind(kind2, "stack"), head'.ptr, next', rank2)
          /\ Closed(OfKind(kind2, "stack"), next', rank2)
      BY <1>2, <2>20, StackFrame
    <3> QED BY <1>2, <2>17, <2>19, <3>1 DEF SharedOK
  <2>22. \A b \in Block :
           \/ Untouched(b, kind, who, rank, kind2, who2, rank2)
           \/ Mine(kind, who, t, b) /\ Mine(kind2, who2, t, b)
    BY <2>13, <2>14 DEF Mine
  <2>23. ThreadOK(t, kind2, who2, rank2)'
    <3>1. fl'[t] = f /\ pc'[t] = "pop" /\ bound'[t] = "here" /\ cur'[t] = cur[t] /\ chain'[t] = chain[t]
      BY <1>2, <1>3, <2>3 DEF Inv, TypeOK
    <3>2. ListOK(bag, f, next', rank2)
      BY <2>2, <2>7, <2>15, <2>16 DEF ListOK
    <3>3. P = {}
      <4>1. Threaded(P, NULL, next, rank) /\ P \subseteq Block
        BY <1>2, <1>3 DEF ThreadOK, OfThread
      <4> QED BY <4>1, NullNotBlock DEF Threaded
    <3>4. Threaded(P, f.spare, next', rank2) /\ Closed(P, next', rank2)
      BY <2>7, <3>3 DEF Threaded, Closed
    <3>5. ChainOK({}, chain[t], "pop", cur[t], next', rank2)
      BY <1>3 DEF ChainOK, Threaded
    <3>6. ControlOK(bag, f, chain[t], "pop", "here", cur[t], rank2)
      BY <2>7, <2>16 DEF ControlOK
    <3> QED BY <2>18, <3>1, <3>2, <3>4, <3>5, <3>6 DEF ThreadOK
  <2>24. \A u \in Threads \ {t} : Stays(u)
    BY <1>2, <2>3 DEF Stays, Inv, TypeOK
  <2>25. Placed(kind2, who2, rank2)'
    BY <1>1, <2>12, <2>21, <2>22, <2>23, <2>24, MoveStep
  <2> QED BY <2>8, <2>25 DEF Inv
<1>6. bump \in Nat /\ BagObjects \in Nat /\ RegionBlocks \in Nat
  BY FreelistAssumption DEF Inv, TypeOK
<1> QED BY <1>4, <1>5, <1>6

\* The walk moves on, or its chain becomes the list and the spare chain.
LEMMA RefillInv ==
  ASSUME NEW t \in Threads, Inv, Refill(t)
  PROVE  Inv'
<1>1. PICK kind, who, rank : Placed(kind, who, rank)
  BY DEF Inv
<1> DEFINE C == OfThread(kind, who, "chain", t)
           c == chain[t]
           last == chain[t].last
           link == next[chain[t].last]
           full == chain[t].n >= RefillBatch
<1>2. /\ ThreadOK(t, kind, who, rank) /\ GhostOK(kind, who, rank)
      /\ pc[t] = "refill" /\ UNCHANGED <<bump, head, live, bound, cur>>
  BY <1>1 DEF Placed, Refill
<1>3. /\ last \in C /\ C \subseteq Block
      /\ Threaded(C, c.first, next, rank) /\ Closed(C, next, rank)
      /\ c.n >= 1 /\ rank[c.first] = rank[last] + c.n - 1
      /\ bound[t] = "here" /\ fl[t].head = NULL /\ fl[t].spare = NULL
  BY <1>2 DEF ThreadOK, ChainOK, ControlOK, OfThread
<1>4. link \in C \cup {NULL} /\ (link = NULL => rank[last] = 1)
  BY <1>3, ChainLinks, NullNotBlock
<1>5. /\ c \in [first : Ptr, last : Ptr, n : Nat]
      /\ fl[t] \in [head : Ptr, tail : Ptr, count : Nat, spare : Ptr]
  BY DEF Inv, TypeOK
<1>6. /\ rank[last] \in Nat /\ rank[last] >= 1 /\ c.first \in C /\ rank[c.first] \in Nat
      /\ link # NULL => rank[link] = rank[last] - 1
  BY <1>3, <1>4 DEF Threaded, Closed
<1>7. CASE ~ full /\ link # NULL
  <2>1. chain' = [chain EXCEPT ![t].last = link, ![t].n = @ + 1] /\ UNCHANGED <<next, fl, pc>>
    BY <1>7 DEF Refill
  <2>2. chain'[t].first = c.first /\ chain'[t].last = link /\ chain'[t].n = c.n + 1
    BY <2>1 DEF Inv, TypeOK
  <2>3. link \in Ptr /\ c.n + 1 \in Nat
    BY <1>3, <1>4, <1>5 DEF Ptr
  <2>4. TypeOK'
    BY <1>2, <2>1, <2>3 DEF Inv, TypeOK
  <2>5. rank[c.first] = rank[link] + (c.n + 1) - 1 /\ link \in C
    BY <1>3, <1>4, <1>5, <1>6, <1>7
  <2>6. ChainOK(C, chain'[t], "refill", cur[t], next, rank)
    BY <1>3, <1>5, <2>2, <2>3, <2>5 DEF ChainOK
  <2>7. ControlOK(OfThread(kind, who, "list", t), fl[t], chain'[t], "refill", bound[t], cur[t], rank)
    BY <1>2 DEF ThreadOK, ControlOK
  <2>8. ThreadOK(t, kind, who, rank)'
    BY <1>2, <2>1, <2>6, <2>7 DEF ThreadOK
  <2>9. \A u \in Threads \ {t} : Stays(u)
    BY <1>2, <2>1 DEF Stays, Inv, TypeOK
  <2>10. Placed(kind, who, rank)'
    BY <1>1, <1>2, <2>1, <2>8, <2>9, QuietStep
  <2> QED BY <2>4, <2>10 DEF Inv
<1>8. CASE full \/ link = NULL
  <2> DEFINE g == WithChain(fl[t], c.first, last, c.n)
             f == [g EXCEPT !.spare = IF full THEN link ELSE @]
             U == {b \in C : rank[b] >= rank[last]}
             D == {b \in C : rank[b] < rank[last]}
  <2>1. /\ fl' = [fl EXCEPT ![t] = f]
        /\ next' = [next EXCEPT ![last] = NULL]
        /\ chain' = [chain EXCEPT ![t] = NoChain]
        /\ pc' = [pc EXCEPT ![t] = "pop"]
    BY <1>3, <1>8 DEF Refill, Goto
  <2>2. ListOK(OfThread(kind, who, "list", t), fl[t], next, rank)
    BY <1>2 DEF ThreadOK
  <2>3. fl[t].count = 0 /\ OfThread(kind, who, "list", t) = {} /\ OfThread(kind, who, "spare", t) = {}
    <3>1. OfThread(kind, who, "list", t) \subseteq Block /\ OfThread(kind, who, "spare", t) \subseteq Block
      BY DEF OfThread
    <3>2. Threaded(OfThread(kind, who, "spare", t), NULL, next, rank)
      BY <1>2, <1>3 DEF ThreadOK
    <3> QED BY <1>3, <2>2, <3>1, <3>2, NullNotBlock DEF ListOK, Threaded
  <2>4. /\ g.head = c.first /\ g.tail = last /\ g.count = c.n /\ g.spare = NULL
        /\ g \in [head : Ptr, tail : Ptr, count : Nat, spare : Ptr]
    <3>1. c.first \in Block /\ last \in Block /\ c.n \in Nat /\ fl[t].count + c.n = c.n
      BY <1>3, <1>5, <1>6, <2>3
    <3>2. /\ g.head = c.first /\ g.count = fl[t].count + c.n /\ g.spare = fl[t].spare
          /\ g.tail = IF fl[t].head = NULL THEN last ELSE fl[t].tail
          /\ g \in [head : Ptr, tail : Ptr, count : Nat, spare : Ptr]
      BY <1>5, <3>1, WithChainFields
    <3> HIDE DEF g
    <3> QED BY <1>3, <3>1, <3>2
  <2> HIDE DEF g
  <2>5. /\ f.head = c.first /\ f.tail = last /\ f.count = c.n /\ f.spare = link
        /\ f \in [head : Ptr, tail : Ptr, count : Nat, spare : Ptr]
    <3>1. link \in Ptr
      BY <1>3, <1>4 DEF Ptr
    <3>2. CASE full
      BY <2>4, <3>1, <3>2
    <3>3. CASE ~ full
      BY <1>8, <2>4, <3>1, <3>3
    <3> QED BY <3>2, <3>3
  <2> HIDE DEF f
  <2>6. TypeOK'
    <3>1. NoChain \in [first : Ptr, last : Ptr, n : Nat] /\ NULL \in Ptr
      BY DEF NoChain, Ptr
    <3> QED BY <1>2, <1>3, <2>1, <2>5, <3>1 DEF Inv, TypeOK, PC
  <2>7. PICK kind2 : kind2 = [b \in Block |-> IF b \notin C THEN kind[b]
                                             ELSE IF b \in U THEN "list" ELSE "spare"]
    OBVIOUS
  <2>8. PICK rank2 : rank2 = [b \in Block |-> IF b \in U THEN rank[b] - rank[last] + 1 ELSE rank[b]]
    OBVIOUS
  <2>9. \A b \in C : rank[b] \in Nat /\ (b \in U <=> ~ (b \in D))
    BY <1>3, <1>6 DEF Threaded
  <2>10. GhostOK(kind2, who, rank2)
    <3>1. \A b \in U : rank[b] - rank[last] + 1 \in Nat
      BY <1>6, <2>9
    <3>2. \A b \in C : who[b] \in Threads
      BY DEF OfThread
    <3> HIDE DEF C, U, last
    <3> QED BY <1>2, <2>7, <2>8, <3>1, <3>2 DEF GhostOK, Kind
  <2>11. /\ next'[last] = NULL
         /\ \A b \in Block \ {last} : next'[b] = next[b]
    BY <1>3, <2>1 DEF Inv, TypeOK
  <2>12. /\ OfThread(kind2, who, "list", t) = U
         /\ OfThread(kind2, who, "spare", t) = D
         /\ OfThread(kind2, who, "chain", t) = {}
    <3>1. /\ \A b \in U : kind2[b] = "list" /\ who[b] = t /\ b \in Block
          /\ \A b \in D : kind2[b] = "spare" /\ who[b] = t /\ b \in Block
          /\ \A b \in Block : b \notin C => kind2[b] = kind[b]
      BY <1>3, <2>7, <2>9 DEF OfThread
    <3>2. \A b \in Block : b \notin C => ~ (kind[b] \in {"list", "spare", "chain"} /\ who[b] = t)
      BY <2>3 DEF OfThread
    <3>3. \A b \in C : b \in U \/ b \in D
      BY <2>9
    <3> HIDE DEF C, U, D
    <3> QED BY <3>1, <3>2, <3>3 DEF OfThread
  <2>13. \A b \in Block :
           \/ Untouched(b, kind, who, rank, kind2, who, rank2)
           \/ Has(kind, who, t, b) /\ Has(kind2, who, t, b)
    <3>1. ASSUME NEW b \in C PROVE Has(kind, who, t, b) /\ Has(kind2, who, t, b)
      BY <1>3, <2>7 DEF OfThread, Has
    <3>2. ASSUME NEW b \in Block, b \notin C PROVE Untouched(b, kind, who, rank, kind2, who, rank2)
      BY <1>3, <2>7, <2>8, <2>11, <3>2 DEF Untouched
    <3> QED BY <3>1, <3>2
  <2>14. /\ \A b \in U : rank2[b] = rank[b] - rank[last] + 1
         /\ \A b \in D : rank2[b] = rank[b] /\ next'[b] = next[b]
    BY <1>3, <2>8, <2>9, <2>11
  <2> HIDE DEF C
  <2>15. Threaded(U, c.first, next', rank2) /\ Closed(U, next', rank2)
    <3>1. \A b \in C : rank[b] >= rank[last] => rank2[b] = rank[b] - rank[last] + 1
      BY <2>14
    <3>2. \A b \in C : rank[b] > rank[last] => next'[b] = next[b]
      BY <1>3, <1>6, <2>9, <2>11
    <3> QED BY <1>3, <2>11, <3>1, <3>2, ChainAbove
  <2>16. Threaded(D, link, next', rank2) /\ Closed(D, next', rank2)
    <3>0. /\ C \in SUBSET Block /\ last \in C
          /\ Threaded(C, c.first, next, rank) /\ Closed(C, next, rank)
      BY <1>3
    <3>1. Threaded(D, link, next, rank) /\ Closed(D, next, rank)
      BY <3>0, ChainBelow
    <3> HIDE DEF D, link
    <3> QED BY <2>14, <3>1, ChainFrame
  <2>17. /\ rank2[c.first] = c.n /\ last \in U /\ rank2[last] = 1 /\ c.first \in U
         /\ c.first # NULL
    <3>1. c.first \in U /\ last \in U
      BY <1>3, <1>5, <1>6
    <3>2. rank2[c.first] = rank[c.first] - rank[last] + 1 /\ rank2[last] = rank[last] - rank[last] + 1
      BY <2>14, <3>1
    <3>3. c.first # NULL
      BY <1>3, <1>6, NullNotBlock
    <3> QED BY <1>3, <1>5, <1>6, <3>1, <3>2, <3>3
  <2> HIDE DEF U, D
  <2>18. ThreadOK(t, kind2, who, rank2)'
    <3>1. fl'[t] = f /\ pc'[t] = "pop" /\ bound'[t] = "here" /\ cur'[t] = cur[t] /\ chain'[t] = NoChain
      BY <1>2, <1>3, <2>1 DEF Inv, TypeOK
    <3>2. ListOK(U, f, next', rank2)
      BY <2>5, <2>15, <2>17 DEF ListOK
    <3>3. Threaded(D, f.spare, next', rank2) /\ Closed(D, next', rank2)
      BY <2>5, <2>16
    <3>4. ChainOK({}, NoChain, "pop", cur[t], next', rank2)
      BY DEF ChainOK, Threaded, NoChain
    <3>5. ControlOK(U, f, NoChain, "pop", "here", cur[t], rank2)
      BY <2>5, <2>17 DEF ControlOK
    <3> QED BY <2>12, <3>1, <3>2, <3>3, <3>4, <3>5 DEF ThreadOK
  <2>19. \A u \in Threads \ {t} : Stays(u)
    BY <1>2, <2>1 DEF Stays, Inv, TypeOK
  <2>20. Placed(kind2, who, rank2)'
    BY <1>1, <1>2, <2>10, <2>13, <2>18, <2>19, OwnStep
  <2> QED BY <2>6, <2>20 DEF Inv
<1> QED BY <1>7, <1>8

\* The walk moves on, or what is below the split becomes the chain to publish.
LEMMA DrainInv ==
  ASSUME NEW t \in Threads, Inv, Drain(t)
  PROVE  Inv'
<1>1. PICK kind, who, rank : Placed(kind, who, rank)
  BY DEF Inv
<1> DEFINE L == OfThread(kind, who, "list", t)
           P == OfThread(kind, who, "spare", t)
           c == chain[t]
           split == chain[t].last
           link == next[chain[t].last]
<1>2. /\ ThreadOK(t, kind, who, rank) /\ GhostOK(kind, who, rank)
      /\ pc[t] = "drain" /\ UNCHANGED <<bump, head, live, bound, cur>>
  BY <1>1 DEF Placed, Drain
<1>3. /\ ListOK(L, fl[t], next, rank) /\ L \subseteq Block /\ P \subseteq Block
      /\ Threaded(P, fl[t].spare, next, rank) /\ Closed(P, next, rank)
      /\ OfThread(kind, who, "chain", t) = {} /\ c.first = NULL
      /\ split \in L /\ c.n >= 1 /\ c.n <= Keep /\ rank[split] = fl[t].count - c.n + 1
      /\ fl[t].count > CacheLimit /\ bound[t] = "here"
  BY <1>2 DEF ThreadOK, ChainOK, ControlOK, OfThread, Threaded
<1>4. /\ c \in [first : Ptr, last : Ptr, n : Nat]
      /\ fl[t] \in [head : Ptr, tail : Ptr, count : Nat, spare : Ptr]
  BY DEF Inv, TypeOK
<1>5. Keep \in Nat /\ 2 * Keep <= CacheLimit /\ CacheLimit \in Nat /\ CacheLimit >= 2
  BY FreelistAssumption DEF Keep
<1>6. rank[split] \in Nat /\ rank[split] > 1
  BY <1>3, <1>4, <1>5
<1>7. Threaded(L, fl[t].head, next, rank) /\ Closed(L, next, rank)
  BY <1>3 DEF ListOK
<1>8. link \in L /\ rank[link] = rank[split] - 1 /\ link # NULL
  BY <1>3, <1>6, <1>7, NullNotBlock DEF Threaded
<1>9. /\ fl[t].head \in L /\ fl[t].head # NULL /\ fl[t].count = rank[fl[t].head]
      /\ fl[t].tail \in L /\ rank[fl[t].tail] = 1
  BY <1>3, <1>7, NullNotBlock DEF ListOK, Threaded
<1>10. CASE c.n < Keep
  <2>1. chain' = [chain EXCEPT ![t].last = link, ![t].n = @ + 1] /\ UNCHANGED <<next, fl, pc>>
    BY <1>10 DEF Drain
  <2>2. chain'[t].first = NULL /\ chain'[t].last = link /\ chain'[t].n = c.n + 1
    BY <1>3, <2>1 DEF Inv, TypeOK
  <2>3. link \in Ptr /\ c.n + 1 \in Nat
    BY <1>3, <1>4, <1>8 DEF Ptr
  <2>4. TypeOK'
    BY <1>2, <2>1, <2>3 DEF Inv, TypeOK
  <2>5. c.n + 1 >= 1 /\ c.n + 1 <= Keep /\ rank[link] = fl[t].count - (c.n + 1) + 1
    BY <1>3, <1>4, <1>5, <1>8, <1>10
  <2>6. ChainOK({}, chain'[t], "drain", cur[t], next, rank)
    BY <2>2 DEF ChainOK, Threaded
  <2>7. ControlOK(L, fl[t], chain'[t], "drain", "here", cur[t], rank)
    BY <1>3, <1>8, <2>2, <2>5 DEF ControlOK
  <2>8. ThreadOK(t, kind, who, rank)'
    BY <1>2, <1>3, <2>1, <2>6, <2>7 DEF ThreadOK
  <2>9. \A u \in Threads \ {t} : Stays(u)
    BY <1>2, <2>1 DEF Stays, Inv, TypeOK
  <2>10. Placed(kind, who, rank)'
    BY <1>1, <1>2, <2>1, <2>8, <2>9, QuietStep
  <2> QED BY <2>4, <2>10 DEF Inv
<1>11. CASE c.n = Keep
  <2> DEFINE f == Split(fl[t], split)
             d == [first |-> link, last |-> fl[t].tail, n |-> 0]
             U == {b \in L : rank[b] >= rank[split]}
             D == {b \in L : rank[b] < rank[split]}
  <2>1. /\ fl' = [fl EXCEPT ![t] = f]
        /\ next' = [next EXCEPT ![split] = NULL]
        /\ chain' = [chain EXCEPT ![t] = d]
        /\ pc' = [pc EXCEPT ![t] = "pushLoad"]
    BY <1>4, <1>5, <1>11 DEF Drain, Goto
  <2>2. /\ f.head = fl[t].head /\ f.tail = split /\ f.count = Keep /\ f.spare = fl[t].spare
        /\ f \in [head : Ptr, tail : Ptr, count : Nat, spare : Ptr]
    BY <1>3, <1>4, <1>5 DEF Split, Ptr
  <2>3. d \in [first : Ptr, last : Ptr, n : Nat] /\ NULL \in Ptr
    BY <1>3, <1>4, <1>8 DEF Ptr
  <2> HIDE DEF f
  <2>4. TypeOK'
    BY <1>2, <1>3, <2>1, <2>2, <2>3 DEF Inv, TypeOK, PC
  <2>5. PICK kind2 : kind2 = [b \in Block |-> IF b \in D THEN "chain" ELSE kind[b]]
    OBVIOUS
  <2>6. PICK rank2 : rank2 = [b \in Block |-> IF b \in U THEN rank[b] - rank[split] + 1 ELSE rank[b]]
    OBVIOUS
  <2>7. \A b \in L : rank[b] \in Nat /\ (b \in U <=> ~ (b \in D))
    BY <1>6, <1>7 DEF Threaded
  <2>8. GhostOK(kind2, who, rank2)
    <3>1. \A b \in U : rank[b] - rank[split] + 1 \in Nat
      BY <1>6, <2>7
    <3>2. \A b \in D : who[b] \in Threads
      BY DEF OfThread
    <3> HIDE DEF L, U, D, split
    <3> QED BY <1>2, <2>5, <2>6, <3>1, <3>2 DEF GhostOK, Kind
  <2>9. /\ next'[split] = NULL
        /\ \A b \in Block \ {split} : next'[b] = next[b]
    BY <1>3, <2>1 DEF Inv, TypeOK
  <2>10. /\ OfThread(kind2, who, "list", t) = U
         /\ OfThread(kind2, who, "spare", t) = P
         /\ OfThread(kind2, who, "chain", t) = D
    <3>1. \A b \in Block : b \in L <=> kind[b] = "list" /\ who[b] = t
      BY DEF OfThread
    <3>2. \A b \in Block : ~ (kind[b] = "chain" /\ who[b] = t)
      BY <1>3 DEF OfThread
    <3>3. /\ \A b \in D : kind2[b] = "chain"
          /\ \A b \in Block : b \notin D => kind2[b] = kind[b]
      BY <1>3, <2>5
    <3>4. D \subseteq L /\ U \subseteq L
      OBVIOUS
    <3> HIDE DEF L, U, D
    <3> QED BY <1>3, <2>7, <3>1, <3>2, <3>3, <3>4 DEF OfThread, P
  <2>11. \A b \in Block :
           \/ Untouched(b, kind, who, rank, kind2, who, rank2)
           \/ Has(kind, who, t, b) /\ Has(kind2, who, t, b)
    <3>1. ASSUME NEW b \in L PROVE Has(kind, who, t, b) /\ Has(kind2, who, t, b)
      BY <1>3, <2>5 DEF OfThread, Has
    <3>2. ASSUME NEW b \in Block, b \notin L PROVE Untouched(b, kind, who, rank, kind2, who, rank2)
      BY <1>3, <2>5, <2>6, <2>9, <3>2 DEF Untouched
    <3> QED BY <3>1, <3>2
  <2>12. /\ \A b \in U : rank2[b] = rank[b] - rank[split] + 1
         /\ \A b \in D : rank2[b] = rank[b] /\ next'[b] = next[b]
    BY <1>3, <2>6, <2>7, <2>9
  <2>13. \A b \in P : next'[b] = next[b] /\ rank2[b] = rank[b]
    <3>1. \A b \in P : b \notin L /\ b \in Block
      BY DEF OfThread
    <3> QED BY <1>3, <2>6, <2>9, <3>1
  <2> HIDE DEF L, P
  <2>14. Threaded(U, fl[t].head, next', rank2) /\ Closed(U, next', rank2)
    <3>1. \A b \in L : rank[b] >= rank[split] => rank2[b] = rank[b] - rank[split] + 1
      BY <2>12
    <3>2. \A b \in L : rank[b] > rank[split] => next'[b] = next[b]
      BY <1>3, <1>6, <2>7, <2>9
    <3> QED BY <1>3, <1>7, <2>9, <3>1, <3>2, ChainAbove
  <2>15. Threaded(D, link, next', rank2)
    <3>1. Threaded(D, link, next, rank)
      BY <1>3, <1>7, ChainBelow
    <3> HIDE DEF D, link
    <3> QED BY <2>12, <3>1, ChainFrame
  <2>16. /\ fl[t].head \in U /\ rank2[fl[t].head] = Keep
         /\ split \in U /\ rank2[split] = 1
         /\ fl[t].tail \in D /\ rank2[fl[t].tail] = 1
    <3>1. fl[t].head \in U /\ split \in U /\ fl[t].tail \in D
      BY <1>3, <1>4, <1>5, <1>6, <1>9
    <3>2. /\ rank2[fl[t].head] = rank[fl[t].head] - rank[split] + 1
          /\ rank2[split] = rank[split] - rank[split] + 1
          /\ rank2[fl[t].tail] = 1
      BY <1>9, <2>12, <3>1
    <3> QED BY <1>3, <1>4, <1>5, <1>6, <1>9, <1>11, <3>1, <3>2
  <2> HIDE DEF U, D
  <2>17. ThreadOK(t, kind2, who, rank2)'
    <3>1. fl'[t] = f /\ pc'[t] = "pushLoad" /\ bound'[t] = "here" /\ cur'[t] = cur[t] /\ chain'[t] = d
      BY <1>2, <1>3, <2>1 DEF Inv, TypeOK
    <3>2. ListOK(U, f, next', rank2)
      BY <1>9, <2>2, <2>14, <2>16 DEF ListOK
    <3>3. Threaded(P, f.spare, next', rank2) /\ Closed(P, next', rank2)
      BY <1>3, <2>2, <2>13, ChainFrame
    <3>4. ChainOK(D, d, "pushLoad", cur[t], next', rank2)
      BY <2>15, <2>16 DEF ChainOK
    <3>5. ControlOK(U, f, d, "pushLoad", "here", cur[t], rank2)
      BY DEF ControlOK
    <3> QED BY <2>10, <3>1, <3>2, <3>3, <3>4, <3>5 DEF ThreadOK
  <2>18. \A u \in Threads \ {t} : Stays(u)
    BY <1>2, <2>1 DEF Stays, Inv, TypeOK
  <2>19. Placed(kind2, who, rank2)'
    BY <1>1, <1>2, <2>8, <2>11, <2>17, <2>18, OwnStep
  <2> QED BY <2>4, <2>19 DEF Inv
<1>12. c.n \in Nat /\ Keep \in Nat
  BY <1>4, <1>5
<1> QED BY <1>3, <1>10, <1>11, <1>12

-----------------------------------------------------------------------------
\* Every step, and every stutter, keeps the invariant.
LEMMA NextInv == Inv /\ [Next]_vars => Inv'
<1> SUFFICES ASSUME Inv, [Next]_vars PROVE Inv'
  OBVIOUS
<1>1. CASE UNCHANGED vars
  <2>1. PICK kind, who, rank : Placed(kind, who, rank)
    BY DEF Inv
  <2>2. TypeOK'
    BY <1>1 DEF Inv, TypeOK, vars
  <2>3. Placed(kind, who, rank)'
    BY <1>1, <2>1 DEF Placed, SharedOK, ThreadOK, vars
  <2> QED BY <2>2, <2>3 DEF Inv
<1>2. ASSUME NEW t \in Threads, Call(t) PROVE Inv'
  BY <1>2, InitThreadHeapInv, ThreadStartInv, PopInv, AllocMissInv, DeallocLocalInv,
     DeallocRemoteInv, DropListInv DEF Call
<1>3. ASSUME NEW t \in Threads, Local(t) PROVE Inv'
  BY <1>3, PopInv, TakeAllLoadInv, RefillInv, CarveInv, DrainInv, PushChainLoadInv,
     DropSpareInv, DropWalkInv DEF Local
<1>4. ASSUME NEW t \in Threads, Cas(t) \/ CasSpurious(t) PROVE Inv'
  BY <1>4, TakeAllCasInv, PushChainCasInv, RetryInv DEF Cas, CasLost, CasSpurious
<1> QED BY <1>1, <1>2, <1>3, <1>4 DEF Next

\* In every reachable state each block is in one place, the region's untouched
\* part, the program's hands, the node's stack, or the list, spare chain or
\* in-transit chain of one thread, and following the links from a place's root
\* visits the blocks of that place one after the other and ends.
THEOREM Safety == Spec => []Inv
<1>1. Init => Inv
  BY InitInv
<1>2. Inv /\ [Next]_vars => Inv'
  BY NextInv
<1> QED BY <1>1, <1>2, PTL DEF Spec

\* Every variable keeps to its declared fields; in particular no count goes
\* below zero and no link leaves the region.
THEOREM TypeCorrect == Spec => []TypeOK
<1>1. Inv => TypeOK
  BY DEF Inv
<1> QED BY <1>1, Safety, PTL

\* What alloc, drain and the drop of a thread's heap are about to dereference is
\* a free block, its link is intact, and no unwrap() meets None.
THEOREM LinksOwned == Spec => []LinksReadAreOwned
<1>1. Inv => LinksReadAreOwned
  <2> SUFFICES ASSUME Inv, NEW t \in Threads
               PROVE
                 LET last == chain[t].last IN
                 /\ fl[t].head # NULL => fl[t].head \notin live /\ next[fl[t].head] # UserData
                 /\ pc[t] = "pop" => fl[t].head # NULL
                 /\ pc[t] \in {"refill", "exitWalk"} =>
                      last \in Block \ live /\ next[last] # UserData
                 /\ pc[t] = "drain" => last \in Block \ live /\ next[last] \in Block
                 /\ Publishing(t) => chain[t].first \in Block \ live /\ last \in Block \ live
    BY DEF LinksReadAreOwned
  <2>1. PICK kind, who, rank : Placed(kind, who, rank)
    BY DEF Inv
  <2> DEFINE L == OfThread(kind, who, "list", t)
             C == OfThread(kind, who, "chain", t)
             last == chain[t].last
  <2>2. ThreadOK(t, kind, who, rank) /\ SharedOK(kind, rank)
    BY <2>1 DEF Placed
  <2>3. L \subseteq Block \ live /\ C \subseteq Block \ live
    BY <2>2 DEF SharedOK, OfThread, OfKind
  <2>4. /\ Threaded(L, fl[t].head, next, rank) /\ Closed(L, next, rank)
        /\ Threaded(C, chain[t].first, next, rank)
        /\ pc[t] = "pop" => fl[t].head # NULL
        /\ pc[t] \in {"refill", "exitWalk"} => last \in C /\ Closed(C, next, rank)
        /\ Publishing(t) => last \in C
    BY <2>2 DEF ThreadOK, ListOK, ChainOK, ControlOK, Publishing
  <2>5. pc[t] = "drain" => last \in L /\ rank[last] > 1
    <3>1. /\ fl[t].count \in Nat /\ chain[t].n \in Nat /\ CacheLimit \in Nat /\ CacheLimit >= 2
          /\ Keep \in Nat /\ 2 * Keep <= CacheLimit
      BY FreelistAssumption DEF Inv, TypeOK, Keep
    <3>2. pc[t] = "drain" => /\ last \in L /\ chain[t].n <= Keep
                             /\ rank[last] = fl[t].count - chain[t].n + 1
                             /\ fl[t].count > CacheLimit
      BY <2>2 DEF ThreadOK, ControlOK
    <3> QED BY <3>1, <3>2
  <2> HIDE DEF L, C
  <2>6. UserData \notin Block \cup {NULL}
    BY NullAssumption
  <2>7. fl[t].head # NULL => fl[t].head \in L
    BY <2>4 DEF Threaded
  <2>8. \A b \in L : next[b] \in L \cup {NULL}
    BY <2>4, ChainLinks
  <2>9. pc[t] \in {"refill", "exitWalk"} => \A b \in C : next[b] \in C \cup {NULL}
    BY <2>4, ChainLinks
  <2>10. pc[t] = "drain" => next[last] \in L
    BY <2>4, <2>5 DEF Threaded
  <2>11. Publishing(t) => chain[t].first \in C
    BY <2>4 DEF Threaded
  <2> QED BY <2>3, <2>4, <2>5, <2>6, <2>7, <2>8, <2>9, <2>10, <2>11
<1> QED BY <1>1, Safety, PTL

-----------------------------------------------------------------------------
(* From the invariant to the properties that walk the links.               *)

\* A set of numbers that is not empty has a least one.
LEMMA LeastIn ==
  ASSUME NEW S \in SUBSET Nat, S # {}
  PROVE  \E x \in S : \A y \in S : x <= y
<1> DEFINE R == OpToRel(<, Nat)
<1>1. IsWellFoundedOn(R, Nat)
  BY NatLessThanWellFounded
<1>2. PICK x \in S : \A y \in S : ~ (<<y, x>> \in R)
  <2> HIDE DEF R
  <2> QED BY <1>1, WFMin
<1>3. \A y \in S : ~ (y < x)
  BY <1>2 DEF OpToRel
<1> QED BY <1>3

\* A set of numbers that has 0, and n + 1 for every n it has, has them all: the
\* least number outside would have a predecessor inside.
LEMMA AllNumbers ==
  ASSUME NEW T, 0 \in T, \A n \in Nat : n \in T => n + 1 \in T
  PROVE  \A n \in Nat : n \in T
<1> SUFFICES ASSUME NEW m \in Nat, m \notin T PROVE FALSE
  OBVIOUS
<1> DEFINE Out == {n \in Nat : n \notin T}
<1>1. Out \in SUBSET Nat /\ Out # {}
  OBVIOUS
<1>3. PICK x \in Out : \A y \in Out : x <= y
  <2> HIDE DEF Out
  <2> QED BY <1>1, LeastIn
<1>4. \A y \in Out : ~ (y < x)
  BY <1>3
<1>5. x # 0 /\ x \in Nat /\ x - 1 \in Nat /\ x - 1 < x
  OBVIOUS
<1>6. x - 1 \in T
  BY <1>4, <1>5
<1>7. x - 1 + 1 = x
  BY <1>5
<1> QED BY <1>5, <1>6, <1>7

\* What a walk goes to from `b'.
Hop(b, stop) == IF b \in Block \ {stop} THEN next[b] ELSE NULL

\* w is the walk of n steps from `p', not going past `stop'.
IsWalk(w, n, p, stop) ==
  w = [k \in 0 .. n |-> IF k = 0 THEN p ELSE Hop(w[k - 1], stop)]

\* Walks of every length exist.
LEMMA WalkExists ==
  ASSUME NEW p, NEW stop
  PROVE  \A n \in Nat : \E w : IsWalk(w, n, p, stop)
<1> DEFINE T == {n \in Nat : \E w : IsWalk(w, n, p, stop)}
<1>1. 0 \in T
  <2> DEFINE w == [k \in 0 .. 0 |-> p]
  <2>1. w = [k \in 0 .. 0 |-> IF k = 0 THEN p ELSE Hop(w[k - 1], stop)]
    OBVIOUS
  <2> HIDE DEF w
  <2> QED BY <2>1 DEF IsWalk
<1>2. ASSUME NEW n \in Nat, n \in T PROVE n + 1 \in T
  <2>1. PICK v : v = [k \in 0 .. n |-> IF k = 0 THEN p ELSE Hop(v[k - 1], stop)]
    BY <1>2 DEF IsWalk
  <2> DEFINE w == [k \in 0 .. n + 1 |-> IF k <= n THEN v[k] ELSE Hop(v[n], stop)]
  <2>2. ASSUME NEW k \in 0 .. n + 1
        PROVE  w[k] = IF k = 0 THEN p ELSE Hop(w[k - 1], stop)
    <3>1. CASE k = 0
      BY <2>1, <3>1
    <3>2. CASE k # 0 /\ k <= n
      <4>1. w[k] = v[k] /\ w[k - 1] = v[k - 1] /\ k \in 0 .. n
        BY <3>2
      <4> QED BY <2>1, <3>2, <4>1
    <3>3. CASE k = n + 1
      <4>1. w[k] = Hop(v[n], stop) /\ w[k - 1] = v[n] /\ k # 0
        BY <3>3
      <4> QED BY <4>1
    <3> QED BY <3>1, <3>2, <3>3
  <2>3. w = [k \in 0 .. n + 1 |-> w[k]]
    OBVIOUS
  <2> HIDE DEF w
  <2>4. w = [k \in 0 .. n + 1 |-> IF k = 0 THEN p ELSE Hop(w[k - 1], stop)]
    BY <2>2, <2>3
  <2> QED BY <2>4 DEF IsWalk
<1> HIDE DEF T
<1>3. \A n \in Nat : n \in T
  BY <1>1, <1>2, AllNumbers
<1> QED BY <1>3 DEF T

\* The walk Reach looks at.
Walk(p, stop) == CHOOSE w : IsWalk(w, RegionBlocks, p, stop)

\* It is a walk, as one exists.
LEMMA WalkIs ==
  ASSUME NEW p, NEW stop
  PROVE  IsWalk(Walk(p, stop), RegionBlocks, p, stop)
BY WalkExists, FreelistAssumption, Zenon DEF Walk

\* Reach is the set of blocks it visits.
LEMMA ReachIs ==
  ASSUME NEW p, NEW stop
  PROVE  Reach(p, stop) = {Walk(p, stop)[k] : k \in 0 .. RegionBlocks} \cap Block
BY Zenon DEF Reach, Walk, IsWalk, Hop

-----------------------------------------------------------------------------
(* Walks along a chain.  `stop' ends the chain of a thread that publishes  *)
(* it, whose last link is not its own.                                     *)

\* A chain that a walk cannot leave, and that it does not stop short in.
Ends(S, stop, rank) ==
  /\ \A b \in S : rank[b] = 1 => b = stop \/ next[b] = NULL
  /\ \A b \in S : b = stop => rank[b] = 1

\* A walk from the root of a chain does not leave it.
LEMMA WalkInside ==
  ASSUME NEW S \in SUBSET Block, NEW p, NEW stop, NEW rank, NEW w, NEW n \in Nat,
         Threaded(S, p, next, rank), Ends(S, stop, rank), IsWalk(w, n, p, stop)
  PROVE  \A k \in 0 .. n : w[k] \in S \cup {NULL}
<1> DEFINE T == {k \in Nat : k <= n => w[k] \in S \cup {NULL}}
<1>1. \A k \in 0 .. n : w[k] = IF k = 0 THEN p ELSE Hop(w[k - 1], stop)
  <2>1. w = [k \in 0 .. n |-> IF k = 0 THEN p ELSE Hop(w[k - 1], stop)]
    BY DEF IsWalk
  <2> QED BY <2>1
<1>2. \A b \in S \cup {NULL} : Hop(b, stop) \in S \cup {NULL}
  <2> SUFFICES ASSUME NEW b \in S, b # stop PROVE next[b] \in S \cup {NULL}
    BY NullNotBlock DEF Hop
  <2> QED BY DEF Threaded, Ends
<1>3. 0 \in T
  BY <1>1 DEF Threaded
<1>4. ASSUME NEW k \in Nat, k \in T PROVE k + 1 \in T
  <2> SUFFICES ASSUME k + 1 <= n PROVE w[k + 1] \in S \cup {NULL}
    OBVIOUS
  <2>1. w[k] \in S \cup {NULL}
    BY <1>4
  <2>2. w[k + 1] = Hop(w[k], stop)
    <3>1. k + 1 \in 0 .. n /\ k + 1 # 0 /\ (k + 1) - 1 = k
      OBVIOUS
    <3> QED BY <1>1, <3>1
  <2> QED BY <1>2, <2>1, <2>2
<1> HIDE DEF T
<1>5. \A k \in Nat : k \in T
  BY <1>3, <1>4, AllNumbers
<1> QED BY <1>5 DEF T

\* It visits the blocks of the chain in the order of their ranks.
LEMMA WalkRanks ==
  ASSUME NEW S \in SUBSET Block, NEW p, NEW stop, NEW rank, NEW w, NEW n \in Nat,
         Threaded(S, p, next, rank), Ends(S, stop, rank), IsWalk(w, n, p, stop), S # {}
  PROVE  \A k \in 0 .. n : k < rank[p] => w[k] \in S /\ rank[w[k]] = rank[p] - k
<1> DEFINE T == {k \in Nat : k <= n /\ k < rank[p] => w[k] \in S /\ rank[w[k]] = rank[p] - k}
<1>1. \A k \in 0 .. n : w[k] = IF k = 0 THEN p ELSE Hop(w[k - 1], stop)
  <2>1. w = [k \in 0 .. n |-> IF k = 0 THEN p ELSE Hop(w[k - 1], stop)]
    BY DEF IsWalk
  <2> QED BY <2>1
<1>2. p \in S /\ rank[p] \in Nat
  BY DEF Threaded
<1>3. 0 \in T
  BY <1>1, <1>2
<1>4. ASSUME NEW k \in Nat, k \in T PROVE k + 1 \in T
  <2> SUFFICES ASSUME k + 1 <= n, k + 1 < rank[p]
               PROVE  w[k + 1] \in S /\ rank[w[k + 1]] = rank[p] - (k + 1)
    OBVIOUS
  <2>1. w[k] \in S /\ rank[w[k]] = rank[p] - k /\ rank[w[k]] > 1
    BY <1>2, <1>4
  <2>2. w[k] # stop
    BY <1>2, <2>1 DEF Ends
  <2>3. w[k + 1] = next[w[k]]
    <3>1. k + 1 \in 0 .. n /\ k + 1 # 0 /\ (k + 1) - 1 = k
      OBVIOUS
    <3> QED BY <1>1, <2>1, <2>2, <3>1 DEF Hop
  <2>4. next[w[k]] \in S /\ rank[next[w[k]]] = rank[w[k]] - 1
    BY <2>1 DEF Threaded
  <2> QED BY <1>2, <2>1, <2>3, <2>4
<1> HIDE DEF T
<1>5. \A k \in Nat : k \in T
  BY <1>3, <1>4, AllNumbers
<1> QED BY <1>5 DEF T

\* A chain has as many blocks as its root's rank, and no more than the region.
LEMMA ChainLength ==
  ASSUME NEW S \in SUBSET Block, NEW p, NEW stop, NEW rank,
         Threaded(S, p, next, rank), Ends(S, stop, rank), S # {}
  PROVE  Cardinality(S) = rank[p] /\ rank[p] <= RegionBlocks
<1>1. PICK r \in Nat : r = rank[p] /\ r >= 1 /\ p \in S
  BY DEF Threaded
<1>2. PICK w : IsWalk(w, r, p, stop)
  BY WalkExists
<1>3. \A k \in 0 .. r - 1 : w[k] \in S /\ rank[w[k]] = r - k
  <2>1. \A k \in 0 .. r : k < rank[p] => w[k] \in S /\ rank[w[k]] = rank[p] - k
    BY <1>2, WalkRanks
  <2> QED BY <1>1, <2>1
<1> DEFINE f == [k \in 0 .. r - 1 |-> w[k]]
<1>4. f \in Bijection(0 .. r - 1, S)
  <2>1. f \in [0 .. r - 1 -> S]
    BY <1>3
  <2>2. ASSUME NEW i \in 0 .. r - 1, NEW j \in 0 .. r - 1, f[i] = f[j] PROVE i = j
    <3>1. r - i = r - j
      BY <1>3, <2>2
    <3> QED BY <1>1, <3>1
  <2>3. ASSUME NEW b \in S PROVE \E k \in 0 .. r - 1 : f[k] = b
    <3>1. rank[b] \in Nat /\ rank[b] >= 1 /\ rank[b] <= r
      BY <1>1 DEF Threaded
    <3>2. r - rank[b] \in 0 .. r - 1 /\ r - (r - rank[b]) = rank[b]
      BY <1>1, <3>1
    <3>3. f[r - rank[b]] \in S /\ rank[f[r - rank[b]]] = rank[b]
      BY <1>3, <3>2
    <3>4. f[r - rank[b]] = b
      BY <3>3 DEF Threaded
    <3> QED BY <3>2, <3>4
  <2> HIDE DEF f
  <2> QED BY <2>1, <2>2, <2>3 DEF Bijection, Injection, Surjection, IsInjective
<1> HIDE DEF f
<1>5. IsFiniteSet(0 .. r - 1) /\ Cardinality(0 .. r - 1) = r
  <2>1. 0 \in Int /\ r - 1 \in Int /\ ~ (0 > r - 1) /\ (r - 1) - 0 + 1 = r
    BY <1>1
  <2> QED BY <2>1, FS_Interval
<1>6. Cardinality(S) = r
  <2>1. ExistsBijection(0 .. r - 1, S)
    BY <1>4 DEF ExistsBijection
  <2> QED BY <1>5, <2>1, FS_Bijection
<1>7. IsFiniteSet(Block) /\ Cardinality(Block) = RegionBlocks
  BY FreelistAssumption, FS_Interval DEF Block
<1>8. Cardinality(S) <= Cardinality(Block)
  BY <1>7, FS_Subset
<1> QED BY <1>1, <1>6, <1>7, <1>8

\* Reach from the root of a chain is the chain.
LEMMA ReachChain ==
  ASSUME NEW S \in SUBSET Block, NEW p, NEW stop, NEW rank,
         Threaded(S, p, next, rank), Ends(S, stop, rank)
  PROVE  Reach(p, stop) = S
<1> DEFINE w == Walk(p, stop)
<1>1. IsWalk(w, RegionBlocks, p, stop) /\ RegionBlocks \in Nat
  BY WalkIs, FreelistAssumption
<1>2. Reach(p, stop) = {w[k] : k \in 0 .. RegionBlocks} \cap Block
  BY ReachIs
<1> HIDE DEF w
<1>3. Reach(p, stop) \subseteq S
  <2>1. \A k \in 0 .. RegionBlocks : w[k] \in S \cup {NULL}
    BY <1>1, WalkInside
  <2> QED BY <1>2, <2>1, NullNotBlock
<1>4. ASSUME NEW b \in S PROVE b \in Reach(p, stop)
  <2>1. S # {} /\ p \in S /\ rank[p] \in Nat /\ rank[p] >= 1
    BY DEF Threaded
  <2>2. rank[b] \in Nat /\ rank[b] >= 1 /\ rank[b] <= rank[p]
    BY <2>1 DEF Threaded
  <2>3. rank[p] <= RegionBlocks
    BY <2>1, ChainLength
  <2> DEFINE k == rank[p] - rank[b]
  <2>4. k \in 0 .. RegionBlocks /\ k < rank[p] /\ rank[p] - k = rank[b]
    BY <1>1, <2>1, <2>2, <2>3
  <2> HIDE DEF k
  <2>5. w[k] \in S /\ rank[w[k]] = rank[b]
    BY <1>1, <2>1, <2>4, WalkRanks
  <2>6. w[k] = b
    BY <2>5 DEF Threaded
  <2> QED BY <1>2, <2>4, <2>6
<1> QED BY <1>3, <1>4

-----------------------------------------------------------------------------
(* The places of Freelist are the ones of its invariant.                   *)

\* What a thread's roots reach are the blocks `kind' and `who' say it has.
LEMMA ThreadPlaces ==
  ASSUME NEW t \in Threads, NEW kind, NEW who, NEW rank, ThreadOK(t, kind, who, rank)
  PROVE  /\ List(t) = OfThread(kind, who, "list", t)
         /\ Spare(t) = OfThread(kind, who, "spare", t)
         /\ Chain(t) = OfThread(kind, who, "chain", t)
<1> DEFINE L == OfThread(kind, who, "list", t)
           S == OfThread(kind, who, "spare", t)
           C == OfThread(kind, who, "chain", t)
           last == IF Publishing(t) THEN chain[t].last ELSE NULL
<1>1. L \in SUBSET Block /\ S \in SUBSET Block /\ C \in SUBSET Block
  BY DEF OfThread
<1>2. /\ Threaded(L, fl[t].head, next, rank) /\ Closed(L, next, rank)
      /\ Threaded(S, fl[t].spare, next, rank) /\ Closed(S, next, rank)
      /\ ChainOK(C, chain[t], pc[t], cur[t], next, rank)
  BY DEF ThreadOK, ListOK
<1> HIDE DEF L, S, C
<1>3. Ends(L, NULL, rank) /\ Ends(S, NULL, rank)
  BY <1>1, <1>2, NullNotBlock DEF Ends, Closed
<1>4. Threaded(C, chain[t].first, next, rank) /\ Ends(C, last, rank)
  <2>1. CASE Publishing(t)
    <3>1. last \in C /\ rank[last] = 1
      BY <1>2, <2>1 DEF Publishing, ChainOK
    <3>2. \A b \in C : rank[b] = 1 => b = last
      BY <1>2, <3>1 DEF ChainOK, Threaded
    <3> HIDE DEF last
    <3> QED BY <1>2, <3>1, <3>2 DEF Ends, ChainOK
  <2>2. CASE ~ Publishing(t)
    <3>1. last = NULL
      BY <2>2
    <3>2. C = {} \/ Closed(C, next, rank)
      BY <1>2, <2>2 DEF Publishing, ChainOK
    <3> HIDE DEF last
    <3> QED BY <1>1, <1>2, <3>1, <3>2, NullNotBlock DEF Ends, Closed, ChainOK
  <2> QED BY <2>1, <2>2
<1>5. List(t) = L /\ Spare(t) = S
  BY <1>1, <1>2, <1>3, ReachChain DEF List, Spare
<1>6. Chain(t) = C
  BY <1>1, <1>4, ReachChain DEF Chain
<1> QED BY <1>5, <1>6 DEF L, S, C

\* That holds of all threads together when the invariant does.
LEMMA PlacesOfThread ==
  ASSUME Inv, NEW kind, NEW who, NEW rank, Placed(kind, who, rank), NEW t \in Threads
  PROVE  /\ List(t) = OfThread(kind, who, "list", t)
         /\ Spare(t) = OfThread(kind, who, "spare", t)
         /\ Chain(t) = OfThread(kind, who, "chain", t)
<1>1. ThreadOK(t, kind, who, rank)
  BY DEF Placed
<1> QED BY <1>1, ThreadPlaces

\* So are the node's stack, the program's blocks and the rest of the region.
LEMMA PlacesShared ==
  ASSUME Inv, NEW kind, NEW who, NEW rank, Placed(kind, who, rank)
  PROVE  Stack = OfKind(kind, "stack") /\ live = OfKind(kind, "live") /\ Fresh = OfKind(kind, "fresh")
<1> DEFINE S == OfKind(kind, "stack")
<1>1. S \in SUBSET Block
  BY DEF OfKind
<1>2. /\ Threaded(S, head.ptr, next, rank) /\ Closed(S, next, rank)
      /\ live = OfKind(kind, "live") /\ OfKind(kind, "fresh") = {b \in Block : b >= bump}
  BY DEF Placed, SharedOK
<1> HIDE DEF S
<1>3. Ends(S, NULL, rank)
  BY <1>1, <1>2, NullNotBlock DEF Ends, Closed
<1>4. Stack = S
  BY <1>1, <1>2, <1>3, ReachChain DEF Stack
<1>5. Fresh = {b \in Block : b >= bump}
  BY FreelistAssumption DEF Fresh, Block, Inv, TypeOK
<1> QED BY <1>2, <1>4, <1>5 DEF S

-----------------------------------------------------------------------------
(* The properties.                                                         *)

\* A block is never in two places: alloc never hands out a block another thread
\* can still reach, and no list, spare chain, chain being published or node
\* stack ever contains a block of another.
THEOREM Ownership == Spec => []OneOwner
<1>1. Inv => OneOwner
  <2> SUFFICES ASSUME Inv PROVE OneOwner
    OBVIOUS
  <2>1. PICK kind, who, rank : Placed(kind, who, rank)
    BY DEF Inv
  <2>2. Stack = OfKind(kind, "stack") /\ live = OfKind(kind, "live") /\ Fresh = OfKind(kind, "fresh")
    BY <2>1, PlacesShared
  <2>3. \A t \in Threads : /\ List(t) = OfThread(kind, who, "list", t)
                          /\ Spare(t) = OfThread(kind, who, "spare", t)
                          /\ Chain(t) = OfThread(kind, who, "chain", t)
    BY <2>1, PlacesOfThread
  <2>4. \A t \in Threads : \A b \in Held(t) :
          b \in Block /\ kind[b] \in {"list", "spare", "chain"} /\ who[b] = t
    BY <2>3 DEF Held, OfThread
  <2>5. ASSUME NEW t \in Threads
        PROVE  /\ List(t) \cap Spare(t) = {} /\ List(t) \cap Chain(t) = {} /\ Spare(t) \cap Chain(t) = {}
               /\ Held(t) \cap (Stack \cup live \cup Fresh) = {}
               /\ \A u \in Threads \ {t} : Held(t) \cap Held(u) = {}
    <3>1. List(t) \cap Spare(t) = {} /\ List(t) \cap Chain(t) = {} /\ Spare(t) \cap Chain(t) = {}
      BY <2>3 DEF OfThread
    <3>2. Held(t) \cap (Stack \cup live \cup Fresh) = {}
      BY <2>2, <2>4 DEF OfKind
    <3>3. \A u \in Threads \ {t} : Held(t) \cap Held(u) = {}
      BY <2>4
    <3> QED BY <3>1, <3>2, <3>3
  <2>6. Stack \cap (live \cup Fresh) = {} /\ live \cap Fresh = {}
    BY <2>2 DEF OfKind
  <2> QED BY <2>5, <2>6 DEF OneOwner, Held
<1> QED BY <1>1, Safety, PTL

\* No block is ever lost: refills that stop half-way, splits, failed and retried
\* pushes and thread exits leave every block reachable from some root.
THEOREM Conservation == Spec => []NoneLost
<1>1. Inv => NoneLost
  <2> SUFFICES ASSUME Inv PROVE NoneLost
    OBVIOUS
  <2>1. PICK kind, who, rank : Placed(kind, who, rank)
    BY DEF Inv
  <2>2. Stack = OfKind(kind, "stack") /\ live = OfKind(kind, "live") /\ Fresh = OfKind(kind, "fresh")
    BY <2>1, PlacesShared
  <2>3. \A t \in Threads : Held(t) = OfThread(kind, who, "list", t)
                             \cup OfThread(kind, who, "spare", t) \cup OfThread(kind, who, "chain", t)
    BY <2>1, PlacesOfThread DEF Held
  <2>4. /\ \A b \in Block : kind[b] \in Kind
        /\ \A b \in Block : kind[b] \in {"list", "spare", "chain"} => who[b] \in Threads
    BY <2>1 DEF Placed, GhostOK
  <2>5. ASSUME NEW b \in Block
        PROVE  (\E t \in Threads : b \in Held(t)) \/ b \in Stack \/ b \in live \/ b \in Fresh
    BY <2>2, <2>3, <2>4 DEF OfKind, OfThread, Kind
  <2>6. \A t \in Threads : Held(t) \subseteq Block
    BY <2>3 DEF OfThread
  <2>7. Stack \subseteq Block /\ live \subseteq Block /\ Fresh \subseteq Block
    BY <2>2 DEF OfKind
  <2>8. UNION {Held(t) : t \in Threads} \subseteq Block
    BY <2>6
  <2>9. \A b \in Block : (\E t \in Threads : b \in Held(t)) => b \in UNION {Held(t) : t \in Threads}
    OBVIOUS
  <2> DEFINE H == UNION {Held(t) : t \in Threads}
  <2> HIDE DEF H
  <2>10. Block = H \cup Stack \cup live \cup Fresh
    <3>1. \A b \in Block : b \in H \/ b \in Stack \/ b \in live \/ b \in Fresh
      BY <2>5, <2>9 DEF H
    <3>2. H \subseteq Block
      BY <2>8 DEF H
    <3> QED BY <2>7, <3>1, <3>2, Zenon
  <2> QED BY <2>10 DEF NoneLost, H
<1> QED BY <1>1, Safety, PTL

\* count is the number of blocks a ThreadFreelist reaches, tail the last of them,
\* and the tail ends the chain: what drain and drain_all rely on unchecked.
THEOREM Bookkeeping == Spec => []FreelistAgrees
<1>1. Inv => FreelistAgrees
  <2> SUFFICES ASSUME Inv, NEW t \in Threads
               PROVE  /\ (fl[t].head = NULL) = (fl[t].tail = NULL)
                      /\ fl[t].count = Cardinality(List(t))
                      /\ fl[t].tail # NULL => fl[t].tail \in List(t) /\ next[fl[t].tail] = NULL
    BY DEF FreelistAgrees
  <2>1. PICK kind, who, rank : Placed(kind, who, rank)
    BY DEF Inv
  <2> DEFINE L == OfThread(kind, who, "list", t)
             f == fl[t]
  <2>2. L \in SUBSET Block /\ List(t) = L
    BY <2>1, PlacesOfThread DEF OfThread
  <2>3. ListOK(L, f, next, rank)
    BY <2>1 DEF Placed, ThreadOK
  <2> HIDE DEF L
  <2>4. Ends(L, NULL, rank)
    BY <2>2, <2>3, NullNotBlock DEF ListOK, Ends, Closed
  <2>5. CASE f.head = NULL
    <3>1. L = {}
      BY <2>2, <2>3, <2>5, NullNotBlock DEF ListOK, Threaded
    <3>2. Cardinality(L) = 0
      BY <3>1, FS_EmptySet
    <3> QED BY <2>2, <2>3, <2>5, <3>1, <3>2 DEF ListOK
  <2>6. CASE f.head # NULL
    <3>1. L # {} /\ f.count = rank[f.head] /\ f.tail \in L /\ next[f.tail] = NULL
      BY <2>3, <2>6 DEF ListOK, Threaded, Closed
    <3>2. Cardinality(L) = rank[f.head]
      BY <2>2, <2>3, <2>4, <3>1, ChainLength DEF ListOK
    <3>3. f.tail # NULL
      BY <2>2, <3>1, NullNotBlock
    <3> QED BY <2>2, <2>6, <3>1, <3>2, <3>3
  <2> QED BY <2>5, <2>6
<1> QED BY <1>1, Safety, PTL

\* A thread that is idle and has no cache here has nothing in its three places.
LEMMA InvStranded == Inv => ExitReturnsAll
<1> SUFFICES ASSUME Inv, NEW t \in Threads, pc[t] = "idle", bound[t] # "here"
             PROVE  Held(t) = {}
  BY DEF ExitReturnsAll
<1>1. PICK kind, who, rank : Placed(kind, who, rank)
  BY DEF Inv
<1> DEFINE L == OfThread(kind, who, "list", t)
           S == OfThread(kind, who, "spare", t)
           C == OfThread(kind, who, "chain", t)
<1>2. List(t) = L /\ Spare(t) = S /\ Chain(t) = C
  BY <1>1, PlacesOfThread
<1>3. L \subseteq Block /\ S \subseteq Block
  BY DEF OfThread
<1>4. /\ ListOK(L, fl[t], next, rank) /\ Threaded(S, fl[t].spare, next, rank)
      /\ ChainOK(C, chain[t], pc[t], cur[t], next, rank)
      /\ ControlOK(L, fl[t], chain[t], pc[t], bound[t], cur[t], rank)
  BY <1>1 DEF Placed, ThreadOK
<1> HIDE DEF L, S, C
<1>5. bound[t] \in {"none", "elsewhere", "dropping", "destroyed"}
  BY DEF Inv, TypeOK, Bound
<1>6. fl[t].head = NULL /\ fl[t].spare = NULL
  BY <1>4, <1>5 DEF ControlOK
<1>7. L = {} /\ S = {}
  BY <1>3, <1>4, <1>6, NullNotBlock DEF ListOK, Threaded
<1>8. C = {}
  BY <1>4 DEF ChainOK
<1> QED BY <1>2, <1>7, <1>8 DEF Held

\* A thread without a cache on this node holds none of its blocks: the drop of a
\* PerThreadHeap gives back the list and the spare chain.
THEOREM NothingStranded == Spec => []ExitReturnsAll
BY InvStranded, Safety, PTL

-----------------------------------------------------------------------------
(* What a step may write.                                                  *)

\* The steps of one thread.
Step(t) == Call(t) \/ Local(t) \/ Cas(t) \/ CasSpurious(t)

\* They are the actions of the module.
LEMMA StepIs ==
  ASSUME NEW t \in Threads, Step(t)
  PROVE  \/ InitThreadHeap(t) \/ ThreadStart(t) \/ Pop(t) \/ AllocMiss(t)
         \/ (\E x \in live : DeallocLocal(t, x)) \/ (\E x \in live : DeallocRemote(t, x))
         \/ DropList(t) \/ TakeAllLoad(t) \/ Refill(t) \/ Carve(t) \/ Drain(t)
         \/ PushChainLoad(t) \/ DropSpare(t) \/ DropWalk(t)
         \/ TakeAllCas(t) \/ PushChainCas(t) \/ CasLost(t) \/ CasSpurious(t)
BY DEF Step, Call, Local, Cas

\* write_next is only ever called on a block the thread holds, was just given
\* back, or carves.
LEMMA WritesOwn ==
  ASSUME NEW t \in Threads, Inv, Step(t),
         NEW kind, NEW who, NEW rank, Placed(kind, who, rank),
         NEW b \in Block, kind[b] \notin {"live", "fresh"}, ~ Has(kind, who, t, b)
  PROVE  next'[b] = next[b]
<1> DEFINE L == OfThread(kind, who, "list", t)
           C == OfThread(kind, who, "chain", t)
<1>1. b \notin L /\ b \notin C
  BY DEF OfThread, Has
<1>2. /\ ListOK(L, fl[t], next, rank)
      /\ ChainOK(C, chain[t], pc[t], cur[t], next, rank)
      /\ ControlOK(L, fl[t], chain[t], pc[t], bound[t], cur[t], rank)
  BY DEF Placed, ThreadOK
<1>3. next \in [Block -> Ptr \cup {UserData}] /\ bump \in Nat
  BY DEF Inv, TypeOK
<1>4. b \notin live /\ ~ (b >= bump)
  BY DEF Placed, SharedOK, OfKind
<1> HIDE DEF L, C
<1>6. CASE Pop(t)
  <2>1. fl[t].head \in L
    BY <1>2, <1>6 DEF Pop, ListOK, Threaded
  <2>2. next' = [next EXCEPT ![fl[t].head] = UserData]
    BY <1>6 DEF Pop
  <2> QED BY <1>1, <1>3, <2>1, <2>2
<1>7. CASE Refill(t)
  <2>1. chain[t].last \in C
    BY <1>2, <1>7 DEF Refill, ChainOK
  <2>2. UNCHANGED next \/ next' = [next EXCEPT ![chain[t].last] = fl[t].head]
    BY <1>7 DEF Refill
  <2> QED BY <1>1, <1>3, <2>1, <2>2
<1>8. CASE Carve(t)
  <2>1. CASE bump + BagObjects <= RegionBlocks
    <3>1. next'[b] = IF b \notin bump .. bump + BagObjects - 1 THEN next[b]
                     ELSE IF b = bump THEN fl[t].head ELSE b - 1
      BY <1>8, <2>1 DEF Carve
    <3>2. b \notin bump .. bump + BagObjects - 1
      BY <1>3, <1>4, FreelistAssumption DEF Block
    <3> QED BY <3>1, <3>2
  <2>2. CASE ~ (bump + BagObjects <= RegionBlocks)
    BY <1>8, <2>2 DEF Carve
  <2> QED BY <2>1, <2>2
<1>9. CASE \E x \in live : DeallocLocal(t, x)
  BY <1>3, <1>4, <1>9 DEF DeallocLocal
<1>10. CASE Drain(t)
  <2>1. chain[t].last \in L
    BY <1>2, <1>10 DEF Drain, ControlOK
  <2>2. UNCHANGED next \/ next' = [next EXCEPT ![chain[t].last] = NULL]
    BY <1>10 DEF Drain
  <2> QED BY <1>1, <1>3, <2>1, <2>2
<1>11. CASE PushChainLoad(t)
  <2>1. chain[t].last \in C
    BY <1>2, <1>11 DEF PushChainLoad, ChainOK
  <2>2. next' = [next EXCEPT ![chain[t].last] = head.ptr]
    BY <1>11 DEF PushChainLoad
  <2> QED BY <1>1, <1>3, <2>1, <2>2
<1>12. CASE InitThreadHeap(t) \/ ThreadStart(t) \/ AllocMiss(t) \/ DropList(t)
  BY <1>12 DEF InitThreadHeap, ThreadStart, AllocMiss, DropList
<1>13. CASE TakeAllLoad(t) \/ DropSpare(t) \/ DropWalk(t)
  BY <1>13 DEF TakeAllLoad, DropSpare, DropWalk
<1>14. CASE TakeAllCas(t) \/ PushChainCas(t)
  BY <1>14 DEF TakeAllCas, PushChainCas
<1>15. CASE CasLost(t) \/ CasSpurious(t) \/ \E x \in live : DeallocRemote(t, x)
  BY <1>15 DEF CasLost, CasSpurious, Retry, DeallocRemote
<1> QED BY <1>6, <1>7, <1>8, <1>9, <1>10, <1>11, <1>12, <1>13, <1>14, <1>15, StepIs

\* Links on the shared stack are frozen: every write_next is to a block the writer
\* holds, was just given, or carves, so what take_all detaches is the chain that
\* was published.
THEOREM FrozenLinks == Spec => StackLinksFrozen
<1> DEFINE Frozen == \A b \in Stack \cap Stack' : next'[b] = next[b]
<1>1. Inv /\ [Next]_vars => [Frozen]_vars
  <2> SUFFICES ASSUME Inv, Next, NEW b \in Stack PROVE next'[b] = next[b]
    OBVIOUS
  <2>1. PICK kind, who, rank : Placed(kind, who, rank)
    BY DEF Inv
  <2>2. b \in Block /\ kind[b] = "stack"
    BY <2>1, PlacesShared DEF OfKind
  <2>3. PICK t \in Threads : Step(t)
    BY DEF Next, Step
  <2>4. ~ Has(kind, who, t, b)
    BY <2>2 DEF Has
  <2> QED BY <2>1, <2>2, <2>3, <2>4, WritesOwn
<1> QED BY <1>1, Safety, PTL DEF Spec, StackLinksFrozen

-----------------------------------------------------------------------------
(* What a step does to the places of the blocks: it moves them the way     *)
(* BlockPool allows, and the acquire and release operations on the stack's *)
(* head order every access to a link.                                      *)

\* A step of t leaves the fields of the other threads alone.
LEMMA OthersStay ==
  ASSUME NEW t \in Threads, Inv, Step(t), NEW u \in Threads \ {t}
  PROVE  Stays(u)
<1>1. /\ fl \in [Threads -> [head : Ptr, tail : Ptr, count : Nat, spare : Ptr]]
      /\ pc \in [Threads -> PC] /\ bound \in [Threads -> Bound] /\ cur \in [Threads -> Word]
      /\ chain \in [Threads -> [first : Ptr, last : Ptr, n : Nat]]
  BY DEF Inv, TypeOK
<1>2. CASE InitThreadHeap(t) \/ ThreadStart(t)
  BY <1>1, <1>2 DEF Stays, InitThreadHeap, ThreadStart
<1>3. CASE Pop(t)
  BY <1>1, <1>3 DEF Stays, Pop, Goto
<1>4. CASE AllocMiss(t)
  BY <1>1, <1>4 DEF Stays, AllocMiss, Goto
<1>5. CASE \E x \in live : DeallocLocal(t, x)
  BY <1>1, <1>5 DEF Stays, DeallocLocal, Goto
<1>6. CASE \E x \in live : DeallocRemote(t, x)
  BY <1>1, <1>6 DEF Stays, DeallocRemote, Goto
<1>7. CASE DropList(t)
  BY <1>1, <1>7 DEF Stays, DropList, Goto
<1>8. CASE TakeAllLoad(t)
  BY <1>1, <1>8 DEF Stays, TakeAllLoad, Goto
<1>9. CASE Refill(t)
  BY <1>1, <1>9 DEF Stays, Refill, Goto
<1>10. CASE Carve(t)
  BY <1>1, <1>10 DEF Stays, Carve, Goto
<1>11. CASE Drain(t)
  BY <1>1, <1>11 DEF Stays, Drain, Goto
<1>12. CASE PushChainLoad(t)
  BY <1>1, <1>12 DEF Stays, PushChainLoad, Goto
<1>13. CASE DropSpare(t)
  BY <1>1, <1>13 DEF Stays, DropSpare, Goto
<1>14. CASE DropWalk(t)
  BY <1>1, <1>14 DEF Stays, DropWalk, Goto
<1>15. CASE TakeAllCas(t) \/ PushChainCas(t)
  BY <1>1, <1>15 DEF Stays, TakeAllCas, PushChainCas, Goto
<1>16. CASE CasLost(t) \/ CasSpurious(t)
  BY <1>1, <1>16 DEF Stays, CasLost, CasSpurious, Retry
<1> QED BY <1>2, <1>3, <1>4, <1>5, <1>6, <1>7, <1>8, <1>9, <1>10, <1>11, <1>12, <1>13,
           <1>14, <1>15, <1>16, StepIs

\* The blocks of a thread are those of its three places, whatever ghosts describe
\* them; as a formula it can be used of the next state too.
HeldByGhosts ==
  \A t \in Threads : \A kind, who, rank :
    ThreadOK(t, kind, who, rank) =>
      Held(t) = OfThread(kind, who, "list", t) \cup OfThread(kind, who, "spare", t)
                  \cup OfThread(kind, who, "chain", t)

\* It holds in every state.
LEMMA HeldIs == HeldByGhosts
<1> USE DEF HeldByGhosts
<1> TAKE t \in Threads
<1> TAKE kind, who, rank
<1> HAVE ThreadOK(t, kind, who, rank)
<1> QED BY ThreadPlaces DEF Held

\* Likewise the stack.
StackByGhosts ==
  \A kind, rank :
    Threaded(OfKind(kind, "stack"), head.ptr, next, rank) /\ Closed(OfKind(kind, "stack"), next, rank)
      => Stack = OfKind(kind, "stack")

\* It holds in every state.
LEMMA StackIs == StackByGhosts
<1> USE DEF StackByGhosts
<1> TAKE kind, rank
<1> DEFINE S == OfKind(kind, "stack")
<1> HAVE Threaded(S, head.ptr, next, rank) /\ Closed(S, next, rank)
<1>1. S \in SUBSET Block
  BY DEF OfKind
<1> HIDE DEF S
<1>2. Ends(S, NULL, rank)
  BY <1>1, NullNotBlock DEF Ends, Closed
<1>3. Stack = S
  BY <1>1, <1>2, ReachChain DEF Stack
<1> QED BY <1>3 DEF S

\* Nothing is reached from None.
LEMMA NothingFromNull == \A stop : Reach(NULL, stop) = {}
<1> TAKE stop
<1>1. Threaded({}, NULL, next, [b \in Block |-> 0]) /\ Ends({}, stop, [b \in Block |-> 0])
  BY DEF Threaded, Ends
<1> QED BY <1>1, ReachChain

\* The places cover the region without overlapping.
Partition ==
  /\ \A t \in Threads : Held(t) \subseteq Block
  /\ Stack \subseteq Block /\ live \subseteq Block /\ Fresh \subseteq Block
  /\ \A b \in Block : b \in Stack \/ b \in live \/ b \in Fresh \/ \E t \in Threads : b \in Held(t)
  /\ \A t \in Threads : Held(t) \cap (Stack \cup live \cup Fresh) = {}
  /\ \A t \in Threads, u \in Threads : t # u => Held(t) \cap Held(u) = {}
  /\ Stack \cap (live \cup Fresh) = {} /\ live \cap Fresh = {}

\* They do whenever the invariant holds.
LEMMA InvPartition == Inv => Partition
<1> SUFFICES ASSUME Inv PROVE Partition
  OBVIOUS
<1>1. PICK kind, who, rank : Placed(kind, who, rank)
  BY DEF Inv
<1>2. Stack = OfKind(kind, "stack") /\ live = OfKind(kind, "live") /\ Fresh = OfKind(kind, "fresh")
  BY <1>1, PlacesShared
<1>3. \A t \in Threads : \A b : b \in Held(t) <=>
        b \in Block /\ kind[b] \in {"list", "spare", "chain"} /\ who[b] = t
  BY <1>1, PlacesOfThread DEF Held, OfThread
<1>4. /\ \A b \in Block : kind[b] \in Kind
      /\ \A b \in Block : kind[b] \in {"list", "spare", "chain"} => who[b] \in Threads
  BY <1>1 DEF Placed, GhostOK
<1>5. \A b \in Block : b \in Stack \/ b \in live \/ b \in Fresh \/ \E t \in Threads : b \in Held(t)
  BY <1>2, <1>3, <1>4 DEF OfKind, Kind
<1>6. \A t \in Threads : Held(t) \subseteq Block /\ Held(t) \cap (Stack \cup live \cup Fresh) = {}
  BY <1>2, <1>3 DEF OfKind
<1>7. \A t \in Threads, u \in Threads : t # u => Held(t) \cap Held(u) = {}
  BY <1>3
<1>8. /\ Stack \subseteq Block /\ live \subseteq Block /\ Fresh \subseteq Block
      /\ Stack \cap (live \cup Fresh) = {} /\ live \cap Fresh = {}
  BY <1>2 DEF OfKind
<1> QED BY <1>5, <1>6, <1>7, <1>8 DEF Partition

\* A step of t takes nothing from the other threads and gives them nothing, and
\* only a store to its head changes the stack.
LEMMA OthersKeep ==
  ASSUME NEW t \in Threads, Inv, Step(t)
  PROVE  /\ \A u \in Threads \ {t} : Held(u)' = Held(u)
         /\ head' = head => Stack' = Stack
<1>1. PICK kind, who, rank : Placed(kind, who, rank)
  BY DEF Inv
<1>2. ASSUME NEW u \in Threads \ {t} PROVE Held(u)' = Held(u)
  <2>1. ThreadOK(u, kind, who, rank) /\ Stays(u)
    BY <1>1, OthersStay DEF Placed
  <2>2. ASSUME NEW b \in Block
        PROVE  \/ Untouched(b, kind, who, rank, kind, who, rank)
               \/ ~ Has(kind, who, u, b) /\ ~ Has(kind, who, u, b)
    <3> SUFFICES ASSUME Has(kind, who, u, b) PROVE next'[b] = next[b]
      BY DEF Untouched
    <3>1. kind[b] \notin {"live", "fresh"} /\ ~ Has(kind, who, t, b)
      BY DEF Has
    <3> QED BY <1>1, <3>1, WritesOwn
  <2>3. ThreadOK(u, kind, who, rank)'
    BY <2>1, <2>2, OtherThread
  <2>4. HeldByGhosts'
    BY HeldIs, PTL
  <2>5. Held(u)' = OfThread(kind, who, "list", u) \cup OfThread(kind, who, "spare", u)
                     \cup OfThread(kind, who, "chain", u)
    BY <2>3, <2>4 DEF HeldByGhosts
  <2> QED BY <2>1, <2>5, HeldIs DEF HeldByGhosts
<1>3. ASSUME head' = head PROVE Stack' = Stack
  <2>1. SharedOK(kind, rank)
    BY <1>1 DEF Placed
  <2>2. ASSUME NEW b \in Block
        PROVE  \/ Untouched(b, kind, who, rank, kind, who, rank)
               \/ kind[b] # "stack" /\ kind[b] # "stack"
    <3> SUFFICES ASSUME kind[b] = "stack" PROVE next'[b] = next[b]
      BY DEF Untouched
    <3>1. kind[b] \notin {"live", "fresh"} /\ ~ Has(kind, who, t, b)
      BY DEF Has
    <3> QED BY <1>1, <3>1, WritesOwn
  <2>3. /\ Threaded(OfKind(kind, "stack"), head'.ptr, next', rank)
        /\ Closed(OfKind(kind, "stack"), next', rank)
    BY <1>3, <2>1, <2>2, StackFrame
  <2>4. StackByGhosts'
    BY StackIs, PTL
  <2>5. Stack' = OfKind(kind, "stack")
    BY <2>3, <2>4 DEF StackByGhosts
  <2>6. Stack = OfKind(kind, "stack")
    BY <1>1, PlacesShared
  <2> QED BY <2>5, <2>6
<1> QED BY <1>2, <1>3

\* So what t has afterwards is what neither the others, the program, the stack nor
\* the region has.
LEMMA Balance ==
  ASSUME NEW t \in Threads, Inv, Inv', Step(t)
  PROVE  /\ Partition /\ Partition'
         /\ \A u \in Threads \ {t} : Held(u)' = Held(u)
         /\ head' = head => Stack' = Stack
         /\ Held(t)' = (Held(t) \cup Stack \cup live \cup Fresh) \ (Stack' \cup live' \cup Fresh')
<1>1. Partition /\ Partition'
  BY InvPartition, PTL
<1>2. /\ \A u \in Threads \ {t} : Held(u)' = Held(u)
      /\ head' = head => Stack' = Stack
  BY OthersKeep
<1>3. ASSUME NEW b, b \in Held(t)'
      PROVE  b \in Held(t) \cup Stack \cup live \cup Fresh /\ b \notin Stack' \cup live' \cup Fresh'
  <2>1. b \in Block /\ b \notin Stack' \cup live' \cup Fresh' /\ \A u \in Threads \ {t} : b \notin Held(u)'
    BY <1>1, <1>3 DEF Partition
  <2> QED BY <1>1, <1>2, <2>1 DEF Partition
<1>4. ASSUME NEW b \in Held(t) \cup Stack \cup live \cup Fresh, b \notin Stack' \cup live' \cup Fresh'
      PROVE  b \in Held(t)'
  <2>1. b \in Block /\ \A u \in Threads \ {t} : b \notin Held(u)
    BY <1>1 DEF Partition
  <2> QED BY <1>1, <1>2, <1>4, <2>1 DEF Partition
<1>5. Held(t)' = (Held(t) \cup Stack \cup live \cup Fresh) \ (Stack' \cup live' \cup Fresh')
  BY <1>3, <1>4
<1> QED BY <1>1, <1>2, <1>5

-----------------------------------------------------------------------------
(* The refinement.                                                         *)

\* The places are functions of the variables.
LEMMA Stutter ==
  ASSUME UNCHANGED vars
  PROVE  UNCHANGED <<Fresh, Stack, live>> /\ \A t \in Threads : Held(t)' = Held(t)
BY DEF vars, Fresh, Stack, Held, List, Spare, Chain, Publishing, Reach

\* A step that stores to nothing shared moves no block.
LEMMA Quiet ==
  ASSUME NEW t \in Threads, Inv, Inv', Step(t), UNCHANGED <<bump, head, live>>
  PROVE  UNCHANGED <<Stack, Fresh>> /\ Held(t)' = Held(t)
<1>1. Stack' = Stack /\ Fresh' = Fresh
  BY Balance DEF Fresh
<1> QED BY <1>1, Balance DEF Partition

\* A successful take_all hands the whole stack to its thread.
LEMMA TakeAllMoves ==
  ASSUME NEW t \in Threads, Inv, Inv', Step(t), TakeAllCas(t)
  PROVE  Stack' = {} /\ UNCHANGED <<live, Fresh>> /\ Held(t)' = Held(t) \cup Stack
<1>1. live' = live /\ Fresh' = Fresh /\ head'.ptr = NULL
  BY DEF TakeAllCas, Fresh, Retag
<1>2. (\A stop : Reach(NULL, stop) = {})'
  BY NothingFromNull, PTL
<1>3. Stack' = {}
  BY <1>1, <1>2 DEF Stack
<1> QED BY <1>1, <1>3, Balance DEF Partition

\* A successful push_chain hands blocks of its thread, and no others, to the stack.
LEMMA PushMoves ==
  ASSUME NEW t \in Threads, Inv, Inv', Step(t), PushChainCas(t)
  PROVE  /\ UNCHANGED <<live, Fresh>>
         /\ Held(t)' \subseteq Held(t)
         /\ Stack' = Stack \cup (Held(t) \ Held(t)')
<1>1. live' = live /\ Fresh' = Fresh /\ next' = next /\ fl' = fl /\ chain'[t].first = NULL
  BY DEF PushChainCas, Fresh, NoChain, Inv, TypeOK
<1>2. List(t)' = List(t) /\ Spare(t)' = Spare(t)
  BY <1>1 DEF List, Spare, Reach
<1>3. Chain(t)' = {}
  <2>1. (\A stop : Reach(NULL, stop) = {})'
    BY NothingFromNull, PTL
  <2> QED BY <1>1, <2>1 DEF Chain
<1>4. Held(t)' \subseteq Held(t)
  BY <1>2, <1>3 DEF Held
<1>5. ASSUME NEW b \in Block PROVE b \in Stack' <=> b \in Stack \cup (Held(t) \ Held(t)')
  <2>1. /\ b \in Stack' <=> ~ (b \in live' \/ b \in Fresh' \/ \E u \in Threads : b \in Held(u)')
        /\ b \in Stack <=> ~ (b \in live \/ b \in Fresh \/ \E u \in Threads : b \in Held(u))
    BY Balance DEF Partition
  <2>2. \A u \in Threads \ {t} : Held(u)' = Held(u)
    BY Balance
  <2>3. b \in Held(t) => /\ b \notin live /\ b \notin Fresh
                         /\ \A u \in Threads \ {t} : b \notin Held(u)
    BY Balance DEF Partition
  <2> QED BY <1>1, <1>4, <2>1, <2>2, <2>3
<1>6. Stack' \subseteq Block /\ Stack \subseteq Block /\ Held(t) \subseteq Block
  BY Balance DEF Partition
<1> QED BY <1>1, <1>4, <1>5, <1>6

\* Every step moves blocks the way BlockPool lets their owner move them.
LEMMA PoolStep ==
  ASSUME NEW t \in Threads, Inv, Inv', Step(t)
  PROVE  [Pool!Next]_(Pool!vars)
<1> DEFINE held == [u \in Threads |-> Held(u)]
<1>1. \A u \in Threads \ {t} : Held(u)' = Held(u)
  BY Balance
<1>2. Held(t)' = Held(t) => held' = held
  BY <1>1
<1>3. ASSUME NEW H, Held(t)' = H PROVE held' = [held EXCEPT ![t] = H]
  BY <1>1, <1>3
<1>4. held[t] = Held(t)
  OBVIOUS
<1> HIDE DEF held
<1>5. CASE UNCHANGED <<bump, head, live>>
  BY <1>2, <1>5, Quiet DEF Pool!vars, held
<1>6. CASE Pop(t)
  <2> DEFINE b == fl[t].head
  <2>1. b \in Held(t)
    <3>1. PICK kind, who, rank : Placed(kind, who, rank)
      BY DEF Inv
    <3>2. b \in OfThread(kind, who, "list", t)
      BY <1>6, <3>1 DEF Pop, Placed, ThreadOK, ListOK, Threaded
    <3> QED BY <3>1, <3>2, PlacesOfThread DEF Held
  <2>2. live' = live \cup {b} /\ Stack' = Stack /\ Fresh' = Fresh
    BY <1>6, Balance DEF Pop, Fresh
  <2> HIDE DEF b
  <2>3. Held(t)' = Held(t) \ {b}
    BY <2>1, <2>2, Balance DEF Partition
  <2>4. held' = [held EXCEPT ![t] = held[t] \ {b}]
    BY <1>3, <1>4, <2>3
  <2>5. Pool!HandOut(t)
    BY <1>4, <2>1, <2>2, <2>4 DEF Pool!HandOut, held
  <2> QED BY <2>5 DEF Pool!Next
<1>7. CASE Carve(t) /\ bump + BagObjects <= RegionBlocks
  <2> DEFINE bag == bump .. bump + BagObjects - 1
  <2>1. bag \subseteq Fresh /\ Fresh' = Fresh \ bag /\ live' = live /\ Stack' = Stack
    <3>1. bump' = bump + BagObjects /\ head' = head /\ live' = live
      BY <1>7 DEF Carve
    <3>2. bump \in Nat /\ BagObjects \in Nat /\ RegionBlocks \in Nat
      BY FreelistAssumption DEF Inv, TypeOK
    <3>3. Fresh' = Fresh \ bag /\ bag \subseteq Fresh
      BY <1>7, <3>1, <3>2 DEF Fresh
    <3> QED BY <3>1, <3>3, Balance
  <2> HIDE DEF bag
  <2>2. Held(t)' = Held(t) \cup bag
    BY <2>1, Balance DEF Partition
  <2>3. held' = [held EXCEPT ![t] = held[t] \cup bag]
    BY <1>3, <1>4, <2>2
  <2>4. Pool!Carve(t)
    BY <2>1, <2>3 DEF Pool!Carve, held
  <2> QED BY <2>4 DEF Pool!Next
<1>8. CASE \E b \in live : DeallocLocal(t, b) \/ DeallocRemote(t, b)
  <2>1. PICK b \in live : DeallocLocal(t, b) \/ DeallocRemote(t, b)
    BY <1>8
  <2>2. live' = live \ {b} /\ Stack' = Stack /\ Fresh' = Fresh
    BY <2>1, Balance DEF DeallocLocal, DeallocRemote, Fresh
  <2>3. Held(t)' = Held(t) \cup {b}
    BY <2>2, Balance DEF Partition
  <2>4. held' = [held EXCEPT ![t] = held[t] \cup {b}]
    BY <1>3, <1>4, <2>3
  <2>5. Pool!Free(t)
    BY <2>2, <2>4 DEF Pool!Free, held
  <2> QED BY <2>5 DEF Pool!Next
<1>9. CASE TakeAllCas(t)
  <2>1. Stack' = {} /\ UNCHANGED <<live, Fresh>> /\ Held(t)' = Held(t) \cup Stack
    BY <1>9, TakeAllMoves
  <2>2. held' = [held EXCEPT ![t] = held[t] \cup Stack]
    BY <1>3, <1>4, <2>1
  <2>3. Pool!Collect(t)
    BY <2>1, <2>2 DEF Pool!Collect, held
  <2> QED BY <2>3 DEF Pool!Next
<1>10. CASE PushChainCas(t)
  <2>1. PICK given : given = Held(t) \ Held(t)'
    OBVIOUS
  <2>2. /\ UNCHANGED <<live, Fresh>> /\ Stack' = Stack \cup given
        /\ Held(t)' = Held(t) \ given /\ given \subseteq Held(t)
    BY <1>10, <2>1, PushMoves
  <2>3. held' = [held EXCEPT ![t] = held[t] \ given]
    BY <1>3, <1>4, <2>2
  <2>4. Pool!Publish(t)
    BY <1>4, <2>2, <2>3 DEF Pool!Publish, held
  <2> QED BY <2>4 DEF Pool!Next
<1>11. CASE InitThreadHeap(t) \/ ThreadStart(t) \/ AllocMiss(t) \/ DropList(t)
  BY <1>5, <1>11 DEF InitThreadHeap, ThreadStart, AllocMiss, DropList
<1>12. CASE TakeAllLoad(t) \/ Refill(t) \/ Drain(t) \/ PushChainLoad(t)
  BY <1>5, <1>12 DEF TakeAllLoad, Refill, Drain, PushChainLoad
<1>13. CASE DropSpare(t) \/ DropWalk(t) \/ CasLost(t) \/ CasSpurious(t)
  BY <1>5, <1>13 DEF DropSpare, DropWalk, CasLost, CasSpurious, Retry
<1>14. CASE Carve(t) /\ ~ (bump + BagObjects <= RegionBlocks)
  BY <1>5, <1>14 DEF Carve
<1> QED BY <1>6, <1>7, <1>8, <1>9, <1>10, <1>11, <1>12, <1>13, <1>14, StepIs

\* The pointers and compare-and-swaps of Freelist implement the abstract pool: a
\* successful push_chain gives blocks of its thread to the pool and a successful
\* take_all takes all of it, each at one instant; pop, dealloc and carve move
\* blocks between the thread, the program and the region; nothing else moves any.
THEOREM PoolRefinement == Spec => ImplementsPool
<1>1. Init => Pool!Init
  <2> SUFFICES ASSUME Init PROVE Pool!Init
    OBVIOUS
  <2>1. \A stop : Reach(NULL, stop) = {}
    BY NothingFromNull
  <2>2. Stack = {} /\ live = {}
    BY <2>1 DEF Init, Stack, NoWord
  <2>3. ASSUME NEW t \in Threads PROVE Held(t) = {}
    <3>1. fl[t].head = NULL /\ fl[t].spare = NULL /\ chain[t].first = NULL
      BY DEF Init, EmptyFreelist, NoChain
    <3> QED BY <2>1, <3>1 DEF Held, List, Spare, Chain
  <2>4. Fresh = Block
    BY DEF Init, Fresh, Block
  <2> QED BY <2>2, <2>3, <2>4 DEF Pool!Init
<1>2. Inv /\ Inv' /\ [Next]_vars => [Pool!Next]_(Pool!vars)
  <2> SUFFICES ASSUME Inv, Inv', [Next]_vars PROVE [Pool!Next]_(Pool!vars)
    OBVIOUS
  <2>1. CASE UNCHANGED vars
    <3>1. UNCHANGED <<Fresh, Stack, live>> /\ \A t \in Threads : Held(t)' = Held(t)
      BY <2>1, Stutter
    <3> QED BY <3>1 DEF Pool!vars
  <2>2. CASE Next
    BY <2>2, PoolStep DEF Next, Step
  <2> QED BY <2>1, <2>2
<1> QED BY <1>1, <1>2, Safety, PTL DEF Spec, ImplementsPool, Pool!Spec

-----------------------------------------------------------------------------
(* The memory orderings.                                                   *)

\* Every place is ordered for whoever may take a block from it: a thread's blocks
\* for the thread, the stack's for who acquires its head, the untouched region
\* for everyone.
OrderInv ==
  /\ seen \in [Block -> SUBSET Observers]
  /\ OrderedAccesses
  /\ \A b \in Stack : "head" \in seen[b]
  /\ \A b \in Fresh : seen[b] = Observers

\* An Acquire only adds to what is ordered, and orders the stack for the thread.
LEMMA AcquireAdds ==
  ASSUME NEW s \in [Block -> SUBSET Observers], NEW t \in Threads
  PROVE  /\ Acquired(s, t) \in [Block -> SUBSET Observers]
         /\ \A b \in Block : s[b] \subseteq Acquired(s, t)[b]
         /\ \A b \in Block : "head" \in s[b] => t \in Acquired(s, t)[b]
BY DEF Acquired, Observers

\* A Release only adds, and orders for the head what was ordered for the thread.
LEMMA ReleaseAdds ==
  ASSUME NEW s \in [Block -> SUBSET Observers], NEW t \in Threads
  PROVE  /\ Released(s, t) \in [Block -> SUBSET Observers]
         /\ \A b \in Block : s[b] \subseteq Released(s, t)[b]
         /\ \A b \in Block : t \in s[b] => "head" \in Released(s, t)[b]
BY DEF Released, Observers

\* A history that only grew still orders the places that did not change.
LEMMA OrderGrows ==
  ASSUME NEW t \in Threads, Inv, Inv', Step(t), OrderInv, UNCHANGED <<bump, head, live>>,
         seen' \in [Block -> SUBSET Observers], \A b \in Block : seen[b] \subseteq seen'[b]
  PROVE  OrderInv'
<1>1. /\ Stack' = Stack /\ Fresh' = Fresh /\ \A u \in Threads : Held(u)' = Held(u)
      /\ Stack \subseteq Block /\ Fresh \subseteq Block /\ \A u \in Threads : Held(u) \subseteq Block
  BY Quiet, Balance DEF Partition
<1>2. \A b \in Stack' : "head" \in seen'[b]
  BY <1>1 DEF OrderInv
<1>3. \A u \in Threads : \A b \in Held(u)' : u \in seen'[b]
  BY <1>1 DEF OrderInv, OrderedAccesses
<1>4. ASSUME NEW b \in Fresh' PROVE seen'[b] = Observers
  <2>1. seen[b] = Observers /\ seen[b] \subseteq seen'[b] /\ seen'[b] \subseteq Observers
    BY <1>1 DEF OrderInv
  <2> QED BY <2>1
<1> QED BY <1>2, <1>3, <1>4 DEF OrderInv, OrderedAccesses

\* So does one in which the thread touched a block that it keeps.
LEMMA OrderTouch ==
  ASSUME NEW t \in Threads, Inv, Inv', Step(t), OrderInv, UNCHANGED <<bump, head, live>>,
         NEW m \in Held(t), NEW s \in [Block -> SUBSET Observers],
         \A b \in Block : seen[b] \subseteq s[b],
         seen' = Touched(s, t, {m})
  PROVE  OrderInv'
<1>1. /\ Stack' = Stack /\ Fresh' = Fresh /\ \A u \in Threads : Held(u)' = Held(u)
      /\ Stack \subseteq Block \ {m} /\ Fresh \subseteq Block \ {m}
      /\ \A u \in Threads : Held(u) \subseteq Block
      /\ \A u \in Threads \ {t} : m \notin Held(u)
  BY Quiet, Balance DEF Partition
<1>2. seen' \in [Block -> SUBSET Observers] /\ m \in Block /\ seen'[m] = {t}
  BY <1>1 DEF Touched, Observers
<1>3. \A b \in Block \ {m} : seen'[b] = s[b]
  BY DEF Touched
<1>4. \A b \in Stack' : "head" \in seen'[b]
  BY <1>1, <1>3 DEF OrderInv
<1>5. ASSUME NEW u \in Threads, NEW b \in Held(u)' PROVE u \in seen'[b]
  <2>1. CASE b = m
    BY <1>1, <1>2, <2>1
  <2>2. CASE b # m
    <3>1. b \in Held(u) /\ b \in Block \ {m}
      BY <1>1, <2>2
    <3>2. u \in seen[b] /\ seen[b] \subseteq s[b]
      BY <3>1 DEF OrderInv, OrderedAccesses
    <3> QED BY <1>3, <3>1, <3>2
  <2> QED BY <2>1, <2>2
<1>6. ASSUME NEW b \in Fresh' PROVE seen'[b] = Observers
  <2>1. seen[b] = Observers /\ seen[b] \subseteq seen'[b] /\ seen'[b] \subseteq Observers
    BY <1>1, <1>2, <1>3 DEF OrderInv
  <2> QED BY <2>1
<1> QED BY <1>2, <1>4, <1>5, <1>6 DEF OrderInv, OrderedAccesses

\* The block a walk is at, and the one a push links, is the thread's.
LEMMA LastIsHeld ==
  ASSUME NEW t \in Threads, Inv,
         pc[t] \in {"refill", "drain", "exitWalk", "pushLoad", "pushCas"}
  PROVE  chain[t].last \in Held(t)
<1>1. PICK kind, who, rank : Placed(kind, who, rank)
  BY DEF Inv
<1>2. chain[t].last \in OfThread(kind, who, "list", t) \cup OfThread(kind, who, "chain", t)
  BY <1>1 DEF Placed, ThreadOK, ChainOK, ControlOK
<1> QED BY <1>1, <1>2, PlacesOfThread DEF Held

\* Initially nothing has been touched.
LEMMA OrderInitInv == OrderInit => OrderInv
<1> SUFFICES ASSUME OrderInit PROVE OrderInv
  OBVIOUS
<1>1. Partition
  BY InitInv, InvPartition DEF OrderInit
<1>2. seen = [b \in Block |-> Observers]
  BY DEF OrderInit
<1>3. \A t \in Threads : t \in Observers
  BY DEF Observers
<1> QED BY <1>1, <1>2, <1>3 DEF OrderInv, OrderedAccesses, Partition, Observers

\* Every step keeps the places ordered.
LEMMA OrderStepInv ==
  ASSUME NEW t \in Threads, Inv, Inv', Step(t), OrderStep(t), OrderInv
  PROVE  OrderInv'
<1>1. seen \in [Block -> SUBSET Observers]
  BY DEF OrderInv
<1>2. /\ Partition /\ Partition' /\ \A u \in Threads \ {t} : Held(u)' = Held(u)
      /\ head' = head => Stack' = Stack
      /\ Held(t)' = (Held(t) \cup Stack \cup live \cup Fresh) \ (Stack' \cup live' \cup Fresh')
  BY Balance
<1>3. /\ \A u \in Threads : \A b \in Held(u) : u \in seen[b]
      /\ \A b \in Stack : "head" \in seen[b]
      /\ \A b \in Fresh : seen[b] = Observers
  BY DEF OrderInv, OrderedAccesses
<1>4. CASE (InitThreadHeap(t) \/ AllocMiss(t) \/ DropList(t) \/ DropSpare(t)) /\ UNCHANGED seen
  <2>1. UNCHANGED <<bump, head, live>>
    BY <1>4 DEF InitThreadHeap, AllocMiss, DropList, DropSpare
  <2> QED BY <1>1, <1>4, <2>1, OrderGrows
<1>5. CASE ThreadStart(t) /\ seen' = Forgotten(seen, t)
  <2>1. UNCHANGED <<bump, head, live>> /\ pc[t] = "idle" /\ bound[t] # "here"
    BY <1>5 DEF ThreadStart
  <2>2. Stack' = Stack /\ Fresh' = Fresh /\ Held(t)' = {}
    BY <2>1, Quiet, InvStranded DEF ExitReturnsAll
  <2>3. /\ seen' \in [Block -> SUBSET Observers]
        /\ \A b \in Fresh : seen'[b] = seen[b]
        /\ \A b \in Block \ Fresh : seen'[b] = seen[b] \ {t}
    BY <1>1, <1>2, <1>5 DEF Forgotten, Partition
  <2>4. \A u \in Threads : \A b \in Held(u)' : u \in seen'[b]
    BY <1>2, <1>3, <2>2, <2>3 DEF Partition
  <2>5. \A b \in Stack' : "head" \in seen'[b]
    BY <1>2, <1>3, <2>2, <2>3, OrderAssumption DEF Partition
  <2> QED BY <1>3, <2>2, <2>3, <2>4, <2>5 DEF OrderInv, OrderedAccesses
<1>6. CASE Pop(t) /\ seen' = Passed(seen, fl[t].head)
  <2>1. PICK m : m = fl[t].head
    OBVIOUS
  <2>2. Stack' = Stack /\ Fresh' = Fresh /\ m \in live' /\ live \subseteq live'
    BY <1>2, <1>6, <2>1 DEF Pop, Fresh
  <2>3. /\ seen' \in [Block -> SUBSET Observers]
        /\ \A b \in Block \ {m} : seen'[b] = seen[b]
    BY <1>1, <1>6, <2>1 DEF Passed
  <2>4. ASSUME NEW u \in Threads, NEW b \in Held(u)' PROVE u \in seen'[b]
    <3>1. b \in Held(u) /\ b \in Block \ {m}
      BY <1>2, <2>2 DEF Partition
    <3> QED BY <1>3, <2>3, <3>1
  <2>5. \A b \in Stack' : b \in Block \ {m} /\ "head" \in seen'[b]
    BY <1>2, <1>3, <2>2, <2>3 DEF Partition
  <2>6. \A b \in Fresh' : b \in Block \ {m} /\ seen'[b] = Observers
    BY <1>2, <1>3, <2>2, <2>3 DEF Partition
  <2> QED BY <2>3, <2>4, <2>5, <2>6 DEF OrderInv, OrderedAccesses
<1>7. CASE Carve(t) /\ seen' = Touched(seen, t, bump .. bump' - 1)
  <2>1. PICK bag : bag = bump .. bump' - 1
    OBVIOUS
  <2>2. Stack' = Stack /\ live' = live
    BY <1>2, <1>7 DEF Carve
  <2>3. bag \subseteq Fresh /\ Fresh' = Fresh \ bag
    <3>1. bump' = bump \/ (bump' = bump + BagObjects /\ bump + BagObjects <= RegionBlocks)
      BY <1>7 DEF Carve
    <3>2. bump \in Nat /\ BagObjects \in Nat /\ RegionBlocks \in Nat
      BY FreelistAssumption DEF Inv, TypeOK
    <3> QED BY <2>1, <3>1, <3>2 DEF Fresh
  <2>4. /\ seen' \in [Block -> SUBSET Observers]
        /\ \A b \in Block : seen'[b] = IF b \in bag THEN {t} ELSE seen[b]
    BY <1>1, <1>7, <2>1 DEF Touched, Observers
  <2>5. ASSUME NEW u \in Threads, NEW b \in Held(u)' PROVE u \in seen'[b]
    <3>1. b \in Block /\ (b \in bag => u = t) /\ (b \notin bag => b \in Held(u))
      BY <1>2, <2>2, <2>3 DEF Partition
    <3> QED BY <1>3, <2>4, <3>1
  <2>6. \A b \in Stack' : b \in Block \ bag /\ "head" \in seen'[b]
    BY <1>2, <1>3, <2>2, <2>3, <2>4 DEF Partition
  <2>7. \A b \in Fresh' : b \in Block \ bag /\ seen'[b] = Observers
    BY <1>2, <1>3, <2>3, <2>4 DEF Partition
  <2> QED BY <2>4, <2>5, <2>6, <2>7 DEF OrderInv, OrderedAccesses
<1>8. CASE (Refill(t) \/ Drain(t) \/ DropWalk(t)) /\ seen' = Touched(seen, t, {chain[t].last})
  <2>1. UNCHANGED <<bump, head, live>> /\ pc[t] \in {"refill", "drain", "exitWalk"}
    BY <1>8 DEF Refill, Drain, DropWalk
  <2>2. chain[t].last \in Held(t)
    BY <2>1, LastIsHeld
  <2> QED BY <1>1, <1>8, <2>1, <2>2, OrderTouch
<1>9. CASE \E b \in live : /\ DeallocLocal(t, b) \/ DeallocRemote(t, b)
                           /\ seen' = Touched(seen, t, {b})
  <2>1. PICK m \in live : /\ DeallocLocal(t, m) \/ DeallocRemote(t, m)
                          /\ seen' = Touched(seen, t, {m})
    BY <1>9
  <2>2. Stack' = Stack /\ Fresh' = Fresh /\ live' = live \ {m}
    BY <1>2, <2>1 DEF DeallocLocal, DeallocRemote, Fresh
  <2>3. /\ seen' \in [Block -> SUBSET Observers]
        /\ \A b \in Block : seen'[b] = IF b = m THEN {t} ELSE seen[b]
    BY <1>1, <2>1 DEF Touched, Observers
  <2>4. ASSUME NEW u \in Threads, NEW b \in Held(u)' PROVE u \in seen'[b]
    <3>1. b \in Block /\ (b = m => u = t) /\ (b # m => b \in Held(u))
      BY <1>2, <2>2 DEF Partition
    <3> QED BY <1>3, <2>3, <3>1
  <2>5. \A b \in Stack' : b \in Block \ {m} /\ "head" \in seen'[b]
    BY <1>2, <1>3, <2>2, <2>3 DEF Partition
  <2>6. \A b \in Fresh' : b \in Block \ {m} /\ seen'[b] = Observers
    BY <1>2, <1>3, <2>2, <2>3 DEF Partition
  <2> QED BY <2>3, <2>4, <2>5, <2>6 DEF OrderInv, OrderedAccesses
<1>10. CASE PushChainLoad(t) /\ seen' = Touched(Acquired(seen, t), t, {chain[t].last})
  <2>1. UNCHANGED <<bump, head, live>> /\ pc[t] = "pushLoad"
    BY <1>10 DEF PushChainLoad
  <2>2. chain[t].last \in Held(t)
    BY <2>1, LastIsHeld
  <2>3. /\ Acquired(seen, t) \in [Block -> SUBSET Observers]
        /\ \A b \in Block : seen[b] \subseteq Acquired(seen, t)[b]
    BY <1>1, AcquireAdds
  <2> QED BY <1>10, <2>1, <2>2, <2>3, OrderTouch
<1>11. CASE (TakeAllLoad(t) \/ CasLost(t) \/ CasSpurious(t)) /\ seen' = Acquired(seen, t)
  <2>1. UNCHANGED <<bump, head, live>>
    BY <1>11 DEF TakeAllLoad, CasLost, CasSpurious, Retry
  <2> QED BY <1>1, <1>11, <2>1, AcquireAdds, OrderGrows
<1>12. CASE (TakeAllCas(t) \/ PushChainCas(t)) /\ seen' = Released(Acquired(seen, t), t)
  <2>1. PICK s : s = Acquired(seen, t)
    OBVIOUS
  <2>2. /\ s \in [Block -> SUBSET Observers]
        /\ \A b \in Block : seen[b] \subseteq s[b]
        /\ \A b \in Block : "head" \in seen[b] => t \in s[b]
    BY <1>1, <2>1, AcquireAdds
  <2>3. /\ seen' \in [Block -> SUBSET Observers]
        /\ \A b \in Block : s[b] \subseteq seen'[b]
        /\ \A b \in Block : t \in s[b] => "head" \in seen'[b]
    BY <1>12, <2>1, <2>2, ReleaseAdds
  <2>4. /\ Fresh' = Fresh
        /\ Held(t)' \subseteq Held(t) \cup Stack /\ Stack' \subseteq Stack \cup Held(t)
    BY <1>12, TakeAllMoves, PushMoves
  <2>5. ASSUME NEW u \in Threads, NEW b \in Held(u)' PROVE u \in seen'[b]
    <3>1. b \in Block /\ (b \in Held(u) \/ (u = t /\ b \in Stack))
      BY <1>2, <2>4 DEF Partition
    <3>2. u \in s[b]
      BY <1>3, <2>2, <3>1
    <3> QED BY <2>3, <3>1, <3>2
  <2>6. ASSUME NEW b \in Stack' PROVE "head" \in seen'[b]
    <3>1. b \in Block /\ (b \in Stack \/ b \in Held(t))
      BY <1>2, <2>4 DEF Partition
    <3>2. t \in s[b]
      BY <1>3, <2>2, <3>1
    <3> QED BY <2>3, <3>1, <3>2
  <2>7. ASSUME NEW b \in Fresh' PROVE seen'[b] = Observers
    <3>1. b \in Block /\ seen[b] = Observers
      BY <1>2, <1>3, <2>4 DEF Partition
    <3>2. seen[b] \subseteq seen'[b] /\ seen'[b] \subseteq Observers
      BY <2>2, <2>3, <3>1
    <3> QED BY <3>1, <3>2
  <2> QED BY <2>3, <2>5, <2>6, <2>7 DEF OrderInv, OrderedAccesses
<1> QED BY <1>4, <1>5, <1>6, <1>7, <1>8, <1>9, <1>10, <1>11, <1>12 DEF OrderStep

\* The history adds no step to Freelist.
LEMMA OrderStepIsStep ==
  ASSUME NEW t \in Threads, OrderStep(t)
  PROVE  Step(t)
BY DEF OrderStep, Step, Call, Local, Cas, TakeAllLoad, Pop

\* The links are free of data races: the Acquire loads and AcqRel
\* compare_exchange_weaks of push, push_chain and take_all put every earlier access
\* to a block before those of the thread that gets hold of it.
THEOREM RaceFreedom == OrderSpec => []OrderedAccesses
<1>1. OrderInit => Inv /\ OrderInv
  BY InitInv, OrderInitInv DEF OrderInit
<1>2. Inv /\ [OrderNext]_orderVars => Inv'
  <2>1. [OrderNext]_orderVars => [Next]_vars
    BY OrderStepIsStep DEF OrderNext, Next, Step, orderVars, vars
  <2> QED BY <2>1, NextInv
<1>3. Inv /\ Inv' /\ OrderInv /\ [OrderNext]_orderVars => OrderInv'
  <2> SUFFICES ASSUME Inv, Inv', OrderInv, [OrderNext]_orderVars PROVE OrderInv'
    OBVIOUS
  <2>1. CASE UNCHANGED orderVars
    <3>1. UNCHANGED <<vars, seen>>
      BY <2>1 DEF orderVars
    <3>2. UNCHANGED <<Fresh, Stack>> /\ \A t \in Threads : Held(t)' = Held(t)
      BY <3>1, Stutter
    <3>3. OrderedAccesses'
      BY <3>1, <3>2 DEF OrderInv, OrderedAccesses
    <3> QED BY <3>1, <3>2, <3>3 DEF OrderInv
  <2>2. CASE OrderNext
    BY <2>2, OrderStepIsStep, OrderStepInv DEF OrderNext
  <2> QED BY <2>1, <2>2
<1>4. OrderInv => OrderedAccesses
  BY DEF OrderInv
<1> QED BY <1>1, <1>2, <1>3, <1>4, PTL DEF OrderSpec
=============================================================================
