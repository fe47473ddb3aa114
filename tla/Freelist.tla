------------------------------- MODULE Freelist -------------------------------
(***************************************************************************)
(* The small-object path of NUMAlloc for one size class of one NUMA node,  *)
(* at the level of pointers: the shared TreiberStack of the node, the      *)
(* ThreadFreelist (head, tail, count, spare) of every thread, and the      *)
(* intrusive `next' link kept in the first word of every free block.       *)
(*                                                                         *)
(* A step is at most one access to memory another thread can reach: a load *)
(* of the stack's head, one compare_exchange_weak, or one iteration of a   *)
(* loop that follows a link.  Work on thread-private fields is merged into *)
(* the step it accompanies.  Atomics are sequentially consistent here.     *)
(***************************************************************************)
EXTENDS Integers, FiniteSets

CONSTANTS
  Threads,        \* threads that use the allocator
  RegionBlocks,   \* blocks of this class that the node's region can hold
  BagObjects,     \* blocks carved from one bag
  RefillBatch,    \* REFILL_BATCH: blocks counted into the list per refill
  CacheLimit,     \* max_thread_cache of the class
  TagModulus,     \* 2^16 in the code: values of the generation tag
  NULL,           \* Option::None
  UserData        \* whatever the program wrote over a live block's link

ASSUME FreelistAssumption ==
  /\ RegionBlocks \in Nat
  /\ BagObjects \in Nat \ {0}
  /\ RefillBatch \in Nat \ {0}
  /\ CacheLimit \in Nat /\ CacheLimit >= 2
  /\ TagModulus \in Nat \ {0}

Block == 0 .. RegionBlocks - 1

ASSUME NullAssumption ==
  NULL \notin Block /\ UserData \notin Block /\ NULL # UserData

VARIABLES
  bump,    \* first block of the region not carved yet
  head,    \* the stack's packed AtomicU64: pointer and generation tag
  next,    \* the first word of every block
  live,    \* blocks handed to the program and not freed
  bound,   \* each thread's TLS slot: which node its PerThreadHeap is bound to
  fl,      \* each thread's ThreadFreelist for this class
  pc,      \* where each thread is inside alloc, dealloc or drop
  cur,     \* the head word a thread loaded before its compare_exchange_weak
  chain    \* the chain a thread holds in locals: first, last and a counter

vars == <<bump, head, next, live, bound, fl, pc, cur, chain>>

Ptr == Block \cup {NULL}
Word == [ptr : Ptr, tag : 0 .. TagModulus - 1]
Bound == {"none", "here", "elsewhere", "dropping", "destroyed"}
PC == {"idle", "takeLoad", "takeCas", "refill", "carve", "pop", "drain",
       "pushLoad", "pushCas", "exitSpare", "exitWalk"}

EmptyFreelist == [head |-> NULL, tail |-> NULL, count |-> 0, spare |-> NULL]
NoWord == [ptr |-> NULL, tag |-> 0]
NoChain == [first |-> NULL, last |-> NULL, n |-> 0]

\* How many hot blocks a drain leaves in the thread's list.
Keep == CacheLimit \div 2

Init ==
  /\ bump = 0
  /\ head = NoWord
  /\ next = [b \in Block |-> NULL]
  /\ live = {}
  /\ bound = [t \in Threads |-> "none"]
  /\ fl = [t \in Threads |-> EmptyFreelist]
  /\ pc = [t \in Threads |-> "idle"]
  /\ cur = [t \in Threads |-> NoWord]
  /\ chain = [t \in Threads |-> NoChain]

-----------------------------------------------------------------------------
(* The methods of ThreadFreelist on the fields of one list; the link they  *)
(* write is part of the calling action.                                    *)

\* Faulty variant of Popped: the tail of a list popped empty stays.
PoppedStaleTail(f, link) == [f EXCEPT !.head = link, !.count = @ - 1]

\* Faulty variant of Retag: the tag does not wrap.
RetagNoWrap(ptr, tag) == [ptr |-> ptr, tag |-> tag + 1]

\* ThreadFreelist::push_chain of `n' blocks; push is the case n = 1.
WithChain(f, firstB, lastB, n) ==
  [f EXCEPT !.tail = IF f.head = NULL THEN lastB ELSE @,
            !.head = firstB,
            !.count = @ + n]

\* ThreadFreelist::pop, with `link' the link read from the popped block.
Popped(f, link) ==
  [f EXCEPT !.head = link,
            !.count = @ - 1,
            !.tail = IF link = NULL THEN NULL ELSE @]

\* The split of ThreadFreelist::drain after the walk reached `split'.
Split(f, split) == [f EXCEPT !.tail = split, !.count = Keep]

\* The fields drain_all leaves behind: the spare chain is not touched.
Drained(f) == [EmptyFreelist EXCEPT !.spare = f.spare]

\* pack(ptr, tag.wrapping_add(1)) of a new head.
Retag(ptr, tag) == [ptr |-> ptr, tag |-> (tag + 1) % TagModulus]

Goto(t, label) == pc' = [pc EXCEPT ![t] = label]

-----------------------------------------------------------------------------
(* Faulty variants of the actions below.  No specification uses them: each *)
(* is what its action could have been, and breaks a property stated at the *)
(* end of the module.                                                      *)

\* TakeAllCas storing without comparing.
TakeAllBlind(t) ==
  /\ pc[t] = "takeCas"
  /\ head' = Retag(NULL, cur[t].tag)
  /\ chain' = [chain EXCEPT ![t] =
                 [first |-> cur[t].ptr, last |-> cur[t].ptr, n |-> 1]]
  /\ cur' = [cur EXCEPT ![t] = NoWord]
  /\ Goto(t, "refill")
  /\ UNCHANGED <<bump, next, live, bound, fl>>

\* PushChainCas storing without comparing.
PushChainBlind(t) ==
  /\ pc[t] = "pushCas"
  /\ head' = Retag(chain[t].first, cur[t].tag)
  /\ chain' = [chain EXCEPT ![t] = NoChain]
  /\ cur' = [cur EXCEPT ![t] = NoWord]
  /\ Goto(t, IF bound[t] = "dropping" THEN "exitSpare" ELSE "idle")
  /\ UNCHANGED <<bump, next, live, bound, fl>>

\* Refill counting to the batch without looking for the end of the chain.
RefillUnchecked(t) ==
  /\ pc[t] = "refill"
  /\ LET c == chain[t]
         link == next[c.last]
     IN IF c.n < RefillBatch
          THEN /\ chain' = [chain EXCEPT ![t].last = link, ![t].n = @ + 1]
               /\ UNCHANGED <<next, fl, pc>>
          ELSE /\ fl' = [fl EXCEPT ![t] =
                           [WithChain(fl[t], c.first, c.last, c.n) EXCEPT !.spare = link]]
               /\ next' = [next EXCEPT ![c.last] = fl[t].head]
               /\ chain' = [chain EXCEPT ![t] = NoChain]
               /\ Goto(t, "pop")
  /\ UNCHANGED <<bump, head, live, bound, cur>>

\* Drain leaving the link from the kept part into the part it gives away.
DrainUncut(t) ==
  /\ pc[t] = "drain"
  /\ LET split == chain[t].last
         link == next[split]
     IN IF chain[t].n < Keep
          THEN /\ chain' = [chain EXCEPT ![t].last = link, ![t].n = @ + 1]
               /\ UNCHANGED <<fl, pc>>
          ELSE /\ chain' = [chain EXCEPT ![t] =
                              [first |-> link, last |-> fl[t].tail, n |-> 0]]
               /\ fl' = [fl EXCEPT ![t] = Split(fl[t], split)]
               /\ Goto(t, "pushLoad")
  /\ UNCHANGED <<bump, head, next, live, bound, cur>>

\* Retry going round without loading the head again.
RetryStale(t) == UNCHANGED vars

\* DropSpare without take_spare.
DropSpareForgotten(t) ==
  /\ pc[t] = "exitSpare"
  /\ \E slot \in {"none", "destroyed"} : bound' = [bound EXCEPT ![t] = slot]
  /\ Goto(t, "idle")
  /\ UNCHANGED <<bump, head, next, live, fl, cur, chain>>

-----------------------------------------------------------------------------
(* The thread-local slot.                                                  *)

\* NumaAlloc::init_thread_heap: the round-robin counter binds the thread to
\* this node or to another one.
InitThreadHeap(t) ==
  /\ pc[t] = "idle" /\ bound[t] = "none"
  /\ \E where \in {"here", "elsewhere"} : bound' = [bound EXCEPT ![t] = where]
  /\ UNCHANGED <<bump, head, next, live, fl, pc, cur, chain>>

\* A new thread takes the place of one that has exited.
ThreadStart(t) ==
  /\ pc[t] = "idle" /\ bound[t] = "destroyed"
  /\ bound' = [bound EXCEPT ![t] = "none"]
  /\ UNCHANGED <<bump, head, next, live, fl, pc, cur, chain>>

-----------------------------------------------------------------------------
(* alloc.                                                                  *)

\* ThreadFreelist::pop: the hit of step 1, and the pop().unwrap() that ends
\* steps 2 and 3.  From here on the program may overwrite the link.
Pop(t) ==
  /\ \/ pc[t] = "idle" /\ bound[t] = "here"
     \/ pc[t] = "pop"
  /\ fl[t].head # NULL
  /\ LET b == fl[t].head IN
       /\ fl' = [fl EXCEPT ![t] = Popped(fl[t], next[b])]
       /\ next' = [next EXCEPT ![b] = UserData]
       /\ live' = live \cup {b}
  /\ Goto(t, "idle")
  /\ UNCHANGED <<bump, head, bound, cur, chain>>

\* Step 2 of alloc: take_spare, or else take_all.
AllocMiss(t) ==
  /\ pc[t] = "idle" /\ bound[t] = "here"
  /\ fl[t].head = NULL
  /\ LET spare == fl[t].spare IN
       IF spare # NULL
         THEN /\ fl' = [fl EXCEPT ![t].spare = NULL]
              /\ chain' = [chain EXCEPT ![t] =
                             [first |-> spare, last |-> spare, n |-> 1]]
              /\ Goto(t, "refill")
         ELSE /\ Goto(t, "takeLoad")
              /\ UNCHANGED <<fl, chain>>
  /\ UNCHANGED <<bump, head, next, live, bound, cur>>

\* take_all: the load, and the early return when the stack is empty.
TakeAllLoad(t) ==
  /\ pc[t] = "takeLoad"
  /\ IF head.ptr = NULL
       THEN Goto(t, "carve") /\ UNCHANGED cur
       ELSE Goto(t, "takeCas") /\ cur' = [cur EXCEPT ![t] = head]
  /\ UNCHANGED <<bump, head, next, live, bound, fl, chain>>

\* take_all: the compare_exchange_weak that detaches the whole chain.
TakeAllCas(t) ==
  /\ pc[t] = "takeCas"
  /\ head = cur[t]
  /\ head' = Retag(NULL, cur[t].tag)
  /\ chain' = [chain EXCEPT ![t] =
                 [first |-> cur[t].ptr, last |-> cur[t].ptr, n |-> 1]]
  /\ cur' = [cur EXCEPT ![t] = NoWord]
  /\ Goto(t, "refill")
  /\ UNCHANGED <<bump, next, live, bound, fl>>

\* One iteration of the refill loop.  It ends at RefillBatch blocks, parking
\* the rest as the spare chain, or at the end of the chain.
Refill(t) ==
  /\ pc[t] = "refill"
  /\ LET c == chain[t]
         link == next[c.last]
         full == c.n >= RefillBatch
     IN IF ~full /\ link # NULL
          THEN /\ chain' = [chain EXCEPT ![t].last = link, ![t].n = @ + 1]
               /\ UNCHANGED <<next, fl, pc>>
          ELSE /\ fl' = [fl EXCEPT ![t] =
                           [WithChain(fl[t], c.first, c.last, c.n)
                              EXCEPT !.spare = IF full THEN link ELSE @]]
               /\ next' = [next EXCEPT ![c.last] = fl[t].head]
               /\ chain' = [chain EXCEPT ![t] = NoChain]
               /\ Goto(t, "pop")
  /\ UNCHANGED <<bump, head, live, bound, cur>>

\* Step 3 of alloc: a new bag, its objects pushed in address order.  With the
\* region exhausted the request leaves this path for a mapping of its own.
Carve(t) ==
  /\ pc[t] = "carve"
  /\ IF bump + BagObjects <= RegionBlocks
       THEN LET bag == bump .. bump + BagObjects - 1
                lastB == bump + BagObjects - 1
            IN /\ bump' = bump + BagObjects
               /\ next' = [b \in Block |->
                             IF b \notin bag THEN next[b]
                             ELSE IF b = bump THEN fl[t].head ELSE b - 1]
               /\ fl' = [fl EXCEPT ![t] =
                           WithChain(fl[t], lastB, bump, BagObjects)]
               /\ Goto(t, "pop")
       ELSE /\ Goto(t, "idle")
            /\ UNCHANGED <<bump, next, fl>>
  /\ UNCHANGED <<head, live, bound, cur, chain>>

-----------------------------------------------------------------------------
(* dealloc.                                                                *)

\* Local free: push on the thread's list, and start draining above the limit.
DeallocLocal(t, b) ==
  /\ pc[t] = "idle" /\ bound[t] = "here"
  /\ b \in live
  /\ live' = live \ {b}
  /\ next' = [next EXCEPT ![b] = fl[t].head]
  /\ fl' = [fl EXCEPT ![t] = WithChain(fl[t], b, b, 1)]
  /\ IF fl[t].count + 1 > CacheLimit
       THEN /\ chain' = [chain EXCEPT ![t] =
                           [first |-> NULL, last |-> b, n |-> 1]]
            /\ Goto(t, "drain")
       ELSE UNCHANGED <<chain, pc>>
  /\ UNCHANGED <<bump, head, bound, cur>>

\* drain: walk to the last block kept, then cut the cold tail off.
Drain(t) ==
  /\ pc[t] = "drain"
  /\ LET split == chain[t].last
         link == next[split]
     IN IF chain[t].n < Keep
          THEN /\ chain' = [chain EXCEPT ![t].last = link, ![t].n = @ + 1]
               /\ UNCHANGED <<next, fl, pc>>
          ELSE /\ chain' = [chain EXCEPT ![t] =
                              [first |-> link, last |-> fl[t].tail, n |-> 0]]
               /\ next' = [next EXCEPT ![split] = NULL]
               /\ fl' = [fl EXCEPT ![t] = Split(fl[t], split)]
               /\ Goto(t, "pushLoad")
  /\ UNCHANGED <<bump, head, live, bound, cur>>

\* Free by a thread of another node, or by one whose TLS slot is destroyed:
\* the block goes straight to the stack of its origin node.
DeallocRemote(t, b) ==
  /\ pc[t] = "idle" /\ bound[t] \in {"elsewhere", "destroyed"}
  /\ b \in live
  /\ live' = live \ {b}
  /\ chain' = [chain EXCEPT ![t] = [first |-> b, last |-> b, n |-> 0]]
  /\ Goto(t, "pushLoad")
  /\ UNCHANGED <<bump, head, next, bound, fl, cur>>

\* push and push_chain: load the head and link the last block to it.
PushChainLoad(t) ==
  /\ pc[t] = "pushLoad"
  /\ cur' = [cur EXCEPT ![t] = head]
  /\ next' = [next EXCEPT ![chain[t].last] = head.ptr]
  /\ Goto(t, "pushCas")
  /\ UNCHANGED <<bump, head, live, bound, fl, chain>>

\* push and push_chain: the compare_exchange_weak that publishes the chain.
PushChainCas(t) ==
  /\ pc[t] = "pushCas"
  /\ head = cur[t]
  /\ head' = Retag(chain[t].first, cur[t].tag)
  /\ chain' = [chain EXCEPT ![t] = NoChain]
  /\ cur' = [cur EXCEPT ![t] = NoWord]
  /\ Goto(t, IF bound[t] = "dropping" THEN "exitSpare" ELSE "idle")
  /\ UNCHANGED <<bump, next, live, bound, fl>>

\* A compare_exchange_weak that does not store goes round its loop again.
Retry(t) ==
  /\ pc' = [pc EXCEPT ![t] = IF @ = "takeCas" THEN "takeLoad" ELSE "pushLoad"]
  /\ cur' = [cur EXCEPT ![t] = NoWord]
  /\ UNCHANGED <<bump, head, next, live, bound, fl, chain>>

\* The head is not what was loaded.
CasLost(t) == pc[t] \in {"takeCas", "pushCas"} /\ head # cur[t] /\ Retry(t)

\* The weak form may also fail although it is.
CasSpurious(t) == pc[t] \in {"takeCas", "pushCas"} /\ head = cur[t] /\ Retry(t)

-----------------------------------------------------------------------------
(* PerThreadHeap::drop, at thread exit or when the thread's slot is handed *)
(* to another allocator instance.                                          *)

\* drain_all, whose chain is pushed if the list holds anything.
DropList(t) ==
  /\ pc[t] = "idle" /\ bound[t] \in {"here", "elsewhere"}
  /\ bound' = [bound EXCEPT ![t] = "dropping"]
  /\ IF fl[t].count = 0
       THEN /\ Goto(t, "exitSpare")
            /\ UNCHANGED <<fl, chain>>
       ELSE /\ fl' = [fl EXCEPT ![t] = Drained(@)]
            /\ chain' = [chain EXCEPT ![t] =
                  [first |-> fl[t].head, last |-> fl[t].tail, n |-> 0]]
            /\ Goto(t, "pushLoad")
  /\ UNCHANGED <<bump, head, next, live, cur>>

\* take_spare; without one the drop ends and the slot is empty (switch of
\* allocators) or destroyed (thread exit).
DropSpare(t) ==
  /\ pc[t] = "exitSpare"
  /\ LET spare == fl[t].spare IN
       IF spare # NULL
         THEN /\ fl' = [fl EXCEPT ![t].spare = NULL]
              /\ chain' = [chain EXCEPT ![t] =
                             [first |-> spare, last |-> spare, n |-> 0]]
              /\ Goto(t, "exitWalk")
              /\ UNCHANGED bound
         ELSE /\ \E slot \in {"none", "destroyed"} :
                   bound' = [bound EXCEPT ![t] = slot]
              /\ Goto(t, "idle")
              /\ UNCHANGED <<fl, chain>>
  /\ UNCHANGED <<bump, head, next, live, cur>>

\* One iteration of the walk to the spare chain's tail.
DropWalk(t) ==
  /\ pc[t] = "exitWalk"
  /\ LET link == next[chain[t].last] IN
       IF link # NULL
         THEN chain' = [chain EXCEPT ![t].last = link] /\ UNCHANGED pc
         ELSE Goto(t, "pushLoad") /\ UNCHANGED chain
  /\ UNCHANGED <<bump, head, next, live, bound, fl, cur>>

-----------------------------------------------------------------------------
\* What a thread does on its own once an operation has started, apart from
\* the outcome of its compare-and-swap.
Local(t) ==
  \/ pc[t] = "pop" /\ Pop(t)
  \/ TakeAllLoad(t) \/ Refill(t) \/ Carve(t) \/ Drain(t) \/ PushChainLoad(t)
  \/ DropSpare(t) \/ DropWalk(t)

\* A compare-and-swap whose outcome is decided by the head.
Cas(t) == TakeAllCas(t) \/ PushChainCas(t) \/ CasLost(t)

\* The calls the program makes.
Call(t) ==
  \/ InitThreadHeap(t) \/ ThreadStart(t)
  \/ pc[t] = "idle" /\ Pop(t)
  \/ AllocMiss(t)
  \/ \E b \in live : DeallocLocal(t, b) \/ DeallocRemote(t, b)
  \/ DropList(t)

Next == \E t \in Threads : Call(t) \/ Local(t) \/ Cas(t) \/ CasSpurious(t)

Spec == Init /\ [][Next]_vars

\* Every thread that has started an operation keeps running, and a retried
\* compare_exchange_weak does not fail spuriously for ever.
Fairness == \A t \in Threads : WF_vars(Local(t)) /\ SF_vars(Cas(t))

FairSpec == Spec /\ Fairness

-----------------------------------------------------------------------------
(* Where the blocks are, read off the pointers by walking the links.       *)

\* The blocks on the way from `p', not going past `stop'.
Reach(p, stop) ==
  LET walk[k \in 0 .. RegionBlocks] ==
        IF k = 0 THEN p
        ELSE LET b == walk[k - 1]
             IN IF b \in Block \ {stop} THEN next[b] ELSE NULL
  IN {walk[k] : k \in 0 .. RegionBlocks} \cap Block

\* Until its chain is published the last link points into the stack, or is
\* stale from an attempt that failed: the chain ends at `last' all the same.
Publishing(t) == pc[t] \in {"pushLoad", "pushCas"}

List(t) == Reach(fl[t].head, NULL)
Spare(t) == Reach(fl[t].spare, NULL)
Chain(t) == Reach(chain[t].first, IF Publishing(t) THEN chain[t].last ELSE NULL)
Held(t) == List(t) \cup Spare(t) \cup Chain(t)
Stack == Reach(head.ptr, NULL)
Fresh == bump .. RegionBlocks - 1

-----------------------------------------------------------------------------
(* Properties.                                                             *)

\* Every variable keeps to its declared fields.
TypeOK ==
  /\ bump \in 0 .. RegionBlocks
  /\ head \in Word
  /\ next \in [Block -> Ptr \cup {UserData}]
  /\ live \subseteq Block
  /\ bound \in [Threads -> Bound]
  /\ fl \in [Threads -> [head : Ptr, tail : Ptr, count : Nat, spare : Ptr]]
  /\ pc \in [Threads -> PC]
  /\ cur \in [Threads -> Word]
  /\ chain \in [Threads -> [first : Ptr, last : Ptr, n : Nat]]

\* A block is never in two places at once: never handed out while another
\* thread can still reach it, never linked into a list, a spare chain, a chain
\* being published or the node's stack twice (alloc, dealloc, drain, drop).
OneOwner ==
  LET stack == Stack
  IN /\ \A t \in Threads :
          LET list == List(t)
              spare == Spare(t)
              transit == Chain(t)
              mine == list \cup spare \cup transit
          IN /\ list \cap spare = {} /\ list \cap transit = {} /\ spare \cap transit = {}
             /\ mine \cap (stack \cup live \cup Fresh) = {}
             /\ \A u \in Threads \ {t} : mine \cap Held(u) = {}
     /\ stack \cap (live \cup Fresh) = {}
     /\ live \cap Fresh = {}

\* No block is ever lost: a failed or retried push, a split list, a parked
\* remainder and a thread's exit leave every carved block reachable.
NoneLost ==
  Block = (UNION {Held(t) : t \in Threads}) \cup Stack \cup live \cup Fresh

\* The unwalked bookkeeping of a ThreadFreelist agrees with its links: count is
\* the number of blocks, tail the last of them, and the tail ends the chain (the
\* debug assertion of drain).  A wrong tail makes push_chain publish a chain
\* that loses blocks or closes a cycle.
FreelistAgrees ==
  \A t \in Threads :
    LET f == fl[t] IN
    /\ (f.head = NULL) = (f.tail = NULL)
    /\ f.count = Cardinality(List(t))
    /\ f.tail # NULL => f.tail \in List(t) /\ next[f.tail] = NULL

\* No link is followed out of memory the program owns, no block of the program's
\* is about to be handed out again, and no unwrap() of alloc, drain or drain_all
\* meets None: what a step is about to dereference is a free block, and the link
\* it needs is there.
LinksReadAreOwned ==
  \A t \in Threads :
    LET last == chain[t].last IN
    /\ fl[t].head # NULL => fl[t].head \notin live /\ next[fl[t].head] # UserData
    /\ pc[t] = "pop" => fl[t].head # NULL
    /\ pc[t] \in {"refill", "exitWalk"} =>
         last \in Block \ live /\ next[last] # UserData
    /\ pc[t] = "drain" => last \in Block \ live /\ next[last] \in Block
    /\ Publishing(t) => chain[t].first \in Block \ live /\ last \in Block \ live

\* PerThreadHeap::drop returns everything: a thread that has no cache here
\* (never bound, bound to another node, or exited) strands no block.
ExitReturnsAll ==
  \A t \in Threads :
    pc[t] = "idle" /\ bound[t] # "here" => Held(t) = {}

\* Links on the shared stack are frozen: a block that stays there keeps its
\* link, so what take_all detaches is exactly the chain that was published
\* (push rewrites last.next only before its compare_exchange_weak succeeds).
StackLinksFrozen ==
  [][\A b \in Stack \cap Stack' : next'[b] = next[b]]_vars

\* The pointer-level path implements the abstract pool.
Pool == INSTANCE BlockPool WITH
  fresh <- Fresh,
  pool <- Stack,
  held <- [t \in Threads |-> Held(t)]

\* Seen through its places, every step moves blocks the way their owner may:
\* a compare-and-swap publishes or collects atomically, everything else moves
\* blocks between one thread and the program, or moves nothing.
ImplementsPool == Pool!Spec

\* Lock freedom of push, push_chain and take_all, and termination of every walk
\* over links: an operation in progress ends, unless other threads complete
\* compare-and-swaps on the same stack for ever.
LockFree ==
  \A t \in Threads : []<>(pc[t] = "idle") \/ []<><<head' # head>>_vars

\* node_heap.rs calls remote deallocation and refill wait-free: whatever the
\* other threads do, a push that has started ends.
PushIsWaitFree == \A t \in Threads : pc[t] = "pushLoad" ~> pc[t] = "idle"
=============================================================================
