--------------------------- MODULE MCLargeEviction ---------------------------
(* Large objects with a history: the order in which the entries of each      *)
(* cache were stored, which the cache's array does not keep.                 *)
EXTENDS LargeObjects

VARIABLE order

InitHistory == Init /\ order = [t \in Threads |-> <<>>]

NextHistory ==
  /\ Next
  /\ order' = [t \in Threads |->
       LET kept == SelectSeq(order[t], LAMBDA m : m \in MapsOf(cache'[t]))
           new == MapsOf(cache'[t]) \ Cached(t)
       IN IF new = {} THEN kept ELSE Append(kept, CHOOSE m \in new : TRUE)]

SpecHistory == InitHistory /\ [][NextHistory]_<<vars, order>>

\* "When the cache is full, the oldest entries are evicted": a put that evicts
\* leaves no entry behind that was stored before one it evicted.
EvictsOldest ==
  [][\A t \in Threads :
       MapsOf(cache'[t]) \ Cached(t) # {} =>
         \A i, j \in DOMAIN order[t] :
           i < j /\ order[t][j] \notin MapsOf(cache'[t]) =>
             order[t][i] \notin MapsOf(cache'[t])]_<<vars, order>>
=============================================================================
