----------------------------- MODULE ObjectStore -----------------------------
(***************************************************************************)
(* What a program expects of GlobalAlloc, whatever serves it: objects of   *)
(* the size and alignment it asked for, apart from each other, whose words *)
(* change only when the program writes them.  A call that fails changes    *)
(* nothing, so it is a stuttering step.                                    *)
(***************************************************************************)
EXTENDS Integers

\* The words the program writes into a new object of n words.
CONSTANT Pattern(_)

\* The objects by address: size, align and words, a function of 0 .. size - 1.
VARIABLE objs

Live == DOMAIN objs

Init == Live = {}

\* The objects are aligned, and no two share a word.
Placed ==
  \A p \in Live :
    /\ p % objs[p].align = 0
    /\ \A q \in Live \ {p} : p + objs[p].size <= q \/ q + objs[q].size <= p

\* The live objects become those of `new', and all but `touched' are as before.
Becomes(new, touched) ==
  /\ Live' = new
  /\ \A p \in Live \ touched : p \in new /\ objs'[p] = objs[p]

\* A new object, which the program fills, or one from alloc_zeroed.
Alloc ==
  \E p \in Live' \ Live :
    /\ Becomes(Live \cup {p}, {})
    /\ LET n == objs'[p].size
       IN objs'[p].words \in {Pattern(n), [i \in 0 .. n - 1 |-> 0]}

Free == \E p \in Live : Becomes(Live \ {p}, {p})

\* An object moves to q, or stays, with the words that fit its new size.
Realloc ==
  \E p \in Live : \E q \in Live' :
    /\ q = p \/ q \notin Live
    /\ Becomes((Live \ {p}) \cup {q}, {p})
    /\ objs'[q].align = objs[p].align
    /\ \A i \in DOMAIN objs[p].words \cap DOMAIN objs'[q].words :
         objs'[q].words[i] = objs[p].words[i]

Next == (Alloc \/ Free \/ Realloc) /\ Placed'

Spec == Init /\ [][Next]_objs
=============================================================================
