------------------------------ MODULE NumaAlloc ------------------------------
(***************************************************************************)
(* The GlobalAlloc calls on one object: which path alloc takes for a       *)
(* layout, where the object then lies inside its block or mapping, when    *)
(* realloc may leave it where it is, and how dealloc, told no more than a  *)
(* pointer and a layout, finds out where the object came from.             *)
(*                                                                         *)
(* What the other modules show is taken as given: bags are aligned and     *)
(* disjoint (Region), blocks have one owner (Freelist), and the large      *)
(* cache returns a mapping that is at most a tolerance too large           *)
(* (LargeObjects).                                                         *)
(***************************************************************************)
EXTENDS Layouts

CONSTANTS
  Tolerance,    \* CLOSE_SIZE_TOLERANCE
  RegionBase,   \* the pre-mapped region of the heap
  RegionSize,
  MapBases,     \* addresses the kernel may place mappings at
  Aligns,       \* alignments the program asks for
  NULL

\* Objects of the program, and blocks or mappings they lie in.
Objects == [ptr : 0 .. Word - 1, size : 1 .. IsizeMax, align : Aligns]
Stretches == [kind : {"block", "map"}, addr : 0 .. Word - 1, len : 1 .. IsizeMax]

ASSUME NumaAllocAssumption ==
  /\ RegionBase \in Nat /\ RegionSize \in Nat /\ RegionBase + RegionSize <= Word
  /\ RegionBase % SmallLimit = 0 /\ RegionSize % SmallLimit = 0
  /\ Tolerance \in Nat
  /\ \A raw \in MapBases : raw \in Nat /\ raw % PageSize = 0
  /\ Aligns \subseteq Powers
  /\ NULL \notin Objects /\ NULL \notin Stretches

VARIABLES
  obj,     \* what the program holds: pointer, size and alignment
  mem,     \* the block or mapping it lies in
  header   \* the LargeHeader: where it was written and what it says

vars == <<obj, mem, header>>

-----------------------------------------------------------------------------
(* Where an object of a layout may be placed.                              *)

Block(addr, c) == [kind |-> "block", addr |-> addr, len |-> SizeForClass(c)]
Mapping(addr, len) == [kind |-> "map", addr |-> addr, len |-> len]

\* Blocks carved from the bags of a class, one after the other.
Blocks(c) ==
  LET bag == BagSizeForClass(c)
  IN {Block(RegionBase + b * bag + i * SizeForClass(c), c) :
        b \in 0 .. RegionSize \div bag - 1, i \in 0 .. bag \div SizeForClass(c) - 1}

\* alloc_large_tracked: a new mapping of the size needed, which the kernel places
\* outside the region, or one of close size from the cache.
Mappings(size, align) ==
  LET need == LargeAllocSize(size, align)
      close == {len \in need + 1 .. need + Tolerance : len % PageSize = 0 /\ len <= IsizeMax}
  IN {m \in {Mapping(raw, len) : raw \in MapBases, len \in {need} \cup close} :
        /\ need # 0
        /\ m.addr + m.len <= Word
        /\ Apart(m, Mapping(RegionBase, RegionSize))}

\* alloc: small requests too get a mapping when the region is exhausted or the
\* thread's TLS slot is destroyed.
Places(size, align) ==
  LET e == Effective(size, align)
  IN Mappings(size, align) \cup (IF e > SmallLimit THEN {} ELSE Blocks(SizeClassIndex(e)))

-----------------------------------------------------------------------------
(* dealloc: from a pointer and a layout back to the block or mapping.      *)

\* is_owned.
IsOwned(ptr) == ptr >= RegionBase /\ ptr < RegionBase + RegionSize

\* dealloc_large: what the header in front of the pointer says, if one was
\* written there.
FromHeader(ptr) ==
  IF header.at = ptr - HeaderSize THEN Mapping(header.original, header.size)
  ELSE Mapping(NULL, 0)

\* Faulty variant of DeallocTarget: the layout alone decides.
DeallocByLayout(ptr, size, align) ==
  LET e == Effective(size, align)
  IN IF e > SmallLimit THEN FromHeader(ptr)
     ELSE Block(ptr, SizeClassIndex(e))

\* A small layout is looked up in the region first.
DeallocTarget(ptr, size, align) ==
  LET e == Effective(size, align)
  IN IF e > SmallLimit \/ ~ IsOwned(ptr) THEN FromHeader(ptr)
     ELSE Block(ptr, SizeClassIndex(e))

-----------------------------------------------------------------------------
NoHeader == [at |-> NULL, original |-> NULL, size |-> 0]

Init == obj = NULL /\ mem = NULL /\ header = NoHeader

\* The object of a layout comes to lie in `place'.
Put(place, size, align) ==
  LET ptr == IF place.kind = "block" THEN place.addr ELSE PayloadAddr(place.addr, align)
  IN /\ mem' = place
     /\ obj' = [ptr |-> ptr, size |-> size, align |-> align]
     /\ header' = IF place.kind = "block" THEN NoHeader
                  ELSE [at |-> ptr - HeaderSize, original |-> place.addr, size |-> place.len]

Alloc(size, align) ==
  /\ obj = NULL
  /\ ValidLayout(size, align)
  /\ \E place \in Places(size, align) : Put(place, size, align)

Dealloc ==
  /\ obj # NULL
  /\ obj' = NULL /\ mem' = NULL /\ header' = NoHeader

\* Faulty variant of InPlace: a mapping handed out for a small layout counts too.
InPlaceAnywhere(newSize) ==
  LET old == Effective(obj.size, obj.align)
      new == Effective(newSize, obj.align)
  IN /\ old <= SmallLimit /\ new <= SmallLimit
     /\ SizeClassIndex(old) = SizeClassIndex(new)

\* realloc leaves a block where it is if the class stays the same.
InPlace(newSize) ==
  LET old == Effective(obj.size, obj.align)
      new == Effective(newSize, obj.align)
  IN /\ old <= SmallLimit /\ new <= SmallLimit
     /\ SizeClassIndex(old) = SizeClassIndex(new)
     /\ IsOwned(obj.ptr)

ReallocInPlace(newSize) ==
  /\ obj # NULL /\ InPlace(newSize)
  /\ obj' = [obj EXCEPT !.size = newSize]
  /\ UNCHANGED <<mem, header>>

\* Allocate, copy, deallocate: the old block or mapping is given back.
ReallocMove(newSize) ==
  /\ obj # NULL /\ ~ InPlace(newSize)
  /\ ValidLayout(newSize, obj.align)
  /\ \E place \in Places(newSize, obj.align) :
       Apart(place, mem) /\ Put(place, newSize, obj.align)

\* An invalid layout or no memory: null, and the old object stays.
ReallocFails(newSize) ==
  /\ obj # NULL /\ ~ InPlace(newSize)
  /\ UNCHANGED vars

Next ==
  \/ Dealloc
  \/ \E size \in 1 .. IsizeMax :
       \/ \E align \in Aligns : Alloc(size, align)
       \/ ReallocInPlace(size) \/ ReallocMove(size) \/ ReallocFails(size)

Spec == Init /\ [][Next]_vars

-----------------------------------------------------------------------------
(* Properties.                                                             *)

\* Every variable keeps to its values; no mapping is larger than
\* isize::MAX.
TypeOK ==
  /\ obj \in Objects \cup {NULL}
  /\ (obj = NULL) = (mem = NULL)
  /\ mem \in Stretches \cup {NULL}
  /\ header.size \in 0 .. IsizeMax

\* The object lies inside its block or mapping, behind its header, through every
\* sequence of reallocs: in particular growing in place never leaves a mapping
\* that was handed out for a small layout.
ObjectFits ==
  obj # NULL =>
    /\ obj.ptr + obj.size <= mem.addr + mem.len
    /\ obj.ptr >= mem.addr + (IF mem.kind = "map" THEN HeaderSize ELSE 0)

\* The pointer has the alignment its layout asks for, on all three paths, and the
\* LargeHeader has its own.
ObjectAligned ==
  obj # NULL =>
    /\ obj.ptr % obj.align = 0
    /\ header # NoHeader => header.at % HeaderAlign = 0

\* Whatever the program holds, dealloc would give it back to where it came from:
\* the class whose list the block was popped from, or the mapping with its whole
\* extent, for a small layout that was served by a mapping too.
FreedAsAllocated ==
  obj # NULL => DeallocTarget(obj.ptr, obj.size, obj.align) = mem

\* The block of a small object is shorter than twice the larger of the object's
\* size and alignment, after reallocs in place too, or is of the smallest class.
SmallWasteBounded ==
  obj # NULL /\ mem.kind = "block" =>
    \/ mem.len = SizeForClass(0)
    \/ mem.len < 2 * Effective(obj.size, obj.align)
=============================================================================
