------------------------------- MODULE Layouts -------------------------------
(***************************************************************************)
(* The arithmetic of layouts: which size class serves a request, how large *)
(* a bag or a mapping it needs, and where the payload then lies behind its *)
(* LargeHeader.  Numbers are bytes, and usize has Word values.             *)
(***************************************************************************)
EXTENDS Integers

CONSTANTS
  WordBits,     \* usize::BITS
  MinShift,     \* the smallest class has 2^MinShift bytes
  NumClasses,   \* NUM_SIZE_CLASSES
  BagSize,      \* BAG_SIZE
  PageSize,
  HeaderSize,   \* size_of::<LargeHeader>()
  HeaderAlign   \* align_of::<LargeHeader>()

\* 1 << k.
Pow2[k \in 0 .. WordBits] == IF k = 0 THEN 1 ELSE 2 * Pow2[k - 1]

Powers == {Pow2[k] : k \in 0 .. WordBits}

Word == Pow2[WordBits]
IsizeMax == Pow2[WordBits - 1] - 1
SmallLimit == Pow2[MinShift + NumClasses - 1]

\* The largest class is within isize::MAX; bags and the header's alignment are
\* powers of two.
ASSUME LayoutsAssumption ==
  /\ WordBits \in Nat \ {0} /\ MinShift \in Nat /\ NumClasses \in Nat \ {0}
  /\ MinShift + NumClasses < WordBits
  /\ BagSize \in Powers /\ HeaderAlign \in Powers
  /\ PageSize \in Nat \ {0} /\ HeaderSize \in Nat
  /\ HeaderSize % HeaderAlign = 0

Maximum(a, b) == IF a > b THEN a ELSE b

\* (x + unit - 1) & !(unit - 1).
AlignUp(x, unit) == (x + unit - 1) - ((x + unit - 1) % unit)

\* Layout::from_size_align accepts the pair.
ValidLayout(size, align) == size <= IsizeMax - (align - 1)

-----------------------------------------------------------------------------
(* size_class.rs.                                                          *)

\* usize::BITS - n.leading_zeros().
BitLength(n) == CHOOSE k \in 0 .. WordBits : n < Pow2[k] /\ (k = 0 \/ n >= Pow2[k - 1])

\* Faulty variant of SizeClassIndex: a power of two goes to the class above.
SizeClassIndexNext(size) ==
  IF size <= Pow2[MinShift] \/ size = SmallLimit THEN BitLength(size - 1) - MinShift
  ELSE BitLength(size) - MinShift

\* Sizes from 1 to SmallLimit.
SizeClassIndex(size) ==
  IF size <= Pow2[MinShift] THEN 0 ELSE BitLength(size - 1) - MinShift

SizeForClass(c) == Pow2[MinShift + c]

BagSizeForClass(c) == Maximum(SizeForClass(c), BagSize)

-----------------------------------------------------------------------------
(* Blocks and mappings.                                                    *)

\* Faulty variant of Effective: the alignment does not count.
EffectiveSize(size, align) == Maximum(size, 1)

\* A block is aligned to its size, so the larger of the two picks the class.
Effective(size, align) == Maximum(size, align)

\* Faulty variant of LargeAllocSize: a mapping of any size is asked for.
LargeAllocSizeUnchecked(size, align) ==
  AlignUp(HeaderSize + Maximum(align, HeaderAlign) - 1 + size, PageSize)

\* large_alloc_size, 0 for None.
LargeAllocSize(size, align) ==
  LET rounded == AlignUp(HeaderSize + Maximum(align, HeaderAlign) - 1 + size, PageSize)
  IN IF rounded <= IsizeMax THEN rounded ELSE 0

\* Two stretches of memory have no byte in common.
Apart(p, q) == p.addr + p.len <= q.addr \/ q.addr + q.len <= p.addr

\* Faulty variant of PayloadAddr: the payload follows the header directly.
PayloadUnaligned(raw, align) == raw + HeaderSize

\* prepare_large_payload: room for the header, then the alignment.
PayloadAddr(raw, align) == AlignUp(raw + HeaderSize, Maximum(align, HeaderAlign))
=============================================================================
