------------------------------ MODULE NumaProofs ------------------------------
(***************************************************************************)
(* The routing of GlobalAlloc calls and its arithmetic, for every word     *)
(* width, class table, page size, header and tolerance.                    *)
(***************************************************************************)
EXTENDS NumaAlloc, LayoutProofs

-----------------------------------------------------------------------------
(* Blocks and mappings.                                                    *)

\* A block lies in the region, aligned to its size.
LEMMA BlockIs ==
  ASSUME NEW c \in 0 .. NumClasses - 1, NEW m \in Blocks(c)
  PROVE  /\ m \in Stretches /\ m = Block(m.addr, c)
         /\ m.kind = "block" /\ m.len = SizeForClass(c)
         /\ m.addr \in Nat /\ m.addr >= RegionBase
         /\ m.addr + m.len <= RegionBase + RegionSize
         /\ m.addr % SizeForClass(c) = 0
<1>1. PICK s, bag : s = SizeForClass(c) /\ bag = BagSizeForClass(c)
  OBVIOUS
<1>2. /\ s \in Powers /\ s \in Nat \ {0} /\ SmallLimit % s = 0 /\ s <= IsizeMax /\ SmallLimit \in Nat \ {0}
  BY <1>1, ClassSizeIs
<1>3. BagSize \in Powers /\ BagSize \in Nat \ {0}
  <2>1. BagSize \in Powers
    BY LayoutsAssumption
  <2>2. BagSize \in Nat
    BY <2>1, Pow2Is DEF Powers
  <2> QED BY <2>1, <2>2, PowersDivide
<1>4. bag \in Nat \ {0} /\ bag % s = 0
  <2>1. bag \in {s, BagSize} /\ s <= bag
    BY <1>1, <1>2, <1>3, MaximumIs DEF BagSizeForClass
  <2> QED BY <1>2, <1>3, <2>1, PowersDivide
<1>5. PICK b \in 0 .. RegionSize \div bag - 1, i \in 0 .. bag \div s - 1 :
        m = Block(RegionBase + b * bag + i * s, c)
  <2>1. Blocks(c) = {Block(RegionBase + b * bag + i * s, c) :
                       b \in 0 .. RegionSize \div bag - 1, i \in 0 .. bag \div s - 1}
    BY <1>1 DEF Blocks
  <2> QED BY <2>1
<1>6. RegionBase \in Nat /\ RegionSize \in Nat /\ RegionBase % SmallLimit = 0 /\ RegionBase + RegionSize <= Word
  BY NumaAllocAssumption
<1>7. b * bag \in Nat /\ b * bag + bag <= RegionSize
  BY <1>4, <1>6, QuotientFits
<1>8. i * s \in Nat /\ i * s + s <= bag
  BY <1>2, <1>4, QuotientFits
<1>9. PICK x, y, a : x = b * bag /\ y = i * s /\ a = RegionBase + x + y
  OBVIOUS
<1>10. a \in Nat /\ a >= RegionBase /\ a + s <= RegionBase + RegionSize
  BY <1>2, <1>4, <1>6, <1>7, <1>8, <1>9
<1>11. a % s = 0
  <2>1. RegionBase % s = 0
    <3>1. RegionBase \in Int
      BY <1>6
    <3> QED BY <1>2, <1>6, <3>1, MultipleOfMultiple
  <2>2. x % s = 0
    <3>1. b \in Int /\ x \in Int
      BY <1>7, <1>9
    <3>2. x % bag = 0
      BY <1>4, <1>9, <3>1, NoRemainder
    <3> QED BY <1>2, <1>4, <3>1, <3>2, MultipleOfMultiple
  <2>3. y % s = 0
    BY <1>2, <1>9, NoRemainder
  <2>4. (RegionBase + x) % s = 0 /\ RegionBase + x \in Int /\ y \in Int
    <3>1. RegionBase \in Int /\ x \in Int /\ y \in Int
      BY <1>6, <1>7, <1>8, <1>9
    <3>2. (RegionBase + x) % s = 0
      BY <1>2, <2>1, <2>2, <3>1, SumOfMultiples
    <3>3. RegionBase + x \in Int
      BY <3>1
    <3> QED BY <3>1, <3>2, <3>3
  <2>5. (RegionBase + x + y) % s = 0
    BY <1>2, <2>3, <2>4, SumOfMultiples
  <2> QED BY <1>9, <2>5
<1>12. m = Block(a, c)
  BY <1>5, <1>9
<1>13. m.kind = "block" /\ m.addr = a /\ m.len = s
  BY <1>1, <1>12 DEF Block
<1>14. Word \in Nat /\ IsizeMax \in Int
  <2>1. WordBits \in 0 .. WordBits /\ WordBits - 1 \in 0 .. WordBits
    BY LayoutsAssumption
  <2> QED BY <2>1, Pow2Is DEF Word, IsizeMax
<1>15. m \in Stretches
  <2>1. a \in 0 .. Word - 1 /\ s \in 1 .. IsizeMax
    BY <1>2, <1>6, <1>10, <1>14
  <2> QED BY <1>1, <1>12, <2>1 DEF Block, Stretches
<1> QED BY <1>1, <1>10, <1>11, <1>12, <1>13, <1>15

\* A mapping of alloc_large_tracked has room for the header, the padding and the
\* object, and is outside the region.
MapFits(m, size, align) ==
  /\ m.addr \in MapBases /\ m.len \in 1 .. IsizeMax
  /\ m = Mapping(m.addr, m.len)
  /\ m.len >= HeaderSize + Maximum(align, HeaderAlign) - 1 + size
  /\ m.addr + m.len <= Word
  /\ Apart(m, Mapping(RegionBase, RegionSize))

\* The mappings an allocation may get are such.
LEMMA MappingIs ==
  ASSUME NEW size \in 1 .. IsizeMax, NEW align \in Aligns, NEW m \in Mappings(size, align)
  PROVE  MapFits(m, size, align)
<1>1. align \in Powers /\ Tolerance \in Nat
  BY NumaAllocAssumption
<1>2. PICK unit : unit = Maximum(align, HeaderAlign)
  OBVIOUS
<1>3. unit \in Nat \ {0}
  BY <1>1, <1>2, PaddingIs
<1>4. PICK need, want : need = LargeAllocSize(size, align) /\ want = HeaderSize + unit - 1 + size
  OBVIOUS
<1>5. /\ need # 0
      /\ m.addr + m.len <= Word /\ Apart(m, Mapping(RegionBase, RegionSize))
      /\ \E raw \in MapBases :
           \E len \in {need} \cup {l \in need + 1 .. need + Tolerance : l % PageSize = 0 /\ l <= IsizeMax} :
             m = Mapping(raw, len)
  <2> DEFINE close == {l \in need + 1 .. need + Tolerance : l % PageSize = 0 /\ l <= IsizeMax}
  <2>1. Mappings(size, align)
          = {n \in {Mapping(raw, len) : raw \in MapBases, len \in {need} \cup close} :
               /\ need # 0
               /\ n.addr + n.len <= Word
               /\ Apart(n, Mapping(RegionBase, RegionSize))}
    BY <1>4 DEF Mappings
  <2> HIDE DEF close
  <2>2. m \in {Mapping(raw, len) : raw \in MapBases, len \in {need} \cup close}
    BY <2>1
  <2>3. \E raw \in MapBases : \E len \in {need} \cup close : m = Mapping(raw, len)
    BY <2>2
  <2> QED BY <2>1, <2>3 DEF close
<1>6. want \in Nat /\ want >= 1 /\ PageSize \in Nat \ {0}
  BY <1>3, <1>4, LayoutsAssumption
<1>7. PICK rounded : rounded = AlignUp(want, PageSize)
  OBVIOUS
<1>8. rounded \in Int /\ want <= rounded
  <2>1. want \in Int
    BY <1>6
  <2> QED BY <1>6, <1>7, <2>1, NextMultiple DEF AlignUp
<1>9. need = rounded /\ rounded <= IsizeMax
  <2>1. need = IF rounded <= IsizeMax THEN rounded ELSE 0
    BY <1>2, <1>4, <1>7, Zenon DEF LargeAllocSize
  <2> QED BY <1>5, <2>1
<1>10. PICK raw \in MapBases, len \in {need} \cup {l \in need + 1 .. need + Tolerance : l <= IsizeMax} :
         m = Mapping(raw, len)
  BY <1>5
<1>11. IsizeMax \in Int
  <2>1. WordBits - 1 \in 0 .. WordBits
    BY LayoutsAssumption
  <2> QED BY <2>1, Pow2Is DEF IsizeMax
<1>12. len \in 1 .. IsizeMax /\ len >= want
  BY <1>1, <1>6, <1>8, <1>9, <1>10, <1>11
<1>13. m.addr = raw /\ m.len = len
  BY <1>10 DEF Mapping
<1> QED BY <1>2, <1>4, <1>5, <1>10, <1>12, <1>13 DEF MapFits

-----------------------------------------------------------------------------
(* The inductive invariant: an object lies in a block of the class its     *)
(* layout picks, at its start, or in a mapping that is large enough for    *)
(* it, behind a header that remembers the mapping.                         *)

LiesInBlock(o, m, h) ==
  /\ Effective(o.size, o.align) <= SmallLimit
  /\ m \in Blocks(SizeClassIndex(Effective(o.size, o.align)))
  /\ o.ptr = m.addr
  /\ h = NoHeader

LiesInMapping(o, m, h) ==
  /\ MapFits(m, o.size, o.align)
  /\ o.ptr = PayloadAddr(m.addr, o.align)
  /\ h = [at |-> o.ptr - HeaderSize, original |-> m.addr, size |-> m.len]

Lies(o, m, h) == o \in Objects /\ (LiesInBlock(o, m, h) \/ LiesInMapping(o, m, h))

Inv ==
  \/ obj = NULL /\ mem = NULL /\ header = NoHeader
  \/ Lies(obj, mem, header)

\* The numbers of a layout.
LEMMA LayoutIs ==
  ASSUME NEW size \in 1 .. IsizeMax, NEW align \in Aligns, NEW e, e = Effective(size, align)
  PROVE  /\ align \in Powers /\ align \in Nat \ {0} /\ size \in Nat \ {0}
         /\ e \in Nat \ {0} /\ size <= e /\ align <= e
         /\ IsizeMax \in Int /\ Word \in Nat
<1>1. align \in Powers
  BY NumaAllocAssumption
<1>2. align \in Nat \ {0}
  BY <1>1, Pow2Is DEF Powers
<1>3. IsizeMax \in Int /\ Word \in Nat
  <2>1. WordBits \in 0 .. WordBits /\ WordBits - 1 \in 0 .. WordBits
    BY LayoutsAssumption
  <2> QED BY <2>1, Pow2Is DEF Word, IsizeMax
<1>4. size \in Nat \ {0}
  BY <1>3
<1>5. e \in {size, align} /\ size <= e /\ align <= e
  BY <1>2, <1>4, MaximumIs DEF Effective
<1> QED BY <1>1, <1>2, <1>3, <1>4, <1>5

\* What an object in a block can rely on.
IsInBlock(o, m, c) ==
  /\ c \in 0 .. NumClasses - 1
  /\ m \in Stretches /\ m = Block(o.ptr, c) /\ m.kind = "block"
  /\ m.addr = o.ptr /\ m.len = SizeForClass(c)
  /\ m.len \in Nat /\ o.ptr \in 0 .. Word - 1
  /\ o.ptr + o.size <= m.addr + m.len
  /\ o.ptr % o.align = 0
  /\ IsOwned(o.ptr)
  /\ c = 0 \/ m.len < 2 * Effective(o.size, o.align)

LEMMA BlockHolds ==
  ASSUME NEW size \in 1 .. IsizeMax, NEW align \in Aligns,
         NEW e, e = Effective(size, align), e <= SmallLimit,
         NEW c, c = SizeClassIndex(e), NEW m \in Blocks(c), NEW o,
         o.size = size, o.align = align, o.ptr = m.addr
  PROVE  IsInBlock(o, m, c)
<1>1. /\ align \in Powers /\ align \in Nat \ {0} /\ size \in Nat \ {0}
      /\ e \in Nat \ {0} /\ size <= e /\ align <= e
      /\ IsizeMax \in Int /\ Word \in Nat
  BY LayoutIs
<1>2. PICK s : s = SizeForClass(c)
  OBVIOUS
<1>3. c \in 0 .. NumClasses - 1 /\ e <= s /\ (c = 0 \/ s < 2 * e)
  BY <1>1, <1>2, ClassIs
<1>4. s \in Powers /\ s \in Nat \ {0}
  BY <1>2, <1>3, ClassSizeIs
<1>5. PICK a : a = m.addr
  OBVIOUS
<1>6. /\ m \in Stretches /\ m = Block(a, c) /\ m.kind = "block" /\ m.len = s
      /\ a \in Nat /\ a >= RegionBase /\ a + s <= RegionBase + RegionSize /\ a % s = 0
  BY <1>2, <1>3, <1>5, BlockIs
<1>7. RegionBase \in Nat /\ RegionSize \in Nat /\ RegionBase + RegionSize <= Word
  BY NumaAllocAssumption
<1>8. a % align = 0
  <2>1. s % align = 0
    BY <1>1, <1>3, <1>4, PowersDivide
  <2>2. a \in Int
    BY <1>6
  <2> QED BY <1>1, <1>4, <1>6, <2>1, <2>2, MultipleOfMultiple
<1>9. IsOwned(a) /\ a \in 0 .. Word - 1 /\ a + size <= a + s
  BY <1>1, <1>3, <1>4, <1>6, <1>7 DEF IsOwned
<1> QED BY <1>2, <1>3, <1>4, <1>5, <1>6, <1>8, <1>9 DEF IsInBlock

\* And one in a mapping.
IsInMapping(o, m) ==
  /\ m \in Stretches /\ m = Mapping(m.addr, m.len) /\ m.kind = "map"
  /\ m.addr \in Nat /\ m.len \in 1 .. IsizeMax
  /\ o.ptr \in 0 .. Word - 1
  /\ o.ptr + o.size <= m.addr + m.len
  /\ o.ptr >= m.addr + HeaderSize
  /\ o.ptr % o.align = 0
  /\ (o.ptr - HeaderSize) % HeaderAlign = 0
  /\ ~ IsOwned(o.ptr)

LEMMA MappingHolds ==
  ASSUME NEW size \in 1 .. IsizeMax, NEW align \in Aligns, NEW m, MapFits(m, size, align), NEW o,
         o.size = size, o.align = align, o.ptr = PayloadAddr(m.addr, align)
  PROVE  IsInMapping(o, m)
<1>1. /\ align \in Powers /\ align \in Nat \ {0} /\ size \in Nat \ {0}
      /\ IsizeMax \in Int /\ Word \in Nat
  BY LayoutIs
<1>2. PICK raw, len, unit, ptr : /\ raw = m.addr /\ len = m.len /\ unit = Maximum(align, HeaderAlign)
                                 /\ ptr = PayloadAddr(raw, align)
  OBVIOUS
<1>3. /\ raw \in MapBases /\ len \in 1 .. IsizeMax /\ m = Mapping(raw, len)
      /\ len >= HeaderSize + unit - 1 + size /\ raw + len <= Word
      /\ Apart(Mapping(raw, len), Mapping(RegionBase, RegionSize))
  BY <1>2 DEF MapFits
<1>4. raw \in Nat
  BY <1>3, NumaAllocAssumption
<1>5. /\ ptr \in Int /\ ptr >= raw + HeaderSize /\ ptr <= raw + HeaderSize + unit - 1
      /\ ptr % align = 0 /\ (ptr - HeaderSize) % HeaderAlign = 0
  BY <1>1, <1>2, <1>4, PayloadIs
<1>6. unit \in Nat \ {0}
  BY <1>1, <1>2, PaddingIs
<1>7. HeaderSize \in Nat /\ RegionBase \in Nat /\ RegionSize \in Nat
  BY LayoutsAssumption, NumaAllocAssumption
<1>8. ptr + size <= raw + len /\ ptr \in 0 .. Word - 1
  BY <1>1, <1>3, <1>4, <1>5, <1>6, <1>7
<1>9. ~ IsOwned(ptr)
  <2>1. raw + len <= RegionBase \/ RegionBase + RegionSize <= raw
    BY <1>3 DEF Apart, Mapping
  <2> QED BY <1>1, <1>3, <1>4, <1>5, <1>7, <1>8, <2>1 DEF IsOwned
<1>10. m \in Stretches /\ m.kind = "map"
  <2>1. raw \in 0 .. Word - 1
    BY <1>1, <1>3, <1>4
  <2> QED BY <1>3, <2>1 DEF Mapping, Stretches
<1> QED BY <1>2, <1>3, <1>4, <1>5, <1>8, <1>9, <1>10 DEF IsInMapping

\* The two together, for an object of the program.
LEMMA Held ==
  ASSUME NEW o, NEW m, NEW h, Lies(o, m, h)
  PROVE  /\ o \in Objects /\ m \in Stretches
         /\ LiesInBlock(o, m, h) => IsInBlock(o, m, SizeClassIndex(Effective(o.size, o.align)))
         /\ LiesInMapping(o, m, h) => IsInMapping(o, m)
<1>1. o \in Objects /\ o.size \in 1 .. IsizeMax /\ o.align \in Aligns
  BY DEF Lies, Objects
<1>2. ASSUME LiesInBlock(o, m, h)
      PROVE  IsInBlock(o, m, SizeClassIndex(Effective(o.size, o.align)))
  BY <1>1, <1>2, BlockHolds DEF LiesInBlock
<1>3. ASSUME LiesInMapping(o, m, h) PROVE IsInMapping(o, m)
  BY <1>1, <1>3, MappingHolds DEF LiesInMapping
<1>4. m \in Stretches
  BY <1>2, <1>3 DEF Lies, IsInBlock, IsInMapping
<1> QED BY <1>1, <1>2, <1>3, <1>4


-----------------------------------------------------------------------------
(* Every call keeps it.                                                    *)

\* An object that alloc or realloc places lies where it should.
LEMMA Placed ==
  ASSUME NEW size \in 1 .. IsizeMax, NEW align \in Aligns, NEW place \in Places(size, align),
         Put(place, size, align)
  PROVE  Lies(obj', mem', header')
<1>1. PICK o, h : o = obj' /\ h = header' /\ mem' = place
  BY DEF Put
<1>2. PICK ptr : ptr = IF place.kind = "block" THEN place.addr ELSE PayloadAddr(place.addr, align)
  OBVIOUS
<1>3. /\ o = [ptr |-> ptr, size |-> size, align |-> align]
      /\ h = IF place.kind = "block" THEN NoHeader
             ELSE [at |-> ptr - HeaderSize, original |-> place.addr, size |-> place.len]
  BY <1>1, <1>2, Zenon DEF Put
<1>4. o.ptr = ptr /\ o.size = size /\ o.align = align
  BY <1>3
<1>5. PICK e, c : e = Effective(size, align) /\ c = SizeClassIndex(e)
  OBVIOUS
<1>6. CASE place \in Mappings(size, align)
  <2>1. MapFits(place, size, align)
    BY <1>6, MappingIs
  <2>2. place.kind = "map"
    BY <2>1 DEF MapFits, Mapping
  <2>3. ptr = PayloadAddr(place.addr, align)
    BY <1>2, <2>2
  <2>4. LiesInMapping(o, place, h)
    BY <1>3, <1>4, <2>1, <2>2, <2>3 DEF LiesInMapping
  <2>5. ptr \in 0 .. Word - 1
    BY <1>4, <2>1, <2>3, MappingHolds DEF IsInMapping
  <2> QED BY <1>1, <1>3, <2>4, <2>5 DEF Lies, Objects
<1>7. CASE e <= SmallLimit /\ place \in Blocks(c)
  <2>1. c \in 0 .. NumClasses - 1
    <3>1. e \in Nat \ {0}
      BY <1>5, LayoutIs
    <3> QED BY <1>5, <1>7, <3>1, ClassIs
  <2>2. place.kind = "block"
    BY <1>7, <2>1, BlockIs
  <2>3. ptr = place.addr
    BY <1>2, <2>2
  <2>4. LiesInBlock(o, place, h)
    BY <1>3, <1>4, <1>5, <1>7, <2>2, <2>3 DEF LiesInBlock
  <2>5. ptr \in 0 .. Word - 1
    BY <1>4, <1>5, <1>7, <2>3, BlockHolds DEF IsInBlock
  <2> QED BY <1>1, <1>3, <2>4, <2>5 DEF Lies, Objects
<1>8. place \in Mappings(size, align) \/ (e <= SmallLimit /\ place \in Blocks(c))
  <2>1. place \in Mappings(size, align) \cup (IF e > SmallLimit THEN {} ELSE Blocks(c))
    BY <1>5, Zenon DEF Places
  <2>2. e \in Nat /\ SmallLimit \in Nat
    <3>1. 0 \in 0 .. NumClasses - 1
      BY LayoutsAssumption
    <3> QED BY <1>5, <3>1, LayoutIs, ClassSizeIs
  <2> QED BY <2>1, <2>2
<1> QED BY <1>6, <1>7, <1>8

\* A block that realloc leaves in place is still the right one: a pointer in the
\* region is no mapping's, and the class is the one the new size picks.
LEMMA Resized ==
  ASSUME Lies(obj, mem, header), NEW size \in 1 .. IsizeMax, ReallocInPlace(size)
  PROVE  Lies(obj', mem', header')
<1>1. PICK o, m, h : o = obj /\ m = mem /\ h = header
  OBVIOUS
<1>2. Lies(o, m, h) /\ obj' = [o EXCEPT !.size = size] /\ mem' = m /\ header' = h
  BY <1>1 DEF ReallocInPlace
<1>3. PICK old, new : old = Effective(o.size, o.align) /\ new = Effective(size, o.align)
  OBVIOUS
<1>4. new <= SmallLimit /\ SizeClassIndex(old) = SizeClassIndex(new) /\ IsOwned(o.ptr)
  BY <1>1, <1>3, Zenon DEF ReallocInPlace, InPlace
<1>5. LiesInBlock(o, m, h)
  BY <1>2, <1>4, Held DEF Lies, IsInMapping
<1>6. PICK p : p = [o EXCEPT !.size = size]
  OBVIOUS
<1>7. p \in Objects /\ p.size = size /\ p.align = o.align /\ p.ptr = o.ptr
  BY <1>2, <1>6 DEF Lies, Objects
<1>8. LiesInBlock(p, m, h)
  BY <1>3, <1>4, <1>5, <1>7 DEF LiesInBlock
<1> QED BY <1>2, <1>6, <1>7, <1>8 DEF Lies

LEMMA InitHolds == Init => Inv
BY DEF Init, Inv

LEMMA StepHolds == Inv /\ [Next]_vars => Inv'
<1> SUFFICES ASSUME Inv, [Next]_vars PROVE Inv'
  OBVIOUS
<1>1. NULL \notin Objects
  BY NumaAllocAssumption
<1>2. obj # NULL => Lies(obj, mem, header) /\ obj \in Objects /\ obj.align \in Aligns
  BY DEF Inv, Lies, Objects
<1>3. CASE Dealloc
  BY <1>3 DEF Dealloc, Inv, NoHeader
<1>4. ASSUME NEW size \in 1 .. IsizeMax, NEW align \in Aligns, Alloc(size, align) PROVE Inv'
  <2>1. PICK place \in Places(size, align) : Put(place, size, align)
    BY <1>4 DEF Alloc
  <2>2. Lies(obj', mem', header')
    BY <2>1, Placed
  <2> QED BY <2>2 DEF Inv
<1>5. ASSUME NEW size \in 1 .. IsizeMax, ReallocInPlace(size) PROVE Inv'
  <2>1. Lies(obj', mem', header')
    BY <1>2, <1>5, Resized DEF ReallocInPlace
  <2> QED BY <2>1 DEF Inv
<1>6. ASSUME NEW size \in 1 .. IsizeMax, ReallocMove(size) PROVE Inv'
  <2>1. PICK align \in Aligns : align = obj.align
    BY <1>2, <1>6 DEF ReallocMove
  <2>2. PICK place \in Places(size, align) : Put(place, size, align)
    BY <1>6, <2>1 DEF ReallocMove
  <2>3. Lies(obj', mem', header')
    BY <2>2, Placed
  <2> QED BY <2>3 DEF Inv
<1>7. ASSUME UNCHANGED vars PROVE Inv'
  BY <1>7 DEF vars, Inv
<1>8. ASSUME NEW size \in 1 .. IsizeMax, ReallocFails(size) PROVE Inv'
  BY <1>7, <1>8 DEF ReallocFails
<1> QED BY <1>3, <1>4, <1>5, <1>6, <1>7, <1>8 DEF Next

-----------------------------------------------------------------------------
(* Theorems.                                                               *)

\* Through every sequence of alloc, realloc and dealloc the object lies in a block of
\* the class its layout picks, or in a mapping whose header remembers it.
THEOREM Safety == Spec => []Inv
BY InitHolds, StepHolds, PTL DEF Spec

\* Every pointer alloc and realloc return is a usize, and no block or mapping, nor
\* the size its header records, exceeds isize::MAX: large_alloc_size's check on the
\* rounded size and the cache's tolerance together keep to it.
THEOREM TypeCorrect == Spec => []TypeOK
<1>1. Inv => TypeOK
  <2> SUFFICES ASSUME Inv PROVE TypeOK
    OBVIOUS
  <2>1. IsizeMax \in Nat
    <3>1. WordBits - 1 \in 0 .. WordBits
      BY LayoutsAssumption
    <3> QED BY <3>1, Pow2Is DEF IsizeMax
  <2>2. CASE obj = NULL /\ mem = NULL /\ header = NoHeader
    BY <2>1, <2>2 DEF TypeOK, NoHeader
  <2>3. CASE Lies(obj, mem, header)
    <3>1. obj \in Objects /\ mem \in Stretches
      BY <2>3, Held
    <3>2. obj # NULL /\ mem # NULL
      BY <3>1, NumaAllocAssumption
    <3>3. header.size \in 0 .. IsizeMax
      <4>1. CASE LiesInBlock(obj, mem, header)
        BY <2>1, <4>1 DEF LiesInBlock, NoHeader
      <4>2. CASE LiesInMapping(obj, mem, header)
        <5>1. header.size = mem.len /\ mem.len \in 1 .. IsizeMax
          BY <4>2 DEF LiesInMapping, MapFits
        <5> QED BY <2>1, <5>1
      <4> QED BY <2>3, <4>1, <4>2 DEF Lies
    <3> QED BY <3>1, <3>2, <3>3 DEF TypeOK
  <2> QED BY <2>2, <2>3 DEF Inv
<1> QED BY <1>1, Safety, PTL

\* For every layout the object stays inside its block or mapping and behind its
\* header: what size_class_index, large_alloc_size and prepare_large_payload compute
\* is enough, and realloc grows in place only within a block.
THEOREM Fits == Spec => []ObjectFits
<1>1. Inv => ObjectFits
  <2> SUFFICES ASSUME Inv, obj # NULL
               PROVE  /\ obj.ptr + obj.size <= mem.addr + mem.len
                      /\ obj.ptr >= mem.addr + (IF mem.kind = "map" THEN HeaderSize ELSE 0)
    BY DEF ObjectFits
  <2>1. Lies(obj, mem, header)
    BY DEF Inv
  <2>2. CASE LiesInBlock(obj, mem, header)
    <3>1. IsInBlock(obj, mem, SizeClassIndex(Effective(obj.size, obj.align)))
      BY <2>1, <2>2, Held
    <3>2. /\ mem.kind # "map" /\ mem.addr = obj.ptr /\ obj.ptr \in Int
          /\ obj.ptr + obj.size <= mem.addr + mem.len
      BY <3>1 DEF IsInBlock
    <3> QED BY <3>2
  <2>3. CASE LiesInMapping(obj, mem, header)
    BY <2>1, <2>3, Held DEF IsInMapping
  <2> QED BY <2>1, <2>2, <2>3 DEF Lies
<1> QED BY <1>1, Safety, PTL

\* For every power of two the pointer is aligned as its layout asks, whichever path
\* alloc took, and the LargeHeader that is read and written in front of it as well.
THEOREM Aligned == Spec => []ObjectAligned
<1>1. Inv => ObjectAligned
  <2> SUFFICES ASSUME Inv, obj # NULL
               PROVE  /\ obj.ptr % obj.align = 0
                      /\ header # NoHeader => header.at % HeaderAlign = 0
    BY DEF ObjectAligned
  <2>1. Lies(obj, mem, header)
    BY DEF Inv
  <2>2. CASE LiesInBlock(obj, mem, header)
    <3>1. IsInBlock(obj, mem, SizeClassIndex(Effective(obj.size, obj.align)))
      BY <2>1, <2>2, Held
    <3> QED BY <2>2, <3>1 DEF IsInBlock, LiesInBlock
  <2>3. CASE LiesInMapping(obj, mem, header)
    <3>1. IsInMapping(obj, mem) /\ header.at = obj.ptr - HeaderSize
      BY <2>1, <2>3, Held DEF LiesInMapping
    <3> QED BY <3>1 DEF IsInMapping
  <2> QED BY <2>1, <2>2, <2>3 DEF Lies
<1> QED BY <1>1, Safety, PTL

\* dealloc, which is told a pointer and a layout only, finds the block's class or the
\* mapping's whole extent: is_owned tells a block from a mapping that was handed out
\* for a small layout.
THEOREM FreedWhereAllocated == Spec => []FreedAsAllocated
<1>1. Inv => FreedAsAllocated
  <2> SUFFICES ASSUME Inv, obj # NULL
               PROVE  DeallocTarget(obj.ptr, obj.size, obj.align) = mem
    BY DEF FreedAsAllocated
  <2>1. Lies(obj, mem, header)
    BY DEF Inv
  <2>2. PICK e, ptr : e = Effective(obj.size, obj.align) /\ ptr = obj.ptr
    OBVIOUS
  <2>3. DeallocTarget(obj.ptr, obj.size, obj.align)
          = IF e > SmallLimit \/ ~ IsOwned(ptr) THEN FromHeader(ptr) ELSE Block(ptr, SizeClassIndex(e))
    BY <2>2, Zenon DEF DeallocTarget
  <2>4. CASE LiesInBlock(obj, mem, header)
    <3>1. IsOwned(ptr) /\ mem = Block(ptr, SizeClassIndex(e))
      BY <2>1, <2>2, <2>4, Held DEF IsInBlock
    <3>2. ~ (e > SmallLimit)
      <4>1. e <= SmallLimit
        BY <2>2, <2>4 DEF LiesInBlock
      <4>2. e \in Nat /\ SmallLimit \in Nat
        <5>1. obj.size \in 1 .. IsizeMax /\ obj.align \in Aligns
          BY <2>1 DEF Lies, Objects
        <5>2. 0 \in 0 .. NumClasses - 1
          BY LayoutsAssumption
        <5> QED BY <2>2, <5>1, <5>2, LayoutIs, ClassSizeIs
      <4> QED BY <4>1, <4>2
    <3> QED BY <2>3, <3>1, <3>2
  <2>5. CASE LiesInMapping(obj, mem, header)
    <3>1. ~ IsOwned(ptr) /\ mem = Mapping(mem.addr, mem.len)
      BY <2>1, <2>2, <2>5, Held DEF IsInMapping
    <3>2. header.at = ptr - HeaderSize /\ header.original = mem.addr /\ header.size = mem.len
      BY <2>2, <2>5 DEF LiesInMapping
    <3>3. FromHeader(ptr) = mem
      BY <3>1, <3>2 DEF FromHeader
    <3> QED BY <2>3, <3>1, <3>3
  <2> QED BY <2>1, <2>4, <2>5 DEF Lies
<1> QED BY <1>1, Safety, PTL

\* The class that size_class_index picks is the smallest that fits, so a block is
\* shorter than twice the larger of size and alignment, after reallocs in place too.
THEOREM SmallWaste == Spec => []SmallWasteBounded
<1>1. Inv => SmallWasteBounded
  <2> SUFFICES ASSUME Inv, obj # NULL, mem.kind = "block"
               PROVE  mem.len = SizeForClass(0) \/ mem.len < 2 * Effective(obj.size, obj.align)
    BY DEF SmallWasteBounded
  <2>1. Lies(obj, mem, header)
    BY DEF Inv
  <2>2. CASE LiesInBlock(obj, mem, header)
    <3>1. IsInBlock(obj, mem, SizeClassIndex(Effective(obj.size, obj.align)))
      BY <2>1, <2>2, Held
    <3> QED BY <3>1 DEF IsInBlock
  <2>3. CASE LiesInMapping(obj, mem, header)
    BY <2>1, <2>3, Held DEF IsInMapping
  <2> QED BY <2>1, <2>2, <2>3 DEF Lies
<1> QED BY <1>1, Safety, PTL
=============================================================================
