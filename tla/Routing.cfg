SPECIFICATION Spec
CONSTANTS
  WordBits = 7
  MinShift = 1
  NumClasses = 4
  BagSize = 8
  PageSize = 8
  HeaderSize = 4
  HeaderAlign = 2
  Tolerance = 8
  RegionBase = 32
  RegionSize = 32
  MapBases <- MCMapBases
  Aligns <- MCAligns
  NULL = NULL
INVARIANTS
  TypeOK
  ObjectFits
  ObjectAligned
  FreedAsAllocated
  SmallWasteBounded
