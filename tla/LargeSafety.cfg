SPECIFICATION Spec
CONSTANTS
  Threads = {t1, t2}
  Heaps = {h1, h2}
  Maps = {m1, m2, m3}
  Sizes = {1, 2, 3, 5}
  CacheSlots = 2
  MaxCacheBytes = 4
  Tolerance = 1
  MadviseThreshold = 3
SYMMETRY Symmetry
INVARIANTS
  TypeOK
  OwnedOnce
  ExtentRemembered
  CacheAccounted
  ZeroedIsZero
  WasteBounded
PROPERTY CacheServesItsHeap
