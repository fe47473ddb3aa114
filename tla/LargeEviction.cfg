SPECIFICATION SpecHistory
CONSTANTS
  Threads = {t1}
  Heaps = {h1}
  Maps = {m1, m2, m3}
  Sizes = {1, 2, 3, 5}
  CacheSlots = 2
  MaxCacheBytes = 4
  Tolerance = 1
  MadviseThreshold = 3
PROPERTY EvictsOldest
