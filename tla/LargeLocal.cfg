SPECIFICATION Spec
CONSTANTS
  WordBits = 7
  MinShift = 1
  NumClasses = 3
  BagSize = 8
  PageSize = 4
  HeaderSize = 2
  HeaderAlign = 2
  CacheSlots = 2
  MaxCacheBytes = 28
  Tolerance = 4
  Threads = {t1, t2}
  NumNodes = 2
  RegionBase = 16
  RegionSize = 16
  Maps <- MCMaps
  Top = 80
  RefillBatch = 1
  CacheFloor = 2
  CacheCeil = 2
  Sizes <- MCSizes
  Requests <- MCRequests
  MaxCalls = 3
  MaxExits = 0
CHECK_DEADLOCK FALSE
PROPERTY LargeIsLocal
