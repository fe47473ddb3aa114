SPECIFICATION FairSpec
CONSTANTS
  Threads = {t1, t2}
  RegionBlocks = 3
  BagObjects = 3
  RefillBatch = 1
  CacheLimit = 2
  TagModulus = 2
  NULL = NULL
  UserData = UserData
PROPERTY LockFree
