SPECIFICATION FairSpec
CONSTANTS
  Threads = {t1, t2}
  RegionBlocks = 2
  BagObjects = 1
  RefillBatch = 1
  CacheLimit = 2
  TagModulus = 1
  NULL = NULL
  UserData = UserData
PROPERTY PushIsWaitFree
