SPECIFICATION OrderSpec
CONSTANTS
  Threads = {t1, t2, t3}
  RegionBlocks = 3
  BagObjects = 1
  RefillBatch = 1
  CacheLimit = 2
  TagModulus = 1
  NULL = NULL
  UserData = UserData
SYMMETRY Symmetry
INVARIANT OrderedAccesses
PROPERTIES
  StackLinksFrozen
  ImplementsPool
