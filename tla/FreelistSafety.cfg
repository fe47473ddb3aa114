SPECIFICATION Spec
CONSTANTS
  Threads = {t1, t2}
  RegionBlocks = 5
  BagObjects = 5
  RefillBatch = 2
  CacheLimit = 4
  TagModulus = 1
  NULL = NULL
  UserData = UserData
SYMMETRY Symmetry
INVARIANTS
  TypeOK
  OneOwner
  NoneLost
  FreelistAgrees
  LinksReadAreOwned
  ExitReturnsAll
