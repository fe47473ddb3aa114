SPECIFICATION FairSpec
CONSTANTS
  Threads = {t1, t2}
  NumNodes = 2
  RegionSize = 3
  MinRegionSize = 4
  BagSizes <- MCBagSizes
  MapBases <- MCMapBases
INVARIANTS
  TypeOK
  BagsDisjoint
  BagsFoundAgain
  BagsAligned
  PlacementIndependent
PROPERTY CarveEnds
