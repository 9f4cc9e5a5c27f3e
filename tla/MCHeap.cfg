CONSTANTS
  POOL = 32
  HDR = 4
  MIN_SPLIT = 4
  ALIGN = 2
  SIZE_WRAP = 64
  Requests = {0, 1, 4, 7, 28, 50}

SPECIFICATION FairSpec

INVARIANTS
  TypeOK
  Tiling
  UsedIffOwned
  AtLeastSize
  Coalesced

PROPERTIES
  OwnedUntouched
  NoFalseOom
  KmallocReturns
