CONSTANTS
  PAGE = 2
  BITMAP_QWORDS = 6
  BITS = 2
  RESERVED = 1
  MemMaps <- MCMemMaps
  HEAP_PAGES = 3

SPECIFICATION PoolSpec

INVARIANTS
  FreeCountExact
  UsedNeverNegative
  PagesConserved
  PoolExclusive
  PoolKept

PROPERTY LowestFirst
