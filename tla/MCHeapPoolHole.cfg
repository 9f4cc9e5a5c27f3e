CONSTANTS
  PAGE = 2
  BITMAP_QWORDS = 6
  BITS = 2
  RESERVED = 1
  MemMaps <- MCMemMaps
  HEAP_PAGES = 3

SPECIFICATION PoolSpec

INVARIANT PoolBacked
