SPECIFICATION Spec
CONSTANTS
  HEAP_START = 3
  HEAP_END = 32
  PAGESIZE = 8
  MIN_LARGE_SIZE = 8
  MAX_FAST_SIZE = 5
  DEFAULT_MXFAST = 3
  NBINS = 16
  THRESHOLD = 24
  SIZE_RANGE = 48
  MAX_BLOCKS = 2
  Requests = {3}
  Resizes = {7, 40}
  Alignments = {8}
  Options <- MoreFast
  Elements <- LargeElements
  FOREIGN = 8
INVARIANTS
  HeapSound
  BlocksKept
  NothingLost
  RefusedOnlyWhenFull
