CONSTANTS
  metasize = 1
  HeapEnd = 8
  Sizes = {0, 1, 2, 3, 4, 5}
SPECIFICATION MmSpec
INVARIANTS
  NoOverlap
CHECK_DEADLOCK FALSE
