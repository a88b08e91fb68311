CONSTANTS
  HEAP_SIZE = 144
  HEADER = 16
  MIN_SPLIT = 16
  ALIGN = 4
  WORD = 1024
  Sizes = {0, 3, 20}
  Alignments = {32}
SPECIFICATION Spec
INVARIANTS
  Tiled
  LiveInBlocks
  Disjoint
PROPERTY ImplementsAllocator
CHECK_DEADLOCK FALSE
