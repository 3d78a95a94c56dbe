CONSTANTS
  theheap = 4
  Start = 64
  HeapSize = 120
  pg_size = 8
  Sizes <- MCSizes
  Aligns <- MCAligns
SPECIFICATION Spec
PROPERTY ImplementsAllocator
