\* Slab 0 and the slab of one task, small enough to fill up; two sizes of heap
\* blocks, and strings of up to 7 and of 24 to 31 characters.
CONSTANTS
  MemoryMaps <- Maps
  PageBytes = 2
  SlabPages = 2
  MaxSlabs = 2
  PageWords = 8
  HeapSizes = {2, 4}
  ObjectSizes = {2, 5}
  DmaWords = 8
  MaxHolders = 2
SPECIFICATION Spec
INVARIANTS TypeOK BlocksDisjoint HeapSurvivesRelease CountsAreTrue BuffersBounded
CHECK_DEADLOCK FALSE
