\* No read fails and malloc gives memory.
CONSTANTS
  SectorSize = 4
  SectorsPerCluster = 2
  CatChunk = 3
  LineMax = 3
  MaxSize = 11
  Garbage = {0, 1}
  Faults = FALSE
SPECIFICATION FairSpec
PROPERTY CatReturns
CHECK_DEADLOCK FALSE
