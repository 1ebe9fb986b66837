\* Every file of up to 11 bytes in clusters of two sectors of four bytes, with every
\* placing of line ends; lines of three characters.
CONSTANTS
  SectorSize = 4
  SectorsPerCluster = 2
  CatChunk = 3
  LineMax = 3
  MaxSize = 11
  Garbage = {0, 1}
  Faults = TRUE
SPECIFICATION FairSpec
INVARIANTS CatPrintsFile StreamsTheScript
PROPERTY AlignedScriptsEnd
CHECK_DEADLOCK FALSE
