\* One command after the other: no crash, no reader across yields, no failed malloc.
CONSTANTS
  MaxCluster = 6
  SectorsPerCluster = 2
  SlotsPerSector = 2
  FileNames = {f, g}
  DirNames = {d}
  Streams = {}
  MaxWrite = 3
  MaxCrashes = 0
  MaxFailures = 0
  Faults = FALSE
  ZeroData = FALSE
  NoFile = NoFile
  Top = Top
SPECIFICATION Spec
INVARIANTS TypeOK NoCrossLink NoDangling WritePersists
PROPERTY ImplementsFileStore
CHECK_DEADLOCK FALSE
