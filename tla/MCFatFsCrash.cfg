\* One crash between any two sector writes, one sector write that fails, a
\* reader held across yields, malloc returning NULL.
CONSTANTS
  MaxCluster = 5
  SectorsPerCluster = 1
  SlotsPerSector = 2
  FileNames = {f}
  DirNames = {d}
  Streams = {s}
  MaxWrite = 2
  MaxCrashes = 1
  MaxFailures = 1
  Faults = TRUE
  ZeroData = FALSE
  NoFile = NoFile
  Top = Top
SPECIFICATION Spec
INVARIANTS DamageBounded EntryBacked UniqueNames ReadersAlone
CHECK_DEADLOCK FALSE
