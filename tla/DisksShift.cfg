\* A CD drive and a hard disk at boot, and a hard disk that only a scan finds and
\* that two scans register twice; the registry and the VFS table overflow.
CONSTANTS
  Sata = {1, 2}
  Atapi = {0}
  FirstExt = 2
  LastPort = 2
  HasInitrd = TRUE
  RamDisk = RamDisk
  MaxDisks = 4
  MaxNodes = 3
  MaxMounts = 2
  Opened = {0, 4}
  NoVolume = NoVolume
SPECIFICATION Spec
INVARIANT WritesStayHome
CHECK_DEADLOCK FALSE
