SPECIFICATION Spec
CONSTANTS
    Parts = {"volume", "paths", "open"}
    ClusterCount = 3
    SectorsPerCluster = 2
    SlotsPerSector = 2
    FatCopies = 1
    Names = {"A", "b"}
    LfnCount <- MCLfnCount
    Alias <- MCAlias
    Values = {"x"}
    MaxSectors = 3
    MaxDepth = 2
    FaultyOps = {"write", "mkdir", "delete", "rmdir"}
    MaxFileSize = 1
    NodeLimits = {3, 4}
    Pids = {p1, p2}
    OpenLimit = 2
    HandleLimit = 1
    FilePaths <- MCFilePaths
    DirPaths <- MCDirPaths
    Modes <- MCModes
    MaxPosition = 1
    MaxShared = 0
    MaxInside = 1
INVARIANTS TreesSound
  
SYMMETRY AnyPid
VIEW ApartFromSuccess
CHECK_DEADLOCK FALSE
