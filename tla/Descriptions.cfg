SPECIFICATION DescSpec
CONSTANTS
    NDir = 2
    Bpi = 4
    MaxBlocks = 21
    Width = 65536
    NClus = 8
    FatCount = 2
    DeC = 5
    RootC = 2
    Bpc = 2
    LogEntries = 14
    Volumes <- MCVolumes
    MaxMoves = 3
    MaxStops = 1
INVARIANTS MapExact KeepsData DotsRight FsckSettles
