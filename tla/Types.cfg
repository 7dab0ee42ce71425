SPECIFICATION Spec
CONSTANTS
    DevSize = 16
    OriginType = "Sb"
    Prim = "prim"
    Named = {"Ent"}
    Content <- mcContent
    Handles = {1, 2}
    NoLimit = 99
    Fds = {1}
    Number <- mcNumber
    Paths <- mcPaths
    MaxIo = 3
    IO_MAX_ACCESS = 2
    MaxElem = 3
    Requests <- mcRequests
    Bare <- mcBare
    KNumber <- mcNumber
    KNames <- mcKNames
    BufEnts = {1, 3}
    MaxHeld = 2
    HNames <- mcHNames
    HIdx = {0, 1}
INVARIANTS
    HeapSound FuseExact MenusAgree ModifyExact KernelFiles
CHECK_DEADLOCK FALSE
