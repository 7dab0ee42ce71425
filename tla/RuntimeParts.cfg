SPECIFICATION RtSpec
CONSTANTS
    W = 3
    Size = 8
    ByteBits = 4
    WordBytes = 8
    LineBytes = 8
    DevBytes = 24
    AccessOffs = {0, 1, 2, 3, 4, 28, 29, 30, 31, 32, 33, 34, 35, 36}
    MaxElems = 2
    Kinds = {"hit", "write"}
    HitBits = 2
    ImageBits = 14
    BlkBits = 8
    UintMod = 64
    LOG_BUF_ENTS = 2
    TraceAddrs = {1, 9, 12}
    Leftovers = {0, 5}
    MaxEvents = 3
    Layouts <- mcLayouts
    CacheEnts = 2
    DevSize = 16
    HdrSize = 2
    MaxIdx = 4
    Spare = {12}
INVARIANTS FindsFirst WordsExact TraceExact XlateExact NthTiles
PROPERTY RangesExact
CHECK_DEADLOCK FALSE
