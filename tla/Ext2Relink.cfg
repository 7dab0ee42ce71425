SPECIFICATION Spec
CONSTANTS
    NDir = 2
    Bpi = 4
    MaxBlocks = 21
    Width = 65536
INVARIANT RelinksEverySelected
