SPECIFICATION Spec
CONSTANTS
    LineBytes = 2
    Ents = 2
    NBytes = 7
    BitsPerByte = 1
    MaxAccess = 2
    MaxBulk = 2
INVARIANTS TypeOK Coherent FaultsOnlyInTail BitWriteExact
PROPERTY Implements
