SPECIFICATION Spec
CONSTANTS
    MaxEntries = 2
    NBlk = 6
    BlksPerGrp = 3
    BitAddOffset = 1
    NDir = 1
    NInd = 1
    Others = {4}
    MaxKills = 1
INVARIANTS FileIntact CountsAtRest
PROPERTIES Finishes MovesSafely
