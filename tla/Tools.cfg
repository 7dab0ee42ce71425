SPECIFICATION Spec
CONSTANTS
    NBlk = 11
    Sizes <- MCSizes
    Others = {4}
    MaxRefresh = 2
    MaxTries = 2
    BlksPerPx = 3
    Places <- MCPlaces
INVARIANT OffersFree
PROPERTIES MovesAsTold GivesUpOnlyFull Terminates StepsAreMoves
