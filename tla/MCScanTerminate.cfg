SPECIFICATION Spec
CONSTANTS
    Obj = {1, 2, 3}
    Root = 1
    Scenarios <- MCVerdictScenarios
    MaxFrames = 12
PROPERTY TerminateStops
