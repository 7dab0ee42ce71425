SPECIFICATION Spec
CONSTANTS
    Obj = {1, 2, 3}
    Root = 1
    Scenarios <- MCScenarios
    MaxFrames = 12
INVARIANTS Accounted VisitsInOrder
PROPERTY Terminates
