SPECIFICATION Spec
CONSTANTS
    Limit = 1
    BufSize = 2
    PipeCap = 2
    Plans <- MCOneStream
    Endless = {"out"}
    ClosedSets <- MCNoneClosed
PROPERTY Returns
