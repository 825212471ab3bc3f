SPECIFICATION Spec
CONSTANTS
    Limit = 4
    BufSize = 2
    PipeCap = 2
    Plans <- MCOneStream
    Endless = {}
    ClosedSets <- MCNoneClosed
INVARIANT CompleteOutput
