SPECIFICATION Spec
CONSTANTS
    Limit = 1
    BufSize = 2
    PipeCap = 2
    Plans <- MCPlans
    Endless = {}
    ClosedSets <- MCClosedSets
INVARIANTS TypeOK OutputExact NothingLeftBehind IInv OutputDelivered
PROPERTIES KillsOwnChild Returns KeepsContract
