SPECIFICATION Spec
CONSTANTS
    MaxDeviations = 1
    Epochs <- AnyEpoch
    TailCanBeLost = FALSE
INVARIANT UnknownIsNeverReady
