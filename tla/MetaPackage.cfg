SPECIFICATION Spec
CONSTANTS
    MaxDeviations = 2
    Epochs <- AnyEpoch
    TailCanBeLost = FALSE
INVARIANT FallbackIsReal
