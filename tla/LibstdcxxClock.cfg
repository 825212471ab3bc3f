SPECIFICATION Spec
CONSTANTS
    MaxDeviations = 0
    Epochs <- LibstdcxxEpoch
    TailCanBeLost = FALSE
INVARIANT HealthyExitsZero
