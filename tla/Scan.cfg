SPECIFICATION Spec
CONSTANTS
    MaxDeviations = 2
    Epochs <- AnyEpoch
    TailCanBeLost = TRUE
INVARIANTS TypeOK NeverBetterThanTruth BlockedIsReal GapsPreventReady HealthyIsReady ReportExplainsExit IInv
