SPECIFICATION Spec
CONSTANTS
    MaxPr = 2
    MaxRetries = 1
    MaxAttempts = 2
    VerifyOn = TRUE
    VerifierOn = FALSE
    MaxFaults = 1
    MaxCrashes = 1
    Human = {"unclaim"}
INVARIANTS AttemptLimit
PROPERTIES LandedAlone RunEnds
CHECK_DEADLOCK FALSE
