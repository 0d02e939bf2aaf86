SPECIFICATION Safety
CONSTANTS
    MaxPr = 2
    MaxRetries = 1
    MaxAttempts = 2
    VerifyOn = TRUE
    VerifierOn = FALSE
    MaxFaults = 0
    MaxCrashes = 0
    Human = {}
INVARIANT NoForbiddenLanded
CHECK_DEADLOCK FALSE
