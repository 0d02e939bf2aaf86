SPECIFICATION Safety
CONSTANTS
    MaxPr = 2
    MaxRetries = 1
    MaxAttempts = 2
    VerifyOn = TRUE
    VerifierOn = TRUE
    MaxFaults = 0
    MaxCrashes = 0
    Human = {"promote", "close", "push", "merge", "clear", "rebuild"}
INVARIANTS TypeOK NoForbiddenPublished ReadyIsReviewed PullRequestRecorded ClaimReleased
PROPERTIES ReadyPrUntouched HumanCommitsKept
CHECK_DEADLOCK FALSE
