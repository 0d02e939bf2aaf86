SPECIFICATION Spec
CONSTANTS
    IssuePr = {p1}
    SyncPr = {s1}
    NoPr = NoPr
    Head = {h1, h2}
    FirstHead = h1
    Budget = 2
    MaxPulls = 1
    MaxEvents = 2
    Human = {"push", "talk", "drift", "vet", "close", "merge", "reopen", "promote"}
INVARIANTS PendingHasBudget SuccessExamined GivenUpIsRecorded
PROPERTIES JobsSettle RegressionNoticed Quiesces
CHECK_DEADLOCK FALSE
