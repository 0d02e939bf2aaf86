SPECIFICATION Spec
CONSTANTS
    Issues = 2
    MaxIssues = 2
    MaxOpen = 1
    WipLimit = 2
CONSTRAINT OneAtATime
INVARIANTS
    TaintRemembered
    WorkCovered
    NewWorkWithinLimit
