SPECIFICATION Spec
CONSTANTS
    Runner = {r1, r2}
    NoOne = NoOne
    Gone = Gone
    MaxIterations = 2
    GateOn = TRUE
    Overlap = FALSE
    MaxFaults = 1
INVARIANTS RecordedIssues OneOpenIssue RunLeavesEnd
PROPERTIES RunnerSettles GoalLifeSpec
CHECK_DEADLOCK FALSE
