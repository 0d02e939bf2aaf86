SPECIFICATION SerialSpec
CONSTANTS
    Runner = {p1, p2, p3}
    Repairer = {r1}
    NoFile = NoFile
    Gone = Gone
    MaxCrashes = 2
INVARIANTS MutualExclusion HolderOwnsFile
PROPERTIES DeadLockRecovered AcquireSettles ExclusiveRunsSpec
