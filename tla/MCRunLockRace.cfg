SPECIFICATION Spec
CONSTANTS
    Runner = {p1, p2}
    Repairer = {}
    NoFile = NoFile
    Gone = Gone
    MaxCrashes = 0
INVARIANT MutualExclusion
