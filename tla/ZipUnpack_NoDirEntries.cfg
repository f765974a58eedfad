CONSTANTS
    Procs = {p1}
    NFiles = 2
    NumDirs = 0
    MaxCalls = 2
    MaxCrashes = 0
    MaxFailures = 0
SPECIFICATION Spec
INVARIANT ErrorOnlyOnFailure
