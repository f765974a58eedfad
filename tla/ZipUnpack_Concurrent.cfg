CONSTANTS
    Procs = {p1, p2}
    NFiles = 2
    NumDirs = 1
    MaxCalls = 2
    MaxCrashes = 0
    MaxFailures = 0
SPECIFICATION Spec
INVARIANT PublishedComplete
