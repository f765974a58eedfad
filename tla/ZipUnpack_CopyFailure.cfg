\* One importer, no crash, one failed io.Copy: the failure of the first
\* file is overwritten by the second file's err.
CONSTANTS
    Procs = {p1}
    NFiles = 2
    NumDirs = 1
    MaxCalls = 2
    MaxCrashes = 0
    MaxFailures = 1
SPECIFICATION Spec
PROPERTY AtomicInstallSpec
