\* One importer, three calls, up to two crashes at any point and two failed
\* io.Copy calls, on an archive with one directory entry and two files.
CONSTANTS
    Procs = {p1}
    NFiles = 2
    NumDirs = 1
    MaxCalls = 3
    MaxCrashes = 2
    MaxFailures = 2
SPECIFICATION Spec
PROPERTY ExtractedOnceSpec
