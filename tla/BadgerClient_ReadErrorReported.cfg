CONSTANTS
    x = x
    y = y
    notBytes = notBytes
    Vals = {x, y}
    NotBytes = notBytes
    NsPerSec = 2
    Ttls = {0, 1, 3}
    MaxNow = 4
    MaxFaults = 1
    Offsets = {0, 1, 2}
    DefaultLimit = 100
    Procs = {p1}
    Dirs = {"d"}
    Files = {"f"}
    MaxBackups = 1
SPECIFICATION Spec
INVARIANT ReadErrorReported
