CONSTANTS
    Procs = {p1, p2}
    Names = {n1, n2, n3}
    MemNames = {n3}
    Dirs = {n1}
SPECIFICATION Spec
INVARIANTS TypeOK NoLeakedDB
