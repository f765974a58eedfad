CONSTANTS
    Procs = {p1, p2}
    Drivers = {"mysql", "mssql"}
    MaxStmts = 3
    OpenLimits = {1}
    MaxLines = 2
SPECIFICATION Spec
INVARIANT RowsReleased
