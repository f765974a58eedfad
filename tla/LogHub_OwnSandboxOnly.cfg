CONSTANTS
    Names = {"s1", "s2"}
    Conns = {v1}
    Lvls = {"info", "error"}
    None = None
    Cap = 1
    MaxFires = 2
    MaxCmds = 0
SPECIFICATION Spec
INVARIANT OwnSandboxOnly
CHECK_DEADLOCK FALSE
