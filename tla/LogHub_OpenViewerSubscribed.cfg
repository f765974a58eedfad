CONSTANTS
    Names = {"s1"}
    Conns = {v1, v2}
    Lvls = {"info", "error"}
    None = None
    Cap = 1
    MaxFires = 2
    MaxCmds = 2
SPECIFICATION Spec
INVARIANT OpenViewerSubscribed
CHECK_DEADLOCK FALSE
