CONSTANTS
    Names = {"s1"}
    Conns = {v1}
    Lvls = {"info", "error"}
    None = None
    Cap = 1
    MaxFires = 2
    MaxCmds = 2
SPECIFICATION Spec
PROPERTY FiresComplete
CHECK_DEADLOCK FALSE
