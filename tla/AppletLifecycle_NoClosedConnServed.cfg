CONSTANTS
    Threads = {t1, t2}
    Names = {n1}
    MaxCalls = 2
SPECIFICATION Spec
INVARIANT NoClosedConnServed
