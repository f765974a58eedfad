\* Two script goroutines racing the first compile, one database name,
\* two script runs, and one Shutdown at any point.
CONSTANTS
    Threads = {t1, t2}
    Names = {n1}
    MaxCalls = 2
SPECIFICATION Spec
INVARIANT TypeOK
INVARIANT ScriptAfterInit
INVARIANT StopClosesOpened
