\* Two goroutines on one key: singleflight sharing, the hit path's in-place
\* recompile after an expired check (two expired checks fit in the clock
\* bound: at ticks 2 and 4), Clean, and the file written, deleted and moved
\* back.
CONSTANTS
    Threads = {t1, t2}
    Holders = {h1}
    Paths = {p1}
    CheckDuration = 1
    MaxTime = 4
    MaxVersion = 1
    MaxCleans = 1
SPECIFICATION Spec
INVARIANT TypeOK
INVARIANT CheckedEntryIsCurrent
