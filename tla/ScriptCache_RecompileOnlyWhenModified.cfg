\* Two goroutines, one key; TLC searches for a violation of RecompileOnlyWhenModified.
CONSTANTS
    Threads = {t1, t2}
    Holders = {h1}
    Paths = {p1}
    CheckDuration = 1
    MaxTime = 4
    MaxVersion = 2
    MaxCleans = 0
SPECIFICATION Spec
PROPERTY RecompileOnlyWhenModified
