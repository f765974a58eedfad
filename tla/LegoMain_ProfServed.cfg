CONSTANTS
    Invocations = {"help", "showmod", "repl", "trans", "compile", "script", "compiled"}
    Handlers = {h1, h2}
    Flags = {"prof"}
    MaxPools = 2
    MaxSignals = 2
SPECIFICATION Spec
CHECK_DEADLOCK FALSE
INVARIANT ProfServed
