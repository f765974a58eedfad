\* Spec 4.4's whole chain against the transpilers getAllModules gives the
\* importers.
CONSTANTS
    Names = {"a", "b"}
    ReqNames = {"a", "b"}
    MaxReq = 2
    MaxChain = 2
    ZipOk = {TRUE}
SPECIFICATION Spec
INVARIANT ImportsFullyTranspiled
