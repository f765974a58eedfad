\* The precedence of spec 4.3 against GetModuleMap's insertion order.
CONSTANTS
    Names = {"a", "b"}
    ReqNames = {"a", "b"}
    MaxReq = 2
    MaxChain = 2
    ZipOk = {TRUE}
SPECIFICATION Spec
INVARIANT ResolveMatchesSpec
