\* Every table built from two names, every importer chain of up to two
\* importers, every stdModules list of up to two names.  "*" is left out:
\* GetModuleMap, GetTranspiler and GetHooks treat it as an unknown name.
CONSTANTS
    Names = {"a", "b"}
    ReqNames = {"a", "b"}
    MaxReq = 2
    MaxChain = 2
    ZipOk = {TRUE}
SPECIFICATION Spec
INVARIANT FallbackAfterTables
INVARIANT TranspileMatchesSpec
INVARIANT LegoLoadsFirstLoadable
