-------------------------- MODULE ModuleResolution --------------------------
(***************************************************************************)
(* How a sandbox finds a module and which transpile steps it runs.         *)
(*                                                                         *)
(* The registry table (src/sandbox/regtable.go) holds native registries,   *)
(* pre-registered source modules and a builtin module map, each keyed by  *)
(* name.  NewApplet (src/vm/appman.go) materialises the requested names    *)
(* into a tengo ModuleMap, gathers the requested registries' transpile     *)
(* steps and hooks, and gives the sandbox the getters <<ModuleMap, import  *)
(* chain>>; moduleGroup.Get (src/sandbox/applet.go) asks them in order.    *)
(* Group.Transpile (src/ext/transpile/transpiler.go) runs a chain.          *)
(*                                                                         *)
(* The table is state, changed by its With*/Remove operations; the lookups *)
(* are operators, checked in every state for every small request.          *)
(***************************************************************************)
EXTENDS Integers, Sequences, SequencesExt, TLC

CONSTANTS
    Names,      \* module / registry names
    ReqNames,   \* what a sandbox's stdModules list may contain
    MaxReq,     \* longest stdModules list checked
    MaxChain,   \* longest importer chain
    ZipOk       \* what unpacking a private lib's archive may give (FALSE: an error)

Wildcard == "*"

VARIABLES
    regMap,     \* names of the registered native registries
    sourceMap,  \* names of the pre-registered source modules
    moduleMap,  \* names in the builtin module map
    chain       \* the sandbox's importers: chain[i] = names importer i finds

vars == <<regMap, sourceMap, moduleMap, chain>>

Requests == UNION {[1..k -> ReqNames] : k \in 0..MaxReq}
Chains == UNION {[1..k -> SUBSET Names] : k \in 0..MaxChain}

\* NewRegistryTable with empty maps; the sandbox's importer chain is
\* whatever its requires and public file systems give.
Init ==
    /\ regMap = {} /\ sourceMap = {} /\ moduleMap = {}
    /\ chain \in Chains

WithRegistry(n) ==
    /\ regMap' = regMap \cup {n}
    /\ UNCHANGED <<sourceMap, moduleMap, chain>>

WithSourceModule(n) ==
    /\ sourceMap' = sourceMap \cup {n}
    /\ UNCHANGED <<regMap, moduleMap, chain>>

WithModule(n) ==
    /\ moduleMap' = moduleMap \cup {n}
    /\ UNCHANGED <<regMap, sourceMap, chain>>

\* RegistryTable.Remove (Remove is a SequencesExt operator).
TableRemove(n) ==
    /\ regMap' = regMap \ {n}
    /\ UNCHANGED <<sourceMap, moduleMap, chain>>

Next == \E n \in Names :
    WithRegistry(n) \/ WithSourceModule(n) \/ WithModule(n) \/ TableRemove(n)

Spec == Init /\ [][Next]_vars

-----------------------------------------------------------------------------
(* Materialising and resolving                                             *)

\* What a lookup returns: which table produced the module, or the index
\* of the importer that did, or nothing.
Found(from) == [from |-> from, idx |-> 0]
Imported(i) == [from |-> "importer", idx |-> i]
Absent == [from |-> "absent", idx |-> 0]

NoModules == [x \in {} |-> "none"]

\* One name of GetModuleMap's loop: AddBuiltinModule for the registry,
\* AddBuiltinModule for the module map entry, AddSourceModule for the
\* source; each stores into the ModuleMap under the name, replacing.
AddName(mm, n) ==
    LET m1 == IF n \in regMap THEN (n :> "native") @@ mm ELSE mm
        m2 == IF n \in moduleMap THEN (n :> "builtin") @@ m1 ELSE m1
    IN  IF n \in sourceMap THEN (n :> "source") @@ m2 ELSE m2

GetModuleMap(req) == FoldLeft(AddName, NoModules, req)

\* GetTranspiler / GetHooks: the registries' steps (hooks), one per
\* registry here and named by it, in the order of the request.
RECURSIVE GetTranspiler(_)
GetTranspiler(req) ==
    IF req = <<>> THEN <<>>
    ELSE (IF Head(req) \in regMap THEN <<Head(req)>> ELSE <<>>) \o GetTranspiler(Tail(req))

RECURSIVE GetHooks(_)
GetHooks(req) ==
    IF req = <<>> THEN <<>>
    ELSE (IF Head(req) \in regMap THEN <<Head(req)>> ELSE <<>>) \o GetHooks(Tail(req))

\* ImportChain.Get: the importers in order, the first non-nil wins.
RECURSIVE ChainGet(_, _, _)
ChainGet(c, n, i) ==
    IF i > Len(c) THEN Absent
    ELSE IF n \in c[i] THEN Imported(i) ELSE ChainGet(c, n, i + 1)

\* Mutant of AppResolve: the getters are registered importers first.
AppResolveImportFirst(req, n) ==
    LET mm == GetModuleMap(req) IN
    IF ChainGet(chain, n, 1) # Absent THEN ChainGet(chain, n, 1)
    ELSE IF n \in DOMAIN mm THEN Found(mm[n]) ELSE Absent

\* moduleGroup.Get over the getters <<ModuleMap, ImportChain>>.
AppResolve(req, n) ==
    LET mm == GetModuleMap(req) IN
    IF n \in DOMAIN mm THEN Found(mm[n]) ELSE ChainGet(chain, n, 1)

-----------------------------------------------------------------------------
(* Transpiling                                                             *)

\* A source: whether it contains the opt-out marker, and the steps that
\* have rewritten it.  A failing step returns nil and an error.
Source == [marker: BOOLEAN, applied: Seq(Names \cup {"global"})]
Nil == [marker |-> FALSE, applied |-> <<"nil">>]

\* The sandbox's chain: transpile.G from New, then the registries' steps.
AppChain(req) == <<"global">> \o GetTranspiler(req)

RECURSIVE RunChain(_, _, _)
RunChain(g, src, failing) ==
    IF g = <<>> THEN [out |-> src, err |-> FALSE]
    ELSE IF Head(g) \in failing THEN [out |-> Nil, err |-> TRUE]
    ELSE RunChain(Tail(g), [src EXCEPT !.applied = Append(@, Head(g))], failing)

\* Mutant of Transpile: the opt-out marker is not looked for.
TranspileNoMarker(g, src, failing) == RunChain(g, src, failing)

\* Group.Transpile: a source containing the marker is returned as it is.
Transpile(g, src, failing) ==
    IF src.marker THEN [out |-> src, err |-> FALSE] ELSE RunChain(g, src, failing)

-----------------------------------------------------------------------------
(* The lego command's getter (src/lego/lego.go getAllModules)              *)
(*                                                                         *)
(* lego gives its sandbox one modman.Composite: the ModuleMap of every     *)
(* name of the table, then a fallback ImportChain of file-system importers: *)
(* the working directory, each private lib path followed by the archives   *)
(* in it, each global lib path followed by the archives in it.  The        *)
(* lookups below are a script's import of a name the ModuleMap lacks.      *)

\* A path below an importer's root: a sequence of entries, each a stem and
\* the extension path.Ext finds in it.
Seg(s, e) == [stem |-> s, ext |-> e]
SrcExt == ".tengo"    \* sourceFileExt, the default script extension

\* import("m") and import("m.tengo").
ImportNames == {<<Seg("m", "")>>, <<Seg("m", SrcExt)>>}

\* The file systems a root may be: without m, with the file m.tengo, with
\* the directory m/ holding index.tengo.
EmptyFS == [files |-> {}, dirs |-> {}]
FileSystems ==
    {EmptyFS,
     [files |-> {<<Seg("m", SrcExt)>>}, dirs |-> {}],
     [files |-> {<<Seg("m", ""), Seg("index", SrcExt)>>}, dirs |-> {<<Seg("m", "")>>}]}

\* A private lib's archive: unpackage succeeds (ok) and the importer reads
\* the unpacked files, or it fails.  A global lib's archive is read in
\* place through vfs.ZipFS; a corrupt one reads as an empty file system.
PrivArchives ==
    {[ok |-> TRUE, fs |-> f] : f \in FileSystems}
    \cup (IF FALSE \in ZipOk THEN {[ok |-> FALSE, fs |-> EmptyFS]} ELSE {})
Libs(Archives) ==
    {<<>>} \cup {<<[dir |-> d, zips |-> z]>> :
                    d \in FileSystems, z \in {<<>>} \cup {<<a>> : a \in Archives}}

\* The working directory, the -lib paths (one here) and the global lib
\* paths (one here); empty path-list entries add no importer.
Layouts == [priv: FileSystems, libs: Libs(PrivArchives), globals: Libs(FileSystems)]

\* What an import function returns: a module (the steps its source went
\* through and the importer's index), nothing, or a Go panic.
NoImport == [kind |-> "none", idx |-> 0, steps |-> <<>>]
Panic == [kind |-> "panic", idx |-> 0, steps |-> <<>>]
Module(steps) == [kind |-> "module", idx |-> 0, steps |-> steps]

\* An ImportFunc: NewFSImporter over a root with the transpiler it was
\* given, or the nil func NewZipImporter returns when unpackage fails.
FSImporter(fsys, t) == [kind |-> "fs", fs |-> fsys, trans |-> t]
NilImporter == [kind |-> "nil", fs |-> EmptyFS, trans |-> "none"]

\* NewZipImporter: unpack, then an FS importer rooted at the result; on an
\* error it logs and returns nil.
ZipImporter(a, t) == IF a.ok THEN FSImporter(a.fs, t) ELSE NilImporter
GlobalZipImporter(a, t) == FSImporter(a, t)

\* RegistryTable.AllNames: the keys of regMap, then sourceMap, then
\* moduleMap, so a name in two maps is listed twice.  Go's map order is
\* random; one order is taken.
AllNames == SetToSeq(regMap) \o SetToSeq(sourceMap) \o SetToSeq(moduleMap)

\* The transpilers the importers were given: app (the sandbox: transpile.G
\* from New, then the registries' steps WithTranspiler adds) or the
\* registries' group GetAll returned.
ImporterChain(t) ==
    IF t = "app" THEN <<"global">> \o GetTranspiler(AllNames) ELSE GetTranspiler(AllNames)

\* Mutant of FSPath: the extension is added before the directory check.
FSPathExtFirst(fsys, src) ==
    LET named == IF Last(src).ext = ""
                   THEN [src EXCEPT ![Len(src)] = Seg(@.stem, SrcExt)] ELSE src
    IN  IF named \in fsys.dirs THEN Append(named, Seg("index", SrcExt)) ELSE named

\* NewFSImporter's path: a directory becomes its index file, then a name
\* without an extension gets the default one.
FSPath(fsys, src) ==
    LET joined == IF src \in fsys.dirs THEN Append(src, Seg("index", SrcExt)) ELSE src
    IN  IF Last(joined).ext = ""
          THEN [joined EXCEPT ![Len(joined)] = Seg(@.stem, SrcExt)]
          ELSE joined

\* ImportFromFSWithTranspiler: Stat, ReadFile (which fails on a directory),
\* Transpile; any error gives nil.
ImportFromFS(fsys, p, g, failing) ==
    LET r == Transpile(g, [marker |-> FALSE, applied |-> <<>>], failing) IN
    IF p \notin fsys.files \/ r.err THEN NoImport ELSE Module(r.out.applied)

\* Calling an ImportFunc; calling the nil func panics.
CallImporter(imp, src, failing) ==
    IF imp.kind = "nil" THEN Panic
    ELSE ImportFromFS(imp.fs, FSPath(imp.fs, src), ImporterChain(imp.trans), failing)

\* A lib path's importers: its directory, then each archive found in it,
\* unpacked for a private path (whose importers get the sandbox) and read
\* in place for a global one.
LibImporters(l, t) ==
    <<FSImporter(l.dir, t)>>
    \o [k \in 1..Len(l.zips) |->
          IF t = "app" THEN ZipImporter(l.zips[k], t) ELSE GlobalZipImporter(l.zips[k], t)]

\* getAllModules: the fallback importers, in the order AddImporter appends
\* them; the private ones get the sandbox as transpiler, the global ones
\* the registries' group.
GetAllModules(lay) ==
    <<FSImporter(lay.priv, "app")>>
    \o FlattenSeq([i \in 1..Len(lay.libs) |-> LibImporters(lay.libs[i], "app")])
    \o FlattenSeq([i \in 1..Len(lay.globals) |->
                      LibImporters(lay.globals[i], "registries")])

\* Composite.Get past its ModuleMap: ImportChain.Get over the fallback,
\* the first non-nil wins; a panic ends the lookup.
RECURSIVE CompositeGet(_, _, _, _)
CompositeGet(c, src, failing, i) ==
    IF i > Len(c) THEN NoImport
    ELSE LET r == CallImporter(c[i], src, failing) IN
         CASE r.kind = "none"   -> CompositeGet(c, src, failing, i + 1)
           [] r.kind = "module" -> [r EXCEPT !.idx = i]
           [] OTHER             -> r

LegoGet(lay, src, failing) == CompositeGet(GetAllModules(lay), src, failing, 1)

-----------------------------------------------------------------------------
(* What spec 4.3 and 4.4 say                                               *)

Known == regMap \cup sourceMap \cup moduleMap

\* The names a request materialises; "*" stands for every known name.
Requested(req) ==
    IF Wildcard \in ToSet(req) THEN Known ELSE ToSet(req) \ {Wildcard}

FirstImporter(n) ==
    LET I == {i \in DOMAIN chain : n \in chain[i]} IN
    IF I = {} THEN Absent ELSE Imported(CHOOSE i \in I : \A j \in I : i <= j)

\* Native registry, then source module, then module map, then the first
\* importer that has the name.
SpecResolve(req, n) ==
    LET R == Requested(req) IN
    CASE n \in R \cap regMap    -> Found("native")
      [] n \in R \cap sourceMap -> Found("source")
      [] n \in R \cap moduleMap -> Found("builtin")
      [] OTHER                  -> FirstImporter(n)

\* The steps in order up to the first failing one; the marker bypasses all.
SpecTranspile(g, src, failing) ==
    LET F == {i \in DOMAIN g : g[i] \in failing} IN
    CASE src.marker -> [out |-> src, err |-> FALSE]
      [] F = {}     -> [out |-> [src EXCEPT !.applied = @ \o g], err |-> FALSE]
      [] OTHER      -> [out |-> Nil, err |-> TRUE]

\* Spec 4.5, the filesystem backend: in a root, a name denotes the index
\* file of the directory it names, else the name with the default
\* extension when it has none.
Denotes(fsys, src) ==
    CASE src \in fsys.dirs     -> src \o <<Seg("index", SrcExt)>>
      [] Last(src).ext = ""   -> SubSeq(src, 1, Len(src) - 1) \o <<Seg(Last(src).stem, SrcExt)>>
      [] OTHER                -> src

\* lego's search order (its comments: private paths first, the global lib
\* path last so that a local copy overrides it; a path's archives after
\* the path), as the roots read and whether each is private.
Roots(l, private) ==
    <<[fs |-> l.dir, private |-> private]>>
    \o [k \in 1..Len(l.zips) |->
          [fs |-> IF private THEN l.zips[k].fs ELSE l.zips[k], private |-> private]]
SearchOrder(lay) ==
    <<[fs |-> lay.priv, private |-> TRUE]>>
    \o FlattenSeq([i \in 1..Len(lay.libs) |-> Roots(lay.libs[i], TRUE)])
    \o FlattenSeq([i \in 1..Len(lay.globals) |-> Roots(lay.globals[i], FALSE)])

\* A root loads the name when the file it denotes exists and transpiles.
Loads(root, src, failing) ==
    /\ Denotes(root.fs, src) \in root.fs.files
    /\ ~Transpile(ImporterChain(IF root.private THEN "app" ELSE "registries"),
                  [marker |-> FALSE, applied |-> <<>>], failing).err

-----------------------------------------------------------------------------
(* Properties                                                              *)

\* Spec 4.3: a name the requested tables hold is served by a table, and
\* any other name by the first importer of the chain that has it
\* (moduleGroup.Get asks the ModuleMap before ImportChain.Get, which asks
\* its importers in order).
FallbackAfterTables ==
    \A req \in Requests, n \in Names :
        LET r == AppResolve(req, n) IN
        IF n \in Requested(req) \cap Known
          THEN r.from \in {"native", "source", "builtin"}
          ELSE r = FirstImporter(n)

\* Spec 4.4: the sandbox's chain is applied in order and stops at the
\* first failing step; a source with the opt-out marker passes through.
TranspileMatchesSpec ==
    \A req \in Requests, failing \in SUBSET (Names \cup {"global"}), m \in BOOLEAN :
        LET src == [marker |-> m, applied |-> <<>>]
            code == Transpile(AppChain(req), src, failing)
            spec == SpecTranspile(AppChain(req), src, failing)
        IN  code.err = spec.err /\ (~spec.err => code.out = spec.out)

\* Spec 4.3: resolution precedence is fixed: the native registry, then a
\* pre-registered source module, then the module map, then the importers.
ResolveMatchesSpec ==
    \A req \in Requests, n \in Names : AppResolve(req, n) = SpecResolve(req, n)

\* Spec 4.5: an import in the lego command gets the module of the first
\* root, in lego's search order, whose file exists and transpiles, and
\* nothing when there is none; a transpile failure passes the name on to
\* the next root (getAllModules' chain, NewFSImporter's path rule,
\* ImportFromFSWithTranspiler's errors, ImportChain.Get).
LegoLoadsFirstLoadable ==
    \A lay \in Layouts, src \in ImportNames, failing \in {{}, {"global"}} :
        LET r == LegoGet(lay, src, failing)
            order == SearchOrder(lay)
            L == {i \in DOMAIN order : Loads(order[i], src, failing)}
        IN  IF L = {} THEN r = NoImport
            ELSE r.kind = "module" /\ r.idx = Min(L)

\* Spec 4.4: every module the lego command imports went through the
\* sandbox's whole chain: transpile.G, then each registry's steps
\* (getAllModules gives the global lib paths' importers the registries'
\* group only).
ImportsFullyTranspiled ==
    \A lay \in Layouts, src \in ImportNames :
        LET r == LegoGet(lay, src, {}) IN
        r.kind = "module" => r.steps = <<"global">> \o SetToSeq(Known \cap regMap)
====
