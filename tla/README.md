# TLA+ models of lightbox

This directory holds TLA+ models of the sandbox runtime in `src/`, the TLC
configurations that check them, and `PROJECT.json`. The JSON file lists every
component, every run, the mutants that show each checked property can fail,
the source lines each definition models, the findings and the hazards.

Run a check from this directory with `tlc -workers 2 -config <cfg> <module>`.
The module is the `module` field of the run in `PROJECT.json`.

## 1. Inventory

### Components and how they interact

A run request enters a **Sandbox** (`sandbox/applet.go`).

1. `RunFileContext` asks the sandbox's **Script Cache**
   (`ext/util/script_cache.go`) for a compiled unit.
2. The cache calls back into `Applet.Compile`.
3. `Applet.Compile` runs `Initialize` (a `sync.Once` that notifies
   `SigInitialized` to the hooks), then the **Transpiler chain**
   (`ext/transpile`), then tengo's compiler.
4. Imports inside the compiler go to the sandbox's `moduleGroup`. This is
   the module map built by the **Registry table** (`sandbox/regtable.go`),
   then the **Package importers** (`ext/modman`: file system, versioned zip
   archive; the URL importer has no caller).

Providers register hooks on the sandbox. For example, the database provider
opens a **GroupCache** of connections (`env/singleflight.go`) when
`Initialized` fires, and closes it on `SigStop`. The **Virtual host**
(`vm/appman.go`) creates sandboxes. **Cron services** (`ext/cronlib`) persist
their jobs in a badger store (**kvstore**, `kvstore/local.go`). The **Log
hub** (`loghub`) fans log entries out to websocket viewers.

### State, operations and hard behaviours

| Component | Shared state | Operations | What makes it hard |
|---|---|---|---|
| Script Cache | `sync.Map` key→`*CachedItem`, `singleflight.Group`, the file system | `GetCompiled`, `Clean` | Items are mutated in place by later leaders while earlier callers read them. There is a time-boxed staleness check, a stat error standing in `time.Now()`, and `Clean` racing in-flight calls. |
| Applet | hook slice, `initOnce`, transpiler slice, lazily merged config | `WithHook`, `WithModule`, `WithTranspiler`, `DoNotify`, `Initialize`, `Shutdown`, `Compile`, `Config` | Hooks append hooks during a notification. A hook script (`WithHookScript`) would re-enter `Initialize`, but nothing calls `WithHookScript`. There is no closed state after `Shutdown`. |
| GroupCache | singleflight, mutex-guarded map | `Get`, `Delete`, `EvictWith` | Callers are joined by name but carry different options. Eviction can race an in-flight build. |
| Registry table / resolver | `regMap`, `moduleMap`, `sourceMap`; getter chains | `GetModuleMap`, `GetTranspiler`, `GetHooks`, `Composite.Get`, `ImportChain.Get` | Precedence comes from the order of insertion into the module map. |
| Transpiler chain | none (pure) | `Group.Transpile` | The opt-out marker, and short-circuit on error. |
| Archive unpack | directories `name@ver` and `name@ver-tmp` | `unpackage` | A temp directory is shared by concurrent importers. A copy error is overwritten. Any existing target is treated as complete. |
| Env parse, config | the sandbox context, the lazily merged config | `Environment.Parse`, `Applet.Config`, `GetConfig`, `env.set` | Rune/byte index mismatch; a tengo object where a string is asserted; which candidate files and directories are read, and in which order they are merged. |
| Cron | scheduler entries, store keys `job:<svc>:<name>`, runs in progress | `DoSchedule`, `remove`, `Restore`, `BootCronServices`, `start`/`stop`, `Executor.Run` | The store and the scheduler diverge. Restart resurrects removed jobs. A rescheduled job gets a new skip-if-running wrapper while its old run goes on. |
| kvstore | `sync.Map` name→DB, singleflight | `Open`, `Get`, `Close` | `Close` is outside the group. |
| Log hub | subscriber map, each viewer's settings | `Subscribe`, `UnSubscribe`, `Fire`, the viewer's commands and reader, loglib's calls | Unlocked iteration in a goroutine, same-name subscriptions, an unlocked re-read of the compiled filter, a script-supplied `sandbox` field. |

The capability providers (redis, amqp, oss, mail, xls, crypt, database
objects, HTTP server, canal, help, templates, …) are adapters around client
libraries. Spec §1 puts them out of scope. `PROJECT.json` lists them as
not modelled, except the ones with state of their own (badger, database
objects, cron, HTTP server) and the log module, whose entries the log hub
routes. Of the value wrappers, `util.UInt`'s
arithmetic is modelled.

### Properties per component

- **Script Cache:**
  - one compile in flight per key (spec §5);
  - a checked entry holds the file's current content (§4.2);
  - every call returns;
  - no caller is handed a nil unit (§4.2.5);
  - an unchanged file is not recompiled (§4.2.3, §7);
  - a cached stat error means the file was missing (§4.2.2).
- **Applet:**
  - `Initialized` hooks fire exactly once (§8);
  - every `Stop`-registered release runs for what `Initialized` acquired;
  - no call blocks forever.
- **GroupCache:**
  - a joined caller gets the result built from its own option;
  - no connection is both evicted and still cached.
- **Resolver:**
  - the native registry wins over a source module of the same name (§4.3, §8);
  - the lego command imports a name from the first root that has its file and transpiles it (§4.5);
  - every imported module goes through the sandbox's whole chain (§4.4).
- **Transpiler:**
  - the marker bypasses every step (§4.4, §8);
  - the chain stops at the first error.
- **Unpack:**
  - a published `name@ver` directory is a complete extraction (§4.5);
  - an existing target means zero extraction work.
- **Cron:**
  - after a restart and a boot, the scheduled jobs are the jobs that were scheduled before it;
  - a removed job is not scheduled again by a later boot;
  - a job's script runs in the sandbox that owns its service;
  - every boot call returns;
  - a skipIfRunning job never runs twice at once.
- **Log hub:**
  - no Fire goroutine blocks forever on a channel;
  - every open viewer's channel is subscribed;
  - a viewer sees its entries in the order they were logged;
  - the unlocked map range and Exec never abort the process;
  - a viewer is shown only its own sandbox's script entries.
- **Badger registry:**
  - no open database is lost from the registry;
  - every open/take returns;
  - open creates a missing database.
- **Badger client:**
  - list_keys and list_keys_with_prefix page the live keys;
  - search_prefix returns exactly the keys with the prefix;
  - search returns exactly the live keys containing its needle;
  - a value the value log cannot read is an error, never dropped or a panic.
- **lego process:**
  - an exit through cleanup leaves no pool opened before it unclosed;
  - a cleanup that began ends the process;
  - every exit runs the Stop hooks; a SIGINT ends the process; `-prof` is served.
- **Database object:**
  - a returned call holds no connection, and every call returns;
  - no statement outlives its call; no call panics (query_rows, exec_file);
  - exec and a broken query report what happened.
- **HTTP server:**
  - a request reaches its handler only through its middlewares;
  - a failed request is answered with 500.
- **UInt:**
  - comparing a uint with an int compares the numbers.

## 2. Plan

The modules are listed in order, most important behaviour first.

1. **ScriptCache** (done). The cache alone: goroutines, the singleflight,
   the heap of shared items, the file system and the clock.
2. **AppletLifecycle** (done). `Initialize` under `sync.Once`, `DoNotify` over a
   hook list that hooks extend, and `Shutdown`. `Compile` calls
   `Initialize`. The database provider's Initialized→Stop hook pair acquires
   and releases connections. It
   composes with a GroupCache of connections. Runs: a pass run and violation
   runs for the leak after `Shutdown` and the closed cached connection. A
   hook script's `RunFile` on `SigInitialized` would re-enter `initOnce.Do`
   and block for ever, but `WithHookScript` (sandbox/module.go) has no
   caller in the repository, so that path is not reachable and not modelled.
3. **ZipUnpack** (done). Concurrent `unpackage` calls on one archive, with the
   shared temp directory, per-file extraction, failures and crashes. Abstract
   spec **AtomicInstall**: a target appears at once and never changes, with
   the content its constant `Installable` allows. ZipUnpack refines the
   "every file extracted" instance through `INSTANCE … WITH` (the mapping is
   the target directory's contents), checked as a PROPERTY. The "complete"
   instance is violated by a failed copy, which is a finding.
4. **GroupCache** (done, inside AppletLifecycle and LegoMain). `Get`,
   `EvictWith` and `NewCache`, with the option a leader builds with.
   `Delete` has no caller. The duplicate suppression itself is
   `singleflight`'s, so no abstract specification of it is checked.
5. **ModuleResolution** (done). Pure operators: `GetModuleMap` insertion,
   `moduleGroup`/`ImportChain` lookup, `Group.Transpile` (RECURSIVE), checked
   against reference definitions of spec §4.3–4.4 over all small inputs;
   the lego command's importer chain (`getAllModules`, `NewFSImporter`,
   `NewZipImporter`, `Composite.Get`) against spec §4.5.
6. **AppletConfig** (done). `Environment.Parse` as a RECURSIVE operator over
   rune strings with byte slicing, and `Applet.Config`/`GetConfig` over the
   candidate files and directories, against spec 4.5 and 6.
7. **CronStore** (done). The services' configs and jobs in the store, the
   per-sandbox boot under the module's lock, restarts, and the scheduler
   firing jobs under their policy wrappers.
8. **LogHub** (done). `Fire`'s goroutines, `Subscribe`/`UnSubscribe`, the
   websocket readers and setting commands, and the script log module.
9. **KVRegistry** (done). `kvstore.Open`/`Get`/`Shutdown` under the shared
   singleflight, with badger's directory lock.
10. **BadgerClient** (done). The badger provider's script functions over one
    database, with ttl expiry and value-log faults.
11. **LegoMain** (done). The process: `main`'s exits, the signal goroutine
    and the two cleanups racing the script's goroutines.
12. **DatabaseObject** (done). The database object's calls on a shared
    pool, with the connection limit and prepared statements, and
    `exec_file`'s line loop.
13. **HttpServer** (done). Route and middleware registration, the
    server's setters and start/serve/serve_tls/close, and a request through the middleware
    chain and its handler.
14. **UInt** (done). `util.UInt`'s operators as pure operators at small
    widths, against the numbers they stand for.

The project keeps at most twelve runs. Every violation is therefore kept
as a reproduction (see §3), and the runs are the pass runs, one or two per
module.

## 3. ScriptCache: what is modelled

`ScriptCache.tla` translates `GetCompiled` (lines 142–190) step by step.
Each step between two accesses to shared state is an action, and a per-goroutine
`pc` records where each goroutine is.

| Action | Code |
|---|---|
| `Keys = Paths \X Holders`, `PathOf` | the key `srcFile + "[" + placeholder names + "]"` and its srcFile part |
| `Call` | computing the key, entering `g.Do` |
| `Do` | singleflight: lead a new call or join the one in flight (`flight[k]`) |
| `LoadMiss` | `m.Load` miss: new item with `LastCheck = now`, `state()` (stat or `time.Now()` and the error) |
| `LoadHit` | `m.Load` hit: when `now - LastCheck > checkDuration`, set `LastCheck`, re-stat, and either keep the error or go to read when the mtime is `After(LastModify)` |
| `Read` | `fs.ReadFile` (the file may be gone: Error = read error) |
| `Compile` | `compileFunc` writing `Compiled` and `Error` into the item, in place on the hit path |
| `Store` | `m.Store` on the miss path |
| `Done` | the function returns: the leader and every joined goroutine receive the item pointer, and the key leaves the group |
| `ReadError` / `ReadCompiled` | the caller's reads of `item.Error` and `item.Compiled.Clone()` after `Do` returns, outside any lock |
| `Clean` | deleting every key (atomic here; the code's Range+Delete is finer) |

Items live in a heap `items` indexed by id, because the code shares
`*CachedItem` pointers. A compiled unit is abstracted to the file version it
was compiled from, and nil is `NoUnit`. File content is a version number with
a flag saying whether it compiles. The environment actions are:

- `Tick`: the clock advances.
- `Modify`: write new content with mtime = now.
- `Delete`: remove the file.
- `Restore`: move the file back with its old content and mtime.

The ghost variables are:

- `panicked`: a nil unit was cloned.
- `statOk[i]`: the result of the latest stat for item `i`.
- `compiledAt[i]`: the mtime the latest compile of item `i` followed.

### Runs

| Run | Config | Checks | Result |
|---|---|---|---|
| scriptcache_safety | `ScriptCache.cfg` | TypeOK, CheckedEntryIsCurrent | pass (1.7M states, about 30 s) |
| (reproduction) | `ScriptCache_NoNilClone.cfg` | NoNilClone | violated: code bug |
| (reproduction) | `ScriptCache_RecompileOnlyWhenModified.cfg` | RecompileOnlyWhenModified | violated: code bug |
| (reproduction) | `ScriptCache_StatErrorMeansMissing.cfg` | StatErrorMeansMissing | violated: code bug |

A "reproduction" is a cfg kept beside the module that TLC finds violated,
but which is not one of the project's runs; its finding in
`PROJECT.json` has an empty `run` and names the cfg. Run it with
`tlc -config <cfg> <module>`, where the module is the one its run names.

The three violations are the findings in `PROJECT.json`:

- **NoNilClone.** Goroutine 1's call returns an item whose Error is nil, and
  goroutine 1 reads it. Goroutine 2 then leads a new call after the check
  interval, and the file now fails to compile. Goroutine 2's in-place
  recompile sets `Compiled = nil`. Goroutine 1 then clones nil.
- **RecompileOnlyWhenModified.** The hit path never stores the new mtime, so
  every later check recompiles the unchanged file.
- **StatErrorMeansMissing.** A missing file caches `LastModify = now`. The
  file is moved back with an older mtime, and the entry keeps its stat error
  forever.

### Bounds

All runs use two goroutines, because every interleaving hazard here needs
exactly two: a leader and a waiter, or an old caller and a new leader. They
use one key and one file, because keys do not interact except through
`Clean`, and `Clean` is modelled.

- **Clock:** 0..4 with check interval 1 in the pass run. An entry created
  at tick 0 is re-checked at tick 2 and again at tick 4, so the run has a
  miss, an expired check and a second expired check. The reproductions use
  0..3 or 0..4.
- **Versions:** one modification in the pass run, two in the violation
  runs.
- **Clean:** one call.

Each violation is found at depth ≤ 18 with these bounds.

What the run checks:

- **TypeOK** includes that a caller past `c.g.Do` holds an item. The
  mutant `DoneShadowedItem` is the Go shadowing slip
  `cachedItem := &CachedItem{...}` in the miss branch. The miss path then
  returns the outer, nil `cachedItem`, and TLC finds it at once.
- **CheckedEntryIsCurrent** is the cache's convergence promise. The
  re-stat of an expired hit races writes, deletes and moves back of the
  file, an in-flight leader, and `Clean`. The mutant `LoadHitNoRecheck`
  refreshes `LastCheck` without re-stating.

Two guarantees come from `golang.org/x/sync/singleflight` and are not
checked: one compile in flight per key, and every joined caller released.
In the model they hold by the shape of `Do` and `Done`.

### Fairness

None. No property of the run is about progress: the release of joined
callers is the library's, and nothing in `GetCompiled` blocks.

### Modelling assumptions

- Two writes to one file get different mtimes (`Modify` requires
  `now > mtime`). Same-resolution writes are listed as a hazard that this
  model does not cover.
- `Clean` is atomic. The code deletes keys one by one, but with one key the
  two are the same.
- The transpiler and compiler are one step (`Compile`) whose success depends
  only on the content.

## 4. AppletLifecycle: what is modelled

`AppletLifecycle.tla` models one sandbox, its database provider and that
provider's connection cache. It puts together `sandbox/applet.go`
(`Initialize`, `DoNotify`, `WithHook`, `Shutdown`, `Compile`),
`ext/databaselib/module.go` (the `SigInitialized` hook and the `SigStop`
hook it registers), `ext/databaselib/database.go` (`open`, `Get`,
`GetOrOpen`, `Open`, `Close`) and `env/singleflight.go` (`GroupCache.Get`,
`EvictWith`, `NewCache`).

Script goroutines (`Threads`) each run up to `MaxCalls` script runs in
total. A run calls `database.open` in one of its three forms and may call
`close()`. One administrator goroutine calls `Shutdown`.

| Action | Code |
|---|---|
| `Call` | `RunFile` of a script: the form of `open`, the name, whether it calls `close()` |
| `Initialize` | `Compile` → `Initialize` → `initOnce.Do` fast path (done flag) |
| `OnceLock` | `doSlow`: take the Once's mutex, recheck done, snapshot `len(app.hooks)` for `range` |
| `NotifyInit` | one iteration of `DoNotify(SigInitialized)`; after the last one done is set and the mutex released |
| `DbNew` | the database hook's `env.NewCache` and `Context.Set(DBCache, c)` |
| `DbHook` | its `app.WithHook(Stop hook)`, appending to the slice being ranged over |
| `CompileScript` | the rest of `Compile` (`Transpile`, placeholders, `script.Compile`) and `RunFileContext`'s `Set` of the arguments: each may fail the run, else the script runs |
| `Script` | `Get`/`GetOrOpen`: `Context.Get(DBCache)`, or "database not exists" |
| `GDo` | `g.group.Do(name, …)`: lead, or join the call in flight for the name |
| `GBuild` | the leader's function under `g.mx`: cached hit, "driver or dsn is empty", or connect and cache |
| `GDone` | `Do` returns to the leader and every joined goroutine |
| `Got` | back in `open`: on success the script may call `Database.Close` → `Close` → `Get(name, dbOpt{})` → `db.Close()` |
| `ShutdownStart` | `Shutdown` → `DoNotify(SigStop)`: snapshot the hook count |
| `NotifyStop` | one iteration: a Stop hook runs, the Initialized hook ignores the signal |
| `Evict` | the Stop hook's `c.EvictWith(close)` |
| `CtxDelete` | the Stop hook's `Context.Delete(DBCache)` |

Critical sections of `g.mx` and `app.mx` are single actions. Nothing else
takes those locks, so making them atomic loses no interleaving.
`DoNotify`'s `range` evaluates `app.hooks` once, so the loop bound is the
length at the start. This is the only outcome of the unsynchronised read
against `WithHook`'s append that matters here: an appended hook is not
visited. A connection is an id with state unused/open/closed. The option
is abstracted to "empty" (the one-argument form and `close()`) or "valid".
The two-argument form's object is named by the DSN, which is not its
cache key (`ObjectIsKey`).

### Runs

| Run | Config | Checks | Result |
|---|---|---|---|
| applet_safety | `AppletLifecycle.cfg` | TypeOK, ScriptAfterInit, StopClosesOpened | pass (90k states, a few seconds) |
| (reproduction) | `AppletLifecycle_NoLeakAfterShutdown.cfg` | NoLeakAfterShutdown | violated: code bug |
| (reproduction) | `AppletLifecycle_NoClosedConnServed.cfg` | NoClosedConnServed | violated: code bug |

What the pass run checks:

- **TypeOK.** The cache never holds anything but a connection. The
  mutant `GBuildStoreErr` caches the result of a failed build, which is
  the bug class `Get` avoids by storing only when `e == nil`.
- **ScriptAfterInit.** No script reaches `database.open` before
  `Initialize` has returned. This includes the goroutine that lost the
  `initOnce` race. The mutant `OnceLockEarlyDone` marks the Once done
  before its function has run.
- **StopClosesOpened.** Take a `Shutdown` that begins after `Initialize`
  has returned. When it returns, every connection that was open when it
  began is closed, whatever the scripts did meanwhile. This checks two
  things. The Stop hook appended from inside the Initialized notification
  must be in the slice a later `DoNotify` ranges over. `EvictWith` must
  close before it resets the map; the mutant `EvictResetFirst` swaps those
  two. The ghost `openAtStop` records the open connections when
  `Shutdown` begins. The property is not about connections opened later,
  because the code leaks those (NoLeakAfterShutdown, below).

The wake-up of a loser of the `initOnce` race and of a singleflight waiter
is done by `sync.Once` and `singleflight`. In the model it holds by the
shape of `NotifyInit` and `GDone`, so no liveness property is checked.

- **NoLeakAfterShutdown.** `Shutdown` starts while the first `Initialize`
  is between `NewCache` and `WithHook`. Its snapshot of the hooks misses the
  Stop hook. `Shutdown` returns, and a script then opens a connection that
  nothing closes. A script can also open a connection after the Stop hook
  has evicted the cache but before `Context.Delete`. `Shutdown` marks
  nothing closed.
- **NoClosedConnServed.** Script A opens `n` and calls `close()`. The
  connection is closed but stays cached, and script B's `open(n)` gets it.

### Bounds and fairness

The bounds are two script goroutines, one name and `MaxCalls = 2`. Two
goroutines are what the Once race and the singleflight join need. Two runs
let one script close what the next one opens. One name is enough, because
names interact only through the shared cache, and eviction clears all of
them alike. With `MaxCalls = 3` the run takes about two minutes and finds
nothing new.

No fairness is assumed, because no property is about progress. The state
where Shutdown has returned and every run has ended stutters
(`Quiescent`): the system is meant to stop there.

## 5. ZipUnpack: what is modelled

`ZipUnpack.tla` models `unpackage` (`ext/modman/fsimporter.go` 180–248).
It is called by `NewZipImporterWithDest` once per required package of each
sandbox (`vm/appman.go`). Several sandboxes, created concurrently or one
after another and across restarts, may unpack the same archive into the
shared repository directory. `AtomicInstall.tla` is the abstract
specification of spec §4.5: `name@version` appears in one step and never
changes, and a call returns success only once it is there. Its constant
`Installable` says what may appear. ZipUnpack instantiates it twice:

- `AtomicInstallSpec`: the archive complete, which is the spec's promise;
- `ExtractedOnceSpec`: every archive file created, its content the entry
  or a prefix of it. This is what the temp-directory-and-rename scheme
  guarantees to one importer.

| Action | Code |
|---|---|
| `Start` | open the archive, read the manifest, derive name and version (archive-only reads) |
| `StatTarget` | `if _, err = os.Stat(target); err == nil { return }`: the function's `err` keeps the stat error |
| `StatTmp` / `RemoveTmp` | `os.Stat(tmpDir)`, then `os.RemoveAll(tmpDir)` |
| `MkdirTmp` | `os.Mkdir(tmpDir)`, error ignored |
| `MkdirAll` | the directory-entry loop (`MkdirAll` re-creates `tmpDir` if gone, sets `err = nil`) and the `err` check after it |
| `Create` | `zr.Open` and `os.Create(tmpDir/f)` (truncates; fails when `tmpDir` is gone), and the `err` check after the loop |
| `Copy` | `io.Copy` through the handle, which may fail; the loop goes on |
| `Rename` | `os.Rename(tmpDir, target)`: fails if `tmpDir` is gone or the target is non-empty |
| `Returned` | `return targetDir, nil` |
| `Crash` | the process dies; the file system keeps what was written |

A directory is a record: whether it exists, its inode generation, and the
content of each file (absent, empty, partial, full). An open handle writes
into the generation it was created in, wherever that directory now is
(`os.Rename` keeps inodes). If the directory was removed, the write goes
nowhere. The refinement mapping sends the target directory's files to the
abstract `content`, with a missing or empty directory counting as "nothing
installed". The ghost `ret` is the abstract `ret`.

### Runs

| Run | Config | Checks | Result |
|---|---|---|---|
| zip_safety | `ZipUnpack.cfg` | ExtractedOnceSpec | pass (715 states) |
| (reproduction) | `ZipUnpack_CopyFailure.cfg` | AtomicInstallSpec | violated: code bug |
| (reproduction) | `ZipUnpack_NoDirEntries.cfg` | ErrorOnlyOnFailure | violated: code bug |
| (reproduction) | `ZipUnpack_Concurrent.cfg` | PublishedComplete | violated: code bug |

- **zip_safety.** One importer, three calls, up to two crashes at any
  point, and two failed `io.Copy` calls, on an archive with one directory
  entry and two files. `name@version` appears in one step with every file
  created in it, and later calls reuse it unchanged. A call succeeds only
  once it is there. Leftovers of a crashed extraction in the temp directory
  are removed first. The mutant `CreateOffByOne` stops the file loop one
  entry early, and the directory is published without the last file.
- **ZipUnpack_CopyFailure.cfg.** One importer, no crash. `io.Copy` of the
  first file fails, and the second file's `zr.Open`/`os.Create`/`io.Copy`
  assign `err = nil` again. The check after the loop passes, the
  cut-short file is renamed into place, and success is returned. Every
  later call reuses it through the `os.Stat` early return.
- **ZipUnpack_NoDirEntries.cfg.** With no directory entry, `err` still holds the
  target's stat error at line 220, and the first call fails. With a
  directory entry `MkdirAll` always clears it, so this property is only
  checked where it fails.
- **ZipUnpack_Concurrent.cfg.** Goroutine 1 extracts both files. Goroutine 2 stats
  the target (absent), removes goroutine 1's temp directory and re-creates
  it empty. Goroutine 1 then renames the empty directory into place and
  returns success.

Fairness: none, since no property is about progress. A call may stop
anywhere through a crash.

## 6. ModuleResolution: what is modelled

`ModuleResolution.tla` models how a sandbox finds a module and which
transpile steps it runs.

The **state** is the registry table: the names of its native registries
(`regMap`), its source modules (`sourceMap`) and its builtin module map
(`moduleMap`). It also holds the sandbox's importer chain (`chain[i]` is
the set of names importer `i` finds). The table's operations are the
actions: `WithRegistry`, `WithSourceModule`, `WithModule` and
`TableRemove` (`RegistryTable.Remove`).

The **lookups** are operators:

| Operator | Code |
|---|---|
| `AddName` / `GetModuleMap` | the loop of `GetModuleMap`, folded with `FoldLeft`; each add replaces the entry, as tengo's `ModuleMap` does |
| `GetTranspiler`, `GetHooks` | the requested registries' steps and hooks, in request order (RECURSIVE) |
| `ChainGet` | `ImportChain.Get`: first importer with the name (RECURSIVE) |
| `AppResolve` | `moduleGroup.Get` over the getters `<<ModuleMap, ImportChain>>` that `NewApplet` registers |
| `RunChain` / `Transpile` | `Group.Transpile`: marker bypass, then the steps in order, stopping at the first error (RECURSIVE) |
| `AppChain` | `transpile.G` (added by `New`) followed by the registries' steps |

The reference definitions `SpecResolve`, `SpecTranspile`, `Requested` and
`FirstImporter` state spec §4.3–4.4 directly, without recursion. The
invariants compare the code's operators with them in every table state,
for every module list of up to `MaxReq` names and every importer chain of
up to `MaxChain` importers.

| Run | Config | Checks | Result |
|---|---|---|---|
| resolution | `ModuleResolution.cfg` | FallbackAfterTables, TranspileMatchesSpec, LegoLoadsFirstLoadable | pass (1344 states, about 1.5 min) |
| (reproduction) | `ModuleResolution_Precedence.cfg` | ResolveMatchesSpec | violated: spec/code divergence |
| (reproduction) | `ModuleResolution_FullyTranspiled.cfg` | ImportsFullyTranspiled | violated: spec/code divergence |

- **ModuleResolution_Precedence.cfg.** `"a"` is registered as a native registry and
  as a source module. `GetModuleMap` adds the source module last, so it
  replaces the native registry.
- **`"*"`.** The lookups do not expand `"*"`, so a request of `"*"`
  materialises nothing. `ResolveMatchesSpec` fails on it at once. The runs
  leave it out of `ReqNames`, so that the trace shows the precedence
  divergence. The pass run's properties do not depend on `"*"`.

Two names are enough: one can sit in several tables while the other is
served by an importer. Chains of two importers show which importer wins.

**The lego command's getter.** `getAllModules` (`lego/lego.go`) builds
one `modman.Composite`: the ModuleMap of every name of the table, then a
fallback chain of importers. The chain holds the working directory, each
`-lib` path followed by its `*.zip` archives (unpacked by
`NewZipImporter`), and each global lib path followed by its archives (read
in place through `vfs.ZipFS`). These are operators too:

| Operator | Code |
|---|---|
| `Layouts`, `Libs`, `FileSystems` | the roots: the working directory, one `-lib` path, one global lib path, each without `m`, with `m.tengo`, or with `m/index.tengo`, and with or without one archive |
| `FSPath` | `NewFSImporter`'s path rule: a directory becomes `dir/index.tengo`, then a name without extension (`path.Ext`) gets `.tengo` |
| `ImportFromFS` | `ImportFromFSWithTranspiler`: `Stat`, `ReadFile` (which fails on a directory), `Transpile`; any error is nil |
| `ZipImporter`, `NilImporter` | `NewZipImporter`: on an unpack error it logs and returns a nil func |
| `ImporterChain` | the transpiler each importer was given: the sandbox (`transpile.G`, then the registries' steps) for private roots, the registries' group for global ones |
| `AllNames` | `RegistryTable.AllNames`, the keys of the three maps one after the other (Go's map order is random; one order is taken) |
| `GetAllModules`, `CompositeGet` | the fallback in `AddImporter` order; `Composite.Get` past the ModuleMap calls them in turn; a nil func panics |

`Denotes`, `SearchOrder` and `Loads` state spec §4.5 and lego's comments
(private paths first, the global path last so that a local copy overrides
it) without the importers. `LegoLoadsFirstLoadable` checks, in every table
state, every layout (507), both names (`m`, `m.tengo`) and both outcomes
of the global step (succeeds or fails), that an import gets the first root
that has the file and transpiles it. When the private copy fails to
transpile, the name falls through to a later root, as spec §4.5's "first
success wins" says.

- **Failed unpacks.** The run unpacks every archive (`ZipOk = {TRUE}`).
  With `ZipOk = {TRUE, FALSE}` TLC reports `LegoLoadsFirstLoadable`
  violated in the initial state: the nil func `NewZipImporter` returned is
  called and panics for a name the working directory lacks.
- **ModuleResolution_FullyTranspiled.cfg.** `getAllModules` gives the
  global roots the registries' group, not the sandbox, so a module found
  there skips `transpile.G` (shebang removal, import optimisation, the
  `(x)=>` rewrite). The same file in a `-lib` path is transpiled with it.
  `NewApplet` (`vm/appman.go`) gives all of a hosted sandbox's importers
  the registries' group too. Spec §4.4 applies the global, sandbox and
  registry chains to every compile. The violation is in the initial state.
- **Not modelled here:** the `{var}` substitution in import names
  (`Environment.Parse`, §11); `ZipFS.Open` leaving the archive open when
  the entry is missing (every miss through a global archive leaks a
  reader); `ImportUrl`, which nothing calls.

## 7. CronStore: what is modelled

`CronStore.tla` models `src/ext/cronlib`: the cron services of the
sandboxes, their configs and jobs in the badger store, and the boot of
each sandbox's default service.

| TLA+ | Code |
|---|---|
| `cfgStore[n]` | the `ServiceConfig` saved under service `n` (`cron.go` `Save`) |
| `jobStore[n][j]` | the executor saved for job `j` (`executor.go` `SaveExecutor`), or `NoEntry` |
| `svc[n]` | the in-memory `cronService`: its `app` and scheduled `entries` |
| `pc[a]`, `lc`, `bootLock` | sandbox `a`'s place in `BootCronServices`, its loop state, the module's mutex |
| `NewService` | `module.go` `NewCronService` → `NewCronServiceWithDB` |
| `Schedule`, `RemoveJobs` | `cronService.Schedule`, `Remove` (with `DoSchedule`, `Save`, `RemoveByName`) |
| `BootCall` … `BootDefault` | the steps of the Initialized hook: lock, look for the default service, `BootCronServices` over the stored configs, `Restore` of each job, unlock |
| `Details`, `Policies` | the `JobDetail` stored as JSON: its cron expression and its policy, one name a script passes (`delayIfRunning`, whose wrapper queues blocked runs, is not modelled) |
| `PolicyValues`, `ParseJobPolicy`, `Invalid` | `policyValueMap` and `ParseJobPolicy` through `UnmarshalText`: `""` is `empty`, a known name its value, any other name fails `schedule` before anything changes (the pass run passes a misspelt `skipIfRuning`) |
| `Start`, `Stop`, `started` | `svc.start` (and `svc.run`, the same loop in the calling goroutine) and `svc.stop` of the robfig scheduler |
| `Fire`, `Finish`, `runs[n][j]` | the scheduler firing an entry (`Executor.Run` through its wrapper chain; `SkipIfStillRunning` drops a firing while that wrapper's run is going) and `Executor.run` returning; `cur` counts the current executor's runs, `old` those of executors since replaced |
| `Replaced` | `RemoveBy`'s `s.Remove`: the entry goes, its run does not stop |
| `Restart` | the process stops: the store stays, every in-memory service, lock, scheduler and run is gone |
| `List`, `ScriptList` | `CronService.List` (every scheduler entry's `JobDetail`, under the mutex) and `svc.list()`, of which the model keeps each job's `cron` and `policy`. The safety properties are stated over what `svc.list()` shows |

Names are small integers (`Apps`, `Svcs`, `Jobs` in the config), so the
store's key order is the order of the numbers, and sandbox `a`'s default
service `<name>_CRON_SERVICE` is service `a`.

Ghost variables: `owner[n]` (the sandbox that created service `n`),
`live[n]` (the jobs scheduled and not removed since), `booted`.

| Run | Config | Checks | Result |
|---|---|---|---|
| cron_safety | `CronStore.cfg` | TypeOK, DurableSchedule, BootReturns | pass (283k states, under 2 min) |
| (reproduction) | `CronStore_RemovedStaysRemoved.cfg` | RemovedStaysRemoved | violated: code bug |
| (reproduction) | `CronStore_JobsRunInOwner.cfg` | JobsRunInOwner | violated: code bug |
| (reproduction) | `CronStore_SkipIfRunningExcludes.cfg` | SkipIfRunningExcludes | violated: code bug |

- **CronStore_RemovedStaysRemoved.cfg.** A job is scheduled, then rescheduled with a spec the
  parser rejects: `DoSchedule` removes the running entry but the stored
  executor stays. The next boot restores it.
- **JobsRunInOwner.** `BootCronServices` sets `app` on every stored service,
  also on a service another sandbox created, so its jobs run in the wrong
  sandbox. No restart is needed.
- **SkipIfRunningExcludes.** A job with the `skipIfRunning` policy fires.
  While it runs, the script schedules it again, or another sandbox's
  `cron.boot` restores it. `DoSchedule` builds a new executor with a new
  `SkipIfStillRunning` wrapper, which has not seen the old run, so the next
  firing runs beside it (`MaxRuns = 2`).

Bounds: two sandboxes, one valid and one invalid spec, one restart, one
run of a job at a time. The pass run has one job and only the
`skipIfRunning` policy: with two jobs and both policies the liveness check
does not end in the time a run is given, and the second job only repeats
the first's steps in `Restore`'s loop. The reproductions of the store bugs
keep two jobs and both policies. Two sandboxes are the fewest for one to
boot another's service.
Fairness: weak on each boot step and strong on taking the lock.
`sync.Mutex` hands the lock to a waiter that has waited over 1 ms, so a
sandbox cannot be passed over forever.

## 8. LogHub: what is modelled

`LogHub.tla` models `src/loghub/subscriber.go` and the script log module
`src/ext/loglib/log.go` whose calls make the entries.

| TLA+ | Code |
|---|---|
| `Viewers = Names \X Conns`, `ViewerName` | a websocket connection to `/{sandbox}/log`, and the `{sandbox}` of its URL |
| `subs[n]` | `logHooker.subscribe[n]`: the viewer whose channel is under sandbox `n` |
| `chan[v]`, `Cap` | the viewer's `make(chan *logrus.Entry, 100)` |
| `entry[i]`, `Entries` | the i-th entry: its `sandbox` field, its level, and (for the properties) the sandbox whose script logged it |
| `ScriptLog(s, l, field)` | `log.info(...)`, `log.err_with(m, ...)` and the rest: `WithField("sandbox", s)`, then `WithFields(m)`, whose `"sandbox"` key replaces the field. The calls that fail on their arguments log nothing and are no step |
| `ServerLog(l)` | any other logrus call: an entry with no sandbox field |
| `FireEntry`, `RangeBegin`, `RangeNext`, `Send` | `Fire`'s goroutine: `for _, ch := range f.subscribe { ch <- entry }`, one key at a time, so a map written meanwhile is seen as Go's range sees it |
| `Connect`, `Disconnect` | the handler's `Subscribe`; and, when `ReadJSON` fails, `logrus.Error`, the deferred `UnSubscribe` and `ws.Close` |
| `setting[v]`, `Filters`, `Cmds`, `Command`, `Update` | the viewer's `SubscriberSetting`; `ReadJSON(filter)` decodes a command into it (a field left out keeps its value) and `update()` recompiles: no filter or one that does not compile leaves `compiled` nil |
| `ReadTake`, `ReadExec`, `Deliver` | the reader goroutine, which never ends: skip another sandbox's entry or a level `Levels` leaves out; `Exec` (nil check, then `Clone`, `Run`); `WriteJSON`, which on a closed socket fails and fires one more entry through `logrus.Error` |
| `MapWriteRace`, `dead` | a map write while a goroutine ranges without the mutex; the runtime may abort the process (undefined behaviour, so a choice). `ReadExec` on a compiled filter cleared since the nil check also sets `dead`: `Clone` on nil panics in a goroutine |

A filter expression is abstracted to what `result=(<filter>)` does with an
entry: `""` (none), `"errOnly"` (admits entries of level error), `"bad"`
(does not compile) and `"runErr"` (compiles, fails when run, so the reader
writes an error object instead of the entry).

| Run | Config | Checks | Result |
|---|---|---|---|
| loghub_safety | `LogHub.cfg` | FiresComplete | pass (179k states, about 25 s) |
| (reproduction) | `LogHub_OpenViewerSubscribed.cfg` | OpenViewerSubscribed | violated: a second viewer of a sandbox replaces the first |
| (reproduction) | `LogHub_NoFatalRace.cfg` | NoFatalRace | violated: unlocked map range |
| (reproduction) | `LogHub_OwnSandboxOnly.cfg` | OwnSandboxOnly | violated: a `_with` map's `sandbox` key reroutes the entry |

- **NoFatalRace** has two causes. TLC reports the map race first. With
  `MapWriteRace` taken out of `Next`, it finds Exec's in 10 states: a
  command sets `errOnly`, the reader passes the nil check, a command
  clears the filter, and `Clone` dereferences nil.
- **OwnSandboxOnly.** A script of `s2` calls `info_with({sandbox: "s1"}, …)`.
  The viewer of `/s1/log` connects, and its reader writes the entry.

Bounds: one sandbox and one viewer, channels of one entry, two fired
entries, two levels and two setting commands in the passing run. A
channel of one entry is already full after one send, so blocked senders
happen. Two commands are what Exec's race needs (set a filter, clear it).
Two entries are enough for reordering and for a `logrus.Error` entry fired
by a reader or a disconnect. The reproductions use two viewers of one
name (the replacement, the map race) or two sandboxes (the rerouting).
Fairness: weak on each Fire goroutine and each reader. The Go scheduler runs
every runnable goroutine. Connections, commands and log calls get no fairness.
`CHECK_DEADLOCK FALSE`: once every entry is fired and sent, the hub
rightly waits.
Not modelled: the data race on the handler's `err`, which the reader and
the command loop both assign; it only changes which error is logged.

## 9. KVRegistry: what is modelled

`KVRegistry.tla` models `src/kvstore/local.go` and its callers: the badger
provider's `open`/`take` (`ext/badgerlib`), the cron module's storage, and
lego's cleanup (`kvstore.Shutdown`).

| TLA+ | Code |
|---|---|
| `reg[n]`, `dbs` | the `databases` sync.Map, and the `*badger.DB`s `badger.Open` returned (dir, closed) |
| `flight[n]`, `Complete` | `singleflight.Group.Do(name, …)`, shared by `Open` and `Get`; `doCall` releases the leader and every waiter together |
| `Open`, `Get` (`Call`) | `kvstore.Open(name, options)`, `kvstore.Get(name)`: join a flight or lead one; a name in `MemNames` (one beginning with `:`) clears the directory and opens in memory (`""`) |
| `OpenBadger`, `OpenArgs`, `Reject` | `badger.open` (`openBadger`, `OpenBadgerDB`): a wrong argument count, a non-string name or an option of another type give an error object; `open(name)` uses the name as its directory; `open(name, dir)` takes a string, an option proxy or an option map naming the directory. The cron module's `kvstore.Open(name, DefaultOptions(dir))` has the same shape |
| `Take` | `badger.take(name)`: `kvstore.Get`, any failure an error object |
| `Load` | the leader's fn: `databases.Load(name)`; Get's fn returns "not exists" |
| `BadgerOpen` | `badger.Open`, which fails on a directory another open database holds (an in-memory database holds none), then `databases.Store` |
| `Shutdown` | `kvstore.Shutdown`: close every database in the map, leaving the entries |

| Run | Config | Checks | Result |
|---|---|---|---|
| kv_registry | `KVRegistry.cfg` | TypeOK, NoLeakedDB | pass (346k states, about 10 s) |
| (reproduction) | `KVRegistry_OpenCreates.cfg` | OpenCreates | violated: code bug |

- **OpenCreates.** Goroutine 1's `take(n)` leads the flight. Goroutine 2's
  `open(n, d)` joins it. The lookup finds nothing, and both return "not exists".
- Open returns the database already stored under a name whatever
  directory its options name (`local.go:79`): `open(n2, n1)` leads and
  `open(n2)` joins, and both get the database in `n1`. The comment at
  `badger.go:531` accepts this, so no property states otherwise; the
  cron module's `boot(storage)` opens its shared storage this way, once
  per sandbox, and every sandbox after the first uses the first one's
  directory.

Bounds: two goroutines and three names, `n3` in memory; the directories
are the names themselves (`open(name)`) and `Dirs = {n1}`, so
`open(n2, n1)` and `open(n1)` share a directory. Two goroutines are what
a join needs. Two names on one directory give the lock failure; the
in-memory name never meets it. Two directories for one name give the
mismatch. The number of
databases is bounded because a name, once stored, is never opened again.
Fairness: none; only safety is checked. That a waiter is released
once the leader's fn returns is singleflight's guarantee, not this
code's.
Not modelled: `kvstore.Close`, which nothing in `src` calls. Shutdown's
`Range` is taken as one step.

## 10. BadgerClient: what is modelled

`BadgerClient.tla` models the script functions of `src/ext/badgerlib/badger.go`
on one database. Keys are byte strings, written as sequences of small
integers and ordered by `ByteLess` (bytes.Compare). An iterator yields the
live keys (`LiveKeys`): neither deleted nor expired.

| TLA+ | Code |
|---|---|
| `store[k]`, `exp[k]` | the latest version of `k` and its `ExpiresAt` |
| `SetMap`, `SetKV`, `SetTTL` | the three forms of `set`; a value `ToByteSlice` rejects returns before the write; `WithTTL(time.Duration(ttl))` gives `ExpiresAt = (now + ttl ns).Unix()` |
| `Del` | `badgerClient.Delete`: one `Update` deleting every key |
| `KeyOf`, `DeletedBy`, `ScriptDel` | `del(args...)`: each argument through `tengo.ToString`, which fails only on undefined and prints anything else (an array `["k"]` names no key); then `Delete` |
| `files[f]`, `bk[p]` | how often `backup` has `os.Create`d path `f`; the path script goroutine `p` chose by `os.Stat` and has not created yet |
| `BackupStat`, `BackupCreate` | `backup(name, since)`: empty name an error, an existing directory gets `<dir>/<second>.bbk`, an existing file an error; then `os.Create` (which truncates) and `b.Backup` |
| `Tick`, `ValueLogFault` | the wall clock; a value the value log can no longer read |
| `PageLoop`, `ListKeys`, `ListKeysWithPrefix` | the counting loops of `list_keys` and `list_keys_with_prefix` |
| `SearchPrefix`, `PrefixScan` | `search_prefix` → `SearchPrefix`: `Seek(p)`, then while `ValidForPrefix(p)` |
| `Get`, `BatchGet`, `ScriptGet` | `get` with one key (`Get`) or more (`BatchGet`) |
| `Needle`, `ContainsBytes`, `Search` | `search(v, _)`: fewer than two arguments is `ErrWrongNumArguments`; a string or bytes `v` (nil for any other type, which every key contains); a key-only iteration keeping the keys that `bytes.Contains` `v` |

Reads change nothing, so they are operators. The invariants compare them
in every reachable state with `Page` and with the set of live keys with a
prefix, for every offset and limit in `0..2` and every prefix of a key.
`search` is modelled but no property is stated about it: it is one
`bytes.Contains` filter over a key-only iteration.

| Run | Config | Checks | Result |
|---|---|---|---|
| badger_client | `BadgerClient.cfg` | TypeOK, ListKeysPage, SearchPrefixExact | pass (273k states, about 2 min) |
| (reproduction) | `BadgerClient_BackupFileOnce.cfg` | BackupFileOnce | violated: code bug |
| (reproduction) | `BadgerClient_PrefixPage.cfg` | PrefixPage | violated: code bug |
| (reproduction) | `BadgerClient_ReadErrorReported.cfg` | ReadErrorReported | violated: code bug |

- **PrefixPage.** `list_keys_with_prefix` never moves `limit` past
  `offset`. With two keys, `(p, 1, 1)` returns nothing.
- **ReadErrorReported.** `get(k)` of a key whose value cannot be read
  returns nothing and no error. `search_prefix` over it panics in
  `Txn.Discard`, because its iterator is still open.
- **BackupFileOnce.** Two `backup("d", 0)` calls into directory `d`
  within one second `os.Create` the same `<second>.bbk`, and the second
  truncates the first backup. With two goroutines, two backups to one new
  file name both pass the `os.Stat` check the same way.

Bounds: three keys (`<<1>>`, `<<1,2>>`, `<<2>>`: one a prefix of another,
one sorting before a prefix), two values, ttl 0, 1 and 3 ns with two ns to
the second, and a clock of two seconds. These reach the following cases:
- a ttl expiring within the same second;
- a ttl outliving the clock;
- `Seek` skipping a smaller key.
The passing run has one backup goroutine and one `os.Create` per path, a
directory `"d"` and a file name `"f"`: the clock's three seconds give three
directory paths. The `BackupFileOnce` reproduction has two goroutines and
two creates per path.
`search` requires a second argument that it never reads, so a one-argument
`search(v)` returns `ErrWrongNumArguments`. The model keeps this. Not modelled: `backup`'s
`since` (every backup is a full one) and the size presets. Values read after
`Item.Value`'s callback (`data = val`) are assumed valid, though badger only
promises them inside it.

## 11. AppletConfig: what is modelled

`AppletConfig.tla` models a sandbox's context store and its configuration:
`Environment.Parse` and `Get` (`env/gmap.go`), `Applet.New`'s profile
default and lego's copy of the process environment, `env.set`
(`ext/envlib`), `Applet.Config`, `util.MergeMap` and `GetConfig`.

Strings are sequences of runes from a small alphabet. `"A"` and `"C"` stand
for the ASCII text `application` and `config`, `"p"` for the variable name
`profile`, `"t"` for the profile `test`. `"u"` is a rune that UTF-8 encodes
in two bytes, so `UTF8` and `Decode` give the byte slicing of
`src[start:end]` its real meaning.

| TLA+ | Code |
|---|---|
| `ParseLoop`, `Parse` | `Environment.Parse`: the rune loop with `start`/`end`, the byte slice, `!name` for an unset name, `envVal.(string)` panicking on anything but a string |
| `ctx`, `Lookup`, `EnvSet` | `app.Context`; `env.set` stores the tengo object itself |
| `gprofile`, `New`, `Init` | the process's `profile`: absent (`Unset`), empty (`profile=` in the OS environment or `-D profile=`), or a value. `sandbox.New` sets `profile` to `test` when the process has none or an empty one; lego's `main` then copies `env.All()` into the context, an empty `profile` included; `VirtualHost.NewApplet` does not copy |
| `files`, `dirs` | the candidate files and directories in the sandbox's file system: missing, malformed, or a document |
| `FileLoop`, `DirLoop`, `MergeMap`, `Config` | `Applet.Config` under `app.mx`: the first file that parses (then `break`), every parsing `*.yml` member of every existing directory, merged later-wins, computed once |
| `GetLoop`, `GetConfig` | `GetConfig`'s walk over the dotted key, for `sys.get_config` |

| Run | Config | Checks | Result |
|---|---|---|---|
| applet_config | `AppletConfig.cfg` | ParseASCII, MalformedSkipped | pass (19k states, 24 s) |
| (reproduction) | `AppletConfig_ParseMatchesSpec.cfg` | ParseMatchesSpec | violated: code bug |
| (reproduction) | `AppletConfig_MergeFixture.cfg` | MergeFixture | violated: spec divergence |
| (reproduction) | `AppletConfig_GetConfigPath.cfg` | GetConfigPath | violated: spec divergence |

- **ParseASCII** compares `Parse` with the substitution spec 4.5 describes
  (`SpecParse`) on every well-formed template of up to four runes without
  the two-byte rune, whose names hold strings or nothing.
- **MalformedSkipped** says the first merge holds the keys of the first
  candidate file that exists and parses and of every parsing member of
  every existing directory.
- **ParseMatchesSpec** drops the two restrictions. `"u{p}"` looks up the name
  `"{"`, one byte off. After `env.set("profile", …)`, any `{profile}` panics.
- **MergeFixture** states spec 6's fixture: base `{a:1, b:2}` and profile
  `{b:3}` give `a == 1, b == 3`. It fails three ways:
  - `application.yml` is not read once `application_test.yml` parses;
  - `config/` is merged after `config_test/` and overrides it;
  - a VirtualHost sandbox in a process started with `-profile test` reads
    `application_!profile.yml`;
  - lego's sandbox in a process whose `profile` is empty has `profile = ""`
    in its context, so `application_{profile}.yml` names `application.yml`
    and `config_{profile}` names `config/`, while `env.profile()` says
    `test`.
- **GetConfigPath.** `GetConfig("b.a")` returns `b`'s scalar with `ok`.

Bounds: one profile (`test`) besides none and the empty one, two documents (the fixture's), directories of
at most two members (a malformed one first), and one file-system write
after the start, so the merge is computed both before and after a change. The unresolved names `application_!profile.yml` and
`config_!profile` never exist. Templates have up to four runes, which
covers a placeholder after text, two placeholders, `{}` and a brace
inside a name.

## 12. LegoMain: what is modelled

`LegoMain.tla` models the lego process (`lego/lego.go`, `lego/prof.go`):
`main`'s invocations and exit paths, `startup`'s signal handling and
http server, and `cleanup`. Cleanup runs either as `main`'s deferred call
or in the signal goroutine. It reaches `Applet.Shutdown`, the database
provider's Stop hook over its GroupCache, and `kvstore.Shutdown`. Three
kinds of goroutine run at once:

- `main`;
- the signal goroutine;
- the script's own goroutines (request handlers), which open pools through
  `GetOrOpen`/`GroupCache.Get` and a badger database through `kvstore.Open`.

| TLA+ | Code |
|---|---|
| `inv` | what the command line asks for: help/version/env, `-mod`, the REPL, `-t`, `-o`, a `.tengo` file (or `-e`), a compiled file |
| `Startup`, `EnableLogger`, `StartHttpServer` | `startup`: `signal.Notify` on an unbuffered channel, the goroutine, then `startHttpServer`, which serves only if `enableHttp` is set already |
| `Flag`, `WorkDir`, `NewSandbox`, `EnableProf` | `main`, step by step; each `os.Exit` is `Exit`, which ends the process without the deferred cleanup |
| `RunREPL`, `Transpile`, `ReadInput`, `CompileOnly`, `CompileAndRun`, `RunCompiled` | `main`'s modes: the REPL (which initialises the applet), `-t`, reading the file or `-e` source, `-o`, a `.tengo` run through `app.Run` (which initialises the applet), a compiled file run in a VM of its own |
| `ReplEnds`, `ScriptEnds`, `CompiledEnds` | the end of the run: EOF returns from the REPL and from `main`; `CompileAndRun` returns nil whatever the script did, so `main` always `os.Exit(0)`s; `RunCompiled`'s error is `os.Exit(1)`, its success a return |
| `SigReady`, `Interrupt` | the goroutine reaching `<-sigCh`; a SIGINT, which is lost unless the goroutine waits there |
| `CleanupBegin` … `CleanupExit` | `cleanup()`: `app != nil`, Shutdown's `DoNotify(SigStop)`, whose Stop hook runs `EvictWith` (`Evict`, `CloseCached`) and deletes `DBCache` (`DeleteCache`), then `kvstore.Shutdown`; then the return from `main` or `os.Exit(0)` |
| `GetCtx`, `CacheGet`, `KvOpen` | a handler's `GetOrOpen`: `Context.Get(DBCache)`, then `GroupCache.Get` under the mutex, where `sqlx.Connect` may fail; `kvstore.Open`. `Get` and `EvictWith` each hold the mutex for the whole of one step, so the mutex is not a variable |

| Run | Config | Checks | Result |
|---|---|---|---|
| lego_lifecycle | `LegoMain.cfg` | TypeOK, PoolsClosedByCleanup | pass (29k states, 2 s) |
| (reproduction) | `LegoMain_PoolsClosedAtExit.cfg` | PoolsClosedAtExit | violated: code bug |
| (reproduction) | `LegoMain_InterruptStops.cfg` | InterruptStops | violated: code bug |
| (reproduction) | `LegoMain_ProfServed.cfg` | ProfServed | violated: code bug |

- **PoolsClosedByCleanup.** When the process ends through a cleanup, every
  pool opened before that cleanup began has been closed. This holds
  whichever of the two cleanups and the handlers runs first. A pool opened
  after the Stop hook evicted the cache is left open; that is inherent in
  shutting down while handlers still run.
- **PoolsClosedAtExit** drops "through a cleanup". A `.tengo` run ends in
  `os.Exit(0)` (line 318), so no Stop hook runs.
- **InterruptStops.** A SIGINT sent between `Notify` and the goroutine's
  first receive is dropped, and a serving script runs on.
- **ProfServed.** `-prof` without `-log_tail` registers the pprof routes
  after `startHttpServer` has decided not to serve.

Bounds: two handlers, two pools, two SIGINTs (one in the
`InterruptStops` reproduction, so the lost signal is not followed by
another), and every invocation. One database name suffices: a second name
would only add a second, independent cache entry.

Fairness: weak fairness for `main`'s steps up to the run, for the signal
goroutine reaching its receive, and for each cleanup's steps. The Go
scheduler runs a runnable goroutine. How long a script or the REPL runs,
the requests handlers serve and the signals the user sends get no
fairness. The process may stop (it exits, or a script serves with nothing
more to do), so the run does not check deadlock. Only the `InterruptStops` reproduction uses the fairness.

## 13. DatabaseObject: what is modelled

`DatabaseObject.tla` models the object scripts get from `database.open`
(`ext/databaselib/databaseobject.go`). Two script goroutines call it at
once on one shared `*sqlx.DB`, which is `database/sql`'s pool. A call
waits for a connection while `set_max_open`'s limit is reached. A `Rows`
keeps its connection until it is closed. The server keeps every prepared
statement until it is closed or the database is.

| TLA+ | Code |
|---|---|
| `Call` | a script function; `doQuery`'s argument handling |
| `Exec` | `Exec`: `db.Exec`/`NamedExec`, then `LastInsertId` and `RowsAffected`; any error is an error object |
| `Prepare`, `Fail` | `doQuery`'s `Preparex`/`PrepareNamed`, which the server may refuse; the statement is never closed. A failure returns `util.Error`, and in `QueryRows` it reaches `rows.Columns()` on a nil `Rows` |
| `QueryStep` | `stmt.Queryx`: the `Rows` takes a connection |
| `Rows`, `RowsErrors`, `Done`, `Success` | `Query`, `QueryRows`, `queryMap` and the `*_first` functions over the rows, with the deferred `rows.Close` on every return: a `ColumnTypes` or scan error (an error object), `QueryRows`' `Columns` error (a Go error), a `rows.Next` that stops on an error nobody checks, or the rows |
| `SelectxFns` | `selectx` and `selectx_first`: `queryMap(true, ...)`, which differ from `select` and `select_first` only in the case of the column names |
| `PoolFns`, `SetPoolOption` | `set_max_idle(n)` (`SetMaxIdleConns`, returns `"OK"`); `set_max_idle_time(d)` and `set_max_life_time(d)`: `time.ParseDuration`, whose error is returned, then `SetConnMaxIdleTime` or `SetConnMaxLifetime` |
| `Return` | the script goes on; the call's locals (`fn`, `failed`, `applied`, `nrows`) are gone |
| `Close`, `SetMaxOpen` | `close()` → `Close(app, name)` → `db.Close()`; `set_max_open(n)` passes n to `SetMaxOpenConns` unchanged; `ConnFree` is `database/sql`'s reading of it, where n <= 0 means no limit |
| `CallExecFile`, `ExecFileLine`, `FileDone`, `LineKinds`, `WrapError` | `exec_file(path)`: `os.Open`, then one turn of `ExecFile`'s `ReadLine` loop per step: a comment is skipped, SQL is appended to `currentQuery`, and a line ending with `;` (comments too) runs `db.Exec(currentQuery[0:len-1])` on a pooled connection. EOF returns nil (`true` to the script, through `ReflectProxy` and `stdlib.FuncASRE`), and a read or `Exec` error an error object |

`nrows` is abstracted to "no rows" or "some rows", and a result to its
kind: rows, a row, undefined, true, an error object, a Go error or a
panic. A file's lines are read one per step, each of one of four kinds
(comment, comment ending with `;`, SQL, SQL ending with `;`), so every
file of up to `MaxLines` lines is covered. Only whether `currentQuery`
is empty is kept. The pool's idle connections are not modelled, so the
idle settings change nothing but the result. Closing an idle connection
would drop the statements prepared on it: `StmtsReleased` is violated with
the default pool settings, and `set_max_idle(0)` would hide the leak.

| Run | Config | Checks | Result |
|---|---|---|---|
| database_object | `DatabaseObject.cfg` | RowsReleased | pass (195k states, about 5 s) |
| (reproduction) | `DatabaseObject_StmtsReleased.cfg` | StmtsReleased | violated: code bug |
| (reproduction) | `DatabaseObject_NoPanic.cfg` | NoPanic | violated: code bug |
| (reproduction) | `DatabaseObject_ExecReportsApplied.cfg` | ExecReportsApplied | violated: code bug |
| (reproduction) | `DatabaseObject_FailureReported.cfg` | FailureReported | violated: code bug |

- **RowsReleased.** A call that has returned holds no connection. It
  holds because every return path, the error returns included, runs the
  deferred `rows.Close`.
- **StmtsReleased.** With no call in progress, the server holds no
  statement. It is violated: `doQuery` never closes its statement (line 371).
- **NoPanic.** No call panics. There are two causes. A `query_rows` whose
  SQL fails panics on the nil `Rows` (line 195). An `exec_file` panics
  on a comment line ending with `;` (say `-- DROP TABLE t;`) when
  `currentQuery` is empty: that happens first in the file or right after
  a statement, and the slice bound is -1 (line 63). The reproduction
  shows whichever trace is shorter. The `exec_file` trace was also
  checked with the `query_rows` cause removed.
- **ExecReportsApplied.** On mssql, `LastInsertId` always fails, so every
  successful `exec` returns an error object (line 136).
- **FailureReported.** `rows.Err()` is never checked (line 173). A result
  set that breaks off is returned as if it were complete.

Bounds: two goroutines; both drivers; a server limit of three statements,
which a few queries reach; `set_max_open` with -1 (no limit, always
offered) and 1; files of up to two lines, so that a statement can be
split over two lines, or followed by a comment ending with `;`.

Fairness: none; only safety is checked. With `set_max_open(1)`, a call
that kept its connection after returning would leave every other call
waiting; `RowsReleased` rules that out, and that a waiting call is then
served is `database/sql`'s guarantee. Deadlock is checked: a goroutine can
always call again.

## 14. HttpServer: what is modelled

`HttpServer.tla` models the http provider's server object
(`ext/httplib/http_server.go`, `script_handler.go`, `middleware.go`,
`script_dir_handler.go`, `websocket_handler.go`, `http_handler.go`, and the
converters `converter.go`, `htmlview.go`, `jsonview.go`). A configuring script registers routes and
middlewares on a gorilla/mux router. It starts the server in a goroutine
(`start`) or in its own goroutine (`serve`), and some script closes it.
Meanwhile a request is matched and runs on its own goroutine.

| TLA+ | Code |
|---|---|
| `Handle`, `RouteMethods`, `HandlePrefix`, `Use`, `UseCors` | `handle`/`get`/`post`/`put` (any method, or the one they pass), `handle_script_dir`/`handle_static`, `use`, `use_cors`: routes and middlewares appended in order |
| `Configure` | the setters `tpl`, `root`, `boot_script`, `addr`, `cert`, `key` (or `s.cert = v` through `IndexSet`): only whether `certFile` and `keyFile` are set is kept |
| `Start`, `Listen`, `Listening`, `Serve`, `ServeTls`, `Close` | `start` (callable again once its goroutine has ended; while it serves, a second goroutine only fails to bind and logs it), `start`'s goroutine (Boot, then `ListenAndServeTLS` if both files are set when it reads them, else `ListenAndServe`; the error is only logged), `serve`, `serve_tls` (sets both files, and fails on an empty one), and `close` → `Server.Close` |
| `Arrive` | mux's match: the first route for the path and method, behind the middlewares registered now; 405 or 404 without them |
| `Cur`, `Compile`, `Process`, `Inner`, `ScriptStep`, `Popped` | one level of the chain: `NewScriptMiddleWare`'s `next`, `GetCompiled`/`RunFile` failing into `responseError`, `process()` (which a script may call any number of times, each call running the inner levels afresh), the script's calls, and the return |
| `WriteResponse`, `Redirect`, `Status`, `SetHeaders`, `RequestRead`, `Fails` | the response functions `body`/`json` (`writeResponse`), `redirect` (`WriteHeader(302)`), `status`, `header`/`set_cookie`, and the request functions; a Go error they return stops the script, answered by `responseError` |
| `HandlerFuncs`, `ConvertWrite`, `ConvertRead`, `HtmlWrite`, `JsonWrite`, `JsonRead` | a script handler's `view`, `get_json` and `set_json`/`write_json`: a wrong argument count is an error; then the media converters. A view is looked up, or read and parsed (an error before writing), and `Execute` writes it, possibly failing part-way after the status is fixed at 200. JSON is marshalled (an error before writing) and written by one `Write`. A read decodes the body |
| `HandleWs`, `WsStep` | `handle_ws`, and `WebsocketHandler.ServeHTTP`: `Upgrade` failing with 400 or 405, or 101 and a hijacked connection; compile and run errors only logged |
| `Written`, `ErrorOut` | net/http's first `WriteHeader` wins; `responseError` writes 500 and the error text |

A request is a record: its middleware chain, the level running, the
levels that compiled or called `process()`, and the response's status,
body and failure.

`start` returns before its goroutine reads `certFile` and `keyFile`, and
nothing orders that read with a later `cert()` or `key()` of the script:
in Go it is a data race. The model lets the setters interleave with
`Listen`, so the goroutine listens with whatever the files are when it
runs: plain if the script clears one (`cert("")`) after `start`, TLS
if both are set only after `start`. No property is
stated about this. The code promises nothing here.

| Run | Config | Checks | Result |
|---|---|---|---|
| http_server | `HttpServer.cfg` | FailureBeforeWriteIs500 | pass (6.4M states, about 2.5 min) |
| (reproduction) | `HttpServer_ErrorsAre500.cfg` | ErrorsAre500 | violated: code bug |

- **FailureBeforeWriteIs500.** A request whose first failure came before
  anything was written to it is answered 500. `responseError` calls
  `WriteHeader(500)` before writing its text. After that, an outer
  middleware's script may go on writing or calling `set_status` once
  `process()` returns, and net/http adds its implicit 200 at the end;
  neither changes the status. The field `blank` of a request records
  whether nothing had been written when it first failed.
- **ErrorsAre500.** A failed request is answered with 500. It is violated
  when a script writes and then fails: `responseError`'s `WriteHeader(500)`
  comes after the first write, so net/http ignores it and the client sees
  200. A `view` whose template fails part-way through `Execute` is one
  way to get there.

A parsed view is kept in the converter's template set under its name, and
`tpl.Lookup` finds it on every later request. An edited
`view/<name>.tpl.html` is never read again while the server runs. The
model does not track template contents, so no property covers this.

Bounds: two paths and two methods, so that 404 and 405 both occur; one
status a script sets; two routes; two middlewares, so that a chain has an
inner level; one request. The websocket handler is a route kind of its
own, so a request through the middlewares to an upgraded connection
happens. Requests do not share state, so a second
request would only interleave with the first.

Fairness: none. No property is about progress. Scripts may run forever,
and the process may stop, so deadlock is not checked.

## 15. UInt: what is modelled

`UInt.tla` models `src/ext/util/uint.go`, the tengo value the reflection
bridge makes of Go's unsigned integers. `W` and `CW` are the widths of
`uint64`/`int64` and of `rune`; the config uses 4 and 2, where every
sign, wrap and truncation of the 64- and 32-bit types already happens.

| TLA+ | Code |
|---|---|
| `ToUint`, `ToRune` | the conversions `uint64(rhs.Value)` and `rune(o.Value)`: the same bits at the other type |
| `UintOp` | the arithmetic of the `*UInt` case, modulo 2^W; a division by zero is Go's panic |
| `UintRhs`, `Cmp` | the `*tengo.Int` and `*UInt` cases: convert, then compute or compare |
| `FloatRhs`, `CharRhs` | the `*tengo.Float` and `*tengo.Char` cases |
| `BinaryOp`, `Equals` | `UInt.BinaryOp`'s type switch (any other type is `ErrInvalidOperator`) and `UInt.Equals` |
| `x`, `Assign` | a script variable holding a UInt, and `x = x op rhs` for every operator and operand |

| Run | Config | Checks | Result |
|---|---|---|---|
| (reproduction) | `UInt_CompareAsNumbers.cfg` | CompareAsNumbers | violated: code bug |

- **CompareAsNumbers.** A uint compared with a negative int compares with
  that int's bits read as a uint: `0 < -1` is true, and the largest uint
  equals -1. TLC reports it in the first state, `x = 0`.

Not modelled: the Float quotient, which is not a whole number, and the
object returned when the result equals `o.Value` (the same `o` instead
of a new UInt of that value; no script can tell them apart).

## 16. Not modelled

- **Capability providers, the reflection bridge (value wrappers other than UInt), the REPL loop and code generators:** see
  `PROJECT.json` `components`. These are pure I/O or reflection adapters
  with no state of their own that TLC could explore.
- **The tengo VM** is a black box (spec §1).
- **YAML parsing** inside `Config()`: a document either parses to a map
  or is malformed (see §11).
- **Cron jobs' reads and the delay policy:** `svc.list` and the conversion
  of `ExecEntry` values to tengo objects only read the scheduler. The
  `delayIfRunning` wrapper queues a firing behind the same wrapper's run,
  and it has the same per-executor state as `skipIfRunning`. A failing
  `NewCronService` inside `BootCronServices` (line 112 uses the service
  before checking the error) needs a failing store write, which is not
  modelled.
