-------------------------- MODULE AppletLifecycle --------------------------
(***************************************************************************)
(* The lifecycle of one sandbox (src/sandbox/applet.go) together with the  *)
(* database provider that hooks into it (src/ext/databaselib) and the      *)
(* connection cache it uses (src/env/singleflight.go, GroupCache).         *)
(*                                                                         *)
(* Script goroutines run files: the first compile calls Initialize, whose  *)
(* sync.Once notifies SigInitialized to the hooks.  The database hook      *)
(* creates a GroupCache, puts it in the Context under DBCache and appends  *)
(* a Stop hook that evicts (closes) its connections and deletes DBCache.  *)
(* A script then calls database.open in one of its three forms, and may   *)
(* call close() on the object it got.  An administrator goroutine calls   *)
(* Shutdown, which notifies SigStop to the hooks.                          *)
(*                                                                         *)
(* Critical sections of GroupCache.mx (Get's lookup+build, EvictWith) and  *)
(* of app.mx (WithHook) are single actions: nothing else takes those      *)
(* locks, so serialising them whole loses no interleaving.                 *)
(***************************************************************************)
EXTENDS Integers, Sequences, FiniteSets

CONSTANTS
    Threads,    \* goroutines running scripts (RunFile)
    Names,      \* database names: the GroupCache keys
    MaxCalls    \* bound on the number of script runs

ASSUME MaxCalls \in Nat

VARIABLES
    hooks,      \* app.hooks: the registered SignalHookFn, in order
    onceDone,   \* app.initOnce's done flag
    onceOwner,  \* the goroutine holding app.initOnce's mutex, or NoThread
    ctxCache,   \* app.Context[DBCache]: a GroupCache id, or NoCache
    nextCache,  \* next GroupCache id (NewCache)
    entries,    \* entries[c][n]: GroupCache c's map entry for n, or NoConn
    flight,     \* flight[c][n]: leader of c.group's call for n, or NoThread
    conns,      \* conns[k]: state of connection k
    nextConn,   \* next connection id (sqlx.Connect)
    calls,      \* number of script runs started
    pc,         \* pc[t]: where goroutine t is
    lc,         \* lc[t]: goroutine t's locals
    apc,        \* where the administrator's Shutdown is
    alc,        \* its locals: the hook snapshot length, the index, the cache
    servedClosed, \* ghost: database.open returned a connection already closed
    openAtStop  \* ghost: the connections open when a Shutdown began after
                \* Initialize had returned

vars == <<hooks, onceDone, onceOwner, ctxCache, nextCache, entries, flight,
          conns, nextConn, calls, pc, lc, apc, alc, servedClosed, openAtStop>>

NoThread == "none"
NoCache  == 0
NoConn   == 0
Err      == -1      \* an error instead of a *sqlx.DB
CacheIds == 1..2    \* Initialize runs once; a second id shows it did not
ConnIds  == 1..MaxCalls  \* a run opens at most one connection

\* database.open(name)            -> Get(app, name): dbOpt{}
\* database.open(name, drv, dsn)  -> GetOrOpen(app, name, drv, dsn)
\* database.open(drv, dsn)        -> Open: key base64(dsn), object name dsn
Forms == {"get", "getOrOpen", "open"}

\* The option handed to the cache builder is non-empty for the forms that
\* pass a driver and a DSN.
ValidOpt(form) == form # "get"

\* The name the Database object keeps, used by its close(): the key itself,
\* except for the two-argument form, whose object is named by the DSN, a
\* string that is not the cache key.
ObjectIsKey(form) == form # "open"

Hook == [kind: {"dbInit", "dbStop"}, cache: CacheIds \cup {NoCache}]
DbInitHook == [kind |-> "dbInit", cache |-> NoCache]
StopHook(c) == [kind |-> "dbStop", cache |-> c]

Locals == [form: Forms, name: Names, wantClose: BOOLEAN, phase: {"open", "close"},
           cache: CacheIds \cup {NoCache}, res: ConnIds \cup {NoConn, Err},
           n: 0..3, idx: 1..4]
NoLocals == [form |-> "get", name |-> CHOOSE n \in Names : TRUE, wantClose |-> FALSE,
             phase |-> "open", cache |-> NoCache, res |-> NoConn, n |-> 0, idx |-> 1]

ThreadPcs == {"idle", "init", "onceLock", "notifyInit", "dbNew", "dbHook",
              "compile", "script", "gDo", "gWait", "gBuild", "gDone", "got"}
AdminPcs  == {"running", "notifyStop", "evict", "ctxDelete", "stopped"}

TypeOK ==
    /\ hooks \in Seq(Hook) /\ Len(hooks) <= 3
    /\ onceDone \in BOOLEAN
    /\ onceOwner \in Threads \cup {NoThread}
    /\ ctxCache \in CacheIds \cup {NoCache}
    /\ nextCache \in 1..3
    /\ entries \in [CacheIds -> [Names -> ConnIds \cup {NoConn}]]
    /\ flight \in [CacheIds -> [Names -> Threads \cup {NoThread}]]
    /\ conns \in [ConnIds -> {"unused", "open", "closed"}]
    /\ nextConn \in 1..MaxCalls + 1
    /\ calls \in 0..MaxCalls
    /\ pc \in [Threads -> ThreadPcs]
    /\ lc \in [Threads -> Locals]
    /\ apc \in AdminPcs
    /\ alc \in [n: 0..3, idx: 1..4, cache: CacheIds \cup {NoCache}]
    /\ servedClosed \in BOOLEAN
    /\ openAtStop \subseteq ConnIds

\* After NewApplet: the registries' hooks (here the database provider's
\* Initialized hook) are registered, nothing is initialised.
Init ==
    /\ hooks = <<DbInitHook>>
    /\ onceDone = FALSE
    /\ onceOwner = NoThread
    /\ ctxCache = NoCache
    /\ nextCache = 1
    /\ entries = [c \in CacheIds |-> [n \in Names |-> NoConn]]
    /\ flight = [c \in CacheIds |-> [n \in Names |-> NoThread]]
    /\ conns = [k \in ConnIds |-> "unused"]
    /\ nextConn = 1
    /\ calls = 0
    /\ pc = [t \in Threads |-> "idle"]
    /\ lc = [t \in Threads |-> NoLocals]
    /\ apc = "running"
    /\ alc = [n |-> 0, idx |-> 1, cache |-> NoCache]
    /\ servedClosed = FALSE
    /\ openAtStop = {}

Goto(t, to) == pc' = [pc EXCEPT ![t] = to]

\* The script run ends: its goroutine returns from RunFile.
Finish(t) == pc' = [pc EXCEPT ![t] = "idle"] /\ lc' = [lc EXCEPT ![t] = NoLocals]

\* The cache key goroutine t is using.
KeyOf(t) == lc[t].name

-----------------------------------------------------------------------------
(* Script goroutines                                                       *)

\* RunFile of a script: which form of database.open it calls, on which
\* name, and whether it calls close() on the object.  Runs are accepted
\* until Shutdown has returned.
Call(t) ==
    /\ pc[t] = "idle"
    /\ calls < MaxCalls
    /\ apc # "stopped"
    /\ calls' = calls + 1
    /\ \E f \in Forms, n \in Names, c \in BOOLEAN :
         lc' = [lc EXCEPT ![t] = [NoLocals EXCEPT !.form = f, !.name = n,
                                                  !.wantClose = c]]
    /\ Goto(t, "init")
    /\ UNCHANGED <<hooks, onceDone, onceOwner, ctxCache, nextCache, entries,
                   flight, conns, nextConn, apc, alc, servedClosed, openAtStop>>

\* Mutant of OnceLock: a hand-rolled Once that sets done when it takes the
\* mutex, before the function has run.
OnceLockEarlyDone(t) ==
    /\ pc[t] = "onceLock"
    /\ onceOwner = NoThread
    /\ IF onceDone
         THEN /\ Goto(t, "compile")
              /\ UNCHANGED <<onceOwner, lc, onceDone>>
         ELSE /\ onceOwner' = t
              /\ onceDone' = TRUE
              /\ lc' = [lc EXCEPT ![t].n = Len(hooks), ![t].idx = 1]
              /\ Goto(t, "notifyInit")
    /\ UNCHANGED <<hooks, ctxCache, nextCache, entries, flight, conns,
                   nextConn, calls, apc, alc, servedClosed, openAtStop>>

\* Compile calls Initialize: initOnce.Do's fast path reads the done flag.
Initialize(t) ==
    /\ pc[t] = "init"
    /\ Goto(t, IF onceDone THEN "compile" ELSE "onceLock")
    /\ UNCHANGED <<hooks, onceDone, onceOwner, ctxCache, nextCache, entries,
                   flight, conns, nextConn, calls, lc, apc, alc, servedClosed, openAtStop>>

\* initOnce.doSlow: take the Once's mutex; if done meanwhile, unlock and
\* return; otherwise run DoNotify(SigInitialized), which ranges over the
\* hook slice as it is now.
OnceLock(t) ==
    /\ pc[t] = "onceLock"
    /\ onceOwner = NoThread
    /\ IF onceDone
         THEN /\ Goto(t, "compile")
              /\ UNCHANGED <<onceOwner, lc>>
         ELSE /\ onceOwner' = t
              /\ lc' = [lc EXCEPT ![t].n = Len(hooks), ![t].idx = 1]
              /\ Goto(t, "notifyInit")
    /\ UNCHANGED <<hooks, onceDone, ctxCache, nextCache, entries, flight, conns,
                   nextConn, calls, apc, alc, servedClosed, openAtStop>>

\* One iteration of DoNotify's range: the database hook reacts to
\* SigInitialized, a Stop hook ignores it.  After the last hook, the Once
\* is marked done and its mutex released.
NotifyInit(t) ==
    /\ pc[t] = "notifyInit"
    /\ IF lc[t].idx <= lc[t].n
         THEN /\ IF hooks[lc[t].idx].kind = "dbInit"
                   THEN /\ Goto(t, "dbNew")
                        /\ UNCHANGED lc
                   ELSE /\ lc' = [lc EXCEPT ![t].idx = @ + 1]
                        /\ UNCHANGED pc
              /\ UNCHANGED <<onceDone, onceOwner>>
         ELSE /\ onceDone' = TRUE
              /\ onceOwner' = NoThread
              /\ Goto(t, "compile")
              /\ UNCHANGED lc
    /\ UNCHANGED <<hooks, ctxCache, nextCache, entries, flight, conns, nextConn,
                   calls, apc, alc, servedClosed, openAtStop>>

\* The database Initialized hook: c := env.NewCache(...);
\* app.Context.Set(DBCache, c).
DbNew(t) ==
    /\ pc[t] = "dbNew"
    /\ nextCache' = nextCache + 1
    /\ ctxCache' = nextCache
    /\ lc' = [lc EXCEPT ![t].cache = nextCache]
    /\ Goto(t, "dbHook")
    /\ UNCHANGED <<hooks, onceDone, onceOwner, entries, flight, conns, nextConn,
                   calls, apc, alc, servedClosed, openAtStop>>

\* ... then app.WithHook(NewHook(SigStop, evict c and delete DBCache)).
DbHook(t) ==
    /\ pc[t] = "dbHook"
    /\ hooks' = Append(hooks, StopHook(lc[t].cache))
    /\ lc' = [lc EXCEPT ![t].idx = @ + 1, ![t].cache = NoCache]
    /\ Goto(t, "notifyInit")
    /\ UNCHANGED <<onceDone, onceOwner, ctxCache, nextCache, entries, flight,
                   conns, nextConn, calls, apc, alc, servedClosed, openAtStop>>

\* The rest of Compile once Initialize has returned: Transpile, the
\* placeholders added as variables, and script.Compile, any of which
\* fails the run with its error; then RunFile (or Run, for a source) sets
\* the arguments, whose Set may fail too, and runs the script.  (A file compiled before comes from the script cache
\* without Compile, but only once some Compile had returned from
\* Initialize.)
CompileScript(t) ==
    /\ pc[t] = "compile"
    /\ \/ Finish(t)
       \/ Goto(t, "script") /\ UNCHANGED lc
    /\ UNCHANGED <<hooks, onceDone, onceOwner, ctxCache, nextCache, entries,
                   flight, conns, nextConn, calls, apc, alc, servedClosed, openAtStop>>

\* Get / GetOrOpen (also inside close()): app.Context.Get(DBCache); without
\* it the call returns "database not exists" and the script goes on.
Script(t) ==
    /\ pc[t] = "script"
    /\ IF ctxCache = NoCache
         THEN Finish(t)
         ELSE /\ lc' = [lc EXCEPT ![t].cache = ctxCache]
              /\ Goto(t, "gDo")
    /\ UNCHANGED <<hooks, onceDone, onceOwner, ctxCache, nextCache, entries,
                   flight, conns, nextConn, calls, apc, alc, servedClosed, openAtStop>>

\* GroupCache.Get: g.group.Do(name, ...): lead a new call or join the one in
\* flight for the name, whatever option that call was made with.
GDo(t) ==
    /\ pc[t] = "gDo"
    /\ LET c == lc[t].cache IN
       IF flight[c][KeyOf(t)] = NoThread
         THEN /\ flight' = [flight EXCEPT ![c][KeyOf(t)] = t]
              /\ Goto(t, "gBuild")
         ELSE /\ Goto(t, "gWait")
              /\ UNCHANGED flight
    /\ UNCHANGED <<hooks, onceDone, onceOwner, ctxCache, nextCache, entries, conns,
                   nextConn, calls, lc, apc, alc, servedClosed, openAtStop>>

\* Mutant of GBuild: the build's result is cached whether or not it failed.
GBuildStoreErr(t) ==
    /\ pc[t] = "gBuild"
    /\ LET c == lc[t].cache
           e == entries[c][KeyOf(t)]
           opt == lc[t].phase = "open" /\ ValidOpt(lc[t].form)
       IN CASE e # NoConn ->
                 /\ lc' = [lc EXCEPT ![t].res = e]
                 /\ servedClosed' = (servedClosed \/
                                     (lc[t].phase = "open" /\ conns[e] = "closed"))
                 /\ UNCHANGED <<entries, conns, nextConn>>
            [] ~opt ->
                 /\ lc' = [lc EXCEPT ![t].res = Err]
                 /\ entries' = [entries EXCEPT ![c][KeyOf(t)] = Err]
                 /\ UNCHANGED <<conns, nextConn, servedClosed>>
            [] OTHER ->
                 /\ conns' = [conns EXCEPT ![nextConn] = "open"]
                 /\ entries' = [entries EXCEPT ![c][KeyOf(t)] = nextConn]
                 /\ nextConn' = nextConn + 1
                 /\ lc' = [lc EXCEPT ![t].res = nextConn]
                 /\ UNCHANGED servedClosed
    /\ Goto(t, "gDone")
    /\ UNCHANGED <<hooks, onceDone, onceOwner, ctxCache, nextCache, flight, calls,
                   apc, alc, openAtStop>>

\* The leader's function, under g.mx: a cached entry is returned; otherwise
\* build(option) fails on an empty driver or DSN, or connects and caches
\* the connection.  close() calls Get with dbOpt{}.
GBuild(t) ==
    /\ pc[t] = "gBuild"
    /\ LET c == lc[t].cache
           e == entries[c][KeyOf(t)]
           opt == lc[t].phase = "open" /\ ValidOpt(lc[t].form)
       IN CASE e # NoConn ->
                 /\ lc' = [lc EXCEPT ![t].res = e]
                 /\ servedClosed' = (servedClosed \/
                                     (lc[t].phase = "open" /\ conns[e] = "closed"))
                 /\ UNCHANGED <<entries, conns, nextConn>>
            [] ~opt ->
                 /\ lc' = [lc EXCEPT ![t].res = Err]
                 /\ UNCHANGED <<entries, conns, nextConn, servedClosed, openAtStop>>
            [] OTHER ->
                 /\ conns' = [conns EXCEPT ![nextConn] = "open"]
                 /\ entries' = [entries EXCEPT ![c][KeyOf(t)] = nextConn]
                 /\ nextConn' = nextConn + 1
                 /\ lc' = [lc EXCEPT ![t].res = nextConn]
                 /\ UNCHANGED servedClosed
    /\ Goto(t, "gDone")
    /\ UNCHANGED <<hooks, onceDone, onceOwner, ctxCache, nextCache, flight, calls,
                   apc, alc, openAtStop>>

\* Do returns: the leader and every goroutine joined on its call get the
\* result, and the name leaves the group.
GDone(t) ==
    /\ pc[t] = "gDone"
    /\ LET c == lc[t].cache
           joined == {u \in Threads : pc[u] = "gWait" /\ lc[u].cache = c
                                      /\ KeyOf(u) = KeyOf(t)} \cup {t}
       IN /\ lc' = [u \in Threads |-> IF u \in joined THEN [lc[u] EXCEPT !.res = lc[t].res]
                                                     ELSE lc[u]]
          /\ pc' = [u \in Threads |-> IF u \in joined THEN "got" ELSE pc[u]]
          /\ flight' = [flight EXCEPT ![c][KeyOf(t)] = NoThread]
    /\ UNCHANGED <<hooks, onceDone, onceOwner, ctxCache, nextCache, entries, conns,
                   nextConn, calls, apc, alc, servedClosed, openAtStop>>

\* Back in the script.  open: on an error the script goes on without a
\* database; otherwise it uses the connection and may call close(), which
\* for the two-argument form looks up the DSN, not the key, and finds
\* nothing.  close: Database.Close calls db.Close() on what Get returned,
\* and leaves it in the cache.
Got(t) ==
    /\ pc[t] = "got"
    /\ LET r == lc[t].res IN
       IF lc[t].phase = "open" /\ r # Err
         THEN /\ IF lc[t].wantClose /\ ObjectIsKey(lc[t].form)
                   THEN /\ lc' = [lc EXCEPT ![t].phase = "close", ![t].res = NoConn]
                        /\ Goto(t, "script")
                   ELSE Finish(t)
              /\ UNCHANGED conns
       ELSE /\ conns' = IF lc[t].phase = "close" /\ r # Err
                           THEN [conns EXCEPT ![r] = "closed"] ELSE conns
            /\ Finish(t)
    /\ UNCHANGED <<hooks, onceDone, onceOwner, ctxCache, nextCache, entries, flight,
                   nextConn, calls, apc, alc, servedClosed, openAtStop>>

-----------------------------------------------------------------------------
(* Shutdown                                                                *)

\* app.Shutdown(reason): DoNotify(SigStop) ranges over the hooks as they
\* are now.
ShutdownStart ==
    /\ apc = "running"
    /\ apc' = "notifyStop"
    /\ alc' = [alc EXCEPT !.n = Len(hooks), !.idx = 1]
    /\ openAtStop' = IF onceDone THEN {k \in ConnIds : conns[k] = "open"} ELSE {}
    /\ UNCHANGED <<hooks, onceDone, onceOwner, ctxCache, nextCache, entries, flight,
                   conns, nextConn, calls, pc, lc, servedClosed>>

\* One iteration: the database Initialized hook ignores SigStop; a Stop
\* hook runs for its cache.  After the last hook Shutdown returns.
NotifyStop ==
    /\ apc = "notifyStop"
    /\ IF alc.idx <= alc.n
         THEN IF hooks[alc.idx].kind = "dbStop"
                THEN /\ apc' = "evict"
                     /\ alc' = [alc EXCEPT !.cache = hooks[alc.idx].cache]
                ELSE /\ alc' = [alc EXCEPT !.idx = @ + 1]
                     /\ UNCHANGED apc
         ELSE /\ apc' = "stopped"
              /\ UNCHANGED alc
    /\ UNCHANGED <<hooks, onceDone, onceOwner, ctxCache, nextCache, entries, flight,
                   conns, nextConn, calls, pc, lc, servedClosed, openAtStop>>

\* Mutant of Evict: g.cache is replaced by the empty map before the range
\* over it.
EvictResetFirst ==
    /\ apc = "evict"
    /\ entries' = [entries EXCEPT ![alc.cache] = [n \in Names |-> NoConn]]
    /\ apc' = "ctxDelete"
    /\ UNCHANGED <<hooks, onceDone, onceOwner, ctxCache, nextCache, flight, conns,
                   nextConn, calls, pc, lc, alc, servedClosed, openAtStop>>

\* c.EvictWith(close): under g.mx, close every cached connection and
\* replace the map by an empty one.
Evict ==
    /\ apc = "evict"
    /\ LET c == alc.cache IN
       /\ conns' = [k \in ConnIds |->
                      IF \E n \in Names : entries[c][n] = k THEN "closed" ELSE conns[k]]
       /\ entries' = [entries EXCEPT ![c] = [n \in Names |-> NoConn]]
    /\ apc' = "ctxDelete"
    /\ UNCHANGED <<hooks, onceDone, onceOwner, ctxCache, nextCache, flight,
                   nextConn, calls, pc, lc, alc, servedClosed, openAtStop>>

\* app.Context.Delete(DBCache); the hook returns nil.
CtxDelete ==
    /\ apc = "ctxDelete"
    /\ ctxCache' = NoCache
    /\ apc' = "notifyStop"
    /\ alc' = [alc EXCEPT !.idx = @ + 1, !.cache = NoCache]
    /\ UNCHANGED <<hooks, onceDone, onceOwner, nextCache, entries, flight, conns,
                   nextConn, calls, pc, lc, servedClosed, openAtStop>>

-----------------------------------------------------------------------------

Step(t) ==
    \/ Initialize(t) \/ OnceLock(t) \/ NotifyInit(t) \/ DbNew(t) \/ DbHook(t)
    \/ CompileScript(t) \/ Script(t) \/ GDo(t) \/ GBuild(t) \/ GDone(t) \/ Got(t)

AdminStep == NotifyStop \/ Evict \/ CtxDelete

\* Shutdown has returned and every script run has ended.
Quiescent == apc = "stopped" /\ \A t \in Threads : pc[t] = "idle"

Next ==
    \/ \E t \in Threads : Call(t) \/ Step(t)
    \/ ShutdownStart \/ AdminStep
    \/ Quiescent /\ UNCHANGED vars

Spec == Init /\ [][Next]_vars

-----------------------------------------------------------------------------
(* Properties                                                              *)

ScriptPcs == {"compile", "script", "gDo", "gWait", "gBuild", "gDone", "got"}

\* Spec 4.1: Compile returns from Initialize only once the Initialized
\* hooks have run, so no script reaches database.open while the database
\* hook is still registering its cache (initOnce.Do blocks the others).
ScriptAfterInit ==
    \A t \in Threads : pc[t] \in ScriptPcs => onceDone /\ nextCache = 2

\* Spec 6: a Shutdown that begins after Initialize has returned sees the
\* Stop hook the database provider appended from inside the Initialized
\* notification (DoNotify's range takes the hook slice when it starts),
\* and when Shutdown returns every connection that was open when it began
\* is closed, whatever the scripts did meanwhile (EvictWith under g.mx).
StopClosesOpened ==
    apc = "stopped" => \A k \in openAtStop : conns[k] = "closed"

\* Spec 6: providers open their pools on Initialized and close them on
\* Stop.  Once Shutdown has returned and the scripts running alongside it
\* have ended, no connection the database provider opened is still open.
NoLeakAfterShutdown == Quiescent => \A k \in ConnIds : conns[k] # "open"

\* database.open never hands a script a connection that is already
\* closed: close() of one script does not leave a closed *sqlx.DB in the
\* cache for the next open of that name.
NoClosedConnServed == ~servedClosed

=============================================================================
