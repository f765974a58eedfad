------------------------------ MODULE LegoMain ------------------------------
(***************************************************************************)
(* The lego process (src/lego/lego.go, prof.go): main, startup, the signal *)
(* goroutine and cleanup, with what cleanup reaches: Applet.Shutdown's      *)
(* Stop hooks (src/sandbox/applet.go), the database provider's hooks and   *)
(* its GroupCache of connection pools (src/ext/databaselib,               *)
(* src/env/singleflight.go), and kvstore.Shutdown (src/kvstore/local.go).   *)
(*                                                                         *)
(* Three goroutines matter: main, which runs the script; the signal        *)
(* goroutine startup starts, which on SIGINT runs cleanup and os.Exit(0);  *)
(* and the script's own goroutines (request handlers), which open          *)
(* database pools and badger databases while main and the signal          *)
(* goroutine run.  main runs cleanup only as a deferred call, which no     *)
(* os.Exit reaches.                                                       *)
(***************************************************************************)
EXTENDS Integers, Sequences, FiniteSets

CONSTANTS
    Invocations, \* what the command line asks main to do (see Dispatch)
    Flags,       \* the -prof and -log_tail flags that may be given
    Handlers,    \* the script's goroutines that use the database provider
    MaxPools,    \* bound on connection pools opened
    MaxSignals   \* bound on SIGINTs the user sends

Actors == {"main", "sig"}
Cleaning == {"cleanup", "evict", "delete", "kv", "exit"}

VARIABLES
    inv,       \* the invocation
    flags,     \* the flags given
    pc,        \* pc[a]: where main and the signal goroutine are
    notified,  \* signal.Notify has replaced SIGINT's default action
    app,       \* the global app has been assigned the sandbox
    inited,    \* Initialize ran: DBCache set, database Stop hook registered
    ctxCache,  \* app.Context holds DBCache
    cache,     \* the pools in the GroupCache's map
    pools,     \* pools[i]: the i-th pool sqlx.Connect opened
    hpc,       \* hpc[h]: "got" once h has read DBCache from the context
    kv,        \* the badger database in kvstore's map
    begun,     \* the goroutines whose cleanup has begun
    enableHttp,\* prof.go's enableHttp
    httpUp,    \* startHttpServer started the log/pprof server
    pressed,   \* SIGINTs sent
    ended      \* how the process ended, or "running"

vars == <<inv, flags, pc, notified, app, inited, ctxCache, cache, pools, hpc,
          kv, begun, enableHttp, httpUp, pressed, ended>>

MainPCs == {"start", "flags", "workdir", "sandbox", "dispatch", "read", "run"} \cup Cleaning
SigPCs == {"none", "spawned", "recv"} \cup Cleaning

TypeOK ==
    /\ inv \in Invocations /\ flags \subseteq {"prof", "log_tail"}
    /\ pc \in [Actors -> MainPCs \cup SigPCs]
    /\ pc["main"] \in MainPCs /\ pc["sig"] \in SigPCs
    /\ {notified, app, inited, ctxCache, enableHttp, httpUp} \subseteq BOOLEAN
    /\ cache \subseteq DOMAIN pools
    /\ pools \in Seq([st: {"open", "closed"}, after: SUBSET Actors])
    /\ Len(pools) <= MaxPools
    /\ hpc \in [Handlers -> {"idle", "got"}]
    /\ kv \in {"none", "open", "closed"}
    /\ begun \subseteq Actors
    /\ pressed \in 0..MaxSignals
    /\ ended \in {"running", "exit", "return", "signal", "killed"}

Init ==
    /\ inv \in Invocations
    /\ flags \in SUBSET {"prof", "log_tail"} /\ flags \subseteq Flags
    /\ pc = [a \in Actors |-> IF a = "main" THEN "start" ELSE "none"]
    /\ notified = FALSE /\ app = FALSE /\ inited = FALSE /\ ctxCache = FALSE
    /\ cache = {} /\ pools = <<>>
    /\ hpc = [h \in Handlers |-> "idle"]
    /\ kv = "none" /\ begun = {}
    /\ enableHttp = FALSE /\ httpUp = FALSE
    /\ pressed = 0 /\ ended = "running"

Running == ended = "running"

\* os.Exit(code) in main: the process ends; deferred calls do not run.
Exit ==
    /\ ended' = "exit"
    /\ UNCHANGED <<inv, flags, pc, notified, app, inited, ctxCache, cache, pools,
                   hpc, kv, begun, enableHttp, httpUp, pressed>>

GoTo(a, l) == pc' = [pc EXCEPT ![a] = l]

\* app.Initialize, under initOnce: DoNotify(SigInitialized) runs the
\* database provider's hook, which makes the GroupCache, sets it as
\* DBCache and registers the Stop hook that evicts it.
Initialize ==
    /\ inited' = TRUE
    /\ ctxCache' = (ctxCache \/ ~inited)

\* enableLogger: -log_tail registers /{sandbox}/log and sets enableHttp.
EnableLogger == enableHttp' = ("log_tail" \in flags)

\* startHttpServer: `if !enableHttp { return }`, else ListenAndServe in a
\* goroutine.
StartHttpServer == httpUp' = enableHttp'

\* enableProf: -prof registers the pprof routes and sets enableHttp.
EnableProf == enableHttp' = (enableHttp \/ "prof" \in flags)

-----------------------------------------------------------------------------
(* main                                                                    *)

\* startup: flags, logger and profile, then signal.Notify(sigCh, SIGINT,
\* ...) on an unbuffered channel, `go func() { for { sig := <-sigCh ... } }`
\* and startHttpServer, which serves only if enableHttp is already set.
\* enableLogger, called before, sets it for -log_tail.
Startup ==
    /\ Running /\ pc["main"] = "start"
    /\ notified' = TRUE
    /\ pc' = [pc EXCEPT !["main"] = "flags", !["sig"] = "spawned"]
    /\ EnableLogger
    /\ StartHttpServer
    /\ UNCHANGED <<inv, flags, app, inited, ctxCache, cache, pools, hpc, kv,
                   begun, pressed, ended>>

\* -help, -version and -env print and os.Exit(2).
Flag ==
    /\ Running /\ pc["main"] = "flags"
    /\ IF inv = "help" THEN Exit
       ELSE /\ GoTo("main", "workdir")
            /\ UNCHANGED <<inv, flags, notified, app, inited, ctxCache, cache, pools,
                           hpc, kv, begun, enableHttp, httpUp, pressed, ended>>

\* initWorkDir: os.Chdir may fail, and main logs it and os.Exit(1).
WorkDir ==
    /\ Running /\ pc["main"] = "workdir"
    /\ \/ Exit
       \/ /\ GoTo("main", "sandbox")
          /\ UNCHANGED <<inv, flags, notified, app, inited, ctxCache, cache, pools,
                         hpc, kv, begun, enableHttp, httpUp, pressed, ended>>

\* app, err = sandbox.NewWithDir("DEFAULT", d) assigns the global the
\* signal goroutine's cleanup reads; the environment is copied in and the
\* modules made.  -mod prints them and os.Exit(0); otherwise enableProf
\* registers the pprof routes and sets enableHttp, after startHttpServer.
NewSandbox ==
    /\ Running /\ pc["main"] = "sandbox"
    /\ app' = TRUE
    /\ IF inv = "showmod"
         THEN /\ ended' = "exit"
              /\ UNCHANGED <<pc, enableHttp>>
         ELSE /\ GoTo("main", "dispatch")
              /\ EnableProf
              /\ UNCHANGED ended
    /\ UNCHANGED <<inv, flags, notified, inited, ctxCache, cache, pools, hpc,
                   kv, begun, httpUp, pressed>>

\* main's steps that leave every variable but pc and the applet's
\* initialisation as they are.
Steps(l) ==
    /\ GoTo("main", l)
    /\ UNCHANGED <<inv, flags, notified, app, cache, pools, hpc, kv, begun,
                   enableHttp, httpUp, pressed, ended>>

\* No input file: RunREPL, whose first call is app.Initialize.
RunREPL ==
    /\ Running /\ pc["main"] = "dispatch" /\ inv = "repl"
    /\ Initialize
    /\ Steps("run")

\* -t: every file is read (os.Exit(1) on a read error) and transpiled, a
\* transpile or write error only printed, then os.Exit(0).
Transpile ==
    /\ Running /\ pc["main"] = "dispatch" /\ inv = "trans"
    /\ Exit

\* With -e the argument is the source; otherwise the file is read, and a
\* path or read error is os.Exit(1).
ReadInput ==
    /\ Running /\ pc["main"] = "dispatch" /\ inv \in {"compile", "script", "compiled"}
    /\ \/ Exit
       \/ Steps("read") /\ UNCHANGED <<inited, ctxCache>>

\* -o: CompileOnly transpiles, compiles with compileSrc and encodes the
\* bytecode into the output file; main os.Exit(1)s on its error and
\* os.Exit(0)s otherwise.  It never touches app.
CompileOnly ==
    /\ Running /\ pc["main"] = "read" /\ inv = "compile"
    /\ Exit

\* A .tengo file (or -e): CompileAndRun calls app.Run, whose Compile
\* calls app.Initialize; the script then runs.
CompileAndRun ==
    /\ Running /\ pc["main"] = "read" /\ inv = "script"
    /\ Initialize
    /\ Steps("run")

\* Any other file: RunCompiled decodes the bytecode (an error is
\* os.Exit(1)) and runs it in a VM of its own; app is never initialised.
RunCompiled ==
    /\ Running /\ pc["main"] = "read" /\ inv = "compiled"
    /\ \/ Exit
       \/ Steps("run") /\ UNCHANGED <<inited, ctxCache>>

\* The REPL reads lines until stdin ends; every transpile, parse, compile
\* or run error is printed and the loop continues.  At the end of input
\* RunREPL returns, and so does main, which runs the deferred cleanup.
ReplEnds ==
    /\ Running /\ pc["main"] = "run" /\ inv = "repl"
    /\ Steps("cleanup") /\ UNCHANGED <<inited, ctxCache>>

\* CompileAndRun prints a run error and returns nil whatever happened,
\* and main os.Exit(0)s.
ScriptEnds ==
    /\ Running /\ pc["main"] = "run" /\ inv = "script"
    /\ Exit

\* RunCompiled's error is os.Exit(1); when the VM succeeds main returns,
\* which runs the deferred cleanup.
CompiledEnds ==
    /\ Running /\ pc["main"] = "run" /\ inv = "compiled"
    /\ \/ Exit
       \/ Steps("cleanup") /\ UNCHANGED <<inited, ctxCache>>

RunEnds == ReplEnds \/ ScriptEnds \/ CompiledEnds

-----------------------------------------------------------------------------
(* The signal goroutine                                                    *)

\* The goroutine is scheduled and blocks in `<-sigCh`.
SigReady ==
    /\ Running /\ pc["sig"] = "spawned"
    /\ GoTo("sig", "recv")
    /\ UNCHANGED <<inv, flags, notified, app, inited, ctxCache, cache, pools,
                   hpc, kv, begun, enableHttp, httpUp, pressed, ended>>

\* The user sends SIGINT.  Before signal.Notify its default action ends
\* the process.  After it, the runtime's send on the unbuffered sigCh does
\* not block: the signal reaches the goroutine only if it is waiting in
\* `<-sigCh`, and is dropped otherwise.
Interrupt ==
    /\ Running /\ pressed < MaxSignals
    /\ pressed' = pressed + 1
    /\ IF ~notified
         THEN /\ ended' = "killed"
              /\ UNCHANGED pc
         ELSE /\ IF pc["sig"] = "recv" THEN GoTo("sig", "cleanup") ELSE UNCHANGED pc
              /\ UNCHANGED ended
    /\ UNCHANGED <<inv, flags, notified, app, inited, ctxCache, cache, pools,
                   hpc, kv, begun, enableHttp, httpUp>>

-----------------------------------------------------------------------------
(* cleanup, run by main as a deferred call or by the signal goroutine      *)

\* `if app != nil { app.Shutdown("sys exit") }`: the signal goroutine reads
\* the global main assigns, with no synchronisation.
CleanupBegin(a) ==
    /\ Running /\ pc[a] = "cleanup"
    /\ begun' = begun \cup {a}
    /\ GoTo(a, IF app THEN "evict" ELSE "kv")
    /\ UNCHANGED <<inv, flags, notified, app, inited, ctxCache, cache, pools,
                   hpc, kv, enableHttp, httpUp, pressed, ended>>

\* The pools in the cache are closed.
CloseCached == pools' = [i \in DOMAIN pools |->
                           IF i \in cache THEN [pools[i] EXCEPT !.st = "closed"] ELSE pools[i]]

\* Mutant of Evict: EvictWith makes the new map before it ranges over the old.
EvictResetFirst(a) ==
    /\ Running /\ pc[a] = "evict"
    /\ IF inited
         THEN /\ cache' = {}
              /\ GoTo(a, "delete")
         ELSE /\ GoTo(a, "kv")
              /\ UNCHANGED cache
    /\ UNCHANGED <<inv, flags, notified, app, inited, ctxCache, pools, hpc, kv,
                   begun, enableHttp, httpUp, pressed, ended>>

\* Shutdown: DoNotify(SigStop) ranges over the hooks registered so far.
\* The database provider's Stop hook calls EvictWith, which takes the
\* GroupCache's mutex, closes every pool in the map and replaces the map
\* with an empty one.
Evict(a) ==
    /\ Running /\ pc[a] = "evict"
    /\ IF inited
         THEN /\ CloseCached
              /\ cache' = {}
              /\ GoTo(a, "delete")
         ELSE /\ GoTo(a, "kv")
              /\ UNCHANGED <<cache, pools>>
    /\ UNCHANGED <<inv, flags, notified, app, inited, ctxCache, hpc, kv, begun,
                   enableHttp, httpUp, pressed, ended>>

\* The Stop hook then deletes DBCache from the context.
DeleteCache(a) ==
    /\ Running /\ pc[a] = "delete"
    /\ ctxCache' = FALSE
    /\ GoTo(a, "kv")
    /\ UNCHANGED <<inv, flags, notified, app, inited, cache, pools, hpc, kv,
                   begun, enableHttp, httpUp, pressed, ended>>

\* kvstore.Shutdown: every database in the map not closed yet is closed.
KvShutdown(a) ==
    /\ Running /\ pc[a] = "kv"
    /\ kv' = IF kv = "open" THEN "closed" ELSE kv
    /\ GoTo(a, "exit")
    /\ UNCHANGED <<inv, flags, notified, app, inited, ctxCache, cache, pools,
                   hpc, begun, enableHttp, httpUp, pressed, ended>>

\* main returns after its deferred cleanup; the signal goroutine calls
\* os.Exit(0).
CleanupExit(a) ==
    /\ Running /\ pc[a] = "exit"
    /\ ended' = IF a = "main" THEN "return" ELSE "signal"
    /\ UNCHANGED <<inv, flags, pc, notified, app, inited, ctxCache, cache, pools,
                   hpc, kv, begun, enableHttp, httpUp, pressed>>

CleanupStep(a) ==
    CleanupBegin(a) \/ Evict(a) \/ DeleteCache(a) \/ KvShutdown(a) \/ CleanupExit(a)

-----------------------------------------------------------------------------
(* The script's goroutines                                                 *)

\* database.GetOrOpen: app.Context.Get(DBCache); without it the call
\* returns "not exists".
GetCtx(h) ==
    /\ Running /\ inited /\ hpc[h] = "idle" /\ ctxCache
    /\ hpc' = [hpc EXCEPT ![h] = "got"]
    /\ UNCHANGED <<inv, flags, pc, notified, app, inited, ctxCache, cache, pools,
                   kv, begun, enableHttp, httpUp, pressed, ended>>

\* Mutant of CacheGet: the new pool is returned but not stored.
CacheGetUnstored(h) ==
    /\ Running /\ hpc[h] = "got"
    /\ hpc' = [hpc EXCEPT ![h] = "idle"]
    /\ IF cache # {}
         THEN UNCHANGED pools
         ELSE \/ /\ Len(pools) < MaxPools
                 /\ pools' = Append(pools, [st |-> "open", after |-> begun])
              \/ UNCHANGED pools
    /\ UNCHANGED <<inv, flags, pc, notified, app, inited, ctxCache, cache, kv,
                   begun, enableHttp, httpUp, pressed, ended>>

\* Mutant of CacheGet: the build's result is stored even when it failed.
CacheGetStoreErr(h) ==
    /\ Running /\ hpc[h] = "got"
    /\ hpc' = [hpc EXCEPT ![h] = "idle"]
    /\ IF cache # {}
         THEN UNCHANGED <<cache, pools>>
         ELSE \/ /\ Len(pools) < MaxPools
                 /\ pools' = Append(pools, [st |-> "open", after |-> begun])
                 /\ cache' = {Len(pools) + 1}
              \/ /\ cache' = {Len(pools) + 1}
                 /\ UNCHANGED pools
    /\ UNCHANGED <<inv, flags, pc, notified, app, inited, ctxCache, kv, begun,
                   enableHttp, httpUp, pressed, ended>>

\* GroupCache.Get(name): in the singleflight call, under the mutex, the
\* pool in the map is returned; otherwise build (sqlx.Connect) runs and a
\* pool it opens is stored.  Every script uses one database name here.
CacheGet(h) ==
    /\ Running /\ hpc[h] = "got"
    /\ hpc' = [hpc EXCEPT ![h] = "idle"]
    /\ IF cache # {}
         THEN UNCHANGED <<cache, pools>>
         ELSE \/ /\ Len(pools) < MaxPools
                 /\ pools' = Append(pools, [st |-> "open", after |-> begun])
                 /\ cache' = {Len(pools) + 1}
              \/ UNCHANGED <<cache, pools>>
    /\ UNCHANGED <<inv, flags, pc, notified, app, inited, ctxCache, kv, begun,
                   enableHttp, httpUp, pressed, ended>>

\* kvstore.Open from the badger provider: a database not in the map is
\* opened and stored; one in it, even closed, is returned.
KvOpen(h) ==
    /\ Running /\ inited /\ kv = "none"
    /\ kv' = "open"
    /\ UNCHANGED <<inv, flags, pc, notified, app, inited, ctxCache, cache, pools,
                   hpc, begun, enableHttp, httpUp, pressed, ended>>

Handler(h) == GetCtx(h) \/ CacheGet(h) \/ KvOpen(h)

MainStep == Startup \/ Flag \/ WorkDir \/ NewSandbox \/ RunREPL \/ Transpile \/ ReadInput
            \/ CompileOnly \/ CompileAndRun \/ RunCompiled

Next ==
    \/ MainStep \/ RunEnds
    \/ SigReady \/ Interrupt
    \/ \E a \in Actors : CleanupStep(a)
    \/ \E h \in Handlers : Handler(h)

\* main and the signal goroutine run when runnable.  How long the script
\* or the REPL runs, the requests the handlers serve and the signals the
\* user sends are the environment's and get no fairness.
Spec == Init /\ [][Next]_vars
        /\ WF_vars(MainStep) /\ WF_vars(SigReady)
        /\ \A a \in Actors : WF_vars(CleanupStep(a))

-----------------------------------------------------------------------------
(* Properties                                                              *)

\* The goroutine whose cleanup ended the process.
Ender == IF ended = "return" THEN "main" ELSE "sig"

\* When the process ends through cleanup (main's return or the signal
\* goroutine's os.Exit), every connection pool the database provider
\* opened before that cleanup began has been closed by the Stop hook:
\* GroupCache.Get stores every pool it opens, and EvictWith closes them
\* all, whichever of the two cleanups and the script's goroutines runs
\* first.
PoolsClosedByCleanup ==
    ended \in {"return", "signal"} =>
        \A i \in DOMAIN pools : pools[i].st = "open" => Ender \in pools[i].after

\* Whenever the process ends, every pool opened before any cleanup began
\* has been closed: the Stop hook runs before the process exits.
PoolsClosedAtExit ==
    ~Running => \A i \in DOMAIN pools : pools[i].st = "open" => pools[i].after # {}

\* A SIGINT ends the process.
InterruptStops ==
    pressed > 0 ~> ~Running

\* With -prof, the pprof routes enableProf registers are served.
ProfServed ==
    Running /\ "prof" \in flags /\ pc["main"] \in {"dispatch", "read", "run"} => httpUp

====
