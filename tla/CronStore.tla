----------------------------- MODULE CronStore -----------------------------
(***************************************************************************)
(* Cron services and their job store (src/ext/cronlib).                    *)
(*                                                                         *)
(* A sandbox script makes a service with cron.new or cron.boot and         *)
(* schedules jobs on it; every service of the process shares one badger   *)
(* store (DEFAULT_CRON_STORAGE, opened through kvstore.Open), which keeps *)
(* the key service:config:<svc> for each service and job:<svc>:<job> for   *)
(* each scheduled job.  The store outlives the process; the services, the *)
(* scheduler's entries and the boot goroutines do not.  cron.boot          *)
(* restores every stored service and its jobs, one key at a time, holding *)
(* bootLock, while other scripts keep scheduling and removing.             *)
(*                                                                         *)
(* Each scheduled job is an Executor wrapped, at DoSchedule, in a fresh    *)
(* cron.JobWrapper chain: Recover, and SkipIfStillRunning for the          *)
(* skipIfRunning policy.  The wrapper's "running" state belongs to that    *)
(* executor; svc.start and svc.stop start and stop the service's robfig    *)
(* scheduler, which fires each entry in a goroutine of its own.            *)
(*                                                                         *)
(* Service and job names are small integers: the store's keys             *)
(* service:config:<n> and job:<n>:<j> sort as the numbers do.  A sandbox's *)
(* default service <name>_CRON_SERVICE is the service numbered as the      *)
(* sandbox.                                                                *)
(***************************************************************************)
EXTENDS Integers, Sequences, SequencesExt

CONSTANTS
    Apps,        \* sandboxes whose scripts use the cron module
    Svcs,        \* service names
    Jobs,        \* job names
    Specs,       \* cron expressions AddJob accepts
    Bad,         \* a cron expression AddJob rejects
    Policies,    \* the policy names a script passes in a job's "policy"
    None,        \* no value
    MaxCrashes,  \* bound on process restarts
    MaxRuns      \* bound on the runs of one job in progress at once

ASSUME Apps \subseteq Svcs /\ Svcs \subseteq Nat /\ Jobs \subseteq Nat
ASSUME Bad \notin Specs

\* policyValueMap: the JobPolicy values by the names MarshalText writes
\* and UnmarshalText reads.
PolicyValues == {"empty", "skipIfRunning", "delayIfRunning", "recover"}

\* The error UnmarshalText passes on from ParseJobPolicy, which fails the
\* whole decode of the job.
Invalid == "unknown policy"

\* ParseJobPolicy, which UnmarshalText calls for each name of a job's
\* policy list: "" is PolicyEmpty, a known name its value, any other
\* name an error.
ParseJobPolicy(name) ==
    IF name = "" THEN "empty" ELSE IF name \in PolicyValues THEN name ELSE Invalid

\* DelayIfStillRunning's queue of blocked runs is not modelled.
ASSUME \A p \in Policies : ParseJobPolicy(p) # "delayIfRunning"

\* DefaultSvc[a] = a.Name + "_CRON_SERVICE"
DefaultSvc == [a \in Apps |-> a]
\* Svcs and Jobs in the store's key order
SvcOrder == SetToSortSeq(Svcs, <)
JobOrder == SetToSortSeq(Jobs, <)

\* A JobDetail as the store keeps it: the cron expression and the policy.
Details == [spec: Specs, pol: PolicyValues \ {"delayIfRunning"}]

VARIABLES
    cfgStore,   \* services with a service:config key
    jobStore,   \* jobStore[n][j]: the cron expression stored under job:n:j
    svc,        \* svc[n]: the CronService in cronServices, and its entries
    pc,         \* pc[a]: where a's cron.boot call is
    lc,         \* lc[a]: boot's snapshots: configs left, service, jobs left
    bootLock,   \* the app holding bootLock, or None
    owner,      \* ghost: the app whose script created svc[n] in this process
    live,       \* ghost: jobs whose last schedule succeeded and not removed since
    booted,     \* ghost: a BootCronServices finished since the last restart
    crashes,
    started,    \* the services whose scheduler is running
    runs        \* runs[n][j].cur: runs of job j's current executor in
                \* progress; .old: runs of executors since replaced

vars == <<cfgStore, jobStore, svc, pc, lc, bootLock, owner, live, booted, crashes,
          started, runs>>

Entry == [spec: Specs, app: Apps, pol: PolicyValues \ {"delayIfRunning"}]
NoEntry == [spec |-> None, app |-> None, pol |-> None]
NoRuns == [cur |-> 0, old |-> 0]
NoService == [exists |-> FALSE, app |-> None, entries |-> [j \in Jobs |-> NoEntry]]
NoLocals == [cfgs |-> <<>>, cur |-> None, jobs |-> <<>>]
Booting == {"bootView", "bootService", "bootJob", "bootDefault"}

TypeOK ==
    /\ cfgStore \subseteq Svcs
    /\ jobStore \in [Svcs -> [Jobs -> Details \cup {None}]]
    /\ svc \in [Svcs -> [exists: BOOLEAN, app: Apps \cup {None},
                         entries: [Jobs -> Entry \cup {NoEntry}]]]
    /\ pc \in [Apps -> {"idle", "bootLock"} \cup Booting]
    /\ lc \in [Apps -> [cfgs: Seq(Svcs), cur: Svcs \cup {None},
                        jobs: Seq([job: Jobs, d: Details])]]
    /\ bootLock \in Apps \cup {None}
    /\ owner \in [Svcs -> Apps \cup {None}]
    /\ live \in [Svcs -> SUBSET Jobs]
    /\ booted \in BOOLEAN
    /\ crashes \in 0..MaxCrashes
    /\ started \subseteq Svcs
    /\ runs \in [Svcs -> [Jobs -> [cur: 0..MaxRuns, old: 0..MaxRuns]]]

Init ==
    /\ cfgStore = {}
    /\ jobStore = [n \in Svcs |-> [j \in Jobs |-> None]]
    /\ svc = [n \in Svcs |-> NoService]
    /\ pc = [a \in Apps |-> "idle"]
    /\ lc = [a \in Apps |-> NoLocals]
    /\ bootLock = None
    /\ owner = [n \in Svcs |-> None]
    /\ live = [n \in Svcs |-> {}]
    /\ booted = FALSE
    /\ crashes = 0
    /\ started = {}
    /\ runs = [n \in Svcs |-> [j \in Jobs |-> NoRuns]]

-----------------------------------------------------------------------------
(* Helpers named after the code they stand for                             *)

\* CronService.Save: the service's config under service:config:<name>.
Save(n) == cfgStore' = cfgStore \cup {n}

\* Mutant of SaveExecutor: the job is scheduled but not stored.
SaveExecutorNoop(n, j, d) == UNCHANGED jobStore

\* SaveExecutor: the job's detail under job:<service>:<job>.
SaveExecutor(n, j, d) == jobStore' = [jobStore EXCEPT ![n][j] = d]

\* RemoveByName: every scheduler entry of the job is removed.
RemoveByName(n, j) == [svc EXCEPT ![n].entries[j] = NoEntry]

\* The scheduler's Remove does not stop a run in progress: the runs of the
\* removed executor go on, outside any wrapper of a later executor.
Replaced(n, j) == [runs EXCEPT ![n][j] = [cur |-> 0, old |-> @.cur + @.old]]

\* DoSchedule(job, store) under s.mutex: RemoveByName, then AddJob; the
\* executor carries s.app and a new wrapper chain built from job.Policy; on
\* success and with store, SaveExecutor.  Returns the new svc; the runs of
\* the old executor (Replaced) and the store are updated by the caller.
DoSchedule(n, j, d) ==
    LET removed == RemoveByName(n, j) IN
    IF d.spec = Bad THEN removed
    ELSE [removed EXCEPT ![n].entries[j] = [spec |-> d.spec, app |-> svc[n].app,
                                            pol |-> d.pol]]

\* NewCronServiceWithDB under cronSingle: the service in cronServices if
\* there is one, else a new one, saved first when it has a db.
NewCronServiceWithDB(n, a) ==
    IF svc[n].exists
      THEN UNCHANGED <<svc, cfgStore, owner>>
      ELSE /\ svc' = [svc EXCEPT ![n] = [exists |-> TRUE, app |-> a,
                                         entries |-> [j \in Jobs |-> NoEntry]]]
           /\ Save(n)
           /\ owner' = [owner EXCEPT ![n] = a]

\* Mutant of StoredJobs: the iterator is not limited to the job prefix.
StoredJobsUnfiltered(n) ==
    [i \in 1..Len(JobOrder) |-> [job |-> JobOrder[i], d |-> jobStore[n][JobOrder[i]]]]

\* Restore's db.View: the service's stored jobs in key order.
StoredJobs(n) ==
    LET js == SelectSeq(JobOrder, LAMBDA j : jobStore[n][j] # None)
    IN  [i \in 1..Len(js) |-> [job |-> js[i], d |-> jobStore[n][js[i]]]]

Scheduled(n, j) == svc[n].entries[j] # NoEntry

\* CronService.List, under the service's mutex: the detail of every
\* scheduler entry whose job is an *Executor (all of them here).
List(n) == {j \in Jobs : Scheduled(n, j)}

\* svc.list(): an array with a map per listed job, whose "cron" and
\* "policy" are its spec and policy (the other fields are not modelled).
ScriptList(n) == [j \in List(n) |-> [cron |-> svc[n].entries[j].spec,
                                     policy |-> svc[n].entries[j].pol]]

-----------------------------------------------------------------------------
(* Script calls                                                            *)

\* cron.new({name}): kvstore.Open of the shared store, then
\* NewCronServiceWithDB with the calling app.
NewService(a, n) ==
    /\ NewCronServiceWithDB(n, a)
    /\ UNCHANGED <<jobStore, pc, lc, bootLock, live, booted, crashes, started, runs>>

\* svc.schedule(job) on a service a script got from cron.get, cron.new or
\* cron.boot: UnmashalObject decodes the job, and an unknown policy name
\* fails the call before anything changes; then DoSchedule(job, true).
Schedule(n, j, s, p) ==
    LET d == [spec |-> s, pol |-> ParseJobPolicy(p)] IN
    /\ svc[n].exists
    /\ ParseJobPolicy(p) # Invalid
    /\ svc' = DoSchedule(n, j, d)
    /\ runs' = Replaced(n, j)
    /\ IF d.spec = Bad THEN UNCHANGED jobStore ELSE SaveExecutor(n, j, d)
    /\ live' = [live EXCEPT ![n] = IF d.spec = Bad THEN @ \ {j} ELSE @ \cup {j}]
    /\ UNCHANGED <<cfgStore, pc, lc, bootLock, owner, booted, crashes, started>>

\* svc.remove(names) ("remove" in CronServiceConstructor): RemoveByName for each name; the store is not touched.
RemoveJobs(n, j) ==
    /\ svc[n].exists
    /\ svc' = RemoveByName(n, j)
    /\ runs' = Replaced(n, j)
    /\ live' = [live EXCEPT ![n] = @ \ {j}]
    /\ UNCHANGED <<cfgStore, jobStore, pc, lc, bootLock, owner, booted, crashes, started>>

\* svc.start (and svc.run, which runs the same scheduler loop in the
\* calling goroutine): the robfig scheduler of the service runs; a second
\* Start is a no-op.
Start(n) ==
    /\ svc[n].exists
    /\ started' = started \cup {n}
    /\ UNCHANGED <<cfgStore, jobStore, svc, pc, lc, bootLock, owner, live, booted,
                   crashes, runs>>

\* svc.stop: the scheduler stops firing; runs in progress go on.
Stop(n) ==
    /\ svc[n].exists
    /\ started' = started \ {n}
    /\ UNCHANGED <<cfgStore, jobStore, svc, pc, lc, bootLock, owner, live, booted,
                   crashes, runs>>

-----------------------------------------------------------------------------
(* The scheduler's goroutines                                              *)

\* A running scheduler fires an entry in a new goroutine: Executor.Run runs
\* e.Job, the wrapper chain.  SkipIfStillRunning drops the run when the
\* same wrapper's previous run has not returned; otherwise e.run starts.
Fire(n, j) ==
    /\ n \in started
    /\ Scheduled(n, j)
    /\ runs[n][j].cur + runs[n][j].old < MaxRuns
    /\ svc[n].entries[j].pol = "skipIfRunning" => runs[n][j].cur = 0
    /\ runs' = [runs EXCEPT ![n][j].cur = @ + 1]
    /\ UNCHANGED <<cfgStore, jobStore, svc, pc, lc, bootLock, owner, live, booted,
                   crashes, started>>

\* e.run returns (its script and command entries done) and the wrapper
\* marks its executor idle again; the run is of the current executor or of
\* one since replaced.
Finish(n, j) ==
    /\ \/ runs[n][j].cur > 0 /\ runs' = [runs EXCEPT ![n][j].cur = @ - 1]
       \/ runs[n][j].old > 0 /\ runs' = [runs EXCEPT ![n][j].old = @ - 1]
    /\ UNCHANGED <<cfgStore, jobStore, svc, pc, lc, bootLock, owner, live, booted,
                   crashes, started>>

-----------------------------------------------------------------------------
(* cron.boot, one step per store access                                    *)

BootUnchanged == UNCHANGED <<cfgStore, jobStore, live, crashes, started>>

BootCall(a) ==
    /\ pc[a] = "idle"
    /\ pc' = [pc EXCEPT ![a] = "bootLock"]
    /\ UNCHANGED <<svc, lc, bootLock, booted, owner, runs>> /\ BootUnchanged

\* bootLock.Lock(); if the app's default service exists, return it.
\* Otherwise kvstore.Open the store and go on to BootCronServices.
BootCheck(a) ==
    /\ pc[a] = "bootLock"
    /\ bootLock = None
    /\ IF svc[DefaultSvc[a]].exists
         THEN pc' = [pc EXCEPT ![a] = "idle"] /\ UNCHANGED bootLock
         ELSE pc' = [pc EXCEPT ![a] = "bootView"] /\ bootLock' = a
    /\ UNCHANGED <<svc, lc, booted, owner, runs>> /\ BootUnchanged

\* BootCronServices' db.View: the stored service configs in key order.
BootView(a) ==
    /\ pc[a] = "bootView"
    /\ lc' = [lc EXCEPT ![a].cfgs = SelectSeq(SvcOrder, LAMBDA n : n \in cfgStore)]
    /\ pc' = [pc EXCEPT ![a] = "bootService"]
    /\ UNCHANGED <<svc, bootLock, booted, owner, runs>> /\ BootUnchanged

\* The next config: NewCronService(cfg) (no db, so no Save) gives the
\* service in cronServices or a new one; service.app = applet;
\* service.db = db; Restore reads the service's jobs.  When no config is
\* left, BootCronServices returns nil.
BootService(a) ==
    /\ pc[a] = "bootService"
    /\ IF lc[a].cfgs = <<>>
         THEN /\ pc' = [pc EXCEPT ![a] = "bootDefault"]
              /\ booted' = TRUE
              /\ UNCHANGED <<svc, lc, owner>>
         ELSE LET n == Head(lc[a].cfgs) IN
              /\ svc' = [svc EXCEPT ![n].exists = TRUE, ![n].app = a]
              /\ owner' = IF svc[n].exists THEN owner ELSE [owner EXCEPT ![n] = a]
              /\ lc' = [lc EXCEPT ![a] = [cfgs |-> Tail(lc[a].cfgs), cur |-> n,
                                          jobs |-> StoredJobs(n)]]
              /\ pc' = [pc EXCEPT ![a] = "bootJob"]
              /\ UNCHANGED booted
    /\ UNCHANGED <<bootLock, runs>> /\ BootUnchanged

\* Restore's loop: DoSchedule(job, false) for the next job read.  A stored
\* expression was accepted by AddJob when it was saved, so this DoSchedule
\* does not fail and Restore's error returns are not taken.
BootJob(a) ==
    /\ pc[a] = "bootJob"
    /\ IF lc[a].jobs = <<>>
         THEN pc' = [pc EXCEPT ![a] = "bootService"] /\ UNCHANGED <<svc, lc, runs>>
         ELSE LET job == Head(lc[a].jobs) IN
              /\ svc' = DoSchedule(lc[a].cur, job.job, job.d)
              /\ runs' = Replaced(lc[a].cur, job.job)
              /\ lc' = [lc EXCEPT ![a].jobs = Tail(@)]
              /\ UNCHANGED pc
    /\ UNCHANGED <<bootLock, booted, owner>> /\ BootUnchanged

\* Mutant of BootDefault: bootLock is not released on this path.
BootDefaultNoUnlock(a) ==
    /\ pc[a] = "bootDefault"
    /\ NewCronServiceWithDB(DefaultSvc[a], a)
    /\ pc' = [pc EXCEPT ![a] = "idle"]
    /\ lc' = [lc EXCEPT ![a] = NoLocals]
    /\ UNCHANGED <<bootLock, jobStore, live, booted, crashes, started, runs>>

\* Look for the default service again; if it is still missing,
\* NewCronServiceWithDB makes and saves it.  The deferred Unlock runs.
BootDefault(a) ==
    /\ pc[a] = "bootDefault"
    /\ NewCronServiceWithDB(DefaultSvc[a], a)
    /\ pc' = [pc EXCEPT ![a] = "idle"]
    /\ lc' = [lc EXCEPT ![a] = NoLocals]
    /\ bootLock' = None
    /\ UNCHANGED <<jobStore, live, booted, crashes, started, runs>>

-----------------------------------------------------------------------------

\* The process stops and starts again: the store is what is left.
Restart ==
    /\ crashes < MaxCrashes
    /\ crashes' = crashes + 1
    /\ svc' = [n \in Svcs |-> NoService]
    /\ pc' = [a \in Apps |-> "idle"]
    /\ lc' = [a \in Apps |-> NoLocals]
    /\ bootLock' = None
    /\ owner' = [n \in Svcs |-> None]
    /\ booted' = FALSE
    /\ started' = {}
    /\ runs' = [n \in Svcs |-> [j \in Jobs |-> NoRuns]]
    /\ UNCHANGED <<cfgStore, jobStore, live>>

BootStep(a) ==
    BootCheck(a) \/ BootView(a) \/ BootService(a) \/ BootJob(a) \/ BootDefault(a)

Next ==
    \/ \E a \in Apps, n \in Svcs : NewService(a, n)
    \/ \E n \in Svcs, j \in Jobs, s \in Specs \cup {Bad}, p \in Policies :
          Schedule(n, j, s, p)
    \/ \E n \in Svcs, j \in Jobs : RemoveJobs(n, j) \/ Fire(n, j) \/ Finish(n, j)
    \/ \E n \in Svcs : Start(n) \/ Stop(n)
    \/ \E a \in Apps : BootCall(a) \/ BootStep(a)
    \/ Restart

\* Go's sync.Mutex hands itself to a waiter starved for over 1ms, so a
\* waiting boot gets bootLock: strong fairness on BootCheck.
Spec == Init /\ [][Next]_vars
        /\ \A a \in Apps : WF_vars(BootStep(a)) /\ SF_vars(BootCheck(a))

-----------------------------------------------------------------------------
(* Properties                                                              *)

\* Jobs survive a restart: once a cron.boot has run BootCronServices since
\* the last restart and no boot is part-way, svc.list() shows every job
\* whose last schedule succeeded and that was not removed since
\* (DoSchedule's SaveExecutor, then Restore's DoSchedule after restart).
DurableSchedule ==
    (booted /\ \A a \in Apps : pc[a] \notin Booting)
        => \A n \in Svcs : live[n] \subseteq DOMAIN ScriptList(n)

\* A removed job stays removed: every job svc.list() shows is one whose
\* last schedule succeeded and that was not removed since (svc.remove
\* against Restore re-reading job:<svc>:<job>).
RemovedStaysRemoved ==
    \A n \in Svcs : DOMAIN ScriptList(n) \subseteq live[n]

\* A job runs in the sandbox of the script that made its service
\* (Executor.run calls e.app.RunFile; BootCronServices sets service.app).
JobsRunInOwner ==
    \A n \in Svcs, j \in Jobs : Scheduled(n, j) => svc[n].entries[j].app = owner[n]

\* A job scheduled with the skipIfRunning policy never runs twice at once:
\* while svc.list() shows it with that policy, at most one run of the job is in
\* progress (SkipIfStillRunning, against DoSchedule building a new wrapper
\* chain for every schedule, and Restore rescheduling live jobs).
SkipIfRunningExcludes ==
    \A n \in Svcs : \A j \in DOMAIN ScriptList(n) :
        ScriptList(n)[j].policy = "skipIfRunning" => runs[n][j].cur + runs[n][j].old <= 1

\* A cron.boot call returns: bootLock is always released.
BootReturns == \A a \in Apps : pc[a] = "bootLock" ~> pc[a] = "idle"

====
