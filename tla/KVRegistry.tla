------------------------------ MODULE KVRegistry ------------------------------
(***************************************************************************)
(* The process-wide registry of badger databases (src/kvstore/local.go)     *)
(* and its callers: the badger provider's open(name, dir) and take(name)   *)
(* (src/ext/badgerlib), the cron module's storage (src/ext/cronlib), and   *)
(* lego's cleanup, which calls kvstore.Shutdown (src/lego/lego.go).         *)
(*                                                                         *)
(* databases is a sync.Map from name to *badger.DB.  Open and Get both run *)
(* their lookup inside one singleflight.Group keyed by the name, so a call *)
(* that finds a call of either kind in flight for its name waits for it    *)
(* and returns its result.  badger.Open takes a lock on its directory and  *)
(* fails while another open database holds it; an in-memory database (a    *)
(* name beginning with ":", or no directory) takes no lock.  Scripts reach *)
(* the registry through badger.open and badger.take; the cron module's    *)
(* kvstore.Open(name, DefaultOptions(dir)) is open(name, dir) here.        *)
(***************************************************************************)
EXTENDS Integers, Sequences, FiniteSets

CONSTANTS
    Procs,     \* goroutines calling into the registry (scripts, cron boot)
    Names,     \* database names
    MemNames,  \* the names that begin with ":"
    Dirs       \* database directories besides the names themselves

ASSUME MemNames \subseteq Names

None == 0
NoFlight == [fn |-> "none", leader |-> None]
Idle == [st |-> "idle", fn |-> "none", name |-> "none", dir |-> "none"]

VARIABLES
    reg,     \* reg[n]: the index in dbs of the database stored under n, or None
    dbs,     \* dbs[i]: the i-th database badger.Open returned: its dir, closed
    flight,  \* flight[n]: the singleflight call in progress for n
    pc,      \* pc[p]: p's call: its step, "open" or "get", name and dir
    ret      \* ret[p]: what p's last call returned

vars == <<reg, dbs, flight, pc, ret>>

\* A directory: one of Dirs, a name used as its own directory, or "" for
\* an in-memory database.
Paths == Dirs \cup Names \cup {""}

Results == [db: Nat, err: {"none", "notexists", "locked", "args"}]

TypeOK ==
    /\ reg \in [Names -> Nat]
    /\ dbs \in Seq([dir: Paths, closed: BOOLEAN])
    /\ \A n \in Names : reg[n] <= Len(dbs)
    /\ flight \in [Names -> [fn: {"none", "open", "get"}, leader: Procs \cup {None}]]
    /\ pc \in [Procs -> [st: {"idle", "wait", "load", "open", "done"},
                         fn: {"none", "open", "get"}, name: Names \cup {"none"},
                         dir: Paths \cup {"none"}]]
    /\ ret \in [Procs -> Results]

Init ==
    /\ reg = [n \in Names |-> None]
    /\ dbs = <<>>
    /\ flight = [n \in Names |-> NoFlight]
    /\ pc = [p \in Procs |-> Idle]
    /\ ret = [p \in Procs |-> [db |-> None, err |-> "none"]]

-----------------------------------------------------------------------------

\* singleflight's doCall ends: under the group's lock the leader and
\* every caller waiting on n are released with the result r, and the call
\* is removed.
Complete(n, r) ==
    LET W == {p \in Procs : pc[p].name = n /\ pc[p].st \in {"wait", "load", "open"}} IN
    /\ pc' = [p \in Procs |-> IF p \in W THEN [pc[p] EXCEPT !.st = "done"] ELSE pc[p]]
    /\ ret' = [p \in Procs |-> IF p \in W THEN r ELSE ret[p]]
    /\ flight' = [flight EXCEPT ![n] = NoFlight]

\* group.Do(n, fn): with a call in flight for n, wait for it; otherwise
\* register one and run fn.
Call(p, fn, n, d) ==
    /\ pc[p].st = "idle"
    /\ IF flight[n] # NoFlight
         THEN /\ pc' = [pc EXCEPT ![p] = [st |-> "wait", fn |-> fn, name |-> n, dir |-> d]]
              /\ UNCHANGED flight
         ELSE /\ pc' = [pc EXCEPT ![p] = [st |-> "load", fn |-> fn, name |-> n, dir |-> d]]
              /\ flight' = [flight EXCEPT ![n] = [fn |-> fn, leader |-> p]]
    /\ UNCHANGED <<reg, dbs, ret>>

\* kvstore.Open(name, options): a name beginning with ":" clears the
\* directory, and an empty directory makes the database in-memory.
Open(p, n, d) == Call(p, "open", n, IF n \in MemNames THEN "" ELSE d)

\* kvstore.Get(name).
Get(p, n) == Call(p, "get", n, "none")

\* A script function that returns an error object without calling into
\* the registry.
Reject(p) ==
    /\ pc[p].st = "idle"
    /\ pc' = [pc EXCEPT ![p] = [st |-> "done", fn |-> "none", name |-> "none", dir |-> "none"]]
    /\ ret' = [ret EXCEPT ![p] = [db |-> None, err |-> "args"]]
    /\ UNCHANGED <<reg, dbs, flight>>

\* badger.open's arguments: a wrong count, a name that is not a string or
\* an option of another type (all three give an error object); a name
\* alone; a name and a directory, given as a string, an option proxy or
\* an option map.
OpenArgs ==
    {[k |-> "bad", n |-> "none", d |-> "none"]}
    \cup {[k |-> "name", n |-> n, d |-> "none"] : n \in Names}
    \cup {[k |-> "dir", n |-> n, d |-> d] : n \in Names, d \in Dirs}

\* openBadger and OpenBadgerDB: open(name) opens name with
\* DefaultOptions(name), so the name is also the directory.
OpenBadger(p, a) ==
    CASE a.k = "bad"  -> Reject(p)
      [] a.k = "name" -> Open(p, a.n, a.n)
      [] OTHER        -> Open(p, a.n, a.d)

\* badger.take(name): kvstore.Get; a wrong argument count or a name that
\* is not a string gives an error object, as a failed Get does.
Take(p, a) == IF a = "bad" THEN Reject(p) ELSE Get(p, a)

\* Mutant of Load: Open's fn does not look in databases first.
LoadUnchecked(p) ==
    /\ pc[p].st = "load"
    /\ LET n == pc[p].name IN
       IF pc[p].fn = "open"
         THEN /\ pc' = [pc EXCEPT ![p].st = "open"]
              /\ UNCHANGED <<flight, ret>>
         ELSE IF reg[n] # None
           THEN Complete(n, [db |-> reg[n], err |-> "none"])
           ELSE Complete(n, [db |-> None, err |-> "notexists"])
    /\ UNCHANGED <<reg, dbs>>

\* The leader's fn: databases.Load(name).  Get's fn returns the database
\* or "not exists"; Open's returns the database it found, or goes on to
\* badger.Open.
Load(p) ==
    /\ pc[p].st = "load"
    /\ LET n == pc[p].name IN
       IF reg[n] # None
         THEN Complete(n, [db |-> reg[n], err |-> "none"])
         ELSE IF pc[p].fn = "get"
           THEN Complete(n, [db |-> None, err |-> "notexists"])
           ELSE /\ pc' = [pc EXCEPT ![p].st = "open"]
                /\ UNCHANGED <<flight, ret>>
    /\ UNCHANGED <<reg, dbs>>

\* Mutant of BadgerOpen: the database is stored whatever badger.Open returned.
BadgerOpenStoreAlways(p) ==
    /\ pc[p].st = "open"
    /\ LET n == pc[p].name
           d == pc[p].dir
       IN  /\ reg' = [reg EXCEPT ![n] = Len(dbs) + 1]
           /\ IF d # "" /\ \E i \in 1..Len(dbs) : dbs[i].dir = d /\ ~dbs[i].closed
                THEN /\ Complete(n, [db |-> None, err |-> "locked"])
                     /\ UNCHANGED dbs
                ELSE /\ dbs' = Append(dbs, [dir |-> d, closed |-> FALSE])
                     /\ Complete(n, [db |-> Len(dbs) + 1, err |-> "none"])

\* Open's fn: badger.Open(options) fails while another open database
\* holds the directory's lock; on success databases.Store(name, db).
BadgerOpen(p) ==
    /\ pc[p].st = "open"
    /\ LET n == pc[p].name
           d == pc[p].dir
       IN  IF d # "" /\ \E i \in 1..Len(dbs) : dbs[i].dir = d /\ ~dbs[i].closed
             THEN /\ Complete(n, [db |-> None, err |-> "locked"])
                  /\ UNCHANGED <<reg, dbs>>
             ELSE /\ dbs' = Append(dbs, [dir |-> d, closed |-> FALSE])
                  /\ reg' = [reg EXCEPT ![n] = Len(dbs) + 1]
                  /\ Complete(n, [db |-> Len(dbs) + 1, err |-> "none"])

\* The caller goes on and may call again.
Return(p) ==
    /\ pc[p].st = "done"
    /\ pc' = [pc EXCEPT ![p] = Idle]
    /\ UNCHANGED <<reg, dbs, flight, ret>>

\* kvstore.Shutdown, from lego's cleanup: Range over databases, closing
\* each one not closed yet.  The entries stay in the map.
Shutdown ==
    /\ dbs' = [i \in 1..Len(dbs) |->
                 IF \E n \in Names : reg[n] = i THEN [dbs[i] EXCEPT !.closed = TRUE] ELSE dbs[i]]
    /\ UNCHANGED <<reg, flight, pc, ret>>

Step(p) == Load(p) \/ BadgerOpen(p)

Next ==
    \/ \E p \in Procs :
          \/ \E a \in OpenArgs : OpenBadger(p, a)
          \/ \E a \in Names \cup {"bad"} : Take(p, a)
    \/ \E p \in Procs : Step(p) \/ Return(p)
    \/ Shutdown

Spec == Init /\ [][Next]_vars

-----------------------------------------------------------------------------
(* Properties                                                              *)

\* Every database badger.Open returned and nobody closed is the one stored
\* under some name, so Shutdown's Range reaches it: two opens of one name
\* never both run badger.Open.
NoLeakedDB ==
    \A i \in 1..Len(dbs) : ~dbs[i].closed => \E n \in Names : reg[n] = i

\* open(name, ...) creates a database that does not exist: it never fails
\* with "not exists".
OpenCreates ==
    \A p \in Procs : pc[p].st = "done" /\ pc[p].fn = "open" => ret[p].err # "notexists"

====
