------------------------------ MODULE LogHub ------------------------------
(***************************************************************************)
(* The log hub (src/loghub/subscriber.go): a logrus hook that copies every *)
(* log entry to the websocket viewers of /{sandbox}/log, and the script    *)
(* log module (src/ext/loglib/log.go) whose calls make those entries.      *)
(*                                                                         *)
(* Each viewer's handler makes a channel of Cap entries, subscribes it     *)
(* under the sandbox name and starts a reader goroutine that writes the    *)
(* sandbox's entries to the websocket; the handler then reads setting      *)
(* commands (levels and a filter expression) from the socket until a read *)
(* fails, when it unsubscribes the name and closes the socket.  Fire       *)
(* starts, for every entry, a goroutine that ranges over the subscription  *)
(* map without the hook's mutex and sends the entry to each channel,       *)
(* blocking while one is full.                                             *)
(***************************************************************************)
EXTENDS Integers, Sequences, FiniteSets

CONSTANTS
    Names,       \* sandbox names
    Conns,       \* websocket connections, each to one /{sandbox}/log
    Lvls,        \* the logrus levels entries are logged at (one is "error")
    None,        \* no viewer, no sandbox field, no entry
    Cap,         \* channel capacity (100 in the handler)
    MaxFires,    \* bound on log entries fired
    MaxCmds      \* bound on setting commands viewers send

ASSUME None \notin Names /\ "error" \in Lvls /\ Cap \in Nat \ {0}
       /\ MaxFires \in Nat /\ MaxCmds \in Nat

\* A viewer is a connection to the log URL of a sandbox; ViewerName[v] is
\* the {sandbox} of its URL.
Viewers == Names \X Conns
ViewerName == [v \in Viewers |-> v[1]]
Fires == 1..MaxFires

\* The filter expressions a viewer may send, by what `result=(<filter>)`
\* does: "" is no filter, "errOnly" compiles and admits the entries of level
\* error, "bad" fails to compile, "runErr" compiles and fails when it runs.
Filters == {"", "errOnly", "bad", "runErr"}
Absent == "absent"
NoLevels == {Absent}   \* a command without "levels" (a set, so it compares with sets)

\* ws.ReadJSON(filter) decodes into the viewer's SubscriberSetting: a field
\* the command leaves out keeps its old value.
Cmds == [filter: Filters, levels: {NoLevels}] \cup [filter: {Absent}, levels: {{}, {"error"}}]

\* A log entry: its sandbox field, its level and the sandbox whose script
\* logged it (None for the server's own entries).
Entries == [s: Names \cup {None}, lvl: Lvls, by: Names \cup {None}]
NoEntry == [s |-> None, lvl |-> "error", by |-> None]

VARIABLES
    subs,     \* logHooker.subscribe: subs[n] = the viewer whose channel is under n
    conn,     \* conn[v]: "idle" (not connected), "open" or "closed"
    chan,     \* chan[v]: the entries buffered in v's channel
    sent,     \* sent[v]: the entry ids v's reader wrote to the websocket
    entry,    \* entry[i]: the i-th entry fired
    gor,      \* gor[i]: Fire's goroutine for entry i
    setting,  \* setting[v]: v's SubscriberSetting (Filter, Levels, compiled)
    cur,      \* cur[v]: the entry v's reader is running the filter on, or 0
    cmds,     \* setting commands received
    dead      \* the Go runtime aborted the process

vars == <<subs, conn, chan, sent, entry, gor, setting, cur, cmds, dead>>

NoGoroutine == [st |-> "none", start |-> {}, visited |-> {}, target |-> None]
Fired == {i \in Fires : gor[i].st # "none"}
Keys == {n \in Names : subs[n] # None}

TypeOK ==
    /\ subs \in [Names -> Viewers \cup {None}]
    /\ conn \in [Viewers -> {"idle", "open", "closed"}]
    /\ chan \in [Viewers -> Seq(Fires)]
    /\ \A v \in Viewers : Len(chan[v]) <= Cap
    /\ sent \in [Viewers -> Seq(Fires)]
    /\ entry \in [Fires -> Entries]
    /\ gor \in [Fires -> [st: {"none", "spawned", "range", "done"}, start: SUBSET Names,
                          visited: SUBSET Names, target: Viewers \cup {None}]]
    /\ setting \in [Viewers -> [filter: Filters, levels: SUBSET Lvls, compiled: Filters]]
    /\ cur \in [Viewers -> Fires \cup {0}]
    /\ cmds \in 0..MaxCmds
    /\ dead \in BOOLEAN

\* NewWithLevels registers the hook for every level with an empty map; a
\* handler's filter.update() with no filter leaves compiled nil ("").
Init ==
    /\ subs = [n \in Names |-> None]
    /\ conn = [v \in Viewers |-> "idle"]
    /\ chan = [v \in Viewers |-> <<>>]
    /\ sent = [v \in Viewers |-> <<>>]
    /\ entry = [i \in Fires |-> NoEntry]
    /\ gor = [i \in Fires |-> NoGoroutine]
    /\ setting = [v \in Viewers |-> [filter |-> "", levels |-> {}, compiled |-> ""]]
    /\ cur = [v \in Viewers |-> 0]
    /\ cmds = 0
    /\ dead = FALSE

\* Some goroutine is inside its range over the map.
Ranging == \E i \in Fires : gor[i].st = "range"

-----------------------------------------------------------------------------

\* logHooker.Fire: `go func() { for _, ch := range f.subscribe { ch <- e } }`
\* for the next entry (nothing once MaxFires entries are fired).
FireEntry(e) ==
    IF Cardinality(Fired) < MaxFires
      THEN LET i == Cardinality(Fired) + 1 IN
           /\ entry' = [entry EXCEPT ![i] = e]
           /\ gor' = [gor EXCEPT ![i].st = "spawned"]
      ELSE UNCHANGED <<entry, gor>>

\* A script of sandbox s calls log.info(...), log.err_with(m, ...) and the
\* like: log.WithField("sandbox", s.Name), then WithFields(m) for the _with
\* forms, whose map may hold a "sandbox" key that replaces the field.  The
\* calls that fail (no argument to a _with form, a first argument that is
\* not a map, a format that is not a string) return an error and log
\* nothing, so they are no step here.
ScriptLog(s, l, field) ==
    /\ ~dead /\ Cardinality(Fired) < MaxFires
    /\ FireEntry([s |-> field, lvl |-> l, by |-> s])
    /\ UNCHANGED <<subs, conn, chan, sent, setting, cur, cmds, dead>>

\* An entry the server logs outside any sandbox (no sandbox field).
ServerLog(l) ==
    /\ ~dead /\ Cardinality(Fired) < MaxFires
    /\ FireEntry([s |-> None, lvl |-> l, by |-> None])
    /\ UNCHANGED <<subs, conn, chan, sent, setting, cur, cmds, dead>>

\* The goroutine is scheduled and its range begins.
RangeBegin(i) ==
    /\ ~dead /\ gor[i].st = "spawned"
    /\ gor' = [gor EXCEPT ![i].st = "range", ![i].start = Keys]
    /\ UNCHANGED <<subs, conn, chan, sent, entry, setting, cur, cmds, dead>>

\* The range yields a key not yet visited: the map is read then, so a key
\* deleted since the range began is not yielded and one added may be.
\* When every key of the beginning that is still there has been visited,
\* the range may end.
RangeNext(i) ==
    /\ ~dead /\ gor[i].st = "range" /\ gor[i].target = None
    /\ \/ \E n \in Keys \ gor[i].visited :
            gor' = [gor EXCEPT ![i].visited = @ \cup {n}, ![i].target = subs[n]]
       \/ /\ (gor[i].start \cap Keys) \subseteq gor[i].visited
          /\ gor' = [gor EXCEPT ![i].st = "done"]
    /\ UNCHANGED <<subs, conn, chan, sent, entry, setting, cur, cmds, dead>>

\* ch <- entry: blocks while the channel holds Cap entries.
Send(i) ==
    /\ ~dead /\ gor[i].target # None
    /\ LET v == gor[i].target IN
       /\ Len(chan[v]) < Cap
       /\ chan' = [chan EXCEPT ![v] = Append(@, i)]
       /\ gor' = [gor EXCEPT ![i].target = None]
    /\ UNCHANGED <<subs, conn, sent, entry, setting, cur, cmds, dead>>

-----------------------------------------------------------------------------

\* NewWebsocketSubscribeHandler: filter.update() with no filter, upgrade,
\* make the channel, Subscribe(name, ch) under the mutex (replacing any
\* channel under that name), start the reader goroutine.
Connect(v) ==
    /\ ~dead /\ conn[v] = "idle"
    /\ subs' = [subs EXCEPT ![ViewerName[v]] = v]
    /\ conn' = [conn EXCEPT ![v] = "open"]
    /\ UNCHANGED <<chan, sent, entry, gor, setting, cur, cmds, dead>>

\* ws.ReadJSON (or the answer's WriteJSON) fails: logrus.Error("read json
\* command", err) fires an entry with no sandbox field, break, UnSubscribe
\* deletes whatever channel is under the name, ws.Close().  The reader
\* goroutine goes on.
Disconnect(v) ==
    /\ ~dead /\ conn[v] = "open"
    /\ subs' = [subs EXCEPT ![ViewerName[v]] = None]
    /\ conn' = [conn EXCEPT ![v] = "closed"]
    /\ FireEntry([s |-> None, lvl |-> "error", by |-> None])
    /\ UNCHANGED <<chan, sent, setting, cur, cmds, dead>>

\* SubscriberSetting.update under its lock: no filter leaves compiled nil;
\* otherwise `l.compiled, err = script.Compile()`, which is nil when the
\* expression does not compile.
Update(f) == IF f \in {"", "bad"} THEN "" ELSE f

\* ws.ReadJSON(filter) succeeds: the command is decoded into the setting
\* the reader goroutine is using, update() recompiles it, and the handler
\* answers 500 or 200 and reads on.
Command(v, c) ==
    /\ ~dead /\ conn[v] = "open" /\ cmds < MaxCmds
    /\ LET f == IF c.filter = Absent THEN setting[v].filter ELSE c.filter
           l == IF c.levels = NoLevels THEN setting[v].levels ELSE c.levels
       IN  setting' = [setting EXCEPT ![v] = [filter |-> f, levels |-> l, compiled |-> Update(f)]]
    /\ cmds' = cmds + 1
    /\ UNCHANGED <<subs, conn, chan, sent, entry, gor, cur, dead>>

\* MapWriteRace: Subscribe or UnSubscribe writes the map while a Fire
\* goroutine ranges over it without the lock: the runtime may detect the
\* concurrent map iteration and write and abort the process (a fatal
\* error, which Fire's recover does not catch).
MapWriteRace(v) ==
    /\ ~dead /\ Ranging
    /\ conn[v] \in {"idle", "open"}
    /\ dead' = TRUE
    /\ UNCHANGED <<subs, conn, chan, sent, entry, gor, setting, cur, cmds>>

\* ws.WriteJSON(entryToMap(msg)) for entry i: it reaches an open socket; on
\* a closed one the write fails and logrus.Error(err) fires a new entry
\* with no sandbox field.
Deliver(v, i) ==
    IF conn[v] = "open"
      THEN /\ sent' = [sent EXCEPT ![v] = Append(@, i)]
           /\ UNCHANGED <<entry, gor>>
      ELSE /\ FireEntry([s |-> None, lvl |-> "error", by |-> None])
           /\ UNCHANGED sent

\* Mutant of ReadTake: the reader goroutine stops once the socket is closed.
ReadTakeWhileOpen(v) ==
    /\ ~dead /\ conn[v] = "open" /\ chan[v] # <<>> /\ cur[v] = 0
    /\ LET i == Head(chan[v])
           e == entry[i]
       IN  /\ chan' = [chan EXCEPT ![v] = Tail(@)]
           /\ IF e.s # ViewerName[v] \/ (setting[v].levels # {} /\ e.lvl \notin setting[v].levels)
                THEN UNCHANGED <<sent, entry, gor, cur>>
              ELSE IF setting[v].compiled = ""
                THEN Deliver(v, i) /\ UNCHANGED cur
              ELSE cur' = [cur EXCEPT ![v] = i] /\ UNCHANGED <<sent, entry, gor>>
    /\ UNCHANGED <<subs, conn, setting, cmds, dead>>

\* The reader takes its channel's head: an entry of another sandbox, or of
\* a level the setting's Levels leaves out, is skipped; with compiled nil
\* Exec admits it; otherwise Exec runs the filter next.
ReadTake(v) ==
    /\ ~dead /\ conn[v] # "idle" /\ chan[v] # <<>> /\ cur[v] = 0
    /\ LET i == Head(chan[v])
           e == entry[i]
       IN  /\ chan' = [chan EXCEPT ![v] = Tail(@)]
           /\ IF e.s # ViewerName[v] \/ (setting[v].levels # {} /\ e.lvl \notin setting[v].levels)
                THEN UNCHANGED <<sent, entry, gor, cur>>
              ELSE IF setting[v].compiled = ""
                THEN Deliver(v, i) /\ UNCHANGED cur
              ELSE cur' = [cur EXCEPT ![v] = i] /\ UNCHANGED <<sent, entry, gor>>
    /\ UNCHANGED <<subs, conn, setting, cmds, dead>>

\* Exec, past its nil check, reads l.compiled again for Clone, without the
\* lock update() writes it under: if a command cleared it meanwhile, Clone
\* dereferences nil and the reader goroutine's panic aborts the process.
\* Otherwise the clone runs: "errOnly" admits error entries, "runErr"
\* fails and the handler writes an error object instead of the entry.
ReadExec(v) ==
    /\ ~dead /\ cur[v] # 0
    /\ LET i == cur[v] IN
       \/ /\ setting[v].compiled = ""
          /\ dead' = TRUE
          /\ UNCHANGED <<sent, entry, gor, cur>>
       \/ /\ setting[v].compiled # ""
          /\ cur' = [cur EXCEPT ![v] = 0]
          /\ IF setting[v].compiled = "errOnly" /\ entry[i].lvl = "error"
               THEN Deliver(v, i)
               ELSE UNCHANGED <<sent, entry, gor>>
          /\ UNCHANGED dead
    /\ UNCHANGED <<subs, conn, chan, setting, cmds>>

Read(v) == ReadTake(v) \/ ReadExec(v)

Goroutine(i) == RangeBegin(i) \/ RangeNext(i) \/ Send(i)

Next ==
    \/ \E s \in Names, l \in Lvls, f \in Names : ScriptLog(s, l, f)
    \/ \E l \in Lvls : ServerLog(l)
    \/ \E i \in Fires : Goroutine(i)
    \/ \E v \in Viewers : \/ Connect(v) \/ Disconnect(v) \/ MapWriteRace(v) \/ Read(v)
                          \/ \E c \in Cmds : Command(v, c)

\* The Go scheduler runs every runnable goroutine: Fire's goroutines and
\* the readers.  Connections, commands and log calls are the environment's
\* and get no fairness.
Spec == Init /\ [][Next]_vars
        /\ \A i \in Fires : WF_vars(Goroutine(i))
        /\ \A v \in Viewers : WF_vars(Read(v))

-----------------------------------------------------------------------------
(* Properties                                                              *)

\* No Fire goroutine blocks forever: every goroutine that started ranging
\* sends its entry to every channel it picked and ends, because each
\* reader keeps draining its channel even after its socket closed.
FiresComplete ==
    \A i \in Fires : gor[i].st \in {"spawned", "range"} ~> (gor[i].st = "done" \/ dead)

\* Every open viewer's channel is the one subscribed under its sandbox.
OpenViewerSubscribed ==
    \A v \in Viewers : conn[v] = "open" => subs[ViewerName[v]] = v

\* The process is never aborted by the log hub: neither by the unlocked
\* range in Fire nor by the reader's unlocked second read in Exec.
NoFatalRace == ~dead

\* A viewer of /{sandbox}/log is shown only what scripts of that sandbox
\* logged: the reader's check of the entry's sandbox field against the
\* URL's name, with loglib setting the field from the calling applet.
OwnSandboxOnly ==
    \A v \in Viewers : \A k \in DOMAIN sent[v] : entry[sent[v][k]].by = ViewerName[v]

====
