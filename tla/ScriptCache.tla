---------------------------- MODULE ScriptCache ----------------------------
(***************************************************************************)
(* The compiled-script cache of src/ext/util/script_cache.go.              *)
(*                                                                         *)
(* GetCompiled(srcFile, placeHolder) runs one singleflight call per cache  *)
(* key.  The call's leader loads the *CachedItem from the sync.Map; on a   *)
(* miss it stats, reads and compiles the file into a fresh item and       *)
(* stores it; on a hit whose LastCheck is older than checkDuration it     *)
(* re-stats the file and, when the modification time advanced, re-reads   *)
(* and recompiles INTO THE SAME ITEM.  Every caller of the call receives  *)
(* the item pointer and then, outside the singleflight, reads its Error   *)
(* and Compiled fields.  Items are therefore a heap of shared records: a  *)
(* later leader mutates an item that callers of an earlier call are      *)
(* still reading.                                                          *)
(*                                                                         *)
(* The file system is the environment: files are modified (new content,  *)
(* new mtime), deleted, and moved back (same content, same mtime).  The   *)
(* content of a version is abstracted to its number and to whether the    *)
(* transpile+compile of it succeeds.                                       *)
(***************************************************************************)
EXTENDS Integers, FiniteSets

CONSTANTS
    Threads,      \* goroutines calling GetCompiled
    Holders,      \* the placeholder-name lists scripts compile with
    Paths,        \* source files
    CheckDuration,\* checkDuration, in clock ticks
    MaxTime,      \* bound on the clock
    MaxVersion,   \* bound on the number of file modifications
    MaxCleans     \* bound on the number of Clean() calls

\* The cache key: srcFile + "[" + sorted placeholder names + "]", one per
\* file and placeholder list; PathOf[k] is its srcFile part.
Keys == Paths \X Holders
PathOf == [k \in Keys |-> k[1]]
ASSUME CheckDuration \in Nat /\ MaxTime \in Nat /\ MaxVersion \in Nat
ASSUME MaxCleans \in Nat

VARIABLES
    now,        \* the wall clock (time.Now())
    file,       \* file[p]: what fs.Stat / fs.ReadFile find at path p
    cache,      \* the sync.Map m: key -> item id, or NoItem
    items,      \* the heap of *CachedItem records
    nextItem,   \* next free item id
    cleans,     \* number of Clean() calls so far
    flight,     \* the singleflight group g: key -> leader thread, or NoThread
    pc,         \* pc[t]: where thread t is in GetCompiled
    key,        \* key[t]: the key thread t asked for
    local,      \* local[t]: the leader's locals (item, miss?, stat mtime, content read)
    res,        \* res[t]: the item id Do returned to t
    panicked,   \* ghost: some caller called Clone() on a nil unit
    statOk,     \* ghost: statOk[i] = did the latest stat made for item i find the file?
    compiledAt  \* ghost: compiledAt[i] = stat mtime the latest compile of item i followed

vars == <<now, file, cache, items, nextItem, cleans, flight, pc, key, local,
          res, panicked, statOk, compiledAt>>

MaxItems == Cardinality(Keys) * (MaxCleans + 1)
ItemIds  == 1..MaxItems
NoItem   == 0
NoThread == "none"
NoUnit   == -1       \* a nil *tengo.Compiled
Versions == 0..MaxVersion
Times    == 0..MaxTime

\* The error a CachedItem holds: nil, the fs.Stat error, the fs.ReadFile
\* error, or the error of compileFunc (transpile or tengo compile).
Errors == {"nil", "stat", "read", "compile"}

FileState == [exists: BOOLEAN, mtime: Times, ver: Versions, ok: BOOLEAN]
CachedItem == [Compiled: Versions \cup {NoUnit}, LastModify: Times,
               LastCheck: Times, Error: Errors]
Locals == [item: ItemIds \cup {NoItem}, miss: BOOLEAN, mtime: Times,
           ver: Versions, ok: BOOLEAN]

NoLocals == [item |-> NoItem, miss |-> FALSE, mtime |-> 0, ver |-> 0, ok |-> FALSE]

TypeOK ==
    /\ now \in Times
    /\ file \in [Paths -> FileState]
    /\ cache \in [Keys -> ItemIds \cup {NoItem}]
    /\ items \in [ItemIds -> CachedItem]
    /\ nextItem \in 1..MaxItems + 1
    /\ cleans \in 0..MaxCleans
    /\ flight \in [Keys -> Threads \cup {NoThread}]
    /\ pc \in [Threads -> {"idle", "do", "wait", "load", "read", "compile",
                           "store", "done", "error", "compiled"}]
    /\ key \in [Threads -> Keys]
    /\ local \in [Threads -> Locals]
    /\ res \in [Threads -> ItemIds \cup {NoItem}]
    \* a caller past c.g.Do holds the *CachedItem it will dereference
    /\ \A t \in Threads : pc[t] \in {"error", "compiled"} => res[t] \in ItemIds
    /\ panicked \in BOOLEAN
    /\ statOk \in [ItemIds -> BOOLEAN]
    /\ compiledAt \in [ItemIds -> Times]

Init ==
    /\ now = 0
    /\ file \in [Paths -> [exists: BOOLEAN, mtime: {0}, ver: {0}, ok: BOOLEAN]]
    /\ cache = [k \in Keys |-> NoItem]
    /\ items = [i \in ItemIds |-> [Compiled |-> NoUnit, LastModify |-> 0,
                                   LastCheck |-> 0, Error |-> "nil"]]
    /\ nextItem = 1
    /\ cleans = 0
    /\ flight = [k \in Keys |-> NoThread]
    /\ pc = [t \in Threads |-> "idle"]
    /\ key \in [Threads -> Keys]
    /\ local = [t \in Threads |-> NoLocals]
    /\ res = [t \in Threads |-> NoItem]
    /\ panicked = FALSE
    /\ statOk = [i \in ItemIds |-> FALSE]
    /\ compiledAt = [i \in ItemIds |-> 0]

-----------------------------------------------------------------------------
(* Helpers                                                                 *)

FileOf(t) == file[PathOf[key[t]]]

\* fs.Stat: the modification time, or an error (then state() returns time.Now()).
state(t) == IF FileOf(t).exists THEN FileOf(t).mtime ELSE now

\* compileFunc of the content read: the unit, or nil and an error.
Compiled(l) == IF l.ok THEN l.ver ELSE NoUnit
CompileError(l) == IF l.ok THEN "nil" ELSE "compile"

Goto(t, to) == pc' = [pc EXCEPT ![t] = to]

-----------------------------------------------------------------------------
(* The environment: the clock and the file system                          *)

Tick ==
    /\ now < MaxTime
    /\ now' = now + 1
    /\ UNCHANGED <<file, cache, items, nextItem, cleans, flight, pc, key,
                   local, res, panicked, statOk, compiledAt>>

\* Writing a file gives it new content and the current time as mtime.  The
\* file system is assumed to tell successive writes apart (at most one
\* write per path per tick).
Modify(p) ==
    /\ file[p].ver < MaxVersion
    /\ now > file[p].mtime
    /\ \E ok \in BOOLEAN :
         file' = [file EXCEPT ![p] = [exists |-> TRUE, mtime |-> now,
                                      ver |-> @.ver + 1, ok |-> ok]]
    /\ UNCHANGED <<now, cache, items, nextItem, cleans, flight, pc, key,
                   local, res, panicked, statOk, compiledAt>>

Delete(p) ==
    /\ file[p].exists
    /\ file' = [file EXCEPT ![p].exists = FALSE]
    /\ UNCHANGED <<now, cache, items, nextItem, cleans, flight, pc, key,
                   local, res, panicked, statOk, compiledAt>>

\* Moving a deleted file back (mv, rsync -a, unzip): same content, same mtime.
Restore(p) ==
    /\ ~file[p].exists
    /\ file' = [file EXCEPT ![p].exists = TRUE]
    /\ UNCHANGED <<now, cache, items, nextItem, cleans, flight, pc, key,
                   local, res, panicked, statOk, compiledAt>>

-----------------------------------------------------------------------------
(* GetCompiled                                                             *)

\* A caller computes its key and enters c.g.Do(key, ...).
Call(t) ==
    /\ pc[t] = "idle"
    /\ \E k \in Keys : key' = [key EXCEPT ![t] = k]
    /\ Goto(t, "do")
    /\ UNCHANGED <<now, file, cache, items, nextItem, cleans, flight, local,
                   res, panicked, statOk, compiledAt>>

\* singleflight.Do: join the call in flight for the key, or lead a new one.
Do(t) ==
    /\ pc[t] = "do"
    /\ IF flight[key[t]] = NoThread
         THEN /\ flight' = [flight EXCEPT ![key[t]] = t]
              /\ Goto(t, "load")
         ELSE /\ Goto(t, "wait")
              /\ UNCHANGED flight
    /\ UNCHANGED <<now, file, cache, items, nextItem, cleans, key, local, res,
                   panicked, statOk, compiledAt>>

\* c.m.Load(key) misses: a new CachedItem{LastCheck: now}, then state().
LoadMiss(t) ==
    /\ pc[t] = "load"
    /\ cache[key[t]] = NoItem
    /\ nextItem <= MaxItems
    /\ LET i == nextItem
           ok == FileOf(t).exists
       IN /\ items' = [items EXCEPT ![i] = [Compiled |-> NoUnit,
                           LastModify |-> state(t), LastCheck |-> now,
                           Error |-> IF ok THEN "nil" ELSE "stat"]]
          /\ statOk' = [statOk EXCEPT ![i] = ok]
          /\ local' = [local EXCEPT ![t] = [NoLocals EXCEPT !.item = i,
                                              !.miss = TRUE, !.mtime = state(t)]]
          /\ Goto(t, IF ok THEN "read" ELSE "store")
    /\ nextItem' = nextItem + 1
    /\ UNCHANGED <<now, file, cache, cleans, flight, key, res, panicked, compiledAt>>

\* Mutant: the hit path refreshes LastCheck but never re-stats the file.
LoadHitNoRecheck(t) ==
    /\ pc[t] = "load"
    /\ cache[key[t]] # NoItem
    /\ LET i == cache[key[t]] IN
       /\ local' = [local EXCEPT ![t] = [NoLocals EXCEPT !.item = i]]
       /\ items' = [items EXCEPT ![i].LastCheck =
                        IF now - @ > CheckDuration THEN now ELSE @]
    /\ Goto(t, "done")
    /\ UNCHANGED <<now, file, cache, nextItem, cleans, flight, key, res, panicked,
                   statOk, compiledAt>>

\* c.m.Load(key) hits.  Past the check interval: LastCheck = now, state(),
\* and on success re-read only when the mtime is After(LastModify); on
\* failure Error = err and Compiled is left as it is.
LoadHit(t) ==
    /\ pc[t] = "load"
    /\ cache[key[t]] # NoItem
    /\ LET i == cache[key[t]]
           ok == FileOf(t).exists
           expired == now - items[i].LastCheck > CheckDuration
       IN /\ local' = [local EXCEPT ![t] = [NoLocals EXCEPT !.item = i,
                                              !.mtime = state(t)]]
          /\ IF expired
               THEN /\ items' = [items EXCEPT ![i].LastCheck = now,
                                   ![i].Error = IF ok THEN @ ELSE "stat"]
                    /\ statOk' = [statOk EXCEPT ![i] = ok]
                    /\ Goto(t, IF ok /\ state(t) > items[i].LastModify
                                 THEN "read" ELSE "done")
               ELSE /\ Goto(t, "done")
                    /\ UNCHANGED <<items, statOk>>
    /\ UNCHANGED <<now, file, cache, nextItem, cleans, flight, key, res, panicked,
                   compiledAt>>

\* fs.ReadFile after a successful stat: the file may be gone by now.
Read(t) ==
    /\ pc[t] = "read"
    /\ LET i == local[t].item IN
       IF FileOf(t).exists
         THEN /\ local' = [local EXCEPT ![t].ver = FileOf(t).ver,
                                        ![t].ok = FileOf(t).ok]
              /\ Goto(t, "compile")
              /\ UNCHANGED items
         ELSE /\ items' = [items EXCEPT ![i].Error = "read"]
              /\ Goto(t, IF local[t].miss THEN "store" ELSE "done")
              /\ UNCHANGED local
    /\ UNCHANGED <<now, file, cache, nextItem, cleans, flight, key, res, panicked,
                   statOk, compiledAt>>

\* cachedItem.Compiled, cachedItem.Error = c.compileFunc(src, ...), written
\* in place: on the hit path into an item other callers may be reading.
Compile(t) ==
    /\ pc[t] = "compile"
    /\ LET i == local[t].item IN
       /\ items' = [items EXCEPT ![i].Compiled = Compiled(local[t]),
                                 ![i].Error = CompileError(local[t])]
       /\ compiledAt' = [compiledAt EXCEPT ![i] = local[t].mtime]
    /\ Goto(t, IF local[t].miss THEN "store" ELSE "done")
    /\ UNCHANGED <<now, file, cache, nextItem, cleans, flight, key, local, res,
                   panicked, statOk>>

\* c.m.Store(key, cachedItem) on the miss path.
Store(t) ==
    /\ pc[t] = "store"
    /\ cache' = [cache EXCEPT ![key[t]] = local[t].item]
    /\ Goto(t, "done")
    /\ UNCHANGED <<now, file, items, nextItem, cleans, flight, key, local, res,
                   panicked, statOk, compiledAt>>

\* Mutant: "cachedItem := &CachedItem{...}" in the miss branch shadows the
\* function's cachedItem, so the miss path's return hands out a nil item.
DoneShadowedItem(t) ==
    /\ pc[t] = "done"
    /\ LET k == key[t]
           joined == {u \in Threads : pc[u] = "wait" /\ key[u] = k} \cup {t}
           out == IF local[t].miss THEN NoItem ELSE local[t].item
       IN /\ res' = [u \in Threads |-> IF u \in joined THEN out ELSE res[u]]
          /\ pc' = [u \in Threads |-> IF u \in joined THEN "error" ELSE pc[u]]
          /\ flight' = [flight EXCEPT ![k] = NoThread]
    /\ local' = [local EXCEPT ![t] = NoLocals]
    /\ UNCHANGED <<now, file, cache, items, nextItem, cleans, key, panicked,
                   statOk, compiledAt>>

\* The call returns: the leader and every caller waiting on it get the item,
\* and the key leaves the group.
Done(t) ==
    /\ pc[t] = "done"
    /\ LET k == key[t]
           joined == {u \in Threads : pc[u] = "wait" /\ key[u] = k} \cup {t}
       IN /\ res' = [u \in Threads |-> IF u \in joined THEN local[t].item ELSE res[u]]
          /\ pc' = [u \in Threads |-> IF u \in joined THEN "error" ELSE pc[u]]
          /\ flight' = [flight EXCEPT ![k] = NoThread]
    /\ local' = [local EXCEPT ![t] = NoLocals]
    /\ UNCHANGED <<now, file, cache, items, nextItem, cleans, key, panicked,
                   statOk, compiledAt>>

\* Outside the singleflight: if item.Error != nil return nil, item.Error ...
ReadError(t) ==
    /\ pc[t] = "error"
    /\ IF items[res[t]].Error # "nil"
         THEN /\ Goto(t, "idle")
              /\ res' = [res EXCEPT ![t] = NoItem]
         ELSE /\ Goto(t, "compiled")
              /\ UNCHANGED res
    /\ UNCHANGED <<now, file, cache, items, nextItem, cleans, flight, key,
                   local, panicked, statOk, compiledAt>>

\* ... else return item.Compiled.Clone(); Clone of a nil *Compiled panics.
ReadCompiled(t) ==
    /\ pc[t] = "compiled"
    /\ panicked' = (panicked \/ items[res[t]].Compiled = NoUnit)
    /\ res' = [res EXCEPT ![t] = NoItem]
    /\ Goto(t, "idle")
    /\ UNCHANGED <<now, file, cache, items, nextItem, cleans, flight, key,
                   local, statOk, compiledAt>>

\* Clean(): delete every key of the sync.Map.  Items stay reachable from
\* the callers and leaders that hold them.
Clean ==
    /\ cleans < MaxCleans
    /\ cleans' = cleans + 1
    /\ cache' = [k \in Keys |-> NoItem]
    /\ UNCHANGED <<now, file, items, nextItem, flight, pc, key, local, res,
                   panicked, statOk, compiledAt>>

-----------------------------------------------------------------------------

Step(t) ==
    \/ Do(t) \/ LoadMiss(t) \/ LoadHit(t) \/ Read(t) \/ Compile(t)
    \/ Store(t) \/ Done(t) \/ ReadError(t) \/ ReadCompiled(t)

Next ==
    \/ Tick
    \/ \E p \in Paths : Modify(p) \/ Delete(p) \/ Restore(p)
    \/ Clean
    \/ \E t \in Threads : Call(t) \/ Step(t)

Spec == Init /\ [][Next]_vars

-----------------------------------------------------------------------------
(* Properties                                                              *)

\* Spec 4.2: the cache converges to the file.  A cached entry with no error,
\* no call in flight for it, and whose file has not been written since the
\* entry's last validity check, holds the unit compiled from the file's
\* current content (the re-stat / mtime comparison / recompile of the hit
\* path in GetCompiled).
CheckedEntryIsCurrent ==
    \A k \in Keys :
        LET i == cache[k]
            f == file[PathOf[k]]
        IN  (/\ i # NoItem
             /\ flight[k] = NoThread
             /\ items[i].Error = "nil"
             /\ f.exists
             /\ f.mtime < items[i].LastCheck)
            => items[i].Compiled = f.ver

\* GetCompiled never hands a caller item.Compiled.Clone() of a nil unit: a
\* caller that saw Error == nil also sees a compiled unit.
NoNilClone == ~panicked

\* Spec 4.2 step 3 and 7: the hit path recompiles an entry only when the
\* file's mtime advanced past the mtime its current unit was compiled from;
\* an unmodified file is not recompiled at every check interval.
RecompileOnlyWhenModified ==
    [][\A t \in Threads :
          (pc[t] = "compile" /\ ~local[t].miss /\ pc'[t] # "compile")
             => local[t].mtime > compiledAt[local[t].item]]_vars

\* Spec 4.2 step 2: a stat error is re-checked every interval and served only
\* while the file is missing: an idle entry holding a stat error was last
\* checked when its file did not exist.
StatErrorMeansMissing ==
    \A k \in Keys :
        LET i == cache[k] IN
        (i # NoItem /\ flight[k] = NoThread /\ items[i].Error = "stat")
            => ~statOk[i]

=============================================================================
