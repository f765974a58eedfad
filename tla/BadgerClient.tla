----------------------------- MODULE BadgerClient -----------------------------
(***************************************************************************)
(* The script-facing badger client (src/ext/badgerlib/badger.go): one       *)
(* badger database and the functions a script calls on it.                 *)
(*                                                                         *)
(* The writes (set with a map, a key and value, or a key, value and ttl,    *)
(* and del) are actions, each one badger Update transaction.  The reads     *)
(* (get, list_keys, list_keys_with_prefix, search, search_prefix) change    *)
(* nothing: they are operators, compared in every state with reference     *)
(* definitions for every small argument.  The environment advances the     *)
(* wall clock, which expires ttl'd entries, and may make the value log      *)
(* unreadable for a key.                                                   *)
(*                                                                         *)
(* Keys are byte strings, written as sequences of small integers; badger   *)
(* iterates them in bytes.Compare order.                                    *)
(***************************************************************************)
EXTENDS Integers, Sequences, SequencesExt, FiniteSets

CONSTANTS
    Vals,        \* the byte values scripts store
    NotBytes,    \* a script value tengo.ToByteSlice rejects
    NsPerSec,    \* nanoseconds in a second of the wall clock
    Ttls,        \* ttl arguments of set(k, v, ttl): nanoseconds, time.Duration(ttl)
    MaxNow,      \* bound on the clock, in nanoseconds
    MaxFaults,   \* bound on keys whose value-log read fails
    Offsets,     \* offset and limit arguments scripts pass
    DefaultLimit,\* the limit when none is passed (100)
    Procs,       \* script goroutines calling backup
    Dirs,        \* backup names that are existing directories
    Files,       \* backup names that are plain file names
    MaxBackups   \* bound on the os.Create calls per backup path

ASSUME NsPerSec \in Nat \ {0} /\ Ttls \subseteq Nat /\ MaxNow \in Nat

\* The keys scripts use: <<1>> is a prefix of <<1, 2>>, and <<2>> sorts
\* after both.
Keys == {<<1>>, <<1, 2>>, <<2>>}

Absent == "absent"
Nil == "nil"

\* A script argument, tagged by its tengo type: a string, an array of
\* strings, or undefined.
Args == [t: {"string", "array"}, v: Keys] \cup [t: {"undefined"}, v: {<<>>}]

\* Where backup writes: a plain file, or a file named by the second of
\* time.Now() inside a directory.
BackupPaths == {<<f>> : f \in Files} \cup (Dirs \X (0..MaxNow \div NsPerSec))

Idle == <<>>  \* no backup call between its os.Stat and its os.Create

VARIABLES
    store,   \* store[k]: the latest version of k, or Absent (deleted or never set)
    exp,     \* exp[k]: its ExpiresAt in Unix seconds, 0 for none
    now,     \* the wall clock, in nanoseconds
    bad,     \* keys whose value the value log can no longer read
    files,   \* files[f]: how many times backup has os.Create'd path f
    bk       \* bk[p]: the path p's backup call is about to create, or Idle

vars == <<store, exp, now, bad, files, bk>>

TypeOK ==
    /\ store \in [Keys -> Vals \cup {Absent}]
    /\ exp \in [Keys -> Nat]
    /\ now \in 0..MaxNow
    /\ bad \subseteq Keys
    /\ files \in [BackupPaths -> 0..MaxBackups]
    /\ bk \in [Procs -> BackupPaths \cup {Idle}]

Init ==
    /\ store = [k \in Keys |-> Absent]
    /\ exp = [k \in Keys |-> 0]
    /\ now = 0
    /\ bad = {}
    /\ files = [f \in BackupPaths |-> 0]
    /\ bk = [p \in Procs |-> Idle]

-----------------------------------------------------------------------------
(* What badger's iterators and Txn.Get see                                 *)

\* bytes.Compare(a, b) < 0.
RECURSIVE ByteLess(_, _)
ByteLess(a, b) ==
    \/ a = <<>> /\ b # <<>>
    \/ /\ a # <<>> /\ b # <<>>
       /\ \/ Head(a) < Head(b)
          \/ Head(a) = Head(b) /\ ByteLess(Tail(a), Tail(b))

\* A version with ExpiresAt <= now.Unix() is expired (isDeletedOrExpired).
Expired(k) == exp[k] # 0 /\ exp[k] <= now \div NsPerSec

Live(k) == store[k] # Absent /\ ~Expired(k)

\* The keys an iterator yields, in order.
LiveKeys == SetToSortSeq({k \in Keys : Live(k)}, ByteLess)

-----------------------------------------------------------------------------
(* Writes                                                                  *)

\* badgerClient.Set: one Update transaction of NewEntry(k, v) per entry
\* (no ttl, so ExpiresAt 0).
Put(m) ==
    /\ store' = [k \in Keys |-> IF k \in DOMAIN m THEN m[k] ELSE store[k]]
    /\ exp' = [k \in Keys |-> IF k \in DOMAIN m THEN 0 ELSE exp[k]]

\* Mutant of SetMap: the values are not checked before the write.
SetMapUnchecked(m) == Put(m) /\ UNCHANGED <<now, bad, files, bk>>

\* set(map): every value is converted first; one that is not bytes or a
\* string returns an error before anything is written.
SetMap(m) ==
    /\ IF \E k \in DOMAIN m : m[k] = NotBytes
         THEN UNCHANGED <<store, exp>>
         ELSE Put(m)
    /\ UNCHANGED <<now, bad, files, bk>>

\* set(k, v).
SetKV(k, v) ==
    /\ IF v = NotBytes THEN UNCHANGED <<store, exp>> ELSE Put(k :> v)
    /\ UNCHANGED <<now, bad, files, bk>>

\* set(k, v, ttl): NewEntry(k, v).WithTTL(time.Duration(ttl)), whose
\* ExpiresAt is time.Now().Add(ttl).Unix().
SetTTL(k, v, ttl) ==
    /\ IF v = NotBytes
         THEN UNCHANGED <<store, exp>>
         ELSE /\ store' = [store EXCEPT ![k] = v]
              /\ exp' = [exp EXCEPT ![k] = (now + ttl) \div NsPerSec]
    /\ UNCHANGED <<now, bad, files, bk>>

\* badgerClient.Delete(keys): one Update deleting every key.
Del(ks) ==
    /\ store' = [k \in Keys |-> IF k \in ks THEN Absent ELSE store[k]]
    /\ exp' = [k \in Keys |-> IF k \in ks THEN 0 ELSE exp[k]]
    /\ UNCHANGED <<now, bad, files, bk>>

\* The key tengo.ToString makes of a string argument.  Any other value but
\* undefined converts too, to its printed form: an array of keys becomes
\* the text `["k"]`, which names none of the keys.
KeyOf(a) == IF a.t = "string" THEN {a.v} ELSE {}

\* The keys del(args) deletes: every argument is converted with
\* tengo.ToString, and one that does not convert (undefined) returns an
\* error before anything is deleted.
DeletedBy(args) ==
    IF \E i \in DOMAIN args : args[i].t = "undefined" THEN {}
    ELSE UNION {KeyOf(args[i]) : i \in DOMAIN args}

\* del(k, ...): badgerClient.Delete of the converted keys.
ScriptDel(args) == Del(DeletedBy(args))

\* backup(name, since), up to os.Create: an empty name is an error; an
\* existing directory gets the file named by time.Now().Format(
\* "20060102150504.bbk"), unique to the second; an existing file is an
\* error; any other name is created as given.  The os.Stat is not
\* repeated before the os.Create.
BackupStat(p, n) ==
    /\ bk[p] = Idle
    /\ \/ n \in Dirs /\ bk' = [bk EXCEPT ![p] = <<n, now \div NsPerSec>>]
       \/ n \in Files /\ files[<<n>>] = 0 /\ bk' = [bk EXCEPT ![p] = <<n>>]
       \/ n = "" /\ UNCHANGED bk
       \/ n \in Files /\ files[<<n>>] > 0 /\ UNCHANGED bk
    /\ UNCHANGED <<store, exp, now, bad, files>>

\* backup's os.Create, which truncates a file that is already there, and
\* b.Backup(file, since) streaming the database into it.
BackupCreate(p) ==
    /\ bk[p] # Idle /\ files[bk[p]] < MaxBackups
    /\ files' = [files EXCEPT ![bk[p]] = @ + 1]
    /\ bk' = [bk EXCEPT ![p] = Idle]
    /\ UNCHANGED <<store, exp, now, bad>>

\* The wall clock advances.
Tick ==
    /\ now < MaxNow
    /\ now' = now + 1
    /\ UNCHANGED <<store, exp, bad, files, bk>>

\* The value log can no longer be read for k's value (a damaged or
\* removed value-log file): Item.Value fails for it.
ValueLogFault(k) ==
    /\ Cardinality(bad) < MaxFaults
    /\ bad' = bad \cup {k}
    /\ UNCHANGED <<store, exp, now, files, bk>>

Next ==
    \/ \E S \in SUBSET Keys : \E m \in [S -> Vals \cup {NotBytes}] : SetMap(m)
    \/ \E k \in Keys, v \in Vals \cup {NotBytes} :
          SetKV(k, v) \/ \E t \in Ttls : SetTTL(k, v, t)
    \/ \E n \in 0..2 : \E args \in [1..n -> Args] : ScriptDel(args)
    \/ \E p \in Procs : \/ \E n \in Dirs \cup Files \cup {""} : BackupStat(p, n)
                       \/ BackupCreate(p)
    \/ Tick
    \/ \E k \in Keys : ValueLogFault(k)

Spec == Init /\ [][Next]_vars

-----------------------------------------------------------------------------
(* Reads                                                                   *)

\* The loop of list_keys and list_keys_with_prefix over the iterator:
\* count += 1; skip while count <= offset; break once count > limit.
RECURSIVE PageLoop(_, _, _, _)
PageLoop(it, count, offset, limit) ==
    IF it = <<>> THEN <<>>
    ELSE IF count + 1 <= offset THEN PageLoop(Tail(it), count + 1, offset, limit)
    ELSE IF count + 1 > limit THEN <<>>
    ELSE <<Head(it)>> \o PageLoop(Tail(it), count + 1, offset, limit)

\* Mutant of ListKeys: the limit is not moved past the offset.
ListKeysUnshifted(offset, limit) == PageLoop(LiveKeys, 0, offset, limit)

\* list_keys(offset, limit): limit = offset + limit, then the loop over
\* every key from Rewind.
ListKeys(offset, limit) == PageLoop(LiveKeys, 0, offset, offset + limit)

\* list_keys_with_prefix(prefix, offset, limit): the loop over the keys
\* from Seek(prefix) while ValidForPrefix(prefix).
ListKeysWithPrefix(p, offset, limit) ==
    PageLoop(SelectSeq(LiveKeys, LAMBDA k : IsPrefix(p, k)), 0, offset, limit)

\* An iterator from position i while the key has prefix p.
RECURSIVE ForPrefix(_, _, _)
ForPrefix(it, i, p) ==
    IF i > Len(it) \/ ~IsPrefix(p, it[i]) THEN <<>>
    ELSE <<it[i]>> \o ForPrefix(it, i + 1, p)

\* Seek(p): the first position whose key is not below p.
SeekPos(it, p) ==
    LET P == {i \in 1..Len(it) : ~ByteLess(it[i], p)} IN
    IF P = {} THEN Len(it) + 1 ELSE Min(P)

\* The search_prefix result for the keys the scan yields.  An Item.Value
\* error returns from the loop before `defer iterator.Close()` is
\* reached, and View's Txn.Discard panics on the unclosed iterator.
PrefixScan(ks) ==
    IF \E i \in DOMAIN ks : ks[i] \in bad
      THEN [val |-> Nil, out |-> "panic"]
      ELSE [val |-> [k \in ToSet(ks) |-> store[k]], out |-> "ok"]

\* Mutant of SearchPrefix: the iteration starts at Rewind, not Seek(p).
SearchPrefixRewind(p) == PrefixScan(ForPrefix(LiveKeys, 1, p))

\* badgerClient.SearchPrefix, for search_prefix(p): Seek(p), then every key
\* ValidForPrefix(p), mapped to its value.
SearchPrefix(p) == PrefixScan(ForPrefix(LiveKeys, SeekPos(LiveKeys, p), p))

\* bytes.Contains(key, v): v occurs in key as a run of bytes.
ContainsBytes(key, v) ==
    \E i \in 0..(Len(key) - Len(v)) : SubSeq(key, i + 1, i + Len(v)) = v

\* The needle of search: a string or bytes argument, and nil (which every
\* key contains) for any other type.
Needle(a) == IF a.t \in {"string", "bytes"} THEN a.v ELSE <<>>

\* search(v, ...): fewer than two arguments is ErrWrongNumArguments, though
\* only the first is used; otherwise a key-only iteration over the live
\* keys, mapping each key that contains the needle to itself.
Search(args) ==
    IF Len(args) <= 1 THEN [val |-> Nil, out |-> "wrongargs"]
    ELSE [val |-> [k \in {x \in Keys : Live(x) /\ ContainsBytes(x, Needle(args[1]))} |-> k],
          out |-> "ok"]

\* badgerClient.Get: a missing key is no error; Item.Value's error is
\* assigned to err, but the closure returns nil and View's nil result is
\* assigned to err after it.
Get(k) ==
    IF ~Live(k) \/ k \in bad THEN [val |-> Nil, out |-> "ok"]
    ELSE [val |-> store[k], out |-> "ok"]

\* badgerClient.BatchGet: missing keys are skipped, the first Item.Value
\* error returns from the View.
BatchGet(ks) ==
    IF \E i \in DOMAIN ks : Live(ks[i]) /\ ks[i] \in bad
      THEN [val |-> Nil, out |-> "error"]
      ELSE [val |-> [k \in {x \in ToSet(ks) : Live(x)} |-> store[k]], out |-> "ok"]

\* The script's get(k, ...): no key gives an empty array, one key Get,
\* more keys BatchGet; an error becomes an error object.
ScriptGet(ks) ==
    IF ks = <<>> THEN [val |-> <<>>, out |-> "ok"]
    ELSE IF Len(ks) = 1 THEN Get(ks[1])
    ELSE BatchGet(ks)

-----------------------------------------------------------------------------
(* References                                                              *)

\* The page of s starting after `offset` elements, of at most `limit`.
Page(s, offset, limit) == SubSeq(s, offset + 1, Min({Len(s), offset + limit}))

KeyPrefixes == UNION {{SubSeq(k, 1, i) : i \in 0..Len(k)} : k \in Keys}

Requests == UNION {[1..n -> Keys] : n \in 0..2}

-----------------------------------------------------------------------------
(* Properties                                                              *)

\* list_keys(offset, limit) returns the limit keys after the first offset,
\* in key order, and list_keys() the first DefaultLimit; expired and
\* deleted keys are not counted.
ListKeysPage ==
    /\ \A o, l \in Offsets : ListKeys(o, l) = Page(LiveKeys, o, l)
    /\ ListKeys(0, DefaultLimit) = Page(LiveKeys, 0, DefaultLimit)

\* list_keys_with_prefix(p, offset, limit) pages the keys with prefix p
\* the way list_keys pages all keys.
PrefixPage ==
    \A p \in KeyPrefixes, o, l \in Offsets :
        ListKeysWithPrefix(p, o, l) = Page(SelectSeq(LiveKeys, LAMBDA k : IsPrefix(p, k)), o, l)

\* search_prefix(p) returns exactly the live keys with prefix p and their
\* values, whenever their values can be read: the scan from Seek(p) stops
\* at the first key without the prefix, which is right only because keys
\* are sorted and every key with the prefix sorts after p.
SearchPrefixExact ==
    \A p \in KeyPrefixes :
        LET K == {k \in Keys : Live(k) /\ IsPrefix(p, k)} IN
        K \cap bad = {} => SearchPrefix(p) = [val |-> [k \in K |-> store[k]], out |-> "ok"]

\* A value the value log cannot read makes get(k, ...) and
\* search_prefix(p) return an error to the script, and no other read does:
\* it is neither dropped (an empty result) nor a panic.
ReadErrorReported ==
    /\ \A ks \in Requests :
          ScriptGet(ks).out = IF \E i \in DOMAIN ks : Live(ks[i]) /\ ks[i] \in bad
                                THEN "error" ELSE "ok"
    /\ \A p \in KeyPrefixes :
          SearchPrefix(p).out = IF \E k \in bad : Live(k) /\ IsPrefix(p, k)
                                  THEN "error" ELSE "ok"

\* backup never writes into a backup file another backup created: it
\* refuses a name that exists, and a directory gets a fresh file.
BackupFileOnce == \A f \in BackupPaths : files[f] <= 1

====
