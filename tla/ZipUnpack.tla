----------------------------- MODULE ZipUnpack -----------------------------
(***************************************************************************)
(* unpackage (src/ext/modman/fsimporter.go) extracting one archive into   *)
(* the package directory dest/name@version, called by NewZipImporter-     *)
(* WithDest for each sandbox that requires the package (vm/appman.go).     *)
(* Each file-system call is one step; the file system outlives a crash of *)
(* the process, the goroutines' locals do not.                             *)
(*                                                                         *)
(* A directory is a record: whether it exists, its inode generation and   *)
(* the content of each archive file in it.  An open file handle writes to *)
(* the file of the directory generation it was created in, wherever that  *)
(* directory now is (os.Rename keeps inodes), or nowhere once removed.     *)
(***************************************************************************)
EXTENDS Integers, FiniteSets

CONSTANTS
    Procs,        \* goroutines calling unpackage on the same archive
    NFiles,       \* regular files in the archive
    NumDirs,      \* directory entries in the archive (zr.File with IsDir)
    MaxCalls,     \* bound on calls
    MaxCrashes,   \* bound on process crashes
    MaxFailures   \* bound on io.Copy failures (disk full, corrupt entry)

ASSUME NFiles \in Nat \ {0} /\ NumDirs \in Nat /\ MaxCalls \in Nat
       /\ MaxCrashes \in Nat /\ MaxFailures \in Nat

Files == 1..NFiles
Contents == {"absent", "empty", "partial", "full"}
Dir == [exists: BOOLEAN, gen: Nat, files: [Files -> Contents]]
NoDirectory == [exists |-> FALSE, gen |-> 0, files |-> [f \in Files |-> "absent"]]

VARIABLES
    tmp,        \* dest/name@version-tmp
    target,     \* dest/name@version
    nextGen,    \* generation of the next directory created
    pc,         \* pc[p]: where goroutine p is in unpackage
    lc,         \* lc[p]: its locals: err # nil, loop index, handle's generation
    ret,        \* ret[p]: "none", "busy", "ok" or "err" (what the call returned)
    calls, crashes, failures,
    overlap     \* ghost: a call started while another was in progress

vars == <<tmp, target, nextGen, pc, lc, ret, calls, crashes, failures, overlap>>

NoLocals == [err |-> FALSE, idx |-> 1, gen |-> 0]

TypeOK ==
    /\ tmp \in Dir /\ target \in Dir
    /\ nextGen \in Nat
    /\ pc \in [Procs -> {"idle", "statTarget", "statTmp", "removeTmp", "mkdirTmp",
                         "mkdirAll", "create", "copy", "rename", "return"}]
    /\ lc \in [Procs -> [err: BOOLEAN, idx: 1..(NFiles + NumDirs + 1), gen: Nat]]
    /\ ret \in [Procs -> {"none", "busy", "ok", "err"}]
    /\ calls \in 0..MaxCalls /\ crashes \in 0..MaxCrashes
    /\ failures \in 0..MaxFailures /\ overlap \in BOOLEAN

Init ==
    /\ tmp = NoDirectory /\ target = NoDirectory
    /\ nextGen = 1
    /\ pc = [p \in Procs |-> "idle"]
    /\ lc = [p \in Procs |-> NoLocals]
    /\ ret = [p \in Procs |-> "none"]
    /\ calls = 0 /\ crashes = 0 /\ failures = 0 /\ overlap = FALSE

Goto(p, to) == pc' = [pc EXCEPT ![p] = to]

\* unpackage returns; err decides what.
Return(p, ok) ==
    /\ ret' = [ret EXCEPT ![p] = IF ok THEN "ok" ELSE "err"]
    /\ Goto(p, "idle")

\* A new, empty directory (os.Mkdir, or os.MkdirAll creating its parent).
FreshDir == [exists |-> TRUE, gen |-> nextGen, files |-> [f \in Files |-> "absent"]]

FsUnchanged == UNCHANGED <<tmp, target, nextGen>>
Counters == <<calls, crashes, failures, overlap>>

-----------------------------------------------------------------------------

\* unpackage(zipFile, dest): open the archive, read the manifest, derive
\* name and version.  These read only the archive.
Start(p) ==
    /\ pc[p] = "idle"
    /\ calls < MaxCalls
    /\ calls' = calls + 1
    /\ overlap' = (overlap \/ \E q \in Procs \ {p} : pc[q] # "idle")
    /\ lc' = [lc EXCEPT ![p] = NoLocals]
    /\ ret' = [ret EXCEPT ![p] = "busy"]
    /\ Goto(p, "statTarget")
    /\ FsUnchanged /\ UNCHANGED <<crashes, failures>>

\* if _, err = os.Stat(target); err == nil { return targetDir, nil }.
\* The assignment is to the function's err, which keeps the stat error.
StatTarget(p) ==
    /\ pc[p] = "statTarget"
    /\ IF target.exists
         THEN Return(p, TRUE) /\ UNCHANGED lc
         ELSE /\ lc' = [lc EXCEPT ![p].err = TRUE]
              /\ Goto(p, "statTmp")
              /\ UNCHANGED ret
    /\ FsUnchanged /\ UNCHANGED Counters

\* if _, err := os.Stat(tmpDir); err == nil { os.RemoveAll(tmpDir) }
StatTmp(p) ==
    /\ pc[p] = "statTmp"
    /\ Goto(p, IF tmp.exists THEN "removeTmp" ELSE "mkdirTmp")
    /\ FsUnchanged /\ UNCHANGED <<lc, ret>> /\ UNCHANGED Counters

RemoveTmp(p) ==
    /\ pc[p] = "removeTmp"
    /\ tmp' = NoDirectory
    /\ Goto(p, "mkdirTmp")
    /\ UNCHANGED <<target, nextGen, lc, ret>> /\ UNCHANGED Counters

\* _ = os.Mkdir(tmpDir): fails, ignored, when the directory exists.
MkdirTmp(p) ==
    /\ pc[p] = "mkdirTmp"
    /\ IF tmp.exists
         THEN UNCHANGED <<tmp, nextGen>>
         ELSE tmp' = FreshDir /\ nextGen' = nextGen + 1
    /\ Goto(p, "mkdirAll")
    /\ UNCHANGED <<target, lc, ret>> /\ UNCHANGED Counters

\* Mutant of MkdirAll: the loop declares its own err (err := ...), so the
\* function's err keeps the stat error.
MkdirAllShadowedErr(p) ==
    /\ pc[p] = "mkdirAll"
    /\ IF lc[p].idx <= NumDirs
         THEN /\ IF tmp.exists
                   THEN UNCHANGED <<tmp, nextGen>>
                   ELSE tmp' = FreshDir /\ nextGen' = nextGen + 1
              /\ lc' = [lc EXCEPT ![p].idx = @ + 1]
              /\ UNCHANGED <<pc, ret>>
         ELSE /\ IF lc[p].err
                   THEN Return(p, FALSE) /\ UNCHANGED lc
                   ELSE /\ lc' = [lc EXCEPT ![p].idx = 1]
                        /\ Goto(p, "create")
                        /\ UNCHANGED ret
              /\ UNCHANGED <<tmp, nextGen>>
    /\ UNCHANGED target /\ UNCHANGED Counters

\* The loop over the directory entries: os.MkdirAll(tmpDir/dir) creates
\* tmpDir as well if it is gone, and sets err to nil.  After the loop,
\* if err != nil { return "", err }.
MkdirAll(p) ==
    /\ pc[p] = "mkdirAll"
    /\ IF lc[p].idx <= NumDirs
         THEN /\ IF tmp.exists
                   THEN UNCHANGED <<tmp, nextGen>>
                   ELSE tmp' = FreshDir /\ nextGen' = nextGen + 1
              /\ lc' = [lc EXCEPT ![p].err = FALSE, ![p].idx = @ + 1]
              /\ UNCHANGED <<pc, ret>>
         ELSE /\ IF lc[p].err
                   THEN Return(p, FALSE) /\ UNCHANGED lc
                   ELSE /\ lc' = [lc EXCEPT ![p].idx = 1]
                        /\ Goto(p, "create")
                        /\ UNCHANGED ret
              /\ UNCHANGED <<tmp, nextGen>>
    /\ UNCHANGED target /\ UNCHANGED Counters

\* Mutant of Create: the file loop stops one entry early.
CreateOffByOne(p) ==
    /\ pc[p] = "create"
    /\ LET f == lc[p].idx IN
       CASE f < NFiles /\ tmp.exists ->
              /\ tmp' = [tmp EXCEPT !.files[f] = "empty"]
              /\ lc' = [lc EXCEPT ![p].gen = tmp.gen]
              /\ Goto(p, "copy")
              /\ UNCHANGED ret
         [] f < NFiles ->
              /\ Return(p, FALSE)
              /\ UNCHANGED <<tmp, lc>>
         [] OTHER ->
              /\ IF lc[p].err
                   THEN Return(p, FALSE)
                   ELSE Goto(p, "rename") /\ UNCHANGED ret
              /\ UNCHANGED <<tmp, lc>>
    /\ UNCHANGED <<target, nextGen>> /\ UNCHANGED Counters

\* The loop over the regular files: zr.Open, then os.Create(tmpDir/name),
\* which truncates an existing file and fails when tmpDir is gone (break).
\* After the loop, if err != nil { return "", err }.
Create(p) ==
    /\ pc[p] = "create"
    /\ LET f == lc[p].idx IN
       CASE f <= NFiles /\ tmp.exists ->
              /\ tmp' = [tmp EXCEPT !.files[f] = "empty"]
              /\ lc' = [lc EXCEPT ![p].gen = tmp.gen]
              /\ Goto(p, "copy")
              /\ UNCHANGED ret
         [] f <= NFiles ->
              /\ Return(p, FALSE)
              /\ UNCHANGED <<tmp, lc>>
         [] OTHER ->
              /\ IF lc[p].err
                   THEN Return(p, FALSE)
                   ELSE Goto(p, "rename") /\ UNCHANGED ret
              /\ UNCHANGED <<tmp, lc>>
    /\ UNCHANGED <<target, nextGen>> /\ UNCHANGED Counters

\* The content a write of outcome o leaves in a file holding c: the bytes
\* written are a prefix of the archive entry, so a complete file stays so.
Written(c, o) == IF c = "full" THEN "full" ELSE o

\* _, err = io.Copy(output, input): the loop goes on whatever err is.
\* The handle writes to its own directory generation.
Copy(p) ==
    /\ pc[p] = "copy"
    /\ \E o \in IF failures < MaxFailures THEN {"full", "partial"} ELSE {"full"} :
         LET f == lc[p].idx
             g == lc[p].gen
         IN /\ tmp' = IF tmp.exists /\ tmp.gen = g
                        THEN [tmp EXCEPT !.files[f] = Written(@, o)] ELSE tmp
            /\ target' = IF target.exists /\ target.gen = g
                           THEN [target EXCEPT !.files[f] = Written(@, o)] ELSE target
            /\ failures' = IF o = "partial" THEN failures + 1 ELSE failures
            /\ lc' = [lc EXCEPT ![p].err = (o = "partial"), ![p].idx = @ + 1]
    /\ Goto(p, "create")
    /\ UNCHANGED <<nextGen, ret, calls, crashes, overlap>>

\* err = os.Rename(tmpDir, target): fails when tmpDir is gone or target is
\* a non-empty directory; replaces an empty one.
Rename(p) ==
    /\ pc[p] = "rename"
    /\ IF tmp.exists /\ ~(target.exists /\ \E f \in Files : target.files[f] # "absent")
         THEN /\ target' = tmp
              /\ tmp' = NoDirectory
              /\ Goto(p, "return")
              /\ UNCHANGED ret
         ELSE Return(p, FALSE) /\ UNCHANGED <<tmp, target>>
    /\ UNCHANGED <<nextGen, lc>> /\ UNCHANGED Counters

\* return targetDir, nil
Returned(p) ==
    /\ pc[p] = "return"
    /\ Return(p, TRUE)
    /\ FsUnchanged /\ UNCHANGED <<lc>> /\ UNCHANGED Counters

\* The process dies: every call in progress is abandoned, the file system
\* keeps what was written.
Crash ==
    /\ crashes < MaxCrashes
    /\ \E p \in Procs : pc[p] # "idle"
    /\ crashes' = crashes + 1
    /\ pc' = [p \in Procs |-> "idle"]
    /\ lc' = [p \in Procs |-> NoLocals]
    /\ ret' = [p \in Procs |-> IF ret[p] = "busy" THEN "none" ELSE ret[p]]
    /\ FsUnchanged /\ UNCHANGED <<calls, failures, overlap>>

Step(p) ==
    \/ StatTarget(p) \/ StatTmp(p) \/ RemoveTmp(p) \/ MkdirTmp(p)
    \/ MkdirAll(p) \/ Create(p) \/ Copy(p) \/ Rename(p) \/ Returned(p)

\* Every call has returned and no more are made.
Done == calls = MaxCalls /\ \A p \in Procs : pc[p] = "idle"

Next ==
    \/ \E p \in Procs : Start(p) \/ Step(p)
    \/ Crash
    \/ Done /\ UNCHANGED vars

Spec == Init /\ [][Next]_vars

-----------------------------------------------------------------------------
(* Properties                                                              *)

\* Spec 4.5: the package is extracted into a temporary directory and
\* renamed into place, so name@version, once it exists, holds every file of
\* the archive complete; the importer and later unpackage calls reuse it
\* as it is (the os.Stat early return).
PublishedComplete ==
    target.exists => \A f \in Files : target.files[f] = "full"

\* Spec 4.5: unpacking fails only on a failing extraction.  An unpackage
\* call that meets neither an io.Copy failure nor a concurrent call on the
\* same archive returns success.
ErrorOnlyOnFailure ==
    \A p \in Procs : ret[p] = "err" => failures > 0 \/ overlap

\* The package directory as the abstract specification sees it; an empty
\* directory installs nothing.
InstalledContent == IF target.exists THEN target.files ELSE NoDirectory.files

Abstract == INSTANCE AtomicInstall WITH content <- InstalledContent, ret <- ret,
                                         Installable <- {[f \in Files |-> "full"]}

\* Spec 4.5: unpackage implements the atomic install: name@version appears
\* in one step complete and never changes, and a call returns success only
\* once it is there, across failed copies and crashes of the process
\* between any two steps.
AtomicInstallSpec == Abstract!Spec

\* Every file of the archive created in the directory, its content the
\* archive entry or a prefix of it.
Extracted == [Files -> {"partial", "full"}]

Once == INSTANCE AtomicInstall WITH content <- InstalledContent, ret <- ret,
                                     Installable <- Extracted

\* What the temp-directory-and-rename scheme of unpackage guarantees to one
\* importer whatever fails: name@version appears in one step with every
\* archive file created in it, never changes afterwards (later calls
\* reuse it through the os.Stat early return), and a call returns success
\* only once it is there, across io.Copy failures and crashes between any
\* two steps.  Completeness of the files is AtomicInstallSpec's.
ExtractedOnceSpec == Once!Spec

====
