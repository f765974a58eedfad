--------------------------- MODULE AtomicInstall ---------------------------
(***************************************************************************)
(* What the versioned-archive backend promises (spec 4.5): the package     *)
(* directory name@version appears in one step, with every file of the      *)
(* archive complete, and never changes afterwards; a call returns success  *)
(* only once the directory is there.  Calls may fail, and the process may  *)
(* crash, abandoning the calls in progress.                                *)
(*                                                                         *)
(* Installable is the set of directory contents that may appear: the      *)
(* spec's promise is the archive complete; a weaker promise admits files  *)
(* whose extraction was cut short.                                         *)
(***************************************************************************)
CONSTANTS Procs, Files, Installable

VARIABLES
    content,    \* content[f]: file f of the installed directory; NoDir: none
    ret         \* ret[p]: "none", "busy" (a call in progress), "ok" or "err"

NoDir == [f \in Files |-> "absent"]
Complete == [f \in Files |-> "full"]

Init ==
    /\ content = NoDir
    /\ ret = [p \in Procs |-> "none"]

Begin(p) ==
    /\ ret[p] # "busy"
    /\ ret' = [ret EXCEPT ![p] = "busy"]
    /\ UNCHANGED content

Install ==
    /\ content = NoDir
    /\ content' \in Installable
    /\ UNCHANGED ret

ReturnOk(p) ==
    /\ ret[p] = "busy"
    /\ content # NoDir
    /\ ret' = [ret EXCEPT ![p] = "ok"]
    /\ UNCHANGED content

ReturnErr(p) ==
    /\ ret[p] = "busy"
    /\ ret' = [ret EXCEPT ![p] = "err"]
    /\ UNCHANGED content

Crash ==
    /\ ret' = [p \in Procs |-> IF ret[p] = "busy" THEN "none" ELSE ret[p]]
    /\ UNCHANGED content

Next ==
    \/ Install \/ Crash
    \/ \E p \in Procs : Begin(p) \/ ReturnOk(p) \/ ReturnErr(p)

Spec == Init /\ [][Next]_<<content, ret>>

=============================================================================
