----------------------------- MODULE AppletConfig -----------------------------
(***************************************************************************)
(* A sandbox's context store and configuration (src/env/gmap.go,           *)
(* src/sandbox/applet.go, src/ext/util/tools.go, src/ext/envlib/env.go).   *)
(*                                                                         *)
(* Environment.Parse substitutes {name} in a string from the sandbox's     *)
(* context; Applet.Config uses it on the candidate file and directory      *)
(* names application_{profile}.yml, application.yml, config_{profile},     *)
(* config, reads what exists, merges it once and caches the merge;         *)
(* GetConfig walks a dotted key through the merge.                          *)
(*                                                                         *)
(* Strings are sequences of runes.  "A" and "C" stand for the ASCII text   *)
(* of the file and directory names ("application", "config"), "p" for the  *)
(* variable name "profile", "t" for the profile "test", "u" for a rune     *)
(* that UTF-8 encodes in two bytes (b1, b2).                               *)
(***************************************************************************)
EXTENDS Integers, Sequences, SequencesExt, FiniteSets

CONSTANTS
    Creators,    \* who made the sandbox: "lego" (lego's main) or "vhost" (VirtualHost)
    Profiles,    \* profile values the process may be started with
    one, two, three, \* the scalar values of the config documents
    MaxWrites,   \* bound on file-system changes
    MaxTpl,      \* longest template Parse is checked on
    Unset,       \* no value under the key
    TengoObj,    \* a tengo.Object stored by env.set
    Bad,         \* a file yaml.Unmarshal rejects
    Absent,      \* no such file or directory
    Nil          \* app.config before the first Config()

\* Well-formed config documents, functions from keys to scalar values: the
\* spec's merge fixture, {b: 3} and {a: 1, b: 2}.
Confs == {[b |-> three], [a |-> one, b |-> two]}
\* The *.yml members a config directory may hold, in Glob order.
Members == {<<>>, <<[b |-> three]>>, <<[a |-> one, b |-> two]>>, <<Bad, [a |-> one, b |-> two]>>}

Repl == "repl"               \* the rune utf8 decoding puts for an invalid byte

ProfileVar == <<"p">>
FileTpls == << <<"A", "{", "p", "}">>, <<"A">> >>   \* configFileName
DirTpls == << <<"C", "{", "p", "}">>, <<"C">> >>    \* configDir

\* The names Config can look up: every substitution of the templates.
Paths(tpl) == {SubSeq(tpl, 1, 1) \o v : v \in {<<>>} \cup {<<x>> : x \in Profiles} \cup {<<"!", "p">>}}
FilePaths == Paths(FileTpls[1])
DirPaths == Paths(DirTpls[1])

VARIABLES
    gprofile,  \* env.Global()'s "profile": a profile, "" (an empty -D or OS variable), or Unset
    ctx,       \* app.Context: ctx[k] for the keys scripts and New set
    files,     \* the sandbox's file system: files[f] for the candidate files
    dirs,      \* dirs[d]: the directory's *.yml members in Glob order, or Absent
    config,    \* app.config: Nil until Config() has merged
    writes     \* file-system changes so far

vars == <<gprofile, ctx, files, dirs, config, writes>>

CtxKeys == {ProfileVar}
Values == {<<x>> : x \in Profiles} \cup {<<>>, TengoObj}
ConfKeys == UNION {DOMAIN c : c \in Confs}
ConfVals == UNION {Range(c) : c \in Confs}
FileContents == {Absent, Bad} \cup Confs
DirContents == {Absent} \cup Members

TypeOK ==
    /\ gprofile \in {Unset, ""} \cup Profiles
    /\ ctx \in [CtxKeys -> Values \cup {Unset}]
    /\ files \in [FilePaths -> FileContents]
    /\ dirs \in [DirPaths -> DirContents]
    /\ config \in {Nil} \cup UNION {[S -> ConfVals] : S \in SUBSET ConfKeys}
    /\ writes \in 0..MaxWrites

-----------------------------------------------------------------------------
(* Strings                                                                 *)

\* The UTF-8 bytes of a rune.
Bytes(r) == IF r = "u" THEN <<"b1", "b2">> ELSE <<r>>

UTF8(s) == FlattenSeq([i \in DOMAIN s |-> Bytes(s[i])])

\* []rune(string(bs)): an invalid byte decodes to the replacement rune.
RECURSIVE Decode(_)
Decode(bs) ==
    IF bs = <<>> THEN <<>>
    ELSE IF Len(bs) >= 2 /\ bs[1] = "b1" /\ bs[2] = "b2" THEN <<"u">> \o Decode(SubSeq(bs, 3, Len(bs)))
    ELSE IF bs[1] \in {"b1", "b2"} THEN <<Repl>> \o Decode(Tail(bs))
    ELSE <<bs[1]>> \o Decode(Tail(bs))

\* e.Get(name): the context's value, or Unset.
Lookup(name) == IF name \in CtxKeys THEN ctx[name] ELSE Unset

\* Mutant of ParseLoop: start and end are not reset after a substitution.
RECURSIVE ParseLoopNoReset(_, _, _, _, _)
ParseLoopNoReset(src, idx, start, end, out) ==
    IF idx = Len(src) THEN [out |-> out, panic |-> FALSE]
    ELSE
      LET r == src[idx + 1]
          s1 == IF r = "{" THEN idx + 1 ELSE start
          e1 == IF r = "}" THEN idx ELSE end
          o1 == IF r \notin {"{", "}"} /\ start = 0 THEN Append(out, r) ELSE out
      IN  IF e1 > s1
            THEN LET name == Decode(SubSeq(UTF8(src), s1 + 1, e1))
                     v == Lookup(name)
                 IN  IF v = TengoObj THEN [out |-> o1, panic |-> TRUE]
                     ELSE ParseLoopNoReset(src, idx + 1, s1, e1,
                                    o1 \o (IF v = Unset THEN <<"!">> \o name ELSE v))
            ELSE ParseLoopNoReset(src, idx + 1, s1, e1, o1)

\* The loop of Environment.Parse over the runes of src; idx is the rune
\* index, and src[start:end] slices the string's bytes.  A value that is
\* not a Go string makes envVal.(string) panic.
RECURSIVE ParseLoop(_, _, _, _, _)
ParseLoop(src, idx, start, end, out) ==
    IF idx = Len(src) THEN [out |-> out, panic |-> FALSE]
    ELSE
      LET r == src[idx + 1]
          s1 == IF r = "{" THEN idx + 1 ELSE start
          e1 == IF r = "}" THEN idx ELSE end
          o1 == IF r \notin {"{", "}"} /\ start = 0 THEN Append(out, r) ELSE out
      IN  IF e1 > s1
            THEN LET name == Decode(SubSeq(UTF8(src), s1 + 1, e1))
                     v == Lookup(name)
                 IN  IF v = TengoObj THEN [out |-> o1, panic |-> TRUE]
                     ELSE ParseLoop(src, idx + 1, 0, 0,
                                    o1 \o (IF v = Unset THEN <<"!">> \o name ELSE v))
            ELSE ParseLoop(src, idx + 1, s1, e1, o1)

Parse(src) == ParseLoop(src, 0, 0, 0, <<>>)

-----------------------------------------------------------------------------
(* Configuration                                                           *)

\* util.MergeMap: later maps override earlier ones.
MergeMap(ms) == FoldLeft(LAMBDA acc, m : m @@ acc, [k \in {} |-> 0], ms)

\* Mutant of FileLoop: the loop breaks at the first file that exists.
RECURSIVE FileLoopFirstExisting(_)
FileLoopFirstExisting(tpls) ==
    IF tpls = <<>> THEN <<>>
    ELSE LET f == Parse(Head(tpls)).out IN
         IF files[f] \in Confs THEN <<files[f]>>
         ELSE IF files[f] = Bad THEN <<>>
         ELSE FileLoopFirstExisting(Tail(tpls))

\* The file loop of Config: the first candidate that exists and parses is
\* taken and the loop breaks; a missing or malformed one is skipped.
RECURSIVE FileLoop(_)
FileLoop(tpls) ==
    IF tpls = <<>> THEN <<>>
    ELSE LET f == Parse(Head(tpls)).out IN
         IF files[f] \in Confs THEN <<files[f]>> ELSE FileLoop(Tail(tpls))

\* The directory loop: every existing candidate directory, every member
\* that parses, in order.
DirLoop(tpls) ==
    LET found == SelectSeq([i \in DOMAIN tpls |-> Parse(tpls[i]).out], LAMBDA d : dirs[d] # Absent)
    IN  FlattenSeq([i \in DOMAIN found |-> SelectSeq(dirs[found[i]], LAMBDA m : m # Bad)])

ConfigPanics ==
    \E i \in 1..2 : Parse(FileTpls[i]).panic \/ Parse(DirTpls[i]).panic

Merged == MergeMap(FileLoop(FileTpls) \o DirLoop(DirTpls))

\* app.Config() (sys.config, sys.get_config), under app.mx: on the first
\* call the merge is computed and stored; later calls return it.  A panic
\* in Parse unwinds the call and leaves config unset.
Config ==
    /\ config = Nil
    /\ ~ConfigPanics
    /\ config' = Merged
    /\ UNCHANGED <<gprofile, ctx, files, dirs, writes>>

\* The loop of GetConfig over the dot-separated keys: a missing key
\* breaks, a value that is not a map breaks after being kept as result.
RECURSIVE GetLoop(_, _, _)
GetLoop(m, keys, res) ==
    IF keys = <<>> \/ Head(keys) \notin DOMAIN m THEN res
    ELSE LET v == m[Head(keys)] IN
         IF v \in ConfVals THEN [result |-> v, ok |-> TRUE]
         ELSE GetLoop(v, Tail(keys), [result |-> v, ok |-> TRUE])

GetConfig(keys) == GetLoop(config, keys, [result |-> Nil, ok |-> FALSE])

-----------------------------------------------------------------------------
(* Actions                                                                 *)

\* sandbox.New: a fresh context whose "profile" is "test" when the
\* process has none or an empty one (env.Get[string]("profile")); lego's
\* main then copies every global entry into it, an empty "profile" too,
\* while VirtualHost.NewApplet does not.
New(creator) ==
    LET default == IF gprofile \in {Unset, ""} THEN <<"t">> ELSE Unset
        copied == IF gprofile = "" THEN <<>> ELSE <<gprofile>>
    IN  IF creator = "lego" /\ gprofile # Unset THEN copied ELSE default

Init ==
    /\ gprofile \in {Unset, ""} \cup Profiles
    /\ \E c \in Creators : ctx = [k \in CtxKeys |-> New(c)]
    /\ files \in [FilePaths -> FileContents]
    /\ dirs \in [DirPaths -> DirContents]
    /\ files[<<"A", "!", "p">>] = Absent /\ dirs[<<"C", "!", "p">>] = Absent
    /\ config = Nil
    /\ writes = 0

\* A script's env.set(k, v): the tengo object itself is stored.
EnvSet(k) ==
    /\ ctx' = [ctx EXCEPT ![k] = TengoObj]
    /\ UNCHANGED <<gprofile, files, dirs, config, writes>>

\* A config file or directory is written, replaced or removed.
WriteFile(f, c) ==
    /\ writes < MaxWrites
    /\ files' = [files EXCEPT ![f] = c]
    /\ writes' = writes + 1
    /\ UNCHANGED <<gprofile, ctx, dirs, config>>

WriteDir(d, c) ==
    /\ writes < MaxWrites
    /\ dirs' = [dirs EXCEPT ![d] = c]
    /\ writes' = writes + 1
    /\ UNCHANGED <<gprofile, ctx, files, config>>

\* Nobody names a file after the unresolved "!profile".
Named(P) == {f \in P : f[Len(f)] # "p"}

Next ==
    \/ Config
    \/ \E k \in CtxKeys : EnvSet(k)
    \/ \E f \in Named(FilePaths), c \in FileContents : WriteFile(f, c)
    \/ \E d \in Named(DirPaths), c \in DirContents : WriteDir(d, c)

Spec == Init /\ [][Next]_vars

-----------------------------------------------------------------------------
(* What the spec says                                                      *)

Alphabet == {"A", "p", "u", "{", "}"}
Templates == UNION {[1..n -> Alphabet] : n \in 0..MaxTpl}

\* A template whose braces pair up around non-empty names.
WellFormed(t) ==
    LET B == SelectSeq(t, LAMBDA r : r \in {"{", "}"})
        open(i) == t[i] = "{"
    IN  /\ \A i \in DOMAIN B : B[i] = IF i % 2 = 1 THEN "{" ELSE "}"
        /\ Len(B) % 2 = 0
        /\ \A i \in 1..Len(t) - 1 : open(i) => t[i + 1] # "}"

\* The names a template refers to.
NamesIn(t) == {SubSeq(t, ij[1] + 1, ij[2] - 1) :
                 ij \in {ij \in (DOMAIN t) \X (DOMAIN t) : t[ij[1]] = "{" /\ t[ij[2]] = "}"}}

\* The string a context value stands for; env.set("profile", "test")
\* stores a tengo String holding "test".
StrOf(v) == IF v = TengoObj THEN <<"t">> ELSE v

\* {name} is replaced by the context's value, and an unresolved name is
\* rendered as !name (spec 4.5, filesystem backend).
RECURSIVE SpecParse(_)
SpecParse(t) ==
    IF t = <<>> THEN <<>>
    ELSE IF Head(t) # "{" THEN <<Head(t)>> \o SpecParse(Tail(t))
    ELSE LET j == Min({i \in DOMAIN t : t[i] = "}"})
             name == SubSeq(t, 2, j - 1)
             v == Lookup(name)
         IN  (IF v = Unset THEN <<"!">> \o name ELSE StrOf(v)) \o SpecParse(SubSeq(t, j + 1, Len(t)))

\* The profile the process runs under: env profile() gives "test" when
\* none, or an empty one, is set.
ProcessProfile == IF gprofile \in {Unset, ""} THEN "t" ELSE gprofile

ProfileSources ==
    ({files[<<"A", ProcessProfile>>]} \cap Confs)
    \cup (IF dirs[<<"C", ProcessProfile>>] = Absent THEN {}
          ELSE ToSet(dirs[<<"C", ProcessProfile>>]) \cap Confs)

BaseSources ==
    ({files[<<"A">>]} \cap Confs)
    \cup (IF dirs[<<"C">>] = Absent THEN {} ELSE ToSet(dirs[<<"C">>]) \cap Confs)

\* The value the dotted key names, walking maps all the way.
RECURSIVE SpecGet(_, _)
SpecGet(m, keys) ==
    IF keys = <<>> THEN [result |-> m, ok |-> TRUE]
    ELSE IF m \in ConfVals \/ Head(keys) \notin DOMAIN m THEN [result |-> Nil, ok |-> FALSE]
    ELSE SpecGet(m[Head(keys)], Tail(keys))

KeyPaths == UNION {[1..n -> ConfKeys] : n \in 1..2}

-----------------------------------------------------------------------------
(* Properties                                                              *)

\* Environment.Parse renders every {name} of a well-formed ASCII template
\* from the context, and an unresolved one as !name, whenever the names
\* it uses hold Go strings: the loop's start/end bookkeeping and its
\* rune-indexed byte slicing agree with the substitution when every rune
\* is one byte.
ParseASCII ==
    \A t \in Templates :
        /\ WellFormed(t)
        /\ "u" \notin ToSet(t)
        /\ \A n \in NamesIn(t) : Lookup(n) # TengoObj
        => Parse(t) = [out |-> SpecParse(t), panic |-> FALSE]

\* Environment.Parse renders every {name} of any well-formed template from
\* the context, and an unresolved one as !name (spec 4.5).
ParseMatchesSpec ==
    \A t \in Templates :
        WellFormed(t) => Parse(t) = [out |-> SpecParse(t), panic |-> FALSE]

\* The first merge Config() computes holds the keys of the first candidate
\* file that exists and parses and of every parsing member of every
\* existing candidate directory: a malformed source is skipped without
\* hiding the sources after it.
MalformedSkipped ==
    [][config = Nil /\ config' # Nil =>
        /\ \A i \in 1..2 :
              LET d == Parse(DirTpls[i]).out IN
              dirs[d] # Absent =>
                  \A m \in ToSet(dirs[d]) \cap Confs : DOMAIN m \subseteq DOMAIN config'
        /\ LET F == {i \in 1..2 : files[Parse(FileTpls[i]).out] \in Confs} IN
           F # {} => DOMAIN files[Parse(FileTpls[Min(F)]).out] \subseteq DOMAIN config'
    ]_vars

\* Spec 6 and its fixture: the merge keeps every key of the base sources
\* (application.yml, config/) and takes the profile-specific sources'
\* (application_{profile}.yml, config_{profile}/) value for a key both define.
MergeFixture ==
    config # Nil =>
        /\ \A m \in BaseSources : DOMAIN m \subseteq DOMAIN config
        /\ \A m \in ProfileSources : \A k \in DOMAIN m :
              \E p \in ProfileSources : k \in DOMAIN p /\ config[k] = p[k]

\* GetConfig("a.b") finds a value only where the merge has one at that
\* whole path (spec 6: looked up via dot-separated path segments).
GetConfigPath ==
    config # Nil =>
        \A keys \in KeyPaths :
            GetConfig(keys).ok => GetConfig(keys) = SpecGet(config, keys)

====
