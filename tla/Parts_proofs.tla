------------------------------ MODULE Parts_proofs ------------------------------
(***************************************************************************)
(* Proofs about the parts of Parts, one section each: an invariant of the  *)
(* part, kept by its own steps, then the theorem about every behaviour of  *)
(* Parts. Nothing is assumed of the bounds.                                *)
(***************************************************************************)
EXTENDS Parts, FiniteSetTheorems, WellFoundedInduction, TLAPS

-----------------------------------------------------------------------------
\* A behaviour is one of one part.
LEMMA PartStep ==
    ASSUME [PartsNext]_allVars
    PROVE  /\ part' = part
           /\ part = "cache" => [T!Next]_(T!cacheVars)
           /\ part = "slot" => [W!Next]_(W!slotVars)
           /\ part = "names" => [N!Next]_(N!catalogVars)
           /\ part = "exports" => [X!Next]_(X!exportVars)
           /\ part = "plan" => [P!Next]_(P!vars)
<1>1. CASE UNCHANGED allVars
  BY <1>1 DEF allVars, cacheVars, slotVars, catalogVars, exportVars, planVars,
              T!cacheVars, W!slotVars, N!catalogVars, X!exportVars, P!vars
<1>2. CASE PartsNext
  BY <1>2 DEF PartsNext
<1> QED BY <1>1, <1>2

LEMMA PartInit ==
    ASSUME PartsInit
    PROVE  /\ part = "cache" => T!Init
           /\ part = "slot" => W!Init
           /\ part = "names" => N!Init
           /\ part = "exports" => X!Init
           /\ part = "plan" => P!Init
BY DEF PartsInit

-----------------------------------------------------------------------------
(***************************************************************************)
(* ToolCache: the directories of one version of a tool.                    *)
(***************************************************************************)
\* Every file names the run that fetched it.
Written == [by : Runs,
            source : {m[p].source : m \in Manifests, p \in T!Commands},
            pin : {m[p].pin : m \in Manifests, p \in T!Commands},
            bytes : Bytes \cup {None, Junk}]

Dirs == {None} \cup [T!Files -> Written \cup {None, Torn}]

Phases == {"ready", "digest", "stage", "sidecar", "mkdir", "copy", "install", "backup", "drop",
           "resolved", "remove", "empty", "rmdir", "done", "refused", "full", "failed", "killed"}

CmdType == [pc : Phases, todo : SUBSET (T!Files \cup T!Places), at : T!Files \cup T!Places \cup {None},
            got : T!Files \cup T!Places \cup Written \cup {None}]

\* All that is in a directory is of p.
Own(d, p) == d # None => \A f \in T!Files : d[f] # None => d[f] \in Written /\ d[f].by = p

\* All that is in a directory is of one run.
Whole(d) == d = None \/ \E p \in Runs : Own(d, p)

\* What a run stages and installs is its own, and cut off only if the run was; so what
\* becomes the entry, and the backup after that, is of one run.
OwnFiles ==
    /\ decl \in Manifests
    /\ cmd \in [T!Commands -> CmdType]
    /\ dirs \in [T!Places -> Dirs]
    /\ \A p \in Runs :
        /\ Own(dirs[T!Staged(p)], p)
        /\ cmd[p].pc \notin {"full", "killed"} => Own(dirs[T!Install(p)], p)
        /\ Whole(dirs[T!Backup(p)])
    /\ Whole(dirs[T!Entry])

-----------------------------------------------------------------------------
LEMMA PlacesDiffer ==
    /\ T!Entry \in T!Places
    /\ \A p \in Runs : /\ {T!Staged(p), T!Install(p), T!Backup(p)} \subseteq T!Places
                       /\ T!Entry \notin {T!Staged(p), T!Install(p), T!Backup(p)}
    /\ \A p, q : /\ T!Staged(p) # T!Install(q) /\ T!Staged(p) # T!Backup(q) /\ T!Install(p) # T!Backup(q)
                 /\ p # q => /\ T!Staged(p) # T!Staged(q) /\ T!Install(p) # T!Install(q)
                             /\ T!Backup(p) # T!Backup(q)
    /\ \A x \in T!Places : x = T!Entry \/ \E p \in Runs : x \in {T!Staged(p), T!Install(p), T!Backup(p)}
BY DEF T!Places, T!Entry, T!Staged, T!Install, T!Backup

LEMMA EmptyIsOwn == T!EmptyDir \in Dirs /\ \A p : Own(T!EmptyDir, p) /\ Own(None, p)
BY DEF T!EmptyDir, Dirs, Own

LEMMA FileIsWritten ==
    ASSUME decl \in Manifests, NEW p \in Runs, NEW b \in Bytes \cup {None}
    PROVE  T!File(p, b) \in Written /\ T!File(p, b).by = p
BY DEF T!File, Written, T!Commands

\* A directory that loses a file keeps its owner.
LEMMA UnlinkedIsOwn ==
    ASSUME NEW d \in Dirs, d # None, NEW g \in T!Files
    PROVE  /\ [d EXCEPT ![g] = None] \in Dirs
           /\ \A p : Own(d, p) => Own([d EXCEPT ![g] = None], p)
           /\ Whole(d) => Whole([d EXCEPT ![g] = None])
<1>1. d \in [T!Files -> Written \cup {None, Torn}]
  BY DEF Dirs
<1>2. [d EXCEPT ![g] = None] \in [T!Files -> Written \cup {None, Torn}]
  BY <1>1
<1>3. ASSUME NEW p, Own(d, p) PROVE Own([d EXCEPT ![g] = None], p)
  BY <1>1, <1>3 DEF Own
<1> QED BY <1>2, <1>3 DEF Dirs, Whole

LEMMA MovedType ==
    ASSUME cmd \in [T!Commands -> CmdType], NEW from, NEW to \in T!Places
    PROVE  /\ T!Moved(from, to) \in [T!Commands -> CmdType]
           /\ \A c \in T!Commands : T!Moved(from, to)[c].pc = cmd[c].pc
<1>1. \A c \in T!Commands : [cmd[c] EXCEPT !.at = to] \in CmdType
                          /\ [cmd[c] EXCEPT !.at = to].pc = cmd[c].pc
  BY DEF CmdType
<1> QED BY <1>1 DEF T!Moved

\* A command that goes on keeps the others where they are.
LEMMA GotoType ==
    ASSUME cmd \in [T!Commands -> CmdType], NEW c \in T!Commands, NEW pc \in Phases, T!Goto(c, pc)
    PROVE  /\ cmd' \in [T!Commands -> CmdType]
           /\ cmd'[c].pc = pc
           /\ \A b \in T!Commands : b # c => cmd'[b] = cmd[b]
BY DEF T!Goto, CmdType

LEMMA InitOwn == T!Init => OwnFiles
<1> SUFFICES ASSUME T!Init PROVE OwnFiles
  OBVIOUS
<1>1. T!Ready \in CmdType
  <2>1. {} \in SUBSET (T!Files \cup T!Places)
    OBVIOUS
  <2> QED BY <2>1 DEF T!Ready, CmdType, Phases
<1>2. \A x \in T!Places : dirs[x] = None
  BY DEF T!Init
<1>3. dirs \in [T!Places -> Dirs] /\ cmd \in [T!Commands -> CmdType] /\ decl \in Manifests
  BY <1>1 DEF T!Init, Dirs
<1> QED BY <1>2, <1>3, PlacesDiffer, EmptyIsOwn DEF OwnFiles, Whole

-----------------------------------------------------------------------------
(***************************************************************************)
(* Steps that leave the directories alone, and then the others.            *)
(***************************************************************************)
LEMMA SameDirs ==
    ASSUME OwnFiles, UNCHANGED <<decl, dirs>>, cmd' \in [T!Commands -> CmdType],
           \A p \in Runs : cmd[p].pc \in {"full", "killed"} => cmd'[p].pc \in {"full", "killed"}
    PROVE  OwnFiles'
BY DEF OwnFiles

LEMMA IdleDirs ==
    ASSUME OwnFiles, NEW c \in T!Commands,
           \/ \E p \in Runs : p = c /\ (T!Status(p) \/ T!Digest(p) \/ T!Inspect(p) \/ T!Load(p))
           \/ \E g \in Gcs : g = c /\ (T!Scan(g) \/ T!Open(g))
    PROVE  OwnFiles'
<1> USE DEF OwnFiles
<1>1. ASSUME UNCHANGED <<decl, dirs>>, NEW pc \in Phases, T!Goto(c, pc),
             cmd[c].pc \notin {"full", "killed"}
      PROVE  OwnFiles'
  <2>1. /\ cmd' \in [T!Commands -> CmdType]
        /\ \A b \in T!Commands : b # c => cmd'[b] = cmd[b]
    BY <1>1, GotoType
  <2>2. \A p \in Runs : cmd[p].pc \in {"full", "killed"} => cmd'[p].pc \in {"full", "killed"}
    BY <1>1, <2>1 DEF T!Commands
  <2> HIDE DEF OwnFiles
  <2> QED BY <1>1, <2>1, <2>2, SameDirs
<1>2. ASSUME UNCHANGED <<decl, dirs>>, NEW r \in CmdType, cmd' = [cmd EXCEPT ![c] = r],
             cmd[c].pc \notin {"full", "killed"}
      PROVE  OwnFiles'
  <2>1. cmd' \in [T!Commands -> CmdType] /\ \A b \in T!Commands : b # c => cmd'[b] = cmd[b]
    BY <1>2
  <2>2. \A p \in Runs : cmd[p].pc \in {"full", "killed"} => cmd'[p].pc \in {"full", "killed"}
    BY <1>2, <2>1 DEF T!Commands
  <2> HIDE DEF OwnFiles
  <2> QED BY <1>2, <2>1, <2>2, SameDirs
<1> HIDE DEF OwnFiles
<1>3. cmd \in [T!Commands -> CmdType] /\ dirs \in [T!Places -> Dirs]
  BY DEF OwnFiles
<1>4. CASE \E p \in Runs : p = c /\ T!Status(p)
  BY <1>1, <1>4 DEF T!Status, T!At, Phases
<1>5. CASE \E p \in Runs : p = c /\ T!Digest(p)
  BY <1>1, <1>5 DEF T!Digest, T!At, Phases
<1>6. CASE \E p \in Runs : p = c /\ T!Inspect(p)
  BY <1>1, <1>6 DEF T!Inspect, T!At, Phases
<1>7. CASE \E p \in Runs : p = c /\ T!Load(p)
  <2>1. PICK p \in Runs : p = c /\ T!Load(p)
    BY <1>7
  <2>2. CASE dirs[T!Entry] = None \/ dirs[T!Entry].module = None
    BY <1>1, <2>1, <2>2 DEF T!Load, T!At, Phases
  <2>3. CASE dirs[T!Entry] # None /\ dirs[T!Entry].module # None
    <3> DEFINE r == [cmd[c] EXCEPT !.pc = "done", !.got = dirs[T!Entry].module]
    <3>1. cmd' = [cmd EXCEPT ![c] = r] /\ UNCHANGED <<decl, dirs>> /\ cmd[c].pc = "resolved"
      BY <1>3, <2>1, <2>3 DEF T!Load, T!At
    <3>2. dirs[T!Entry].module \in Written
      <4>1. Whole(dirs[T!Entry])
        BY DEF OwnFiles
      <4> QED BY <2>3, <4>1 DEF Whole, Own, T!Files
    <3>3. r \in CmdType
      BY <1>3, <3>2 DEF CmdType, Phases
    <3> HIDE DEF r
    <3> QED BY <1>2, <3>1, <3>3
  <2> QED BY <2>2, <2>3
<1>8. CASE \E g \in Gcs : g = c /\ T!Scan(g)
  <2>1. PICK g \in Gcs : g = c /\ T!Scan(g)
    BY <1>8
  <2> DEFINE r == [cmd[c] EXCEPT !.pc = "remove", !.todo = T!Unreferenced(g)]
  <2>2. /\ cmd' = [cmd EXCEPT ![c] = r] \/ T!Goto(c, "refused")
        /\ UNCHANGED <<decl, dirs>> /\ cmd[c].pc = "ready"
    BY <1>3, <2>1 DEF T!Scan, T!At
  <2>3. T!Unreferenced(g) \in SUBSET (T!Files \cup T!Places)
    BY DEF T!Unreferenced
  <2>4. r \in CmdType
    BY <1>3, <2>3 DEF CmdType, Phases
  <2> HIDE DEF r
  <2>5. CASE T!Goto(c, "refused")
    BY <1>1, <2>2, <2>5 DEF Phases
  <2>6. CASE cmd' = [cmd EXCEPT ![c] = r]
    BY <1>2, <2>2, <2>4, <2>6
  <2> QED BY <2>2, <2>5, <2>6
<1>9. CASE \E g \in Gcs : g = c /\ T!Open(g)
  <2>1. PICK g \in Gcs : g = c /\ T!Open(g)
    BY <1>9
  <2>2. UNCHANGED <<decl, dirs>> /\ cmd[c].pc = "remove"
    BY <2>1 DEF T!Open, T!At
  <2>3. CASE T!Goto(c, "done") \/ T!Goto(c, "failed")
    BY <1>1, <2>2, <2>3 DEF Phases
  <2>4. CASE \E x \in cmd[c].todo :
            dirs[x] # None /\ cmd' = [cmd EXCEPT ![c].pc = "empty", ![c].at = x, ![c].got = x]
    <3>1. PICK x \in cmd[c].todo :
            dirs[x] # None /\ cmd' = [cmd EXCEPT ![c].pc = "empty", ![c].at = x, ![c].got = x]
      BY <2>4
    <3> DEFINE r == [cmd[c] EXCEPT !.pc = "empty", !.at = x, !.got = x]
    <3>2. cmd' = [cmd EXCEPT ![c] = r]
      BY <1>3, <3>1
    <3>3. x \in T!Files \cup T!Places
      BY <1>3, <3>1 DEF CmdType
    <3>4. r \in CmdType
      BY <1>3, <3>3 DEF CmdType, Phases
    <3> HIDE DEF r
    <3> QED BY <1>2, <2>2, <3>2, <3>4
  <2> QED BY <2>1, <2>3, <2>4 DEF T!Open
<1> QED BY <1>4, <1>5, <1>6, <1>7, <1>8, <1>9

\* A run changes one of its own directories, and what it is at.
LEMMA OneDir ==
    ASSUME OwnFiles, NEW p \in Runs, NEW x \in {T!Staged(p), T!Install(p)}, NEW d \in Dirs, Own(d, p),
           decl' = decl, dirs' = [dirs EXCEPT ![x] = d], cmd' \in [T!Commands -> CmdType],
           cmd[p].pc \notin {"full", "killed"},
           \A c \in T!Commands : c # p => cmd'[c].pc = cmd[c].pc
    PROVE  OwnFiles'
<1> USE DEF OwnFiles
<1>1. /\ dirs' \in [T!Places -> Dirs] /\ dirs'[x] = d
      /\ \A y \in T!Places : y # x => dirs'[y] = dirs[y]
  BY PlacesDiffer
<1>2. Own(dirs'[T!Staged(p)], p) /\ Own(dirs'[T!Install(p)], p)
  BY <1>1, PlacesDiffer
<1>3. ASSUME NEW q \in Runs, q # p
      PROVE  /\ dirs'[T!Staged(q)] = dirs[T!Staged(q)] /\ dirs'[T!Install(q)] = dirs[T!Install(q)]
             /\ cmd'[q].pc = cmd[q].pc
  <2>1. x # T!Staged(q) /\ x # T!Install(q)
    BY <1>3, PlacesDiffer
  <2> QED BY <1>1, <1>3, <2>1, PlacesDiffer DEF T!Commands
<1>4. dirs'[T!Entry] = dirs[T!Entry] /\ \A q \in Runs : dirs'[T!Backup(q)] = dirs[T!Backup(q)]
  BY <1>1, PlacesDiffer
<1> QED BY <1>1, <1>2, <1>3, <1>4

LEMMA FetchOwn ==
    ASSUME OwnFiles, NEW p \in Runs, T!Fetch(p)
    PROVE  OwnFiles'
<1>1. decl' = decl /\ cmd[p].pc = "stage" /\ p \in T!Commands
  BY DEF T!Fetch, T!At, T!Commands
<1>2. CASE UNCHANGED dirs /\ T!Goto(p, "refused")
  <2>1. /\ cmd' \in [T!Commands -> CmdType] /\ \A c \in T!Commands : c # p => cmd'[c] = cmd[c]
    BY <1>1, <1>2, GotoType DEF OwnFiles, Phases
  <2>2. \A q \in Runs : cmd[q].pc \in {"full", "killed"} => cmd'[q].pc \in {"full", "killed"}
    BY <1>1, <2>1 DEF T!Commands
  <2> QED BY <1>1, <1>2, <2>1, <2>2, SameDirs
<1>3. ASSUME NEW b \in Bytes, T!Goto(p, "sidecar"),
             dirs' = [dirs EXCEPT ![T!Staged(p)] = [T!EmptyDir EXCEPT !.module = T!File(p, b)]]
      PROVE  OwnFiles'
  <2> DEFINE d == [T!EmptyDir EXCEPT !.module = T!File(p, b)]
  <2>1. T!File(p, b) \in Written /\ T!File(p, b).by = p
    BY FileIsWritten DEF OwnFiles
  <2>2. d \in Dirs /\ Own(d, p)
    BY <2>1 DEF T!EmptyDir, T!Files, Dirs, Own
  <2>3. /\ cmd' \in [T!Commands -> CmdType] /\ cmd'[p].pc = "sidecar"
        /\ \A c \in T!Commands : c # p => cmd'[c] = cmd[c]
    BY <1>1, <1>3, GotoType DEF OwnFiles, Phases
  <2>4. dirs' = [dirs EXCEPT ![T!Staged(p)] = d]
    BY <1>3
  <2> HIDE DEF d
  <2> QED BY <1>1, <2>2, <2>3, <2>4, OneDir
<1> QED BY <1>2, <1>3 DEF T!Fetch

\* A run changes its own directories, the entry, and its state.
LEMMA OwnDirs ==
    ASSUME OwnFiles, NEW p \in Runs, decl' = decl, cmd' \in [T!Commands -> CmdType],
           dirs' \in [T!Places -> Dirs],
           \A y \in T!Places \ {T!Staged(p), T!Install(p), T!Backup(p), T!Entry} : dirs'[y] = dirs[y],
           Own(dirs'[T!Staged(p)], p), Whole(dirs'[T!Backup(p)]), Whole(dirs'[T!Entry]),
           cmd'[p].pc \notin {"full", "killed"} => Own(dirs'[T!Install(p)], p),
           \A c \in T!Commands : c # p => cmd'[c].pc = cmd[c].pc
    PROVE  OwnFiles'
<1> USE DEF OwnFiles
<1>1. ASSUME NEW q \in Runs, q # p
      PROVE  /\ dirs'[T!Staged(q)] = dirs[T!Staged(q)] /\ dirs'[T!Install(q)] = dirs[T!Install(q)]
             /\ dirs'[T!Backup(q)] = dirs[T!Backup(q)] /\ cmd'[q].pc = cmd[q].pc
  <2>1. \A y \in {T!Staged(q), T!Install(q), T!Backup(q)} :
            y \in T!Places \ {T!Staged(p), T!Install(p), T!Backup(p), T!Entry}
    BY <1>1, PlacesDiffer
  <2> QED BY <1>1, <2>1 DEF T!Commands
<1> QED BY <1>1

LEMMA WriteSidecarOwn ==
    ASSUME OwnFiles, NEW p \in Runs, T!WriteSidecar(p)
    PROVE  OwnFiles'
<1> DEFINE old == IF dirs[T!Staged(p)] = None THEN T!EmptyDir ELSE dirs[T!Staged(p)]
           d == [old EXCEPT !.meta = T!File(p, None)]
<1>1. /\ decl' = decl /\ cmd[p].pc = "sidecar" /\ p \in T!Commands /\ T!Goto(p, "mkdir")
      /\ dirs' = [dirs EXCEPT ![T!Staged(p)] = d]
  BY DEF T!WriteSidecar, T!At, T!Commands
<1>2. T!File(p, None) \in Written /\ T!File(p, None).by = p
  BY FileIsWritten DEF OwnFiles
<1>3. /\ old \in [T!Files -> Written \cup {None, Torn}]
      /\ \A f \in T!Files : old[f] # None => old[f] \in Written /\ old[f].by = p
  BY PlacesDiffer DEF OwnFiles, Dirs, T!EmptyDir, Own
<1>4. d \in Dirs /\ Own(d, p)
  <2> HIDE DEF old
  <2>1. d \in [T!Files -> Written \cup {None, Torn}] /\ d["meta"] = T!File(p, None)
        /\ \A f \in T!Files : f # "meta" => d[f] = old[f]
    BY <1>2, <1>3 DEF T!Files
  <2>2. d \in Dirs
    BY <2>1 DEF Dirs
  <2>3. Own(d, p)
    BY <1>2, <1>3, <2>1 DEF Own
  <2> QED BY <2>2, <2>3
<1>5. cmd' \in [T!Commands -> CmdType] /\ \A c \in T!Commands : c # p => cmd'[c] = cmd[c]
  BY <1>1, GotoType DEF OwnFiles, Phases
<1> HIDE DEF d
<1> QED BY <1>1, <1>4, <1>5, OneDir

LEMMA MakeInstallOwn ==
    ASSUME OwnFiles, NEW p \in Runs, T!MakeInstall(p)
    PROVE  OwnFiles'
<1>1. decl' = decl /\ cmd[p].pc = "mkdir" /\ p \in T!Commands
  BY DEF T!MakeInstall, T!At, T!Commands
<1>2. CASE T!Goto(p, "failed") /\ UNCHANGED dirs
  <2>1. cmd' \in [T!Commands -> CmdType] /\ \A c \in T!Commands : c # p => cmd'[c] = cmd[c]
    BY <1>1, <1>2, GotoType DEF OwnFiles, Phases
  <2>2. \A q \in Runs : cmd[q].pc \in {"full", "killed"} => cmd'[q].pc \in {"full", "killed"}
    BY <1>1, <2>1 DEF T!Commands
  <2> QED BY <1>1, <1>2, <2>1, <2>2, SameDirs
<1>3. CASE dirs[T!Staged(p)] # None
  <2> DEFINE fs == {f \in T!Files : dirs[T!Staged(p)][f] # None}
             r == [cmd[p] EXCEPT !.pc = "copy", !.todo = fs]
  <2>1. cmd' = [cmd EXCEPT ![p] = r] /\ dirs' = [dirs EXCEPT ![T!Install(p)] = T!EmptyDir]
    BY <1>3 DEF T!MakeInstall, OwnFiles
  <2>2. cmd[p] \in CmdType /\ fs \in SUBSET (T!Files \cup T!Places)
    BY <1>1 DEF OwnFiles
  <2>3. r \in CmdType
    <3> HIDE DEF fs
    <3> QED BY <2>2 DEF CmdType, Phases
  <2> HIDE DEF r
  <2>4. cmd' \in [T!Commands -> CmdType] /\ \A c \in T!Commands : c # p => cmd'[c] = cmd[c]
    BY <2>1, <2>3 DEF OwnFiles
  <2> QED BY <1>1, <2>1, <2>4, EmptyIsOwn, OneDir
<1> QED BY <1>2, <1>3 DEF T!MakeInstall

LEMMA CopyOwn ==
    ASSUME OwnFiles, NEW p \in Runs, T!Copy(p)
    PROVE  OwnFiles'
<1> DEFINE f == IF "meta" \in cmd[p].todo THEN "meta" ELSE "module"
           from == dirs[T!Staged(p)]
           to == dirs[T!Install(p)]
           ok == from # None /\ to # None /\ from[f] # None
<1>1. decl' = decl /\ cmd[p].pc = "copy" /\ p \in T!Commands /\ f \in T!Files
  BY DEF T!Copy, T!At, T!Commands, T!Files
<1>2. Own(from, p) /\ Own(to, p) /\ from \in Dirs /\ to \in Dirs
  BY <1>1, PlacesDiffer DEF OwnFiles
<1> HIDE DEF f
<1>3. CASE /\ ok /\ dirs' = [dirs EXCEPT ![T!Install(p)][f] = from[f]]
           /\ cmd' = [cmd EXCEPT ![p].todo = @ \ {f}]
  <2> DEFINE d == [to EXCEPT ![f] = from[f]]
             r == [cmd[p] EXCEPT !.todo = @ \ {f}]
  <2>1. from[f] \in Written /\ from[f].by = p
    BY <1>1, <1>2, <1>3 DEF Own
  <2>2. d \in Dirs /\ Own(d, p)
    BY <1>1, <1>2, <1>3, <2>1 DEF Dirs, Own
  <2>3. dirs' = [dirs EXCEPT ![T!Install(p)] = d] /\ cmd' = [cmd EXCEPT ![p] = r]
    BY <1>1, <1>3 DEF OwnFiles
  <2>4. cmd[p] \in CmdType
    BY <1>1 DEF OwnFiles
  <2>5. r \in CmdType
    BY <2>4 DEF CmdType
  <2> HIDE DEF d, r
  <2>6. cmd' \in [T!Commands -> CmdType] /\ \A c \in T!Commands : c # p => cmd'[c] = cmd[c]
    BY <2>3, <2>5 DEF OwnFiles
  <2> QED BY <1>1, <2>2, <2>3, <2>6, OneDir
<1>4. CASE /\ ok /\ dirs' = [dirs EXCEPT ![T!Install(p)][f] = Torn, ![T!Staged(p)] = None]
           /\ T!Goto(p, "full")
  <2> DEFINE d == [to EXCEPT ![f] = Torn]
  <2>1. d \in Dirs
    BY <1>1, <1>2, <1>4 DEF Dirs
  <2>2. /\ cmd' \in [T!Commands -> CmdType] /\ cmd'[p].pc = "full"
        /\ \A c \in T!Commands : c # p => cmd'[c] = cmd[c]
    BY <1>1, <1>4, GotoType DEF OwnFiles, Phases
  <2>3. dirs' = [[dirs EXCEPT ![T!Install(p)] = d] EXCEPT ![T!Staged(p)] = None]
    BY <1>4
  <2> HIDE DEF d
  <2>4. /\ dirs' \in [T!Places -> Dirs] /\ dirs'[T!Staged(p)] = None
        /\ \A y \in T!Places \ {T!Staged(p), T!Install(p)} : dirs'[y] = dirs[y]
    BY <2>1, <2>3, PlacesDiffer DEF OwnFiles, Dirs
  <2>5. Whole(dirs'[T!Backup(p)]) /\ Whole(dirs'[T!Entry])
    BY <2>4, PlacesDiffer DEF OwnFiles
  <2> QED BY <1>1, <2>2, <2>4, <2>5, EmptyIsOwn, OwnDirs
<1>5. CASE dirs' = [dirs EXCEPT ![T!Staged(p)] = None] /\ T!Goto(p, "failed")
  <2>1. cmd' \in [T!Commands -> CmdType] /\ \A c \in T!Commands : c # p => cmd'[c] = cmd[c]
    BY <1>1, <1>5, GotoType DEF OwnFiles, Phases
  <2>2. None \in Dirs
    BY DEF Dirs
  <2> QED BY <1>1, <1>5, <2>1, <2>2, EmptyIsOwn, OneDir
<1> QED BY <1>3, <1>4, <1>5 DEF T!Copy, f

LEMMA MoveAwayOwn ==
    ASSUME OwnFiles, NEW p \in Runs, T!MoveAway(p)
    PROVE  OwnFiles'
<1>1. decl' = decl /\ cmd[p].pc = "backup" /\ p \in T!Commands
  BY DEF T!MoveAway, T!At, T!Commands
<1>2. CASE dirs' = [dirs EXCEPT ![T!Staged(p)] = None] /\ T!Goto(p, "failed")
  <2>1. cmd' \in [T!Commands -> CmdType] /\ \A c \in T!Commands : c # p => cmd'[c] = cmd[c]
    BY <1>1, <1>2, GotoType DEF OwnFiles, Phases
  <2>2. None \in Dirs
    BY DEF Dirs
  <2> QED BY <1>1, <1>2, <2>1, <2>2, EmptyIsOwn, OneDir
<1>3. CASE dirs[T!Entry] # None
  <2> DEFINE m == T!Moved(T!Entry, T!Backup(p))
             r == [m[p] EXCEPT !.pc = "install", !.got = T!Backup(p)]
  <2>1. m \in [T!Commands -> CmdType] /\ \A c \in T!Commands : m[c].pc = cmd[c].pc
    BY MovedType, PlacesDiffer DEF OwnFiles
  <2> HIDE DEF m
  <2>2. /\ dirs' = [dirs EXCEPT ![T!Backup(p)] = dirs[T!Entry], ![T!Entry] = None]
        /\ cmd' = [m EXCEPT ![p].pc = "install", ![p].got = T!Backup(p)]
    BY <1>3 DEF T!MoveAway, m
  <2>3. r \in CmdType
    BY <1>1, <2>1, PlacesDiffer DEF CmdType, Phases
  <2>4. cmd' = [m EXCEPT ![p] = r]
    BY <1>1, <2>1, <2>2
  <2> HIDE DEF r
  <2>5. cmd' \in [T!Commands -> CmdType] /\ \A c \in T!Commands : c # p => cmd'[c].pc = cmd[c].pc
    BY <2>1, <2>3, <2>4
  <2>6. /\ dirs' \in [T!Places -> Dirs] /\ dirs'[T!Entry] = None /\ dirs'[T!Backup(p)] = dirs[T!Entry]
        /\ \A y \in T!Places \ {T!Backup(p), T!Entry} : dirs'[y] = dirs[y]
    BY <2>2, PlacesDiffer DEF OwnFiles, Dirs
  <2>7. Own(dirs'[T!Staged(p)], p) /\ Own(dirs'[T!Install(p)], p)
    BY <1>1, <2>6, PlacesDiffer DEF OwnFiles
  <2>8. Whole(dirs'[T!Backup(p)]) /\ Whole(dirs'[T!Entry])
    BY <2>6 DEF OwnFiles, Whole
  <2> QED BY <1>1, <2>5, <2>6, <2>7, <2>8, OwnDirs
<1> QED BY <1>2, <1>3 DEF T!MoveAway

LEMMA MoveInOwn ==
    ASSUME OwnFiles, NEW p \in Runs, T!MoveIn(p)
    PROVE  OwnFiles'
<1> DEFINE new == dirs[T!Install(p)]
           old == dirs[T!Backup(p)]
           free == dirs[T!Entry] = None \/ T!IsEmpty(dirs[T!Entry])
           restored == old # None /\ free
<1>1. decl' = decl /\ cmd[p].pc = "install" /\ p \in T!Commands
  BY DEF T!MoveIn, T!At, T!Commands
<1>2. Own(new, p) /\ Whole(old) /\ new \in Dirs /\ old \in Dirs /\ None \in Dirs
  BY <1>1, PlacesDiffer DEF OwnFiles, Dirs
<1>3. ASSUME NEW m \in [T!Commands -> CmdType], \A c \in T!Commands : m[c].pc = cmd[c].pc,
             NEW pc \in Phases, cmd' = [m EXCEPT ![p].pc = pc]
      PROVE  cmd' \in [T!Commands -> CmdType] /\ \A c \in T!Commands : c # p => cmd'[c].pc = cmd[c].pc
  <2> DEFINE r == [m[p] EXCEPT !.pc = pc]
  <2>1. r \in CmdType /\ cmd' = [m EXCEPT ![p] = r]
    BY <1>1, <1>3 DEF CmdType
  <2> HIDE DEF r
  <2> QED BY <1>3, <2>1
<1>4. CASE new # None /\ free
  <2> DEFINE m == T!Moved(T!Install(p), T!Entry)
  <2>1. m \in [T!Commands -> CmdType] /\ \A c \in T!Commands : m[c].pc = cmd[c].pc
    BY MovedType, PlacesDiffer DEF OwnFiles
  <2>2. /\ dirs' = [dirs EXCEPT ![T!Entry] = new, ![T!Install(p)] = None]
        /\ cmd' = [m EXCEPT ![p].pc = "drop"]
    BY <1>4 DEF T!MoveIn
  <2> HIDE DEF m
  <2>3. cmd' \in [T!Commands -> CmdType] /\ \A c \in T!Commands : c # p => cmd'[c].pc = cmd[c].pc
    BY <1>3, <2>1, <2>2 DEF Phases
  <2>4. /\ dirs' \in [T!Places -> Dirs] /\ dirs'[T!Entry] = new /\ dirs'[T!Install(p)] = None
        /\ \A y \in T!Places \ {T!Install(p), T!Entry} : dirs'[y] = dirs[y]
    BY <1>2, <2>2, PlacesDiffer DEF OwnFiles
  <2>5. Own(dirs'[T!Staged(p)], p) /\ Own(dirs'[T!Install(p)], p)
    BY <2>4, PlacesDiffer, EmptyIsOwn DEF OwnFiles
  <2>6. Whole(dirs'[T!Backup(p)]) /\ Whole(dirs'[T!Entry])
    BY <1>2, <2>4, PlacesDiffer DEF OwnFiles, Whole
  <2> QED BY <1>1, <2>3, <2>4, <2>5, <2>6, OwnDirs
<1>5. CASE ~ (new # None /\ free)
  <2> DEFINE m == IF restored THEN T!Moved(T!Backup(p), T!Entry) ELSE cmd
             entry == IF restored THEN old ELSE dirs[T!Entry]
             backup == IF restored THEN None ELSE old
  <2>1. m \in [T!Commands -> CmdType] /\ \A c \in T!Commands : m[c].pc = cmd[c].pc
    BY MovedType, PlacesDiffer DEF OwnFiles
  <2>2. /\ dirs' = [[[[dirs EXCEPT ![T!Install(p)] = None] EXCEPT ![T!Staged(p)] = None]
                        EXCEPT ![T!Entry] = entry] EXCEPT ![T!Backup(p)] = backup]
        /\ cmd' = [m EXCEPT ![p].pc = "failed"]
    BY <1>5, PlacesDiffer DEF T!MoveIn, OwnFiles
  <2>3. entry \in Dirs /\ backup \in Dirs /\ Whole(entry) /\ Whole(backup)
    BY <1>2, PlacesDiffer DEF OwnFiles, Whole
  <2> HIDE DEF m, entry, backup
  <2>4. cmd' \in [T!Commands -> CmdType] /\ \A c \in T!Commands : c # p => cmd'[c].pc = cmd[c].pc
    BY <1>3, <2>1, <2>2 DEF Phases
  <2>5. /\ dirs' \in [T!Places -> Dirs] /\ dirs'[T!Entry] = entry /\ dirs'[T!Install(p)] = None
        /\ dirs'[T!Staged(p)] = None /\ dirs'[T!Backup(p)] = backup
        /\ \A y \in T!Places \ {T!Install(p), T!Staged(p), T!Backup(p), T!Entry} : dirs'[y] = dirs[y]
    BY <1>2, <2>2, <2>3, PlacesDiffer DEF OwnFiles
  <2> QED BY <1>1, <2>3, <2>4, <2>5, EmptyIsOwn, OwnDirs
<1> QED BY <1>4, <1>5

LEMMA DropOwn ==
    ASSUME OwnFiles, NEW p \in Runs, T!Drop(p)
    PROVE  OwnFiles'
<1>1. /\ decl' = decl /\ cmd[p].pc = "drop" /\ p \in T!Commands
      /\ dirs' = [dirs EXCEPT ![T!Backup(p)] = None, ![T!Staged(p)] = None]
      /\ T!Goto(p, "resolved") \/ T!Goto(p, "failed")
  BY DEF T!Drop, T!At, T!Commands
<1>2. cmd' \in [T!Commands -> CmdType] /\ \A c \in T!Commands : c # p => cmd'[c] = cmd[c]
  <2>1. CASE T!Goto(p, "resolved")
    BY <1>1, <2>1, GotoType DEF OwnFiles, Phases
  <2>2. CASE T!Goto(p, "failed")
    BY <1>1, <2>2, GotoType DEF OwnFiles, Phases
  <2> QED BY <1>1, <2>1, <2>2
<1>3. /\ dirs' \in [T!Places -> Dirs] /\ dirs'[T!Backup(p)] = None /\ dirs'[T!Staged(p)] = None
      /\ \A y \in T!Places \ {T!Staged(p), T!Backup(p)} : dirs'[y] = dirs[y]
  BY <1>1, PlacesDiffer DEF OwnFiles, Dirs
<1>4. Own(dirs'[T!Install(p)], p) /\ Whole(dirs'[T!Entry]) /\ Whole(dirs'[T!Backup(p)])
  BY <1>1, <1>3, PlacesDiffer DEF OwnFiles, Whole
<1> QED BY <1>1, <1>2, <1>3, <1>4, EmptyIsOwn, OwnDirs

\* A directory loses what is in it, or goes.
LEMMA LessDirs ==
    ASSUME OwnFiles, decl' = decl, cmd' \in [T!Commands -> CmdType], NEW x, NEW d \in Dirs,
           dirs' = [dirs EXCEPT ![x] = d],
           x \in T!Places => (\A p \in Runs : Own(dirs[x], p) => Own(d, p)),
           x \in T!Places => (Whole(dirs[x]) => Whole(d)),
           \A p \in Runs : cmd[p].pc \in {"full", "killed"} => cmd'[p].pc \in {"full", "killed"}
    PROVE  OwnFiles'
<1> USE DEF OwnFiles
<1>1. dirs' \in [T!Places -> Dirs]
  OBVIOUS
<1>2. \A y \in T!Places : /\ \A p \in Runs : Own(dirs[y], p) => Own(dirs'[y], p)
                          /\ Whole(dirs[y]) => Whole(dirs'[y])
  OBVIOUS
<1> QED BY <1>1, <1>2, PlacesDiffer

LEMMA UnlinkOwn ==
    ASSUME OwnFiles, NEW g \in Gcs, T!Unlink(g)
    PROVE  OwnFiles'
<1> DEFINE x == cmd[g].at
<1>1. decl' = decl /\ cmd[g].pc = "empty" /\ g \in T!Commands
  BY DEF T!Unlink, T!At, T!Commands
<1>2. CASE T!Goto(g, "rmdir") /\ UNCHANGED dirs
  <2>1. cmd' \in [T!Commands -> CmdType] /\ \A c \in T!Commands : c # g => cmd'[c] = cmd[c]
    BY <1>1, <1>2, GotoType DEF OwnFiles, Phases
  <2>2. \A p \in Runs : cmd[p].pc \in {"full", "killed"} => cmd'[p].pc \in {"full", "killed"}
    BY <1>1, <2>1 DEF T!Commands
  <2> QED BY <1>1, <1>2, <2>1, <2>2, SameDirs
<1>3. ASSUME NEW f \in T!Files, dirs[x] # None, UNCHANGED cmd,
             dirs' = [dirs EXCEPT ![x][f] = None]
      PROVE  OwnFiles'
  <2>1. CASE x \in T!Places
    <3> DEFINE d == [dirs[x] EXCEPT ![f] = None]
    <3>1. dirs[x] \in Dirs
      BY <2>1 DEF OwnFiles
    <3>2. /\ d \in Dirs /\ \A p : Own(dirs[x], p) => Own(d, p)
          /\ Whole(dirs[x]) => Whole(d)
      BY <1>3, <3>1, UnlinkedIsOwn
    <3>3. dirs' = [dirs EXCEPT ![x] = d]
      BY <1>3
    <3>4. cmd' \in [T!Commands -> CmdType]
      BY <1>3 DEF OwnFiles
    <3> HIDE DEF d, x
    <3> QED BY <1>1, <1>3, <3>2, <3>3, <3>4, LessDirs
  <2>2. CASE x \notin T!Places
    <3>1. dirs' = dirs
      BY <1>3, <2>2 DEF OwnFiles
    <3> QED BY <1>1, <1>3, <3>1, SameDirs DEF OwnFiles
  <2> QED BY <2>1, <2>2
<1> QED BY <1>2, <1>3 DEF T!Unlink

LEMMA RmdirOwn ==
    ASSUME OwnFiles, NEW g \in Gcs, T!Rmdir(g)
    PROVE  OwnFiles'
<1> DEFINE x == cmd[g].got
<1>1. decl' = decl /\ cmd[g].pc = "rmdir" /\ g \in T!Commands /\ cmd[g] \in CmdType
  BY DEF T!Rmdir, T!At, T!Commands, OwnFiles
<1>2. ASSUME NEW r \in CmdType, cmd' = [cmd EXCEPT ![g] = r]
      PROVE  /\ cmd' \in [T!Commands -> CmdType]
             /\ \A p \in Runs : cmd[p].pc \in {"full", "killed"} => cmd'[p].pc \in {"full", "killed"}
  BY <1>1, <1>2 DEF OwnFiles, T!Commands
<1>3. CASE /\ dirs' = [dirs EXCEPT ![x] = None]
           /\ cmd' = [cmd EXCEPT ![g].pc = "remove", ![g].todo = @ \ {x}, ![g].at = None]
  <2> DEFINE r == [cmd[g] EXCEPT !.pc = "remove", !.todo = @ \ {x}, !.at = None]
  <2>1. r \in CmdType
    <3>1. cmd[g].todo \ {x} \in SUBSET (T!Files \cup T!Places)
      BY <1>1 DEF CmdType
    <3> HIDE DEF x
    <3> QED BY <1>1, <3>1 DEF CmdType, Phases
  <2>2. cmd' = [cmd EXCEPT ![g] = r]
    BY <1>1, <1>3 DEF OwnFiles
  <2> HIDE DEF r
  <2>3. None \in Dirs /\ (\A p \in Runs : Own(None, p)) /\ Whole(None)
    BY EmptyIsOwn DEF Dirs, Whole
  <2> HIDE DEF x
  <2> QED BY <1>1, <1>2, <1>3, <2>1, <2>2, <2>3, LessDirs
<1>4. CASE cmd' = [cmd EXCEPT ![g].pc = "failed", ![g].at = None] /\ UNCHANGED dirs
  <2> DEFINE r == [cmd[g] EXCEPT !.pc = "failed", !.at = None]
  <2>1. r \in CmdType
    BY <1>1 DEF CmdType, Phases
  <2>2. cmd' = [cmd EXCEPT ![g] = r]
    BY <1>1, <1>4 DEF OwnFiles
  <2> HIDE DEF r
  <2> QED BY <1>1, <1>2, <1>4, <2>1, <2>2, SameDirs
<1> QED BY <1>3, <1>4 DEF T!Rmdir

LEMMA KilledOwn ==
    ASSUME OwnFiles, NEW c \in T!Commands, T!Killed(c)
    PROVE  OwnFiles'
<1> DEFINE r == [cmd[c] EXCEPT !.pc = "killed", !.at = None]
<1>1. decl' = decl /\ cmd[c] \in CmdType /\ cmd' = [cmd EXCEPT ![c] = r]
  BY DEF T!Killed, OwnFiles
<1>2. r \in CmdType /\ r.pc = "killed"
  BY <1>1 DEF CmdType, Phases
<1> HIDE DEF r
<1>3. /\ cmd' \in [T!Commands -> CmdType] /\ cmd'[c].pc = "killed"
      /\ \A b \in T!Commands : b # c => cmd'[b] = cmd[b]
  BY <1>1, <1>2 DEF OwnFiles
<1>4. \A p \in Runs : cmd[p].pc \in {"full", "killed"} => cmd'[p].pc \in {"full", "killed"}
  BY <1>3 DEF T!Commands
<1>5. CASE UNCHANGED dirs
  BY <1>1, <1>3, <1>4, <1>5, SameDirs
<1>6. ASSUME NEW x \in {T!Staged(c), T!Install(c)}, NEW d \in Dirs, x = T!Staged(c) => d = T!EmptyDir,
             dirs' = [dirs EXCEPT ![x] = d]
      PROVE  OwnFiles'
  <2>1. CASE c \in Runs
    <3>1. /\ dirs' \in [T!Places -> Dirs] /\ dirs'[x] = d
          /\ \A y \in T!Places \ {x} : dirs'[y] = dirs[y]
      BY <1>6, <2>1, PlacesDiffer DEF OwnFiles
    <3>2. Own(dirs'[T!Staged(c)], c)
      BY <1>6, <2>1, <3>1, EmptyIsOwn, PlacesDiffer DEF OwnFiles
    <3>3. Whole(dirs'[T!Backup(c)]) /\ Whole(dirs'[T!Entry])
      BY <1>6, <2>1, <3>1, PlacesDiffer DEF OwnFiles
    <3>4. \A y \in T!Places \ {T!Staged(c), T!Install(c), T!Backup(c), T!Entry} : dirs'[y] = dirs[y]
      BY <1>6, <3>1
    <3> QED BY <1>1, <1>3, <2>1, <3>1, <3>2, <3>3, <3>4, OwnDirs
  <2>2. CASE c \notin Runs
    <3>1. x \notin T!Places
      BY <1>6, <2>2 DEF T!Places, T!Entry, T!Staged, T!Install
    <3>2. dirs' = dirs
      BY <1>6, <3>1 DEF OwnFiles
    <3> QED BY <1>1, <1>3, <1>4, <3>2, SameDirs
  <2> QED BY <2>1, <2>2
<1>7. CASE dirs' = [dirs EXCEPT ![T!Staged(c)] = T!EmptyDir]
  BY <1>6, <1>7, EmptyIsOwn
<1>8. CASE \E d : /\ d \in [T!Files -> {Torn} \cup {dirs[T!Install(c)][f] : f \in T!Files}]
                  /\ dirs' = [dirs EXCEPT ![T!Install(c)] = d] /\ dirs[T!Install(c)] # None
  <2>1. PICK d : /\ d \in [T!Files -> {Torn} \cup {dirs[T!Install(c)][f] : f \in T!Files}]
                 /\ dirs' = [dirs EXCEPT ![T!Install(c)] = d] /\ dirs[T!Install(c)] # None
    BY <1>8
  <2>2. CASE T!Install(c) \in T!Places
    <3>1. dirs[T!Install(c)] \in [T!Files -> Written \cup {None, Torn}]
      BY <2>1, <2>2 DEF OwnFiles, Dirs
    <3>2. d \in Dirs
      BY <2>1, <3>1 DEF Dirs
    <3>3. T!Install(c) # T!Staged(c)
      BY PlacesDiffer
    <3> QED BY <1>6, <2>1, <3>2, <3>3
  <2>3. CASE T!Install(c) \notin T!Places
    <3>1. dirs' = dirs
      BY <2>1, <2>3 DEF OwnFiles
    <3> QED BY <1>1, <1>3, <1>4, <3>1, SameDirs
  <2> QED BY <2>2, <2>3
<1>9. ASSUME cmd[c].pc = "copy", dirs[T!Install(c)] # None,
             dirs' = [dirs EXCEPT ![T!Install(c)] =
                [f \in T!Files |-> IF f \in cmd[c].todo /\ (f = "meta" \/ "meta" \notin cmd[c].todo)
                                 THEN Torn ELSE @[f]]]
      PROVE  OwnFiles'
  <2> DEFINE d == [f \in T!Files |->
                IF f \in cmd[c].todo /\ (f = "meta" \/ "meta" \notin cmd[c].todo)
                THEN Torn ELSE dirs[T!Install(c)][f]]
  <2>1. d \in [T!Files -> {Torn} \cup {dirs[T!Install(c)][f] : f \in T!Files}]
    OBVIOUS
  <2>2. dirs' = [dirs EXCEPT ![T!Install(c)] = d]
    BY <1>9
  <2> HIDE DEF d
  <2> QED BY <1>8, <1>9, <2>1, <2>2
<1> QED BY <1>5, <1>7, <1>9 DEF T!Killed

LEMMA CorruptOwn ==
    ASSUME OwnFiles, T!Corrupt
    PROVE  OwnFiles'
<1> DEFINE e == dirs[T!Entry]
           file == [e["module"] EXCEPT !.bytes = Junk]
           d == [e EXCEPT !["module"] = file]
<1>1. /\ UNCHANGED <<decl, cmd>> /\ e # None /\ e["module"] # None
      /\ dirs' = [dirs EXCEPT ![T!Entry] = d]
  BY DEF T!Corrupt
<1>2. e \in [T!Files -> Written \cup {None, Torn}] /\ "module" \in T!Files
  BY <1>1, PlacesDiffer DEF OwnFiles, Dirs, T!Files
<1>3. PICK p \in Runs : Own(e, p)
  BY <1>1 DEF OwnFiles, Whole
<1>4. e["module"] \in Written /\ e["module"].by = p
  BY <1>1, <1>2, <1>3 DEF Own
<1>5. file \in Written /\ file.by = p
  BY <1>4 DEF Written
<1> HIDE DEF e, file
<1>6. d \in Dirs /\ Own(d, p)
  BY <1>1, <1>2, <1>3, <1>5 DEF Dirs, Own
<1>7. Whole(d)
  BY <1>6 DEF Whole
<1> HIDE DEF d
<1>8. dirs' \in [T!Places -> Dirs] /\ dirs'[T!Entry] = d /\ \A y \in T!Places \ {T!Entry} : dirs'[y] = dirs[y]
  BY <1>1, <1>6, PlacesDiffer DEF OwnFiles
<1> QED BY <1>1, <1>7, <1>8, PlacesDiffer DEF OwnFiles

LEMMA OwnKept == OwnFiles /\ [T!Next]_(T!cacheVars) => OwnFiles'
<1> SUFFICES ASSUME OwnFiles, [T!Next]_(T!cacheVars) PROVE OwnFiles'
  OBVIOUS
<1>1. CASE UNCHANGED T!cacheVars
  BY <1>1, SameDirs DEF T!cacheVars, OwnFiles
<1>2. ASSUME NEW p \in Runs, T!Status(p) \/ T!Digest(p) \/ T!Inspect(p) \/ T!Load(p) PROVE OwnFiles'
  BY <1>2, IdleDirs DEF T!Commands
<1>3. ASSUME NEW g \in Gcs, T!Scan(g) \/ T!Open(g) PROVE OwnFiles'
  BY <1>3, IdleDirs DEF T!Commands
<1>4. ASSUME NEW p \in Runs, T!Fetch(p) \/ T!WriteSidecar(p) \/ T!MakeInstall(p) \/ T!Copy(p)
      PROVE  OwnFiles'
  BY <1>4, FetchOwn, WriteSidecarOwn, MakeInstallOwn, CopyOwn
<1>5. ASSUME NEW p \in Runs, T!MoveAway(p) \/ T!MoveIn(p) \/ T!Drop(p) PROVE OwnFiles'
  BY <1>5, MoveAwayOwn, MoveInOwn, DropOwn
<1>6. ASSUME NEW g \in Gcs, T!Unlink(g) \/ T!Rmdir(g) PROVE OwnFiles'
  BY <1>6, UnlinkOwn, RmdirOwn
<1>7. ASSUME NEW c \in T!Commands, T!Killed(c) PROVE OwnFiles'
  BY <1>7, KilledOwn
<1>8. CASE T!Corrupt
  BY <1>8, CorruptOwn
<1> QED BY <1>1, <1>2, <1>3, <1>4, <1>5, <1>6, <1>7, <1>8 DEF T!Next

LEMMA OwnIsUnmixed == ASSUME None # Torn, Torn \notin Written PROVE OwnFiles => T!NeverMixed
<1> SUFFICES ASSUME OwnFiles, dirs[T!Entry] # None
             PROVE  /\ Torn \notin {dirs[T!Entry].meta, dirs[T!Entry].module}
                    /\ dirs[T!Entry].meta # None /\ dirs[T!Entry].module # None =>
                          dirs[T!Entry].meta.by = dirs[T!Entry].module.by
  BY DEF T!NeverMixed
<1>1. PICK p \in Runs : Own(dirs[T!Entry], p)
  BY DEF OwnFiles, Whole
<1> QED BY <1>1 DEF Own, T!Files

-----------------------------------------------------------------------------
\* A file says which declaration it was fetched for.
Proper(f) == f \in Written /\ f.source = decl[f.by].source /\ f.pin = decl[f.by].pin
Named(d) == d # None => \A f \in T!Files : d[f] \in {None, Torn} \/ Proper(d[f])

\* The module in a directory has the digest that p pins.
Pinned(p, d) == d # None /\ d.module \notin {None, Torn} => decl[p].pin \in {None, d.module.bytes}

\* What p may find in the entry before it has checked the digest, and after.
FromSource(p) == dirs[T!Entry] # None /\ dirs[T!Entry].module # None
                    => dirs[T!Entry].module.source = decl[p].source
Declared(p) == FromSource(p) /\ Pinned(p, dirs[T!Entry])

Served(p) ==
    T!Undisturbed(p) =>
        /\ cmd[p].pc = "digest" => FromSource(p)
        /\ cmd[p].pc \in {"drop", "resolved"} => Declared(p)
        /\ cmd[p].pc = "done" => /\ cmd[p].got.source = decl[p].source
                                 /\ decl[p].pin \in {None, cmd[p].got.bytes}

\* Only a collection takes the install directory of a run away, so only then does the
\* run put back what it had moved away.
InstallThere(p) ==
    cmd[p].pc \in {"copy", "backup", "install"} /\ met[p] \cap Gcs = {} => dirs[T!Install(p)] # None

MetInv ==
    /\ met \in [T!Commands -> SUBSET T!Commands]
    /\ \A c \in T!Commands : cmd[c].pc = "ready" => met[c] = {}

RunInv ==
    /\ MetInv
    /\ \A x \in T!Places : Named(dirs[x])
    /\ \A p \in Runs : /\ Pinned(p, dirs[T!Staged(p)]) /\ Pinned(p, dirs[T!Install(p)])
                       /\ Served(p) /\ InstallThere(p)

\* e holds no file that d does not, but for files that are cut off.
Below(e, d) == e # None => \A f \in T!Files : e[f] \in {None, Torn} \/ (d # None /\ e[f] = d[f])

LEMMA BelowKeeps ==
    ASSUME NEW d, NEW e, Below(e, d)
    PROVE  /\ Named(d) => Named(e)
           /\ \A p : Pinned(p, d) => Pinned(p, e)
BY DEF Below, Named, Pinned, T!Files

LEMMA BelowSelf == \A d : Below(d, d) /\ Below(None, d) /\ Below(T!EmptyDir, d)
BY DEF Below, T!EmptyDir

\* Whom a command has met only grows, so a run that is undisturbed was so before.
LEMMA MetGrows ==
    ASSUME MetInv, NEW c \in T!Commands, T!Meets(c), decl' = decl
    PROVE  /\ met' \in [T!Commands -> SUBSET T!Commands]
           /\ \A b \in T!Commands : met[b] \subseteq met'[b]
           /\ \A b \in T!Commands : b # c /\ T!Active(b) => c \in met'[b]
           /\ \A p \in Runs : T!Undisturbed(p)' => T!Undisturbed(p)
<1>1. met' = [b \in T!Commands |->
        IF b = c /\ cmd[c].pc = "ready" THEN {a \in T!Commands : T!Active(a)}
        ELSE IF b # c /\ T!Active(b) THEN met[b] \cup {c} ELSE met[b]]
  BY DEF T!Meets
<1>2. met' \in [T!Commands -> SUBSET T!Commands]
  BY <1>1 DEF MetInv
<1>3. \A b \in T!Commands : met[b] \subseteq met'[b]
  BY <1>1 DEF MetInv
<1>4. \A b \in T!Commands : b # c /\ T!Active(b) => c \in met'[b]
  BY <1>1
<1>5. ASSUME NEW p \in Runs, T!Undisturbed(p)' PROVE T!Undisturbed(p)
  <2>1. ASSUME NEW b \in met[p] \cap Runs PROVE decl[b] = decl[p] /\ met[b] \cap Gcs = {}
    <3>1. b \in met'[p] \cap Runs /\ b \in T!Commands
      BY <1>3 DEF T!Commands
    <3> QED BY <1>3, <1>5, <3>1 DEF T!Undisturbed
  <2> QED BY <2>1 DEF T!Undisturbed
<1> QED BY <1>2, <1>3, <1>4, <1>5

\* What a step of c must keep for RunInv to be kept.
LEMMA RunStep ==
    ASSUME OwnFiles, RunInv, Torn \notin Written, OwnFiles', NEW c \in T!Commands, T!Meets(c), decl' = decl,
           cmd'[c].pc # "ready",
           \A b \in T!Commands : b # c => cmd'[b].pc = cmd[b].pc /\ cmd'[b].got = cmd[b].got,
           \A x \in T!Places : Named(dirs'[x]),
           \A p \in Runs : Pinned(p, dirs'[T!Staged(p)]) /\ Pinned(p, dirs'[T!Install(p)]),
           \A p \in Runs : p # c /\ T!Active(p) /\ T!Undisturbed(p)' =>
                Below(dirs'[T!Entry], dirs[T!Entry]) \/ Declared(p)',
           c \in Runs => Served(c)' /\ InstallThere(c)',
           c \in Gcs \/ \A p \in Runs : p # c => dirs'[T!Install(p)] = dirs[T!Install(p)]
    PROVE  RunInv'
<1>1. /\ met' \in [T!Commands -> SUBSET T!Commands]
      /\ \A b \in T!Commands : met[b] \subseteq met'[b]
      /\ \A b \in T!Commands : b # c /\ T!Active(b) => c \in met'[b]
      /\ \A p \in Runs : T!Undisturbed(p)' => T!Undisturbed(p)
  BY MetGrows DEF RunInv
<1>2. MetInv'
  <2>1. ASSUME NEW b \in T!Commands, cmd'[b].pc = "ready" PROVE met'[b] = {}
    <3>1. b # c /\ cmd[b].pc = "ready" /\ met[b] = {}
      BY <2>1 DEF RunInv, MetInv
    <3> QED BY <3>1 DEF T!Meets, T!Active
  <2> QED BY <1>1, <2>1 DEF MetInv
<1>3. ASSUME NEW x \in T!Places PROVE Named(dirs[x])'
  BY DEF Named, Proper
<1>4. ASSUME NEW p \in Runs PROVE Pinned(p, dirs[T!Staged(p)])' /\ Pinned(p, dirs[T!Install(p)])'
  BY DEF Pinned, T!Staged, T!Install
<1>5. ASSUME NEW p \in Runs, p # c PROVE Served(p)'
  <2> SUFFICES ASSUME T!Undisturbed(p)' PROVE Served(p)'
    BY DEF Served
  <2>1. p \in T!Commands /\ cmd'[p].pc = cmd[p].pc /\ cmd'[p].got = cmd[p].got /\ T!Undisturbed(p) /\ Served(p)
    BY <1>1, <1>5 DEF T!Commands, RunInv
  <2>2. CASE cmd[p].pc = "done"
    BY <2>1, <2>2 DEF Served
  <2>3. CASE cmd[p].pc \in {"digest", "drop", "resolved"} /\ Declared(p)'
    BY <2>1, <2>3 DEF Served, Declared
  <2>4. CASE cmd[p].pc \in {"digest", "drop", "resolved"} /\ Below(dirs'[T!Entry], dirs[T!Entry])
    <3>1. dirs'[T!Entry] # None /\ dirs'[T!Entry].module # None =>
            dirs[T!Entry] # None /\ dirs'[T!Entry].module = dirs[T!Entry].module
      <4>1. Whole(dirs[T!Entry])'
        BY DEF OwnFiles
      <4> QED BY <2>4, <4>1 DEF Whole, Own, Below, T!Files, T!Entry
    <3>2. FromSource(p) => FromSource(p)'
      BY <3>1 DEF FromSource, T!Entry
    <3>3. Pinned(p, dirs[T!Entry]) => Pinned(p, dirs[T!Entry])'
      BY <3>1 DEF Pinned, T!Entry
    <3> QED BY <2>1, <2>4, <3>2, <3>3 DEF Served, Declared
  <2>5. cmd[p].pc \in {"digest", "drop", "resolved"} => T!Active(p)
    BY DEF T!Active
  <2> QED BY <1>5, <2>1, <2>2, <2>3, <2>4, <2>5 DEF Served
<1>6. ASSUME NEW p \in Runs, p # c PROVE InstallThere(p)'
  <2> SUFFICES ASSUME cmd'[p].pc \in {"copy", "backup", "install"}, met'[p] \cap Gcs = {}
               PROVE  dirs'[T!Install(p)] # None
    BY DEF InstallThere, T!Install
  <2>1. p \in T!Commands /\ cmd'[p].pc = cmd[p].pc
    BY <1>6 DEF T!Commands
  <2>2. c \notin Gcs
    BY <1>1, <1>6, <2>1 DEF T!Active
  <2>3. met[p] \cap Gcs = {} /\ dirs'[T!Install(p)] = dirs[T!Install(p)]
    BY <1>1, <1>6, <2>1, <2>2
  <2> QED BY <2>1, <2>3 DEF RunInv, InstallThere
<1> QED BY <1>2, <1>3, <1>4, <1>5, <1>6 DEF RunInv

LEMMA ShrinkStep ==
    ASSUME OwnFiles, RunInv, Torn \notin Written, OwnFiles', NEW c \in T!Commands, T!Meets(c), decl' = decl,
           cmd'[c].pc # "ready",
           \A b \in T!Commands : b # c => cmd'[b].pc = cmd[b].pc /\ cmd'[b].got = cmd[b].got,
           \A x \in T!Places : Below(dirs'[x], dirs[x]),
           c \in Runs => Served(c)' /\ InstallThere(c)',
           c \in Gcs \/ \A p \in Runs : p # c => dirs'[T!Install(p)] = dirs[T!Install(p)]
    PROVE  RunInv'
<1>1. \A x \in T!Places : Named(dirs'[x])
  BY BelowKeeps DEF RunInv
<1>2. \A p \in Runs : Pinned(p, dirs'[T!Staged(p)]) /\ Pinned(p, dirs'[T!Install(p)])
  BY BelowKeeps, PlacesDiffer DEF RunInv
<1>3. Below(dirs'[T!Entry], dirs[T!Entry])
  BY PlacesDiffer
<1> QED BY <1>1, <1>2, <1>3, RunStep

\* A step to a phase that promises nothing.
LEMMA Unserved ==
    ASSUME NEW p, cmd'[p].pc \notin {"digest", "drop", "resolved", "done"}
    PROVE  Served(p)'
BY DEF Served

LEMMA NotInstalling ==
    ASSUME NEW p, cmd'[p].pc \notin {"copy", "backup", "install"}
    PROVE  InstallThere(p)'
BY DEF InstallThere

LEMMA GotoOthers ==
    ASSUME OwnFiles, NEW c \in T!Commands, NEW pc, T!Goto(c, pc)
    PROVE  /\ cmd'[c].pc = pc /\ cmd'[c].got = cmd[c].got
           /\ \A b \in T!Commands : b # c => cmd'[b] = cmd[b]
BY DEF T!Goto, OwnFiles, CmdType

\* A hit says that the entry was fetched from the source asked for.
LEMMA HitSource ==
    ASSUME OwnFiles, RunInv, Torn \notin Written, None \notin Written, NEW p \in Runs, T!Hit(p, dirs[T!Entry])
    PROVE  FromSource(p)
<1>1. dirs[T!Entry] # None /\ dirs[T!Entry].module # None /\ dirs[T!Entry].meta # None
      /\ dirs[T!Entry].meta.source = decl[p].source
  BY DEF T!Hit
<1>2. PICK r \in Runs : Own(dirs[T!Entry], r)
  BY <1>1 DEF OwnFiles, Whole
<1>3. /\ dirs[T!Entry].module \in Written /\ dirs[T!Entry].module.by = r
      /\ dirs[T!Entry].meta \in Written /\ dirs[T!Entry].meta.by = r
  BY <1>1, <1>2 DEF Own, T!Files
<1>4. Named(dirs[T!Entry])
  BY PlacesDiffer DEF RunInv
<1>5. Proper(dirs[T!Entry].module) /\ Proper(dirs[T!Entry].meta)
  BY <1>1, <1>3, <1>4 DEF Named, T!Files
<1> QED BY <1>1, <1>3, <1>5 DEF FromSource, Proper

LEMMA QuietRuns ==
    ASSUME OwnFiles, RunInv, Torn \notin Written, None \notin Written, OwnFiles', NEW p \in Runs,
           T!Status(p) \/ T!Digest(p) \/ T!Inspect(p) \/ T!Load(p)
    PROVE  RunInv'
<1>1. p \in T!Commands /\ T!Meets(p) /\ decl' = decl /\ dirs' = dirs
  BY DEF T!Commands, T!Status, T!Digest, T!Inspect, T!Load, T!At
<1>2. \A x \in T!Places : Below(dirs'[x], dirs[x])
  BY <1>1, BelowSelf
<1>3. T!Undisturbed(p)' => T!Undisturbed(p)
  BY <1>1, MetGrows DEF RunInv
<1>4. Served(p) /\ InstallThere(p)
  BY DEF RunInv
<1>5. CASE T!Status(p)
  <2>1. (T!Goto(p, "digest") /\ T!Hit(p, dirs[T!Entry])) \/ T!Goto(p, "stage")
    BY <1>5 DEF T!Status
  <2>2. /\ (cmd'[p].pc = "digest" /\ T!Hit(p, dirs[T!Entry])) \/ cmd'[p].pc = "stage"
        /\ \A b \in T!Commands : b # p => cmd'[b] = cmd[b]
    BY <1>1, <2>1, GotoOthers
  <2>3. Served(p)'
    BY <1>1, <2>2, HitSource, Unserved DEF Served, FromSource
  <2> QED BY <1>1, <1>2, <2>2, <2>3, NotInstalling, ShrinkStep
<1>6. CASE T!Digest(p)
  <2>1. /\ cmd[p].pc = "digest"
        /\ \/ T!Goto(p, "failed") \/ T!Goto(p, "stage")
           \/ /\ T!Goto(p, "resolved")
              /\ dirs[T!Entry] # None /\ dirs[T!Entry].module # None =>
                    decl[p].pin \in {None, dirs[T!Entry].module.bytes}
    BY <1>6 DEF T!Digest, T!At
  <2>2. /\ \/ cmd'[p].pc \in {"failed", "stage"}
           \/ /\ cmd'[p].pc = "resolved"
              /\ dirs[T!Entry] # None /\ dirs[T!Entry].module # None =>
                    decl[p].pin \in {None, dirs[T!Entry].module.bytes}
        /\ \A b \in T!Commands : b # p => cmd'[b] = cmd[b]
    BY <1>1, <2>1, GotoOthers
  <2>3. Served(p)'
    <3>1. CASE cmd'[p].pc \in {"failed", "stage"}
      BY <3>1, Unserved
    <3>2. CASE /\ cmd'[p].pc = "resolved"
               /\ dirs[T!Entry] # None /\ dirs[T!Entry].module # None =>
                    decl[p].pin \in {None, dirs[T!Entry].module.bytes}
      BY <1>1, <1>3, <1>4, <2>1, <3>2 DEF Served, Declared, FromSource, Pinned
    <3> QED BY <2>2, <3>1, <3>2
  <2> QED BY <1>1, <1>2, <2>2, <2>3, NotInstalling, ShrinkStep
<1>7. CASE T!Inspect(p)
  <2>1. cmd[p].pc = "copy" /\ (T!Goto(p, "install") \/ T!Goto(p, "backup"))
    BY <1>7 DEF T!Inspect, T!At
  <2>2. cmd'[p].pc \in {"install", "backup"} /\ \A b \in T!Commands : b # p => cmd'[b] = cmd[b]
    BY <1>1, <2>1, GotoOthers
  <2>3. met[p] \subseteq met'[p]
    BY <1>1, MetGrows DEF RunInv
  <2>4. InstallThere(p)'
    BY <1>1, <1>4, <2>1, <2>2, <2>3 DEF InstallThere, T!Install
  <2> QED BY <1>1, <1>2, <2>2, <2>4, Unserved, ShrinkStep
<1>8. CASE T!Load(p)
  <2>1. /\ cmd[p].pc = "resolved"
        /\ \/ T!Goto(p, "failed")
           \/ /\ dirs[T!Entry] # None /\ dirs[T!Entry].module # None
              /\ cmd' = [cmd EXCEPT ![p].pc = "done", ![p].got = dirs[T!Entry].module]
    BY <1>8 DEF T!Load, T!At
  <2>2. CASE T!Goto(p, "failed")
    <3>1. cmd'[p].pc = "failed" /\ \A b \in T!Commands : b # p => cmd'[b] = cmd[b]
      BY <1>1, <2>2, GotoOthers
    <3> QED BY <1>1, <1>2, <3>1, Unserved, NotInstalling, ShrinkStep
  <2>3. CASE /\ dirs[T!Entry] # None /\ dirs[T!Entry].module # None
             /\ cmd' = [cmd EXCEPT ![p].pc = "done", ![p].got = dirs[T!Entry].module]
    <3>1. /\ cmd'[p].pc = "done" /\ cmd'[p].got = dirs[T!Entry].module
          /\ \A b \in T!Commands : b # p => cmd'[b] = cmd[b]
      BY <1>1, <2>3 DEF OwnFiles, CmdType
    <3>2. dirs[T!Entry].module # Torn
      BY <2>3 DEF OwnFiles, Whole, Own, T!Files
    <3>3. Served(p)'
      BY <1>1, <1>3, <1>4, <2>1, <2>3, <3>1, <3>2 DEF Served, Declared, FromSource, Pinned
    <3> QED BY <1>1, <1>2, <3>1, <3>3, NotInstalling, ShrinkStep
  <2> QED BY <2>1, <2>2, <2>3
<1> QED BY <1>5, <1>6, <1>7, <1>8

LEMMA GcRuns ==
    ASSUME OwnFiles, RunInv, Torn \notin Written, OwnFiles', NEW g \in Gcs, Gcs \cap Runs = {},
           T!Scan(g) \/ T!Open(g) \/ T!Unlink(g) \/ T!Rmdir(g)
    PROVE  RunInv'
<1>1. g \in T!Commands /\ T!Meets(g) /\ decl' = decl /\ g \notin Runs
  BY DEF T!Commands, T!Scan, T!Open, T!Unlink, T!Rmdir, T!At
<1>2. cmd \in [T!Commands -> CmdType] /\ cmd[g].pc # "full" /\ dirs \in [T!Places -> Dirs]
  BY DEF OwnFiles, T!Scan, T!Open, T!Unlink, T!Rmdir, T!At
<1>3. cmd'[g].pc # "ready" /\ \A b \in T!Commands : b # g => cmd'[b] = cmd[b]
  <2>1. CASE \E pc \in Phases \ {"ready"} : T!Goto(g, pc)
    BY <1>1, <2>1, GotoOthers
  <2>2. CASE UNCHANGED cmd /\ cmd[g].pc = "empty"
    BY <2>2
  <2>3. CASE \E t : cmd' = [cmd EXCEPT ![g].pc = "remove", ![g].todo = t]
    BY <1>1, <1>2, <2>3 DEF CmdType
  <2>4. CASE \E t : cmd' = [cmd EXCEPT ![g].pc = "remove", ![g].todo = t, ![g].at = None]
    BY <1>1, <1>2, <2>4 DEF CmdType
  <2>5. CASE \E x : cmd' = [cmd EXCEPT ![g].pc = "empty", ![g].at = x, ![g].got = x]
    BY <1>1, <1>2, <2>5 DEF CmdType
  <2>6. CASE cmd' = [cmd EXCEPT ![g].pc = "failed", ![g].at = None]
    BY <1>1, <1>2, <2>6 DEF CmdType
  <2>7. CASE T!Scan(g)
    BY <2>1, <2>3, <2>7 DEF T!Scan, Phases
  <2>8. CASE T!Open(g)
    BY <2>1, <2>5, <2>8 DEF T!Open, Phases
  <2>9. CASE T!Unlink(g)
    BY <2>1, <2>2, <2>9 DEF T!Unlink, Phases, T!At
  <2>10. CASE T!Rmdir(g)
    <3>1. CASE cmd' = [cmd EXCEPT ![g].pc = "remove", ![g].todo = @ \ {cmd[g].got}, ![g].at = None]
      BY <1>1, <1>2, <3>1 DEF CmdType
    <3> QED BY <2>6, <2>10, <3>1 DEF T!Rmdir
  <2> QED BY <2>7, <2>8, <2>9, <2>10
<1>4. \A x \in T!Places : Below(dirs'[x], dirs[x])
  <2>1. CASE dirs' = dirs
    BY <2>1, BelowSelf
  <2>2. ASSUME NEW y, NEW f \in T!Files, dirs[y] # None, dirs' = [dirs EXCEPT ![y][f] = None]
        PROVE  \A x \in T!Places : Below(dirs'[x], dirs[x])
    <3>1. ASSUME NEW x \in T!Places PROVE Below(dirs'[x], dirs[x])
      <4>1. CASE x # y
        BY <1>2, <2>2, <4>1, BelowSelf
      <4>2. CASE x = y
        <5>1. dirs[x] \in [T!Files -> Written \cup {None, Torn}]
          BY <1>2, <2>2, <4>2 DEF Dirs
        <5> QED BY <1>2, <2>2, <4>2, <5>1 DEF Below
      <4> QED BY <4>1, <4>2
    <3> QED BY <3>1
  <2>3. ASSUME NEW y, dirs' = [dirs EXCEPT ![y] = None]
        PROVE  \A x \in T!Places : Below(dirs'[x], dirs[x])
    BY <1>2, <2>3, BelowSelf
  <2> QED BY <2>1, <2>2, <2>3 DEF T!Scan, T!Open, T!Unlink, T!Rmdir
<1> QED BY <1>1, <1>3, <1>4, ShrinkStep

LEMMA FileIsProper ==
    ASSUME decl \in Manifests, NEW p \in Runs, NEW b \in Bytes \cup {None}
    PROVE  /\ Proper(T!File(p, b)) /\ T!File(p, b).by = p /\ T!File(p, b).bytes = b
           /\ T!File(p, b) \in Written
BY FileIsWritten DEF Proper, T!File

\* A run writes into its staged directory.
LEMMA StagedStep ==
    ASSUME OwnFiles, RunInv, Torn \notin Written, OwnFiles', NEW p \in Runs, T!Meets(p), decl' = decl,
           NEW d, dirs' = [dirs EXCEPT ![T!Staged(p)] = d], Named(d), Pinned(p, d),
           cmd'[p].pc \in {"sidecar", "mkdir"}, \A b \in T!Commands : b # p => cmd'[b] = cmd[b]
    PROVE  RunInv'
<1>1. /\ dirs'[T!Staged(p)] = d /\ \A y \in T!Places \ {T!Staged(p)} : dirs'[y] = dirs[y]
      /\ T!Staged(p) \in T!Places /\ p \in T!Commands
  BY PlacesDiffer DEF OwnFiles, T!Commands
<1>2. \A x \in T!Places : Named(dirs'[x])
  BY <1>1 DEF RunInv
<1>3. \A q \in Runs : dirs'[T!Install(q)] = dirs[T!Install(q)] /\ (q # p => dirs'[T!Staged(q)] = dirs[T!Staged(q)])
  BY <1>1, PlacesDiffer
<1>4. \A q \in Runs : Pinned(q, dirs'[T!Staged(q)]) /\ Pinned(q, dirs'[T!Install(q)])
  BY <1>1, <1>3 DEF RunInv
<1>5. Below(dirs'[T!Entry], dirs[T!Entry])
  BY <1>1, PlacesDiffer, BelowSelf
<1>6. Served(p)' /\ InstallThere(p)' /\ cmd'[p].pc # "ready"
  BY Unserved, NotInstalling
<1> QED BY <1>1, <1>2, <1>3, <1>4, <1>5, <1>6, RunStep

LEMMA FetchRuns ==
    ASSUME OwnFiles, RunInv, Torn \notin Written, OwnFiles', NEW p \in Runs, T!Fetch(p)
    PROVE  RunInv'
<1>1. p \in T!Commands /\ T!Meets(p) /\ decl' = decl /\ decl \in Manifests
  BY DEF T!Commands, T!Fetch, T!At, OwnFiles
<1>2. CASE UNCHANGED dirs /\ T!Goto(p, "refused")
  <2>1. cmd'[p].pc = "refused" /\ \A b \in T!Commands : b # p => cmd'[b] = cmd[b]
    BY <1>1, <1>2, GotoOthers
  <2> QED BY <1>1, <1>2, <2>1, BelowSelf, Unserved, NotInstalling, ShrinkStep
<1>3. ASSUME NEW b \in Bytes, decl[p].pin \in {None, b}, T!Goto(p, "sidecar"),
             dirs' = [dirs EXCEPT ![T!Staged(p)] = [T!EmptyDir EXCEPT !.module = T!File(p, b)]]
      PROVE  RunInv'
  <2> DEFINE d == [T!EmptyDir EXCEPT !.module = T!File(p, b)]
  <2>1. d["module"] = T!File(p, b) /\ d["meta"] = None
    BY DEF T!EmptyDir, T!Files
  <2>2. Named(d) /\ Pinned(p, d)
    BY <1>1, <1>3, <2>1, FileIsProper DEF Named, Pinned, T!Files
  <2>3. cmd'[p].pc = "sidecar" /\ \A c \in T!Commands : c # p => cmd'[c] = cmd[c]
    BY <1>1, <1>3, GotoOthers
  <2>4. dirs' = [dirs EXCEPT ![T!Staged(p)] = d]
    BY <1>3
  <2> HIDE DEF d
  <2> QED BY <1>1, <2>2, <2>3, <2>4, StagedStep
<1> QED BY <1>2, <1>3 DEF T!Fetch

LEMMA WriteSidecarRuns ==
    ASSUME OwnFiles, RunInv, Torn \notin Written, OwnFiles', NEW p \in Runs, T!WriteSidecar(p)
    PROVE  RunInv'
<1> DEFINE old == IF dirs[T!Staged(p)] = None THEN T!EmptyDir ELSE dirs[T!Staged(p)]
           d == [old EXCEPT !.meta = T!File(p, None)]
<1>1. /\ p \in T!Commands /\ T!Meets(p) /\ decl' = decl /\ decl \in Manifests /\ T!Goto(p, "mkdir")
      /\ dirs' = [dirs EXCEPT ![T!Staged(p)] = d]
  BY DEF T!Commands, T!WriteSidecar, T!At, OwnFiles
<1>2. /\ DOMAIN old = T!Files
      /\ \A f \in T!Files : old[f] \in {None, Torn} \/ Proper(old[f])
      /\ old.module \notin {None, Torn} => decl[p].pin \in {None, old.module.bytes}
  <2>1. CASE dirs[T!Staged(p)] = None
    BY <2>1 DEF T!EmptyDir, T!Files
  <2>2. CASE dirs[T!Staged(p)] # None
    <3>1. Named(dirs[T!Staged(p)]) /\ Pinned(p, dirs[T!Staged(p)]) /\ dirs[T!Staged(p)] \in Dirs
      BY PlacesDiffer DEF RunInv, OwnFiles
    <3> QED BY <2>2, <3>1 DEF Named, Pinned, Dirs
  <2> QED BY <2>1, <2>2
<1> HIDE DEF old
<1>4. d["meta"] = T!File(p, None) /\ d["module"] = old["module"]
  BY <1>2 DEF T!Files
<1>5. Named(d) /\ Pinned(p, d)
  BY <1>1, <1>2, <1>4, FileIsProper DEF Named, Pinned, T!Files
<1>6. cmd'[p].pc = "mkdir" /\ \A c \in T!Commands : c # p => cmd'[c] = cmd[c]
  BY <1>1, GotoOthers
<1> HIDE DEF d
<1> QED BY <1>1, <1>5, <1>6, StagedStep

LEMMA MakeInstallRuns ==
    ASSUME OwnFiles, RunInv, Torn \notin Written, OwnFiles', NEW p \in Runs, T!MakeInstall(p),
           None \notin [T!Files -> Written \cup {None, Torn}]
    PROVE  RunInv'
<1>1. p \in T!Commands /\ T!Meets(p) /\ decl' = decl
  BY DEF T!Commands, T!MakeInstall, T!At
<1>2. CASE T!Goto(p, "failed") /\ UNCHANGED dirs
  <2>1. cmd'[p].pc = "failed" /\ \A b \in T!Commands : b # p => cmd'[b] = cmd[b]
    BY <1>1, <1>2, GotoOthers
  <2> QED BY <1>1, <1>2, <2>1, BelowSelf, Unserved, NotInstalling, ShrinkStep
<1>3. CASE dirs[T!Staged(p)] # None
  <2>1. /\ dirs' = [dirs EXCEPT ![T!Install(p)] = T!EmptyDir]
        /\ cmd' = [cmd EXCEPT ![p].pc = "copy",
                              ![p].todo = {f \in T!Files : dirs[T!Staged(p)][f] # None}]
    BY <1>3 DEF T!MakeInstall
  <2>2. cmd'[p].pc = "copy" /\ \A b \in T!Commands : b # p => cmd'[b] = cmd[b]
    BY <1>1, <2>1 DEF OwnFiles, CmdType
  <2>3. dirs'[T!Install(p)] = T!EmptyDir /\ \A y \in T!Places \ {T!Install(p)} : dirs'[y] = dirs[y]
    BY <2>1, PlacesDiffer DEF OwnFiles
  <2>4. \A y \in T!Places : Below(dirs'[y], dirs[y])
    BY <2>3, BelowSelf
  <2>5. InstallThere(p)'
    BY <2>3 DEF InstallThere, T!Install, T!EmptyDir
  <2>6. \A q \in Runs : q # p => dirs'[T!Install(q)] = dirs[T!Install(q)]
    BY <2>3, PlacesDiffer
  <2> QED BY <1>1, <2>2, <2>4, <2>5, <2>6, Unserved, ShrinkStep
<1> QED BY <1>2, <1>3 DEF T!MakeInstall

LEMMA CopyRuns ==
    ASSUME OwnFiles, RunInv, Torn \notin Written, OwnFiles', NEW p \in Runs, T!Copy(p),
           None \notin [T!Files -> Written \cup {None, Torn}]
    PROVE  RunInv'
<1> DEFINE f == IF "meta" \in cmd[p].todo THEN "meta" ELSE "module"
           from == dirs[T!Staged(p)]
           to == dirs[T!Install(p)]
           ok == from # None /\ to # None /\ from[f] # None
<1>1. /\ decl' = decl /\ cmd[p].pc = "copy" /\ p \in T!Commands /\ f \in T!Files /\ T!Meets(p)
      /\ dirs \in [T!Places -> Dirs] /\ cmd \in [T!Commands -> CmdType]
      /\ {T!Staged(p), T!Install(p)} \subseteq T!Places /\ T!Staged(p) # T!Install(p)
  BY PlacesDiffer DEF T!Copy, T!At, T!Commands, T!Files, OwnFiles
<1> HIDE DEF f
<1>2. CASE /\ ok /\ dirs' = [dirs EXCEPT ![T!Install(p)][f] = from[f]]
           /\ cmd' = [cmd EXCEPT ![p].todo = @ \ {f}]
  <2> DEFINE d == [to EXCEPT ![f] = from[f]]
  <2>1. cmd'[p].pc = "copy" /\ \A b \in T!Commands : b # p => cmd'[b] = cmd[b]
    BY <1>1, <1>2 DEF CmdType
  <2>2. dirs'[T!Install(p)] = d /\ \A y \in T!Places \ {T!Install(p)} : dirs'[y] = dirs[y]
    BY <1>1, <1>2
  <2>3. Named(to) /\ Named(from) /\ Pinned(p, to) /\ Pinned(p, from)
    BY <1>1 DEF RunInv
  <2>4. d[f] = from[f] /\ (\A g \in T!Files : g # f => d[g] = to[g])
    BY <1>1, <1>2 DEF Dirs
  <2>5. Named(d) /\ Pinned(p, d)
    BY <1>1, <1>2, <2>3, <2>4 DEF Named, Pinned, T!Files
  <2>6. d # None
    BY <1>1, <1>2 DEF Dirs
  <2>7. InstallThere(p)'
    BY <2>2, <2>6 DEF InstallThere, T!Install
  <2> HIDE DEF d
  <2>8. \A x \in T!Places : Named(dirs'[x])
    BY <2>2, <2>5 DEF RunInv
  <2>9. \A q \in Runs : /\ Pinned(q, dirs'[T!Staged(q)]) /\ Pinned(q, dirs'[T!Install(q)])
                        /\ q # p => dirs'[T!Install(q)] = dirs[T!Install(q)]
    BY <2>2, <2>5, PlacesDiffer DEF RunInv
  <2>10. Below(dirs'[T!Entry], dirs[T!Entry])
    BY <2>2, PlacesDiffer, BelowSelf
  <2> QED BY <1>1, <2>1, <2>7, <2>8, <2>9, <2>10, Unserved, RunStep
<1>3. CASE /\ ok /\ dirs' = [dirs EXCEPT ![T!Install(p)][f] = Torn, ![T!Staged(p)] = None]
           /\ T!Goto(p, "full")
  <2>1. cmd'[p].pc = "full" /\ \A b \in T!Commands : b # p => cmd'[b] = cmd[b]
    BY <1>1, <1>3, GotoOthers
  <2>2. /\ dirs'[T!Staged(p)] = None /\ dirs'[T!Install(p)] = [to EXCEPT ![f] = Torn]
        /\ \A y \in T!Places \ {T!Install(p), T!Staged(p)} : dirs'[y] = dirs[y]
    BY <1>1, <1>3
  <2>3. Below([to EXCEPT ![f] = Torn], to)
    BY <1>1, <1>3 DEF Below, Dirs
  <2>4. \A y \in T!Places : Below(dirs'[y], dirs[y])
    BY <2>2, <2>3, BelowSelf
  <2>5. \A q \in Runs : q # p => dirs'[T!Install(q)] = dirs[T!Install(q)]
    BY <2>2, PlacesDiffer
  <2> QED BY <1>1, <2>1, <2>4, <2>5, Unserved, NotInstalling, ShrinkStep
<1>4. CASE dirs' = [dirs EXCEPT ![T!Staged(p)] = None] /\ T!Goto(p, "failed")
  <2>1. cmd'[p].pc = "failed" /\ \A b \in T!Commands : b # p => cmd'[b] = cmd[b]
    BY <1>1, <1>4, GotoOthers
  <2>2. dirs'[T!Staged(p)] = None /\ \A y \in T!Places \ {T!Staged(p)} : dirs'[y] = dirs[y]
    BY <1>1, <1>4
  <2>3. \A y \in T!Places : Below(dirs'[y], dirs[y])
    BY <2>2, BelowSelf
  <2>4. \A q \in Runs : q # p => dirs'[T!Install(q)] = dirs[T!Install(q)]
    BY <2>2, PlacesDiffer
  <2> QED BY <1>1, <2>1, <2>3, <2>4, Unserved, NotInstalling, ShrinkStep
<1> QED BY <1>2, <1>3, <1>4 DEF T!Copy, f

LEMMA MoveAwayRuns ==
    ASSUME OwnFiles, RunInv, Torn \notin Written, OwnFiles', NEW p \in Runs, T!MoveAway(p)
    PROVE  RunInv'
<1>1. /\ decl' = decl /\ cmd[p].pc = "backup" /\ p \in T!Commands /\ T!Meets(p)
      /\ dirs \in [T!Places -> Dirs] /\ cmd \in [T!Commands -> CmdType]
  BY DEF T!MoveAway, T!At, T!Commands, OwnFiles
<1>2. CASE dirs' = [dirs EXCEPT ![T!Staged(p)] = None] /\ T!Goto(p, "failed")
  <2>1. cmd'[p].pc = "failed" /\ \A b \in T!Commands : b # p => cmd'[b] = cmd[b]
    BY <1>1, <1>2, GotoOthers
  <2>2. dirs'[T!Staged(p)] = None /\ \A y \in T!Places \ {T!Staged(p)} : dirs'[y] = dirs[y]
    BY <1>1, <1>2, PlacesDiffer
  <2>3. \A y \in T!Places : Below(dirs'[y], dirs[y])
    BY <2>2, BelowSelf
  <2>4. \A q \in Runs : q # p => dirs'[T!Install(q)] = dirs[T!Install(q)]
    BY <2>2, PlacesDiffer
  <2> QED BY <1>1, <2>1, <2>3, <2>4, Unserved, NotInstalling, ShrinkStep
<1>3. CASE /\ dirs' = [dirs EXCEPT ![T!Backup(p)] = dirs[T!Entry], ![T!Entry] = None]
           /\ cmd' = [T!Moved(T!Entry, T!Backup(p)) EXCEPT ![p].pc = "install", ![p].got = T!Backup(p)]
  <2>1. /\ cmd'[p].pc = "install"
        /\ \A b \in T!Commands : b # p => cmd'[b].pc = cmd[b].pc /\ cmd'[b].got = cmd[b].got
    BY <1>1, <1>3 DEF T!Moved, CmdType
  <2>2. /\ dirs'[T!Entry] = None /\ dirs'[T!Backup(p)] = dirs[T!Entry]
        /\ \A y \in T!Places \ {T!Backup(p), T!Entry} : dirs'[y] = dirs[y]
    BY <1>1, <1>3, PlacesDiffer
  <2>3. \A x \in T!Places : Named(dirs'[x])
    <3>1. Named(dirs[T!Entry]) /\ Named(None)
      BY PlacesDiffer DEF RunInv, Named
    <3> QED BY <2>2, <3>1 DEF RunInv
  <2>4. \A q \in Runs : dirs'[T!Install(q)] = dirs[T!Install(q)] /\ dirs'[T!Staged(q)] = dirs[T!Staged(q)]
    BY <2>2, PlacesDiffer
  <2>5. Below(dirs'[T!Entry], dirs[T!Entry])
    BY <2>2, BelowSelf
  <2>6. InstallThere(p)'
    <3>1. met[p] \subseteq met'[p]
      BY <1>1, MetGrows DEF RunInv
    <3> QED BY <1>1, <2>4, <3>1 DEF RunInv, InstallThere, T!Install
  <2> QED BY <1>1, <2>1, <2>3, <2>4, <2>5, <2>6, Unserved, RunStep DEF RunInv
<1> QED BY <1>2, <1>3 DEF T!MoveAway

LEMMA MoveInRuns ==
    ASSUME OwnFiles, RunInv, Torn \notin Written, OwnFiles', NEW p \in Runs, T!MoveIn(p)
    PROVE  RunInv'
<1> DEFINE new == dirs[T!Install(p)]
           old == dirs[T!Backup(p)]
           free == dirs[T!Entry] = None \/ T!IsEmpty(dirs[T!Entry])
           restored == old # None /\ free
<1>1. /\ decl' = decl /\ cmd[p].pc = "install" /\ p \in T!Commands /\ T!Meets(p)
      /\ dirs \in [T!Places -> Dirs] /\ cmd \in [T!Commands -> CmdType]
      /\ {T!Entry, T!Staged(p), T!Install(p), T!Backup(p)} \subseteq T!Places
  BY PlacesDiffer DEF T!MoveIn, T!At, T!Commands, OwnFiles
<1>2. /\ \A b \in T!Commands : met[b] \subseteq met'[b]
      /\ \A b \in T!Commands : b # p /\ T!Active(b) => p \in met'[b]
  BY <1>1, MetGrows DEF RunInv
<1>3. CASE new # None /\ free
  <2>1. /\ dirs' = [dirs EXCEPT ![T!Entry] = new, ![T!Install(p)] = None]
        /\ cmd' = [T!Moved(T!Install(p), T!Entry) EXCEPT ![p].pc = "drop"]
    BY <1>3 DEF T!MoveIn
  <2>2. /\ cmd'[p].pc = "drop"
        /\ \A b \in T!Commands : b # p => cmd'[b].pc = cmd[b].pc /\ cmd'[b].got = cmd[b].got
    BY <1>1, <2>1 DEF T!Moved, CmdType
  <2>3. /\ dirs'[T!Entry] = new /\ dirs'[T!Install(p)] = None
        /\ \A y \in T!Places \ {T!Install(p), T!Entry} : dirs'[y] = dirs[y]
    BY <1>1, <2>1, PlacesDiffer
  <2>4. Named(new) /\ Named(None) /\ Pinned(p, new) /\ \A q : Pinned(q, None)
    BY <1>1 DEF RunInv, Named, Pinned
  <2>5. \A x \in T!Places : Named(dirs'[x])
    BY <2>3, <2>4 DEF RunInv
  <2>6. \A q \in Runs : /\ Pinned(q, dirs'[T!Staged(q)]) /\ Pinned(q, dirs'[T!Install(q)])
                        /\ q # p => dirs'[T!Install(q)] = dirs[T!Install(q)]
    BY <2>3, <2>4, PlacesDiffer DEF RunInv
  <2>7. new.module # None =>
            new.module \in Written /\ new.module.source = decl[p].source
    <3>1. Own(new, p)
      BY <1>1 DEF OwnFiles
    <3>2. new.module # None => new.module \in Written /\ new.module.by = p
      BY <1>3, <3>1 DEF Own, T!Files
    <3>3. new.module \in {None, Torn} \/ Proper(new.module)
      BY <1>3, <2>4 DEF Named, T!Files
    <3> HIDE DEF new
    <3> QED BY <3>2, <3>3 DEF Proper
  <2>8. ASSUME NEW q \in Runs, decl[q] = decl[p] PROVE Declared(q)'
    <3>1. FromSource(q)'
      BY <1>1, <2>3, <2>7, <2>8 DEF FromSource, T!Entry
    <3>2. Pinned(q, dirs[T!Entry])'
      BY <1>1, <2>3, <2>4, <2>8 DEF Pinned, T!Entry
    <3> QED BY <3>1, <3>2 DEF Declared
  <2>9. Served(p)'
    BY <2>2, <2>8 DEF Served
  <2>10. ASSUME NEW q \in Runs, q # p, T!Active(q), T!Undisturbed(q)' PROVE Declared(q)'
    <3>1. p \in met'[q] \cap Runs
      BY <1>2, <2>10 DEF T!Commands
    <3>2. decl[q] = decl[p]
      BY <1>1, <2>10, <3>1 DEF T!Undisturbed
    <3> QED BY <2>8, <3>2
  <2> QED BY <1>1, <2>2, <2>5, <2>6, <2>9, <2>10, NotInstalling, RunStep
<1>4. CASE ~ (new # None /\ free)
  <2>1. /\ dirs' = [dirs EXCEPT ![T!Install(p)] = None, ![T!Staged(p)] = None,
                                ![T!Entry] = IF restored THEN old ELSE @,
                                ![T!Backup(p)] = IF restored THEN None ELSE @]
        /\ cmd' = [(IF restored THEN T!Moved(T!Backup(p), T!Entry) ELSE cmd) EXCEPT ![p].pc = "failed"]
    BY <1>4 DEF T!MoveIn
  <2>2. /\ cmd'[p].pc = "failed"
        /\ \A b \in T!Commands : b # p => cmd'[b].pc = cmd[b].pc /\ cmd'[b].got = cmd[b].got
    <3>1. CASE restored
      BY <1>1, <2>1, <3>1 DEF T!Moved, CmdType
    <3>2. CASE ~ restored
      BY <1>1, <2>1, <3>2 DEF CmdType
    <3> QED BY <3>1, <3>2
  <2>3. /\ dirs'[T!Install(p)] = None /\ dirs'[T!Staged(p)] = None
        /\ dirs'[T!Entry] = IF restored THEN old ELSE dirs[T!Entry]
        /\ dirs'[T!Backup(p)] = IF restored THEN None ELSE old
        /\ \A y \in T!Places \ {T!Install(p), T!Staged(p), T!Backup(p), T!Entry} : dirs'[y] = dirs[y]
    BY <1>1, <2>1, PlacesDiffer
  <2>4. Named(old) /\ Named(dirs[T!Entry]) /\ Named(None) /\ \A q : Pinned(q, None)
    BY <1>1 DEF RunInv, Named, Pinned
  <2>5. \A x \in T!Places : Named(dirs'[x])
    BY <2>3, <2>4 DEF RunInv
  <2>6. \A q \in Runs : /\ Pinned(q, dirs'[T!Staged(q)]) /\ Pinned(q, dirs'[T!Install(q)])
                        /\ q # p => dirs'[T!Install(q)] = dirs[T!Install(q)]
    BY <2>3, <2>4, PlacesDiffer DEF RunInv
  <2>7. ASSUME NEW q \in Runs, q # p, T!Active(q), T!Undisturbed(q)'
        PROVE  Below(dirs'[T!Entry], dirs[T!Entry])
    <3>1. p \in met'[q] \cap Runs
      BY <1>2, <2>7 DEF T!Commands
    <3>2. met[p] \cap Gcs = {}
      BY <1>1, <1>2, <2>7, <3>1 DEF T!Undisturbed
    <3>3. new # None
      BY <1>1, <3>2 DEF RunInv, InstallThere
    <3>4. ~ restored
      BY <1>4, <3>3
    <3> QED BY <2>3, <3>4, BelowSelf
  <2> QED BY <1>1, <2>2, <2>5, <2>6, <2>7, Unserved, NotInstalling, RunStep
<1> QED BY <1>3, <1>4

LEMMA DropRuns ==
    ASSUME OwnFiles, RunInv, Torn \notin Written, OwnFiles', NEW p \in Runs, T!Drop(p)
    PROVE  RunInv'
<1>1. /\ decl' = decl /\ cmd[p].pc = "drop" /\ p \in T!Commands /\ T!Meets(p)
      /\ dirs \in [T!Places -> Dirs] /\ cmd \in [T!Commands -> CmdType]
      /\ {T!Entry, T!Staged(p), T!Install(p), T!Backup(p)} \subseteq T!Places
      /\ dirs' = [dirs EXCEPT ![T!Backup(p)] = None, ![T!Staged(p)] = None]
      /\ T!Goto(p, "resolved") \/ T!Goto(p, "failed")
  BY PlacesDiffer DEF T!Drop, T!At, T!Commands, OwnFiles
<1>2. cmd'[p].pc \in {"resolved", "failed"} /\ \A b \in T!Commands : b # p => cmd'[b] = cmd[b]
  BY <1>1, GotoOthers
<1>3. /\ dirs'[T!Staged(p)] = None /\ dirs'[T!Backup(p)] = None
      /\ \A y \in T!Places \ {T!Staged(p), T!Backup(p)} : dirs'[y] = dirs[y]
  BY <1>1, PlacesDiffer
<1>4. \A y \in T!Places : Below(dirs'[y], dirs[y])
  BY <1>3, BelowSelf
<1>5. dirs'[T!Entry] = dirs[T!Entry] /\ \A q \in Runs : dirs'[T!Install(q)] = dirs[T!Install(q)]
  BY <1>3, PlacesDiffer
<1>6. T!Undisturbed(p)' => T!Undisturbed(p)
  BY <1>1, MetGrows DEF RunInv
<1>7. T!Undisturbed(p) => Declared(p)
  BY <1>1 DEF RunInv, Served
<1>8. Declared(p) => Declared(p)'
  BY <1>1, <1>5 DEF Declared, FromSource, Pinned, T!Entry
<1>9. Served(p)'
  BY <1>2, <1>6, <1>7, <1>8 DEF Served
<1> QED BY <1>1, <1>2, <1>4, <1>5, <1>9, NotInstalling, ShrinkStep

LEMMA KilledRuns ==
    ASSUME OwnFiles, RunInv, Torn \notin Written, OwnFiles', NEW c \in T!Commands, T!Killed(c),
           Gcs \cap Runs = {}
    PROVE  RunInv'
<1>1. /\ decl' = decl /\ T!Meets(c)
      /\ dirs \in [T!Places -> Dirs] /\ cmd \in [T!Commands -> CmdType]
      /\ cmd' = [cmd EXCEPT ![c].pc = "killed", ![c].at = None]
  BY DEF T!Killed, OwnFiles
<1>2. /\ cmd'[c].pc = "killed" /\ \A b \in T!Commands : b # c => cmd'[b] = cmd[b]
  BY <1>1 DEF CmdType
<1>3. CASE dirs' = dirs
  BY <1>1, <1>2, <1>3, BelowSelf, Unserved, NotInstalling, ShrinkStep
<1>4. CASE dirs' = [dirs EXCEPT ![T!Staged(c)] = T!EmptyDir]
  <2>1. \A y \in T!Places : dirs'[y] = dirs[y] \/ (y = T!Staged(c) /\ dirs'[y] = T!EmptyDir)
    BY <1>1, <1>4
  <2>2. \A y \in T!Places : Below(dirs'[y], dirs[y])
    BY <2>1, BelowSelf
  <2>3. \A p \in Runs : dirs'[T!Install(p)] = dirs[T!Install(p)]
    BY <2>1, PlacesDiffer
  <2> QED BY <1>1, <1>2, <2>2, <2>3, Unserved, NotInstalling, ShrinkStep
<1>5. ASSUME NEW torn \in SUBSET T!Files, dirs[T!Install(c)] # None,
             dirs' = [dirs EXCEPT ![T!Install(c)] =
                        [f \in T!Files |-> IF f \in torn THEN Torn ELSE dirs[T!Install(c)][f]]]
      PROVE  RunInv'
  <2>1. \A y \in T!Places : y # T!Install(c) => dirs'[y] = dirs[y]
    BY <1>1, <1>5
  <2>2. T!Install(c) \in T!Places => Below(dirs'[T!Install(c)], dirs[T!Install(c)])
    BY <1>1, <1>5 DEF Below
  <2>3. \A y \in T!Places : Below(dirs'[y], dirs[y])
    BY <2>1, <2>2, BelowSelf
  <2>4. \A p \in Runs : p # c => dirs'[T!Install(p)] = dirs[T!Install(p)]
    BY <2>1, PlacesDiffer
  <2> QED BY <1>1, <1>2, <2>3, <2>4, Unserved, NotInstalling, ShrinkStep
<1>6. CASE /\ dirs[T!Install(c)] # None
           /\ dirs' = [dirs EXCEPT ![T!Install(c)] =
                [f \in T!Files |-> IF f \in cmd[c].todo /\ (f = "meta" \/ "meta" \notin cmd[c].todo)
                                 THEN Torn ELSE @[f]]]
  <2> DEFINE torn == {f \in T!Files : f \in cmd[c].todo /\ (f = "meta" \/ "meta" \notin cmd[c].todo)}
  <2>1. dirs' = [dirs EXCEPT ![T!Install(c)] =
                        [f \in T!Files |-> IF f \in torn THEN Torn ELSE dirs[T!Install(c)][f]]]
    BY <1>6
  <2>2. torn \in SUBSET T!Files
    OBVIOUS
  <2> HIDE DEF torn
  <2>3. dirs[T!Install(c)] # None
    BY <1>6
  <2> QED BY <1>5, <2>1, <2>2, <2>3
<1> QED BY <1>3, <1>4, <1>6 DEF T!Killed

\* Nobody is under way, and no run has yet to check or load what is in the entry.
LEMMA CorruptRuns ==
    ASSUME OwnFiles, RunInv, T!Corrupt, Torn \notin Written
    PROVE  RunInv'
<1>1. /\ \A c \in T!Commands : ~ T!Active(c)
      /\ dirs[T!Entry] # None /\ dirs[T!Entry].module # None
      /\ dirs' = [dirs EXCEPT ![T!Entry].module.bytes = Junk]
      /\ decl' = decl /\ cmd' = cmd /\ met' = met /\ T!Entry \in T!Places
  BY PlacesDiffer DEF T!Corrupt
<1>2. dirs \in [T!Places -> Dirs] /\ Named(dirs[T!Entry]) /\ Whole(dirs[T!Entry])
  BY <1>1 DEF OwnFiles, RunInv
<1>3. dirs[T!Entry].module \in Written /\ Proper(dirs[T!Entry].module)
  <2>1. dirs[T!Entry].module \in Written
    BY <1>1, <1>2 DEF Whole, Own, T!Files
  <2> QED BY <1>1, <1>2, <2>1 DEF Named, T!Files
<1> DEFINE m == [dirs[T!Entry].module EXCEPT !.bytes = Junk]
           d == [dirs[T!Entry] EXCEPT !.module = m]
<1>4. dirs' = [dirs EXCEPT ![T!Entry] = d]
  BY <1>1
<1>5. Proper(m)
  BY <1>3 DEF Proper, Written
<1>6. Named(d)
  <2> HIDE DEF m
  <2>1. dirs[T!Entry] \in [T!Files -> Written \cup {None, Torn}]
    BY <1>1, <1>2 DEF Dirs
  <2>2. d["module"] = m /\ d["meta"] = dirs[T!Entry]["meta"]
    BY <2>1 DEF T!Files
  <2> QED BY <1>1, <1>2, <1>5, <2>2 DEF Named, T!Files
<1> HIDE DEF d
<1>7. \A y \in T!Places : y # T!Entry => dirs'[y] = dirs[y]
  BY <1>2, <1>4
<1>8. \A x \in T!Places : Named(dirs'[x])
  BY <1>1, <1>2, <1>4, <1>6, <1>7 DEF RunInv
<1>9. ASSUME NEW x \in T!Places PROVE Named(dirs[x])'
  BY <1>1, <1>8 DEF Named, Proper
<1>10. ASSUME NEW p \in Runs
       PROVE  /\ Pinned(p, dirs[T!Staged(p)])' /\ Pinned(p, dirs[T!Install(p)])'
              /\ Served(p)' /\ InstallThere(p)'
  <2>1. dirs'[T!Staged(p)] = dirs[T!Staged(p)] /\ dirs'[T!Install(p)] = dirs[T!Install(p)]
    BY <1>7, PlacesDiffer
  <2>2. Pinned(p, dirs[T!Staged(p)])' /\ Pinned(p, dirs[T!Install(p)])'
    BY <1>1, <2>1 DEF RunInv, Pinned, T!Staged, T!Install
  <2>3. InstallThere(p)'
    BY <1>1, <2>1 DEF RunInv, InstallThere, T!Install
  <2>4. cmd[p].pc \notin {"digest", "drop", "resolved"}
    BY <1>1 DEF T!Active, T!Commands
  <2>5. Served(p)'
    BY <1>1, <2>4 DEF RunInv, Served, T!Undisturbed
  <2> QED BY <2>2, <2>3, <2>5
<1>11. MetInv'
  BY <1>1 DEF RunInv, MetInv
<1> QED BY <1>9, <1>10, <1>11 DEF RunInv

LEMMA RunInit == T!Init => RunInv
<1> SUFFICES ASSUME T!Init PROVE RunInv
  OBVIOUS
<1>1. /\ \A x \in T!Places : dirs[x] = None
      /\ \A c \in T!Commands : cmd[c].pc = "ready" /\ met[c] = {}
      /\ met \in [T!Commands -> SUBSET T!Commands]
  BY DEF T!Init, T!Ready
<1>2. MetInv
  BY <1>1 DEF MetInv
<1>3. \A x \in T!Places : Named(dirs[x])
  BY <1>1 DEF Named
<1>4. \A p \in Runs : Pinned(p, dirs[T!Staged(p)]) /\ Pinned(p, dirs[T!Install(p)])
  BY <1>1, PlacesDiffer DEF Pinned
<1>5. \A p \in Runs : Served(p) /\ InstallThere(p)
  BY <1>1 DEF Served, InstallThere, T!Commands
<1> QED BY <1>2, <1>3, <1>4, <1>5 DEF RunInv

LEMMA RunsStutter ==
    ASSUME RunInv, UNCHANGED T!cacheVars
    PROVE  RunInv'
<1>1. dirs' = dirs /\ cmd' = cmd /\ met' = met /\ decl' = decl
  BY DEF T!cacheVars
<1>2. \A x \in T!Places : Named(dirs[x])'
  BY <1>1 DEF RunInv, Named, Proper
<1>3. ASSUME NEW p \in Runs
      PROVE  /\ Pinned(p, dirs[T!Staged(p)])' /\ Pinned(p, dirs[T!Install(p)])'
             /\ Served(p)' /\ InstallThere(p)'
  <2>1. Pinned(p, dirs[T!Staged(p)])' /\ Pinned(p, dirs[T!Install(p)])' /\ InstallThere(p)'
    BY <1>1 DEF RunInv, Pinned, T!Staged, T!Install, InstallThere
  <2>2. Declared(p) = Declared(p)' /\ FromSource(p) = FromSource(p)'
    BY <1>1 DEF Declared, FromSource, Pinned, T!Entry
  <2>3. Served(p)'
    BY <1>1, <2>2 DEF RunInv, Served, T!Undisturbed
  <2> QED BY <2>1, <2>3
<1>4. MetInv'
  BY <1>1 DEF RunInv, MetInv
<1> QED BY <1>2, <1>3, <1>4 DEF RunInv

LEMMA RunsKept ==
    ASSUME OwnFiles, RunInv, OwnFiles', [T!Next]_(T!cacheVars), Gcs \cap Runs = {},
           Torn \notin Written, None \notin Written, None \notin [T!Files -> Written \cup {None, Torn}]
    PROVE  RunInv'
<1>1. CASE UNCHANGED T!cacheVars
  BY <1>1, RunsStutter
<1>2. CASE \E p \in Runs :
        \/ T!Status(p) \/ T!Digest(p) \/ T!Fetch(p) \/ T!WriteSidecar(p) \/ T!MakeInstall(p)
        \/ T!Copy(p) \/ T!Inspect(p) \/ T!MoveAway(p) \/ T!MoveIn(p) \/ T!Drop(p) \/ T!Load(p)
  BY <1>2, QuietRuns, FetchRuns, WriteSidecarRuns, MakeInstallRuns, CopyRuns, MoveAwayRuns,
     MoveInRuns, DropRuns
<1>3. CASE \E g \in Gcs : T!Scan(g) \/ T!Open(g) \/ T!Unlink(g) \/ T!Rmdir(g)
  BY <1>3, GcRuns
<1>4. CASE \E c \in T!Commands : T!Killed(c)
  BY <1>4, KilledRuns
<1>5. CASE T!Corrupt
  BY <1>5, CorruptRuns
<1> QED BY <1>1, <1>2, <1>3, <1>4, <1>5 DEF T!Next

LEMMA LoadedAreDeclared == RunInv => T!RunsDeclared
BY DEF RunInv, Served, T!RunsDeclared

\* What a directory holds is no file, and a file is neither cut off nor missing.
FilesAreReal ==
    /\ None # Torn /\ {None, Torn} \cap Written = {}
    /\ None \notin [T!Files -> Written \cup {None, Torn}]

(***************************************************************************)
(* However many resolves, collections and kills there are and however      *)
(* their steps interleave, the files of a cache entry come from one fetch  *)
(* and none is cut off: a run installs into a directory of its own and     *)
(* only a whole one is renamed into place.                                 *)
(***************************************************************************)
THEOREM EntriesAreWhole ==
    ASSUME FilesAreReal
    PROVE  PartsSpec => [](part = "cache" => T!NeverMixed)
<1> DEFINE Inv == part = "cache" => OwnFiles
<1>1. PartsInit => Inv
  BY PartInit, InitOwn
<1>2. Inv /\ [PartsNext]_allVars => Inv'
  BY PartStep, OwnKept
<1>3. Inv => (part = "cache" => T!NeverMixed)
  BY OwnIsUnmixed DEF FilesAreReal
<1> QED BY <1>1, <1>2, <1>3, PTL DEF PartsSpec

(***************************************************************************)
(* What a run loads is of the source its manifest declares and has the     *)
(* digest it pins, if the runs it met declare the same and none of those   *)
(* met a collection, whatever else interleaves: the status check and the   *)
(* digest check are made of an entry that may be another one by the time   *)
(* the host loads it.                                                      *)
(***************************************************************************)
THEOREM LoadsAreDeclared ==
    ASSUME FilesAreReal, Gcs \cap Runs = {}
    PROVE  PartsSpec => []RunsDeclared
<1> DEFINE Inv == part = "cache" => OwnFiles /\ RunInv
<1>1. PartsInit => Inv
  BY PartInit, InitOwn, RunInit
<1>2. Inv /\ [PartsNext]_allVars => Inv'
  <2> SUFFICES ASSUME Inv, [PartsNext]_allVars, part' = "cache" PROVE OwnFiles' /\ RunInv'
    OBVIOUS
  <2>1. OwnFiles /\ RunInv /\ [T!Next]_(T!cacheVars)
    BY PartStep
  <2>2. OwnFiles'
    BY <2>1, OwnKept
  <2> QED BY <2>1, <2>2, RunsKept DEF FilesAreReal
<1>3. Inv => RunsDeclared
  BY LoadedAreDeclared DEF RunsDeclared
<1> QED BY <1>1, <1>2, <1>3, PTL DEF PartsSpec

-----------------------------------------------------------------------------
(***************************************************************************)
(* A command that no other is beside.                                      *)
(***************************************************************************)
Holds(x) == dirs[x] # None /\ dirs[x].module # None

\* A run finds what it has left.
RunAlone(p) ==
    /\ cmd[p].pc # "failed"
    /\ cmd[p].pc \in {"digest", "drop", "resolved"} => Holds(T!Entry)
    /\ cmd[p].pc \in {"sidecar", "mkdir"} => Holds(T!Staged(p))
    /\ cmd[p].pc = "copy" =>
         /\ dirs[T!Staged(p)] # None /\ dirs[T!Install(p)] # None /\ cmd[p].todo \subseteq T!Files
         /\ \A f \in cmd[p].todo : dirs[T!Staged(p)][f] # None
         /\ "module" \in cmd[p].todo \/ dirs[T!Install(p)].module # None
    /\ cmd[p].pc \in {"install", "backup"} => Holds(T!Install(p))
    /\ cmd[p].pc = "backup" => dirs[T!Entry] # None
    /\ cmd[p].pc = "install" => dirs[T!Entry] = None
    /\ cmd[p].pc \in {"install", "drop"} /\ cmd[p].got # None => dirs[T!Backup(p)] # None

\* A sidecar that was cut off, where no collection will remove it.
Spares(g, x) ==
    T!Active(g) => /\ x \notin cmd[g].todo /\ x # cmd[g].at
                   /\ cmd[g].pc \in {"empty", "rmdir"} => x # cmd[g].got
Lost(r) ==
    /\ cmd[r].pc \in {"full", "killed"}
    /\ dirs[T!Install(r)] # None /\ dirs[T!Install(r)].meta = Torn
    /\ \A g \in Gcs : Spares(g, T!Install(r))

\* A collection finds what it has seen, and was refused for what stays.
GcAlone(g) ==
    /\ cmd[g].pc # "failed"
    /\ cmd[g].pc \in {"remove", "empty", "rmdir"} => \A x \in cmd[g].todo : x \in T!Places /\ dirs[x] # None
    /\ cmd[g].pc \in {"empty", "rmdir"} => cmd[g].at = cmd[g].got /\ cmd[g].at \in cmd[g].todo
    /\ cmd[g].pc = "rmdir" => T!IsEmpty(dirs[cmd[g].at])
    /\ cmd[g].pc = "refused" => \E r \in Runs : Lost(r)

\* Only a collection that is removing has a directory open.
OpenBy(c) == cmd[c].at # None => c \in Gcs /\ cmd[c].pc \in {"empty", "rmdir"}
GotYet(p) == cmd[p].pc \in {"ready", "digest", "stage", "sidecar", "mkdir", "copy", "backup"} => cmd[p].got = None

AloneInv ==
    /\ \A c \in T!Commands : /\ OpenBy(c)
                             /\ T!Active(c) /\ met[c] = {} => \A b \in T!Commands \ {c} : ~ T!Active(b)
    /\ \A p \in Runs : GotYet(p) /\ (met[p] = {} => RunAlone(p))
    /\ \A g \in Gcs : met[g] = {} => GcAlone(g)

LEMMA AloneInit == T!Init => AloneInv
BY PlacesDiffer DEF T!Init, AloneInv, OpenBy, T!Active, GotYet, RunAlone, GcAlone, T!Ready, T!Commands

\* A command that goes on has met whom it had met, one that starts meets those under way.
LEMMA MetOwn ==
    ASSUME MetInv, NEW c \in T!Commands, T!Meets(c)
    PROVE  /\ cmd[c].pc = "ready" => met'[c] = {a \in T!Commands : T!Active(a)}
           /\ cmd[c].pc # "ready" => met'[c] = met[c]
           /\ \A b \in T!Commands : b # c => met'[b] = IF T!Active(b) THEN met[b] \cup {c} ELSE met[b]
BY DEF T!Meets, MetInv

\* What a step of c must keep for AloneInv to be kept.
LEMMA AloneStep ==
    ASSUME MetInv, AloneInv, None \notin T!Places, NEW c \in T!Commands, T!Meets(c),
           cmd[c].pc = "ready" \/ T!Active(c), cmd'[c].pc # "ready",
           \A b \in T!Commands : b # c =>
                /\ cmd'[b].pc = cmd[b].pc /\ cmd'[b].got = cmd[b].got /\ cmd'[b].todo = cmd[b].todo
                /\ \/ cmd'[b].at = cmd[b].at
                   \/ cmd[b].at # None /\ \A r \in Runs : cmd'[b].at # T!Install(r),
           OpenBy(c)', c \in Runs => GotYet(c)',
           c \in Runs /\ met'[c] = {} => RunAlone(c)',
           c \in Gcs /\ met'[c] = {} => GcAlone(c)',
           \A r \in Runs : Lost(r) => /\ dirs'[T!Install(r)] = dirs[T!Install(r)]
                                      /\ c \in Gcs => Spares(c, T!Install(r))'
    PROVE  AloneInv'
<1>1. \A b \in T!Commands : b # c => (T!Active(b)' <=> T!Active(b)) /\ (T!Active(b) => c \in met'[b])
  <2>1. \A b \in T!Commands : b # c => (T!Active(b)' <=> T!Active(b))
    BY DEF T!Active
  <2>2. ASSUME NEW b \in T!Commands, b # c, T!Active(b) PROVE c \in met'[b]
    <3>1. met'[b] = met[b] \cup {c}
      BY <2>2, MetOwn
    <3> QED BY <3>1
  <2> QED BY <2>1, <2>2
<1>2. ASSUME NEW b \in T!Commands, T!Active(b)', met'[b] = {}, NEW a \in T!Commands \ {b} PROVE ~ T!Active(a)'
  <2>1. b = c
    BY <1>1, <1>2
  <2>2. \A d \in T!Commands \ {c} : ~ T!Active(d)
    BY <1>2, <2>1, MetOwn DEF AloneInv
  <2> QED BY <1>1, <2>1, <2>2
<1>3. ASSUME NEW b \in T!Commands PROVE OpenBy(b)'
  BY <1>3 DEF AloneInv, OpenBy
<1>4. ASSUME NEW r \in Runs, Lost(r) PROVE Lost(r)'
  <2>1. r \in T!Commands /\ r # c
    BY <1>4 DEF T!Commands, Lost, T!Active
  <2>2. ASSUME NEW g \in Gcs PROVE Spares(g, T!Install(r))'
    <3>1. CASE g = c
      BY <1>4, <3>1
    <3>2. CASE g # c
      <4>1. g \in T!Commands /\ Spares(g, T!Install(r))
        BY <1>4 DEF T!Commands, Lost
      <4> QED BY <1>1, <3>2, <4>1 DEF Spares, T!Install
    <3> QED BY <3>1, <3>2
  <2> QED BY <1>4, <2>1, <2>2 DEF Lost, T!Install
<1>5. ASSUME NEW p \in Runs PROVE GotYet(p)' /\ (met'[p] = {} => RunAlone(p)')
  <2>1. CASE p = c
    BY <2>1
  <2>2. CASE p # c
    <3>1. p \in T!Commands /\ GotYet(p) /\ cmd'[p].pc = cmd[p].pc /\ cmd'[p].got = cmd[p].got
      BY <2>2 DEF T!Commands, AloneInv
    <3>2. ASSUME met'[p] = {} PROVE ~ T!Active(p) /\ cmd[p].pc # "failed"
      <4>1. ~ T!Active(p)
        BY <1>1, <2>2, <3>1, <3>2
      <4>2. met[p] = {}
        BY <2>2, <3>1, <3>2, <4>1, MetOwn
      <4>3. RunAlone(p)
        BY <4>2 DEF AloneInv
      <4> QED BY <4>1, <4>3 DEF RunAlone
    <3> QED BY <3>1, <3>2 DEF GotYet, RunAlone, T!Active
  <2> QED BY <2>1, <2>2
<1>6. ASSUME NEW g \in Gcs, met'[g] = {} PROVE GcAlone(g)'
  <2>1. CASE g = c
    BY <1>6, <2>1
  <2>2. CASE g # c
    <3>1. g \in T!Commands /\ cmd'[g].pc = cmd[g].pc
      BY <2>2 DEF T!Commands
    <3>2. ~ T!Active(g) /\ GcAlone(g)
      BY <1>1, <1>6, <2>2, <3>1, MetOwn DEF AloneInv
    <3>3. cmd[g].pc = "refused" => \E r \in Runs : Lost(r)'
      BY <1>4, <3>2 DEF GcAlone
    <3> QED BY <3>1, <3>2, <3>3 DEF GcAlone, T!Active
  <2> QED BY <2>1, <2>2
<1> QED BY <1>2, <1>3, <1>5, <1>6 DEF AloneInv

-----------------------------------------------------------------------------
\* The same for a run, which makes and fills directories of its own.
LEMMA AloneRun ==
    ASSUME MetInv, AloneInv, None \notin T!Places, Gcs \cap Runs = {}, NEW p \in Runs, T!Meets(p),
           cmd[p].pc = "ready" \/ T!Active(p), cmd'[p].pc # "ready", cmd'[p].at = None, GotYet(p)',
           \A b \in T!Commands : b # p =>
                /\ cmd'[b].pc = cmd[b].pc /\ cmd'[b].got = cmd[b].got /\ cmd'[b].todo = cmd[b].todo
                /\ \/ cmd'[b].at = cmd[b].at
                   \/ cmd[b].at # None /\ \A r \in Runs : cmd'[b].at # T!Install(r),
           met'[p] = {} => RunAlone(p)',
           \A r \in Runs : r # p => dirs'[T!Install(r)] = dirs[T!Install(r)]
    PROVE  AloneInv'
<1>1. p \in T!Commands /\ p \notin Gcs
  BY DEF T!Commands
<1>2. OpenBy(p)'
  BY DEF OpenBy
<1>3. \A r \in Runs : Lost(r) => r # p
  BY DEF Lost, T!Active
<1> QED BY <1>1, <1>2, <1>3, AloneStep

LEMMA GotoFields ==
    ASSUME OwnFiles, NEW c \in T!Commands, NEW pc, T!Goto(c, pc)
    PROVE  /\ cmd'[c].pc = pc /\ cmd'[c].got = cmd[c].got /\ cmd'[c].at = cmd[c].at /\ cmd'[c].todo = cmd[c].todo
           /\ \A b \in T!Commands : b # c => cmd'[b] = cmd[b]
BY DEF T!Goto, OwnFiles, CmdType

\* What a run that is alone knows.
LEMMA WasAlone ==
    ASSUME MetInv, AloneInv, Gcs \cap Runs = {}, NEW p \in Runs, T!Meets(p)
    PROVE  /\ cmd[p].at = None /\ GotYet(p)
           /\ met'[p] = {} /\ cmd[p].pc # "ready" => RunAlone(p)
           /\ met'[p] = {} /\ T!Active(p) => \A g \in Gcs : cmd[g].at = None
<1>1. p \in T!Commands /\ \A g \in Gcs : g \in T!Commands \ {p}
  BY DEF T!Commands
<1>2. \A g \in Gcs : ~ T!Active(g) => cmd[g].at = None
  BY <1>1 DEF AloneInv, OpenBy, T!Active
<1> QED BY <1>1, <1>2, MetOwn DEF AloneInv, OpenBy, T!Active

LEMMA QuietAlone ==
    ASSUME OwnFiles, MetInv, AloneInv, None \notin T!Places, Gcs \cap Runs = {}, NEW p \in Runs,
           T!Status(p) \/ T!Digest(p) \/ T!Inspect(p) \/ T!Load(p)
    PROVE  AloneInv'
<1>0. p \in T!Commands /\ T!Meets(p) /\ dirs' = dirs
  BY DEF T!Commands, T!Status, T!Digest, T!Inspect, T!Load, T!At
<1>1. /\ cmd[p].at = None /\ GotYet(p)
      /\ met'[p] = {} /\ cmd[p].pc # "ready" => RunAlone(p)
  BY <1>0, WasAlone
<1>2. CASE T!Status(p)
  <2>1. cmd[p].pc = "ready" /\ \/ T!Goto(p, "digest") /\ Holds(T!Entry)
                               \/ T!Goto(p, "stage")
    BY <1>2 DEF T!Status, T!At, T!Hit, Holds
  <2>2. /\ cmd'[p].pc = "stage" \/ (cmd'[p].pc = "digest" /\ Holds(T!Entry))
        /\ cmd'[p].got = cmd[p].got /\ cmd'[p].at = cmd[p].at /\ \A b \in T!Commands : b # p => cmd'[b] = cmd[b]
    BY <1>0, <2>1, GotoFields
  <2>3. GotYet(p)' /\ RunAlone(p)'
    BY <1>0, <1>1, <2>1, <2>2 DEF GotYet, RunAlone, Holds, T!Entry
  <2> QED BY <1>0, <1>1, <2>1, <2>2, <2>3, AloneRun
<1>3. CASE T!Digest(p)
  <2>1. cmd[p].pc = "digest" /\ \/ T!Goto(p, "resolved") \/ T!Goto(p, "stage")
                                \/ T!Goto(p, "failed") /\ ~ Holds(T!Entry)
    BY <1>3 DEF T!Digest, T!At, Holds
  <2>2. /\ cmd'[p].pc \in {"resolved", "stage"} \/ (cmd'[p].pc = "failed" /\ ~ Holds(T!Entry))
        /\ cmd'[p].got = cmd[p].got /\ cmd'[p].at = cmd[p].at /\ \A b \in T!Commands : b # p => cmd'[b] = cmd[b]
    BY <1>0, <2>1, GotoFields
  <2>3. GotYet(p)' /\ (met'[p] = {} => RunAlone(p)')
    BY <1>0, <1>1, <2>1, <2>2 DEF GotYet, RunAlone, Holds, T!Entry
  <2> QED BY <1>0, <1>1, <2>1, <2>2, <2>3, AloneRun DEF T!Active
<1>4. CASE T!Inspect(p)
  <2>1. cmd[p].pc = "copy" /\ cmd[p].todo = {} /\ \/ T!Goto(p, "install") /\ dirs[T!Entry] = None
                                                  \/ T!Goto(p, "backup") /\ dirs[T!Entry] # None
    BY <1>4 DEF T!Inspect, T!At
  <2>2. /\ \/ cmd'[p].pc = "install" /\ dirs[T!Entry] = None
           \/ cmd'[p].pc = "backup" /\ dirs[T!Entry] # None
        /\ cmd'[p].got = cmd[p].got /\ cmd'[p].at = cmd[p].at /\ \A b \in T!Commands : b # p => cmd'[b] = cmd[b]
    BY <1>0, <2>1, GotoFields
  <2>3. GotYet(p)' /\ (met'[p] = {} => RunAlone(p)')
    BY <1>0, <1>1, <2>1, <2>2 DEF GotYet, RunAlone, Holds, T!Entry, T!Install
  <2> QED BY <1>0, <1>1, <2>1, <2>2, <2>3, AloneRun DEF T!Active
<1>5. CASE T!Load(p)
  <2>1. /\ cmd[p].pc = "resolved"
        /\ \/ T!Goto(p, "failed") /\ ~ Holds(T!Entry)
           \/ cmd' = [cmd EXCEPT ![p].pc = "done", ![p].got = dirs[T!Entry].module]
    BY <1>5 DEF T!Load, T!At, Holds
  <2>2. /\ cmd'[p].pc = "done" \/ (cmd'[p].pc = "failed" /\ ~ Holds(T!Entry))
        /\ cmd'[p].at = cmd[p].at /\ \A b \in T!Commands : b # p => cmd'[b] = cmd[b]
    BY <1>0, <2>1, GotoFields DEF OwnFiles, CmdType
  <2>3. GotYet(p)' /\ (met'[p] = {} => RunAlone(p)')
    BY <1>0, <1>1, <2>1, <2>2 DEF GotYet, RunAlone, Holds, T!Entry
  <2> QED BY <1>0, <1>1, <2>1, <2>2, <2>3, AloneRun DEF T!Active
<1> QED BY <1>2, <1>3, <1>4, <1>5

LEMMA FetchAlone ==
    ASSUME OwnFiles, MetInv, AloneInv, None \notin T!Places, Gcs \cap Runs = {}, NEW p \in Runs,
           T!Fetch(p), None \notin Written, None \notin [T!Files -> Written \cup {None, Torn}]
    PROVE  AloneInv'
<1>0. p \in T!Commands /\ T!Meets(p) /\ cmd[p].pc = "stage"
  BY DEF T!Commands, T!Fetch, T!At
<1>1. /\ cmd[p].at = None /\ GotYet(p)
      /\ met'[p] = {} => RunAlone(p)
  BY <1>0, WasAlone
<1>2. CASE \E b \in Bytes :
            /\ decl[p].pin \in {None, b}
            /\ dirs' = [dirs EXCEPT ![T!Staged(p)] = [T!EmptyDir EXCEPT !.module = T!File(p, b)]]
            /\ T!Goto(p, "sidecar")
  <2>1. PICK b \in Bytes :
            /\ decl[p].pin \in {None, b}
            /\ dirs' = [dirs EXCEPT ![T!Staged(p)] = [T!EmptyDir EXCEPT !.module = T!File(p, b)]]
            /\ T!Goto(p, "sidecar")
    BY <1>2
  <2>2. T!File(p, b) \in Written
    BY FileIsWritten DEF OwnFiles
  <2> DEFINE d == [T!EmptyDir EXCEPT !.module = T!File(p, b)]
  <2>3. d \in [T!Files -> Written \cup {None, Torn}] /\ d.module = T!File(p, b)
    BY <2>2 DEF T!EmptyDir, T!Files
  <2> HIDE DEF d
  <2>4. dirs'[T!Staged(p)] = d /\ \A r \in Runs : dirs'[T!Install(r)] = dirs[T!Install(r)]
    BY <2>1, PlacesDiffer DEF OwnFiles, d
  <2>5. /\ cmd'[p].pc = "sidecar" /\ cmd'[p].got = cmd[p].got /\ cmd'[p].at = cmd[p].at
        /\ \A c \in T!Commands : c # p => cmd'[c] = cmd[c]
    BY <1>0, <2>1, GotoFields
  <2>6. GotYet(p)' /\ RunAlone(p)'
    BY <1>0, <1>1, <2>2, <2>3, <2>4, <2>5 DEF GotYet, RunAlone, Holds, T!Staged
  <2> QED BY <1>0, <1>1, <2>4, <2>5, <2>6, AloneRun DEF T!Active
<1>3. CASE dirs' = dirs /\ T!Goto(p, "refused")
  <2>1. /\ cmd'[p].pc = "refused" /\ cmd'[p].got = cmd[p].got /\ cmd'[p].at = cmd[p].at
        /\ \A c \in T!Commands : c # p => cmd'[c] = cmd[c]
    BY <1>0, <1>3, GotoFields
  <2>2. GotYet(p)' /\ RunAlone(p)'
    BY <2>1 DEF GotYet, RunAlone
  <2> QED BY <1>0, <1>1, <1>3, <2>1, <2>2, AloneRun DEF T!Active
<1> QED BY <1>2, <1>3 DEF T!Fetch

LEMMA WriteSidecarAlone ==
    ASSUME OwnFiles, OwnFiles', MetInv, AloneInv, None \notin T!Places, Gcs \cap Runs = {}, NEW p \in Runs,
           T!WriteSidecar(p), None \notin [T!Files -> Written \cup {None, Torn}]
    PROVE  AloneInv'
<1>0. p \in T!Commands /\ T!Meets(p) /\ cmd[p].pc = "sidecar" /\ T!Goto(p, "mkdir")
  BY DEF T!Commands, T!WriteSidecar, T!At
<1>1. /\ cmd[p].at = None /\ GotYet(p)
      /\ met'[p] = {} => RunAlone(p)
  BY <1>0, WasAlone
<1> DEFINE d == IF dirs[T!Staged(p)] = None THEN T!EmptyDir ELSE dirs[T!Staged(p)]
           e == [d EXCEPT !.meta = T!File(p, None)]
<1>2. dirs' = [dirs EXCEPT ![T!Staged(p)] = e]
  BY DEF T!WriteSidecar
<1>3. dirs'[T!Staged(p)] = e /\ \A r \in Runs : dirs'[T!Install(r)] = dirs[T!Install(r)]
  BY <1>2, PlacesDiffer DEF OwnFiles
<1>4. e \in [T!Files -> Written \cup {None, Torn}] /\ (Holds(T!Staged(p)) => e.module = dirs[T!Staged(p)].module)
  <2>1. d \in [T!Files -> Written \cup {None, Torn}]
    BY PlacesDiffer DEF OwnFiles, Dirs, T!EmptyDir
  <2>2. T!File(p, None) \in Written
    BY FileIsWritten DEF OwnFiles
  <2>3. e \in [T!Files -> Written \cup {None, Torn}] /\ e.module = d.module
    BY <2>1, <2>2 DEF T!Files
  <2> QED BY <2>3 DEF Holds
<1> HIDE DEF d, e
<1>5. /\ cmd'[p].pc = "mkdir" /\ cmd'[p].got = cmd[p].got /\ cmd'[p].at = cmd[p].at
      /\ \A c \in T!Commands : c # p => cmd'[c] = cmd[c]
  BY <1>0, GotoFields
<1>6. GotYet(p)' /\ (met'[p] = {} => RunAlone(p)')
  BY <1>0, <1>1, <1>3, <1>4, <1>5 DEF GotYet, RunAlone, Holds, T!Staged
<1> QED BY <1>0, <1>1, <1>3, <1>5, <1>6, AloneRun DEF T!Active

LEMMA MakeInstallAlone ==
    ASSUME OwnFiles, MetInv, AloneInv, None \notin T!Places, Gcs \cap Runs = {}, NEW p \in Runs,
           T!MakeInstall(p), None \notin [T!Files -> Written \cup {None, Torn}]
    PROVE  AloneInv'
<1>0. p \in T!Commands /\ T!Meets(p) /\ cmd[p].pc = "mkdir"
  BY DEF T!Commands, T!MakeInstall, T!At
<1>1. /\ cmd[p].at = None /\ GotYet(p)
      /\ met'[p] = {} => RunAlone(p)
  BY <1>0, WasAlone
<1>2. CASE dirs[T!Staged(p)] = None
  <2>1. /\ cmd'[p].pc = "failed" /\ cmd'[p].got = cmd[p].got /\ cmd'[p].at = cmd[p].at
        /\ dirs' = dirs /\ \A c \in T!Commands : c # p => cmd'[c] = cmd[c]
    BY <1>0, <1>2, GotoFields DEF T!MakeInstall
  <2>2. GotYet(p)' /\ met'[p] # {}
    BY <1>0, <1>1, <1>2, <2>1 DEF GotYet, RunAlone, Holds
  <2> QED BY <1>0, <1>1, <2>1, <2>2, AloneRun DEF T!Active
<1>3. CASE dirs[T!Staged(p)] # None
  <2> DEFINE todo == {f \in T!Files : dirs[T!Staged(p)][f] # None}
  <2>1. /\ dirs' = [dirs EXCEPT ![T!Install(p)] = T!EmptyDir]
        /\ cmd' = [cmd EXCEPT ![p].pc = "copy", ![p].todo = todo]
    BY <1>3 DEF T!MakeInstall
  <2>2. /\ cmd'[p].pc = "copy" /\ cmd'[p].todo = todo /\ cmd'[p].got = cmd[p].got /\ cmd'[p].at = cmd[p].at
        /\ \A c \in T!Commands : c # p => cmd'[c] = cmd[c]
    BY <1>0, <2>1 DEF OwnFiles, CmdType
  <2>3. /\ dirs'[T!Install(p)] = T!EmptyDir /\ dirs'[T!Staged(p)] = dirs[T!Staged(p)]
        /\ \A r \in Runs : r # p => dirs'[T!Install(r)] = dirs[T!Install(r)]
    BY <2>1, PlacesDiffer DEF OwnFiles
  <2>4. T!EmptyDir # None
    BY DEF T!EmptyDir
  <2>5. Holds(T!Staged(p)) => "module" \in todo
    BY DEF Holds, T!Files
  <2>6. todo \subseteq T!Files /\ \A f \in todo : dirs[T!Staged(p)][f] # None
    OBVIOUS
  <2> HIDE DEF todo
  <2>7. GotYet(p)'
    BY <1>0, <1>1, <2>2 DEF GotYet
  <2>8. ASSUME met'[p] = {} PROVE RunAlone(p)'
    <3>1. Holds(T!Staged(p))
      BY <1>0, <1>1, <2>8 DEF RunAlone
    <3>2. T!Staged(p)' = T!Staged(p) /\ T!Install(p)' = T!Install(p)
      BY DEF T!Staged, T!Install
    <3>3. /\ dirs[T!Staged(p)]' # None /\ dirs[T!Install(p)]' # None /\ cmd[p].todo' \subseteq T!Files
          /\ \A f \in cmd[p].todo' : dirs[T!Staged(p)]'[f] # None
          /\ "module" \in cmd[p].todo'
      BY <1>3, <2>2, <2>3, <2>4, <2>5, <2>6, <3>1, <3>2
    <3> QED BY <2>2, <3>2, <3>3 DEF RunAlone
  <2> QED BY <1>0, <1>1, <2>2, <2>3, <2>7, <2>8, AloneRun DEF T!Active
<1> QED BY <1>2, <1>3

LEMMA CopyAlone ==
    ASSUME OwnFiles, OwnFiles', MetInv, AloneInv, None \notin T!Places, Gcs \cap Runs = {}, NEW p \in Runs,
           T!Copy(p), None \notin [T!Files -> Written \cup {None, Torn}]
    PROVE  AloneInv'
<1>0. p \in T!Commands /\ T!Meets(p) /\ cmd[p].pc = "copy" /\ cmd[p].todo # {}
  BY DEF T!Commands, T!Copy, T!At
<1>1. /\ cmd[p].at = None /\ GotYet(p)
      /\ met'[p] = {} => RunAlone(p)
  BY <1>0, WasAlone
<1> DEFINE f == IF "meta" \in cmd[p].todo THEN "meta" ELSE "module"
           from == dirs[T!Staged(p)]
           ok == from # None /\ dirs[T!Install(p)] # None /\ from[f] # None
<1>2. met'[p] = {} => f \in cmd[p].todo /\ ok
  BY <1>0, <1>1 DEF RunAlone, T!Files
<1>3. f \in T!Files
  BY DEF T!Files
<1>4. \/ /\ ok
         /\ dirs' = [dirs EXCEPT ![T!Install(p)][f] = from[f]]
         /\ cmd' = [cmd EXCEPT ![p].todo = @ \ {f}]
      \/ /\ dirs' = [dirs EXCEPT ![T!Install(p)][f] = Torn, ![T!Staged(p)] = None]
         /\ T!Goto(p, "full")
      \/ ~ ok /\ dirs' = [dirs EXCEPT ![T!Staged(p)] = None] /\ T!Goto(p, "failed")
  BY DEF T!Copy
<1> HIDE DEF f, ok
<1>5. \A r \in Runs : r # p => dirs'[T!Install(r)] = dirs[T!Install(r)]
  BY <1>4, PlacesDiffer DEF OwnFiles
<1>6. CASE ok /\ dirs' = [dirs EXCEPT ![T!Install(p)][f] = from[f]] /\ cmd' = [cmd EXCEPT ![p].todo = @ \ {f}]
  <2>1. /\ cmd'[p].pc = "copy" /\ cmd'[p].todo = cmd[p].todo \ {f} /\ cmd'[p].got = cmd[p].got
        /\ cmd'[p].at = cmd[p].at /\ \A c \in T!Commands : c # p => cmd'[c] = cmd[c]
    BY <1>0, <1>6 DEF OwnFiles, CmdType
  <2> DEFINE new == [dirs[T!Install(p)] EXCEPT ![f] = from[f]]
  <2>2. dirs'[T!Install(p)] = new /\ dirs'[T!Staged(p)] = dirs[T!Staged(p)]
    BY <1>6, PlacesDiffer DEF OwnFiles
  <2>3. dirs[T!Install(p)] \in [T!Files -> Written \cup {None, Torn}] /\ from \in [T!Files -> Written \cup {None, Torn}]
    BY <1>6, PlacesDiffer DEF OwnFiles, Dirs, ok
  <2>4. /\ new \in [T!Files -> Written \cup {None, Torn}] /\ new[f] = from[f]
        /\ \A g \in T!Files : g # f => new[g] = dirs[T!Install(p)][g]
    BY <1>3, <2>3
  <2>5. new # None /\ from[f] # None
    BY <1>6, <2>4 DEF ok
  <2> HIDE DEF new
  <2>6. met'[p] = {} => RunAlone(p)'
    <3> SUFFICES ASSUME met'[p] = {} PROVE RunAlone(p)'
      OBVIOUS
    <3>1. RunAlone(p)
      BY <1>1
    <3>2. dirs'[T!Staged(p)] # None /\ dirs'[T!Install(p)] # None /\ cmd'[p].todo \subseteq T!Files
          /\ \A g \in cmd'[p].todo : dirs'[T!Staged(p)][g] # None
      BY <1>0, <2>1, <2>2, <2>5, <3>1 DEF RunAlone
    <3>3. "module" \in cmd'[p].todo \/ dirs'[T!Install(p)].module # None
      <4>1. CASE f = "module"
        BY <2>2, <2>4, <2>5, <4>1
      <4>2. CASE f # "module"
        BY <1>0, <2>1, <2>2, <2>4, <3>1, <4>2 DEF RunAlone, T!Files
      <4> QED BY <4>1, <4>2
    <3> QED BY <2>1, <3>2, <3>3 DEF RunAlone, T!Staged, T!Install
  <2>7. GotYet(p)'
    BY <1>0, <1>1, <2>1 DEF GotYet
  <2> QED BY <1>0, <1>1, <1>5, <2>1, <2>6, <2>7, AloneRun DEF T!Active
<1>7. CASE T!Goto(p, "full") \/ (~ ok /\ T!Goto(p, "failed"))
  <2>1. /\ cmd'[p].pc = "full" \/ (~ ok /\ cmd'[p].pc = "failed")
        /\ cmd'[p].at = cmd[p].at /\ \A c \in T!Commands : c # p => cmd'[c] = cmd[c]
    BY <1>0, <1>7, GotoFields
  <2>2. GotYet(p)' /\ (met'[p] = {} => RunAlone(p)')
    BY <1>2, <2>1 DEF GotYet, RunAlone
  <2> QED BY <1>0, <1>1, <1>5, <2>1, <2>2, AloneRun DEF T!Active
<1> QED BY <1>4, <1>6, <1>7

\* A rename moves whoever has the directory open, and never to an install directory.
LEMMA MovedFields ==
    ASSUME OwnFiles, AloneInv, None \notin T!Places, Gcs \cap Runs = {}, NEW p \in Runs,
           NEW from \in T!Places, NEW to \in T!Places, \A r \in Runs : to # T!Install(r)
    PROVE  /\ T!Moved(from, to) \in [T!Commands -> CmdType]
           /\ T!Moved(from, to)[p] = cmd[p]
           /\ \A b \in T!Commands :
                /\ T!Moved(from, to)[b].pc = cmd[b].pc /\ T!Moved(from, to)[b].got = cmd[b].got
                /\ T!Moved(from, to)[b].todo = cmd[b].todo
                /\ \/ T!Moved(from, to)[b].at = cmd[b].at
                   \/ cmd[b].at # None /\ \A r \in Runs : T!Moved(from, to)[b].at # T!Install(r)
<1>1. p \in T!Commands /\ cmd[p].at = None
  BY DEF T!Commands, AloneInv, OpenBy
<1>2. T!Moved(from, to) \in [T!Commands -> CmdType]
  BY MovedType DEF OwnFiles
<1>3. ASSUME NEW b \in T!Commands
      PROVE  /\ T!Moved(from, to)[b].pc = cmd[b].pc /\ T!Moved(from, to)[b].got = cmd[b].got
             /\ T!Moved(from, to)[b].todo = cmd[b].todo
             /\ \/ T!Moved(from, to)[b].at = cmd[b].at
                \/ cmd[b].at # None /\ \A r \in Runs : T!Moved(from, to)[b].at # T!Install(r)
  <2>1. cmd[b] \in CmdType /\ T!Moved(from, to)[b] = IF cmd[b].at = from THEN [cmd[b] EXCEPT !.at = to] ELSE cmd[b]
    BY DEF T!Moved, OwnFiles
  <2>2. CASE cmd[b].at = from
    BY <2>1, <2>2 DEF CmdType
  <2>3. CASE cmd[b].at # from
    BY <2>1, <2>3
  <2> QED BY <2>2, <2>3
<1>4. T!Moved(from, to)[p] = cmd[p]
  BY <1>1 DEF T!Moved
<1> QED BY <1>2, <1>3, <1>4

LEMMA MoveAwayAlone ==
    ASSUME OwnFiles, MetInv, AloneInv, None \notin T!Places, Gcs \cap Runs = {}, NEW p \in Runs, T!MoveAway(p)
    PROVE  AloneInv'
<1>0. p \in T!Commands /\ T!Meets(p) /\ cmd[p].pc = "backup" /\ cmd[p] \in CmdType
  BY DEF T!Commands, T!MoveAway, T!At, OwnFiles
<1>1. /\ cmd[p].at = None /\ GotYet(p)
      /\ met'[p] = {} => RunAlone(p)
  BY <1>0, WasAlone
<1>2. CASE dirs[T!Entry] = None
  <2>1. T!Goto(p, "failed") /\ dirs' = [dirs EXCEPT ![T!Staged(p)] = None]
    BY <1>2 DEF T!MoveAway
  <2>2. /\ cmd'[p].pc = "failed" /\ cmd'[p].at = cmd[p].at
        /\ \A c \in T!Commands : c # p => cmd'[c] = cmd[c]
        /\ \A r \in Runs : dirs'[T!Install(r)] = dirs[T!Install(r)]
    BY <1>0, <2>1, GotoFields, PlacesDiffer DEF OwnFiles
  <2>3. GotYet(p)' /\ met'[p] # {}
    BY <1>0, <1>1, <1>2, <2>2 DEF GotYet, RunAlone
  <2> QED BY <1>0, <1>1, <2>2, <2>3, AloneRun DEF T!Active
<1>3. CASE dirs[T!Entry] # None
  <2> DEFINE moved == T!Moved(T!Entry, T!Backup(p))
  <2>1. /\ dirs' = [dirs EXCEPT ![T!Backup(p)] = dirs[T!Entry], ![T!Entry] = None]
        /\ cmd' = [moved EXCEPT ![p].pc = "install", ![p].got = T!Backup(p)]
    BY <1>3 DEF T!MoveAway
  <2>2. /\ moved \in [T!Commands -> CmdType] /\ moved[p] = cmd[p]
        /\ \A b \in T!Commands :
             /\ moved[b].pc = cmd[b].pc /\ moved[b].got = cmd[b].got /\ moved[b].todo = cmd[b].todo
             /\ \/ moved[b].at = cmd[b].at
                \/ cmd[b].at # None /\ \A r \in Runs : moved[b].at # T!Install(r)
    BY PlacesDiffer, MovedFields
  <2> HIDE DEF moved
  <2>3. /\ cmd'[p].pc = "install" /\ cmd'[p].at = cmd[p].at
        /\ \A b \in T!Commands : b # p => cmd'[b] = moved[b]
    BY <1>0, <2>1, <2>2 DEF CmdType
  <2>4. /\ dirs'[T!Backup(p)] = dirs[T!Entry] /\ dirs'[T!Entry] = None
        /\ \A r \in Runs : dirs'[T!Install(r)] = dirs[T!Install(r)]
    BY <2>1, PlacesDiffer DEF OwnFiles
  <2>5. GotYet(p)' /\ (met'[p] = {} => RunAlone(p)')
    BY <1>0, <1>1, <1>3, <2>3, <2>4 DEF GotYet, RunAlone, Holds, T!Install, T!Backup, T!Entry
  <2> QED BY <1>0, <1>1, <2>2, <2>3, <2>4, <2>5, AloneRun DEF T!Active
<1> QED BY <1>2, <1>3

LEMMA MoveInAlone ==
    ASSUME OwnFiles, MetInv, AloneInv, None \notin T!Places, Gcs \cap Runs = {}, NEW p \in Runs, T!MoveIn(p)
    PROVE  AloneInv'
<1>0. p \in T!Commands /\ T!Meets(p) /\ cmd[p].pc = "install" /\ cmd[p] \in CmdType
  BY DEF T!Commands, T!MoveIn, T!At, OwnFiles
<1>1. /\ cmd[p].at = None /\ GotYet(p)
      /\ met'[p] = {} => RunAlone(p)
  BY <1>0, WasAlone
<1> DEFINE new == dirs[T!Install(p)]
           old == dirs[T!Backup(p)]
           free == dirs[T!Entry] = None \/ T!IsEmpty(dirs[T!Entry])
           restored == old # None /\ free
<1>2. met'[p] = {} => new # None /\ free
  BY <1>0, <1>1 DEF RunAlone, Holds
<1>3. CASE new # None /\ free
  <2> DEFINE moved == T!Moved(T!Install(p), T!Entry)
  <2>1. /\ dirs' = [dirs EXCEPT ![T!Entry] = new, ![T!Install(p)] = None]
        /\ cmd' = [moved EXCEPT ![p].pc = "drop"]
    BY <1>3 DEF T!MoveIn
  <2>2. /\ moved \in [T!Commands -> CmdType] /\ moved[p] = cmd[p]
        /\ \A b \in T!Commands :
             /\ moved[b].pc = cmd[b].pc /\ moved[b].got = cmd[b].got /\ moved[b].todo = cmd[b].todo
             /\ \/ moved[b].at = cmd[b].at
                \/ cmd[b].at # None /\ \A r \in Runs : moved[b].at # T!Install(r)
    BY PlacesDiffer, MovedFields
  <2> HIDE DEF moved
  <2>3. /\ cmd'[p].pc = "drop" /\ cmd'[p].at = cmd[p].at /\ cmd'[p].got = cmd[p].got
        /\ \A b \in T!Commands : b # p => cmd'[b] = moved[b]
    BY <1>0, <2>1, <2>2 DEF CmdType
  <2>4. /\ dirs'[T!Entry] = dirs[T!Install(p)] /\ dirs'[T!Backup(p)] = dirs[T!Backup(p)]
        /\ \A r \in Runs : r # p => dirs'[T!Install(r)] = dirs[T!Install(r)]
    BY <2>1, PlacesDiffer DEF OwnFiles
  <2>5. GotYet(p)' /\ (met'[p] = {} => RunAlone(p)')
    BY <1>0, <1>1, <2>3, <2>4 DEF GotYet, RunAlone, Holds, T!Backup, T!Entry
  <2> QED BY <1>0, <1>1, <2>2, <2>3, <2>4, <2>5, AloneRun DEF T!Active
<1>4. CASE ~ (new # None /\ free)
  <2> DEFINE moved == IF restored THEN T!Moved(T!Backup(p), T!Entry) ELSE cmd
  <2>1. /\ dirs' = [dirs EXCEPT ![T!Install(p)] = None, ![T!Staged(p)] = None,
                                ![T!Entry] = IF restored THEN old ELSE @,
                                ![T!Backup(p)] = IF restored THEN None ELSE @]
        /\ cmd' = [moved EXCEPT ![p].pc = "failed"]
    BY <1>4 DEF T!MoveIn
  <2>2. /\ moved \in [T!Commands -> CmdType] /\ moved[p] = cmd[p]
        /\ \A b \in T!Commands :
             /\ moved[b].pc = cmd[b].pc /\ moved[b].got = cmd[b].got /\ moved[b].todo = cmd[b].todo
             /\ \/ moved[b].at = cmd[b].at
                \/ cmd[b].at # None /\ \A r \in Runs : moved[b].at # T!Install(r)
    <3>1. CASE restored
      BY <3>1, PlacesDiffer, MovedFields
    <3>2. CASE ~ restored
      BY <3>2 DEF OwnFiles
    <3> QED BY <3>1, <3>2
  <2>3. \A r \in Runs : r # p => dirs'[T!Install(r)] = dirs[T!Install(r)]
    BY <2>1, PlacesDiffer DEF OwnFiles
  <2> HIDE DEF moved
  <2>4. /\ cmd'[p].pc = "failed" /\ cmd'[p].at = cmd[p].at
        /\ \A b \in T!Commands : b # p => cmd'[b] = moved[b]
    BY <1>0, <2>1, <2>2 DEF CmdType
  <2>5. GotYet(p)' /\ met'[p] # {}
    BY <1>2, <1>4, <2>4 DEF GotYet
  <2> QED BY <1>0, <1>1, <2>2, <2>3, <2>4, <2>5, AloneRun DEF T!Active
<1> QED BY <1>3, <1>4

LEMMA DropAlone ==
    ASSUME OwnFiles, MetInv, AloneInv, None \notin T!Places, Gcs \cap Runs = {}, NEW p \in Runs, T!Drop(p)
    PROVE  AloneInv'
<1>0. p \in T!Commands /\ T!Meets(p) /\ cmd[p].pc = "drop" /\ T!Active(p)
  BY DEF T!Commands, T!Drop, T!At, T!Active
<1>1. /\ cmd[p].at = None /\ GotYet(p)
      /\ met'[p] = {} => RunAlone(p) /\ \A g \in Gcs : cmd[g].at = None
  BY <1>0, WasAlone
<1>2. /\ dirs' = [dirs EXCEPT ![T!Backup(p)] = None, ![T!Staged(p)] = None]
      /\ \/ T!Goto(p, "resolved")
         \/ /\ T!Goto(p, "failed") /\ cmd[p].got # None
            /\ dirs[T!Backup(p)] = None \/ \E g \in Gcs : cmd[g].at = T!Backup(p)
  BY DEF T!Drop
<1>3. /\ cmd'[p].pc = "resolved" \/ (cmd'[p].pc = "failed" /\ met'[p] # {})
      /\ cmd'[p].at = cmd[p].at /\ \A b \in T!Commands : b # p => cmd'[b] = cmd[b]
  <2>1. T!Backup(p) # None
    BY PlacesDiffer
  <2>2. T!Goto(p, "failed") => met'[p] # {}
    BY <1>0, <1>1, <1>2, <2>1, GotoFields DEF RunAlone
  <2> QED BY <1>0, <1>2, <2>2, GotoFields
<1>4. dirs'[T!Entry] = dirs[T!Entry] /\ \A r \in Runs : dirs'[T!Install(r)] = dirs[T!Install(r)]
  BY <1>2, PlacesDiffer DEF OwnFiles
<1>5. GotYet(p)' /\ (met'[p] = {} => RunAlone(p)')
  BY <1>0, <1>1, <1>3, <1>4 DEF GotYet, RunAlone, Holds, T!Entry
<1> QED BY <1>0, <1>1, <1>3, <1>4, <1>5, AloneRun

-----------------------------------------------------------------------------
\* A collection removes what it has seen, and no other has been since.
LEMMA GcWasAlone ==
    ASSUME MetInv, AloneInv, NEW g \in Gcs, T!Meets(g), met'[g] = {}, cmd[g].pc # "ready"
    PROVE  GcAlone(g)
BY MetOwn DEF AloneInv, T!Commands

\* Only the install directory of a run that is out of the game has a sidecar cut off.
LEMMA TornIsLost ==
    ASSUME OwnFiles, None # Torn, Torn \notin Written, NEW x \in T!Places, dirs[x] # None, dirs[x].meta = Torn
    PROVE  \E r \in Runs : x = T!Install(r) /\ cmd[r].pc \in {"full", "killed"}
<1>1. "meta" \in T!Files
  BY DEF T!Files
<1>2. \A p : ~ Own(dirs[x], p)
  BY <1>1 DEF Own
<1>3. ~ Whole(dirs[x])
  BY <1>2 DEF Whole
<1> QED BY <1>2, <1>3, PlacesDiffer DEF OwnFiles

LEMMA ScanAlone ==
    ASSUME OwnFiles, MetInv, AloneInv, None \notin T!Places, Gcs \cap Runs = {}, NEW g \in Gcs, T!Scan(g),
           None # Torn, Torn \notin Written
    PROVE  AloneInv'
<1>0. g \in T!Commands /\ g \notin Runs /\ T!Meets(g) /\ cmd[g].pc = "ready" /\ dirs' = dirs /\ OpenBy(g)
      /\ cmd[g].at = None
  BY DEF T!Commands, T!Scan, T!At, AloneInv, OpenBy
<1>1. CASE \E x \in T!Places : dirs[x] # None /\ dirs[x].meta = Torn
  <2>1. /\ cmd'[g].pc = "refused" /\ cmd'[g].at = None
        /\ \A b \in T!Commands : b # g => cmd'[b] = cmd[b]
    BY <1>0, <1>1, GotoFields DEF T!Scan
  <2>2. PICK r \in Runs : /\ dirs[T!Install(r)] # None /\ dirs[T!Install(r)].meta = Torn
                          /\ cmd[r].pc \in {"full", "killed"}
    BY <1>1, TornIsLost
  <2>3. ASSUME met'[g] = {} PROVE Lost(r)'
    <3>1. \A b \in T!Commands : ~ T!Active(b)
      BY <1>0, <2>3, MetOwn
    <3>2. \A h \in Gcs : ~ T!Active(h)'
      BY <2>1, <3>1 DEF T!Active, T!Commands
    <3>3. cmd'[r].pc = cmd[r].pc
      BY <1>0, <2>1 DEF T!Commands
    <3> QED BY <1>0, <2>2, <3>2, <3>3 DEF Lost, Spares, T!Install
  <2>4. met'[g] = {} => GcAlone(g)'
    BY <2>1, <2>3 DEF GcAlone
  <2>5. OpenBy(g)' /\ \A r2 \in Runs : Spares(g, T!Install(r2))'
    BY <2>1 DEF OpenBy, Spares, T!Active
  <2> QED BY <1>0, <2>1, <2>4, <2>5, AloneStep
<1>2. CASE ~ \E x \in T!Places : dirs[x] # None /\ dirs[x].meta = Torn
  <2>1. cmd' = [cmd EXCEPT ![g].pc = "remove", ![g].todo = T!Unreferenced(g)]
    BY <1>2 DEF T!Scan
  <2>2. /\ cmd'[g].pc = "remove" /\ cmd'[g].at = None /\ cmd'[g].todo = T!Unreferenced(g)
        /\ \A b \in T!Commands : b # g => cmd'[b] = cmd[b]
    BY <1>0, <2>1 DEF OwnFiles, CmdType
  <2>3. \A r \in Runs : ~ Lost(r)
    BY <1>2, PlacesDiffer DEF Lost
  <2>4. GcAlone(g)' /\ OpenBy(g)'
    BY <1>0, <2>2 DEF GcAlone, OpenBy, T!Unreferenced
  <2> QED BY <1>0, <2>2, <2>3, <2>4, AloneStep
<1> QED BY <1>1, <1>2

LEMMA OpenAlone ==
    ASSUME OwnFiles, MetInv, AloneInv, None \notin T!Places, Gcs \cap Runs = {}, NEW g \in Gcs, T!Open(g)
    PROVE  AloneInv'
<1>0. g \in T!Commands /\ g \notin Runs /\ T!Meets(g) /\ cmd[g].pc = "remove" /\ dirs' = dirs /\ T!Active(g)
      /\ cmd[g].at = None
  BY DEF T!Commands, T!Open, T!At, AloneInv, OpenBy, T!Active
<1>1. met'[g] = {} => GcAlone(g)
  BY <1>0, GcWasAlone
<1>2. \A r \in Runs : Lost(r) => T!Install(r) \notin cmd[g].todo
  BY <1>0 DEF Lost, Spares
<1>3. CASE T!Goto(g, "done") \/ (T!Goto(g, "failed") /\ \E x \in cmd[g].todo : dirs[x] = None)
  <2>1. /\ \/ cmd'[g].pc = "done"
           \/ cmd'[g].pc = "failed" /\ \E x \in cmd[g].todo : dirs[x] = None
        /\ cmd'[g].at = None /\ \A b \in T!Commands : b # g => cmd'[b] = cmd[b]
    BY <1>0, <1>3, GotoFields
  <2>2. met'[g] = {} => GcAlone(g)'
    BY <1>0, <1>1, <2>1 DEF GcAlone
  <2>3. OpenBy(g)' /\ \A r \in Runs : Spares(g, T!Install(r))'
    BY <1>0, <2>1 DEF OpenBy, Spares, T!Active
  <2> QED BY <1>0, <2>1, <2>2, <2>3, AloneStep
<1>4. ASSUME NEW x \in cmd[g].todo, dirs[x] # None,
             cmd' = [cmd EXCEPT ![g].pc = "empty", ![g].at = x, ![g].got = x]
      PROVE  AloneInv'
  <2>1. /\ cmd'[g].pc = "empty" /\ cmd'[g].at = x /\ cmd'[g].got = x /\ cmd'[g].todo = cmd[g].todo
        /\ \A b \in T!Commands : b # g => cmd'[b] = cmd[b]
    BY <1>0, <1>4 DEF OwnFiles, CmdType
  <2>2. met'[g] = {} => GcAlone(g)'
    BY <1>0, <1>1, <1>4, <2>1 DEF GcAlone
  <2>3. OpenBy(g)'
    BY <1>4, <2>1 DEF OpenBy
  <2>4. \A r \in Runs : Lost(r) => Spares(g, T!Install(r))'
    BY <1>0, <1>2, <2>1 DEF Spares
  <2> QED BY <1>0, <2>1, <2>2, <2>3, <2>4, AloneStep
<1> QED BY <1>3, <1>4 DEF T!Open

LEMMA UnlinkAlone ==
    ASSUME OwnFiles, OwnFiles', MetInv, AloneInv, None \notin T!Places, Gcs \cap Runs = {}, NEW g \in Gcs, T!Unlink(g),
           None \notin [T!Files -> Written \cup {None, Torn}]
    PROVE  AloneInv'
<1>0. g \in T!Commands /\ g \notin Runs /\ T!Meets(g) /\ cmd[g].pc = "empty" /\ T!Active(g)
  BY DEF T!Commands, T!Unlink, T!At, T!Active
<1>1. met'[g] = {} => GcAlone(g)
  BY <1>0, GcWasAlone
<1>2. \A r \in Runs : Lost(r) => /\ T!Install(r) \notin cmd[g].todo
                               /\ T!Install(r) # cmd[g].at /\ T!Install(r) # cmd[g].got
  BY <1>0 DEF Lost, Spares
<1> DEFINE x == cmd[g].at
<1>3. CASE (dirs[x] = None \/ T!IsEmpty(dirs[x])) /\ T!Goto(g, "rmdir") /\ dirs' = dirs
  <2>1. /\ cmd'[g].pc = "rmdir" /\ cmd'[g].at = x /\ cmd'[g].got = cmd[g].got /\ cmd'[g].todo = cmd[g].todo
        /\ \A b \in T!Commands : b # g => cmd'[b] = cmd[b]
    BY <1>0, <1>3, GotoFields
  <2>2. met'[g] = {} => GcAlone(g)'
    BY <1>0, <1>1, <1>3, <2>1 DEF GcAlone, T!IsEmpty, T!EmptyDir
  <2>3. OpenBy(g)'
    BY <1>0, <2>1 DEF OpenBy
  <2>4. \A r \in Runs : Lost(r) => Spares(g, T!Install(r))'
    BY <1>2, <2>1 DEF Spares
  <2> QED BY <1>0, <1>3, <2>1, <2>2, <2>3, <2>4, AloneStep
<1>4. ASSUME NEW f \in T!Files, dirs[x][f] # None, dirs' = [dirs EXCEPT ![x][f] = None], UNCHANGED cmd
      PROVE  AloneInv'
  <2>1. \A y \in T!Places : y # x => dirs'[y] = dirs[y]
    BY <1>4 DEF OwnFiles
  <2>2. \A y \in T!Places : dirs[y] # None => dirs'[y] # None
    <3> SUFFICES ASSUME x \in T!Places, dirs[x] # None PROVE dirs'[x] # None
      BY <2>1
    <3>1. dirs[x] \in [T!Files -> Written \cup {None, Torn}]
      BY DEF OwnFiles, Dirs
    <3>2. dirs'[x] \in [T!Files -> Written \cup {None, Torn}]
      BY <1>4, <3>1 DEF OwnFiles
    <3> QED BY <3>2
  <2>3. met'[g] = {} => GcAlone(g)'
    BY <1>0, <1>1, <1>4, <2>2 DEF GcAlone
  <2>4. OpenBy(g)' /\ \A r \in Runs : Lost(r) => /\ dirs'[T!Install(r)] = dirs[T!Install(r)]
                                                 /\ Spares(g, T!Install(r))'
    BY <1>0, <1>2, <1>4, <2>1, PlacesDiffer DEF OpenBy, Spares
  <2> QED BY <1>0, <1>4, <2>3, <2>4, AloneStep
<1> QED BY <1>3, <1>4 DEF T!Unlink

LEMMA RmdirAlone ==
    ASSUME OwnFiles, MetInv, AloneInv, None \notin T!Places, Gcs \cap Runs = {}, NEW g \in Gcs, T!Rmdir(g)
    PROVE  AloneInv'
<1>0. g \in T!Commands /\ g \notin Runs /\ T!Meets(g) /\ cmd[g].pc = "rmdir" /\ T!Active(g)
  BY DEF T!Commands, T!Rmdir, T!At, T!Active
<1>1. met'[g] = {} => GcAlone(g)
  BY <1>0, GcWasAlone
<1> DEFINE x == cmd[g].got
<1>2. \A r \in Runs : Lost(r) => T!Install(r) \notin cmd[g].todo /\ T!Install(r) # x
  BY <1>0 DEF Lost, Spares
<1>3. CASE dirs[x] # None /\ T!IsEmpty(dirs[x])
  <2>1. /\ dirs' = [dirs EXCEPT ![x] = None]
        /\ cmd' = [cmd EXCEPT ![g].pc = "remove", ![g].todo = @ \ {x}, ![g].at = None]
    BY <1>3 DEF T!Rmdir
  <2>2. /\ cmd'[g].pc = "remove" /\ cmd'[g].at = None /\ cmd'[g].todo = cmd[g].todo \ {x}
        /\ \A b \in T!Commands : b # g => cmd'[b] = cmd[b]
    BY <1>0, <2>1 DEF OwnFiles, CmdType
  <2>3. \A y \in T!Places : y # x => dirs'[y] = dirs[y]
    BY <2>1 DEF OwnFiles
  <2>4. met'[g] = {} => GcAlone(g)'
    BY <1>0, <1>1, <2>2, <2>3 DEF GcAlone
  <2>5. OpenBy(g)' /\ \A r \in Runs : Lost(r) => /\ dirs'[T!Install(r)] = dirs[T!Install(r)]
                                                 /\ Spares(g, T!Install(r))'
    BY <1>2, <2>2, <2>3, PlacesDiffer DEF OpenBy, Spares
  <2> QED BY <1>0, <2>2, <2>4, <2>5, AloneStep
<1>4. CASE ~ (dirs[x] # None /\ T!IsEmpty(dirs[x]))
  <2>1. cmd' = [cmd EXCEPT ![g].pc = "failed", ![g].at = None] /\ dirs' = dirs
    BY <1>4 DEF T!Rmdir
  <2>2. /\ cmd'[g].pc = "failed" /\ cmd'[g].at = None
        /\ \A b \in T!Commands : b # g => cmd'[b] = cmd[b]
    BY <1>0, <2>1 DEF OwnFiles, CmdType
  <2>3. met'[g] # {}
    BY <1>0, <1>1, <1>4 DEF GcAlone
  <2>4. OpenBy(g)' /\ \A r \in Runs : Spares(g, T!Install(r))'
    BY <2>2 DEF OpenBy, Spares, T!Active
  <2> QED BY <1>0, <2>1, <2>2, <2>3, <2>4, AloneStep
<1> QED BY <1>3, <1>4

LEMMA KilledAlone ==
    ASSUME OwnFiles, MetInv, AloneInv, None \notin T!Places, Gcs \cap Runs = {}, NEW c \in T!Commands, T!Killed(c)
    PROVE  AloneInv'
<1>1. /\ T!Meets(c) /\ T!Active(c) /\ cmd' = [cmd EXCEPT ![c].pc = "killed", ![c].at = None]
      /\ \/ dirs' = dirs
         \/ \E d : dirs' = [dirs EXCEPT ![T!Staged(c)] = d]
         \/ \E d : dirs' = [dirs EXCEPT ![T!Install(c)] = d]
  BY DEF T!Killed
<1>2. /\ cmd'[c].pc = "killed" /\ cmd'[c].at = None
      /\ \A b \in T!Commands : b # c => cmd'[b] = cmd[b]
  BY <1>1 DEF OwnFiles, CmdType
<1>3. \A r \in Runs : Lost(r) => r # c /\ dirs'[T!Install(r)] = dirs[T!Install(r)]
  BY <1>1, PlacesDiffer DEF Lost, T!Active, OwnFiles
<1>4. /\ c \in Runs => GotYet(c)' /\ RunAlone(c)'
      /\ c \in Gcs => GcAlone(c)'
      /\ OpenBy(c)' /\ \A r \in Runs : Spares(c, T!Install(r))'
  BY <1>2 DEF GotYet, RunAlone, GcAlone, OpenBy, Spares, T!Active
<1> QED BY <1>1, <1>2, <1>3, <1>4, AloneStep

\* Nobody is at work when nothing but the entry's module changes.
LEMMA CorruptAlone ==
    ASSUME OwnFiles, AloneInv, T!Corrupt
    PROVE  AloneInv'
<1>1. /\ UNCHANGED <<decl, cmd, met>> /\ \A c \in T!Commands : ~ T!Active(c)
      /\ \A r \in Runs : dirs'[T!Install(r)] = dirs[T!Install(r)]
  BY PlacesDiffer DEF T!Corrupt, OwnFiles
<1>2. \A r \in Runs : Lost(r) => Lost(r)'
  BY <1>1 DEF Lost, Spares, T!Active, T!Install
<1>3. ASSUME NEW p \in Runs PROVE GotYet(p)' /\ (met'[p] = {} => RunAlone(p)')
  BY <1>1 DEF AloneInv, GotYet, RunAlone, T!Commands, T!Active
<1>4. ASSUME NEW g \in Gcs, met'[g] = {} PROVE GcAlone(g)'
  <2>1. GcAlone(g) /\ ~ T!Active(g)
    BY <1>1, <1>4 DEF AloneInv, T!Commands
  <2> QED BY <1>1, <1>2, <2>1 DEF GcAlone, T!Active
<1>5. \A c \in T!Commands : OpenBy(c)' /\ ~ T!Active(c)'
  BY <1>1 DEF AloneInv, OpenBy, T!Active
<1> QED BY <1>3, <1>4, <1>5 DEF AloneInv

LEMMA AloneStutter == ASSUME AloneInv, UNCHANGED T!cacheVars PROVE AloneInv'
<1>1. UNCHANGED dirs /\ UNCHANGED cmd /\ UNCHANGED met
  BY DEF T!cacheVars
<1> QED BY <1>1 DEF AloneInv, OpenBy, T!Active, GotYet, RunAlone, GcAlone, Lost, Spares, Holds, T!Install, T!Staged,
                    T!Backup, T!Entry

LEMMA AloneKept ==
    ASSUME OwnFiles, OwnFiles', MetInv, AloneInv, [T!Next]_(T!cacheVars), None \notin T!Places, Gcs \cap Runs = {},
           None # Torn, Torn \notin Written, None \notin Written, None \notin [T!Files -> Written \cup {None, Torn}]
    PROVE  AloneInv'
<1>1. CASE UNCHANGED T!cacheVars
  BY <1>1, AloneStutter
<1>2. CASE \E p \in Runs :
        \/ T!Status(p) \/ T!Digest(p) \/ T!Fetch(p) \/ T!WriteSidecar(p) \/ T!MakeInstall(p)
        \/ T!Copy(p) \/ T!Inspect(p) \/ T!MoveAway(p) \/ T!MoveIn(p) \/ T!Drop(p) \/ T!Load(p)
  BY <1>2, QuietAlone, FetchAlone, WriteSidecarAlone, MakeInstallAlone, CopyAlone, MoveAwayAlone,
     MoveInAlone, DropAlone
<1>3. CASE \E g \in Gcs : T!Scan(g) \/ T!Open(g) \/ T!Unlink(g) \/ T!Rmdir(g)
  BY <1>3, ScanAlone, OpenAlone, UnlinkAlone, RmdirAlone
<1>4. CASE \E c \in T!Commands : T!Killed(c)
  BY <1>4, KilledAlone
<1>5. CASE T!Corrupt
  BY <1>5, CorruptAlone
<1> QED BY <1>1, <1>2, <1>3, <1>4, <1>5 DEF T!Next

LEMMA AloneIsWell == AloneInv => T!AloneSucceeds
<1> SUFFICES ASSUME AloneInv, NEW c \in T!Commands, met[c] = {}
             PROVE  /\ cmd[c].pc # "failed"
                    /\ c \in Gcs /\ cmd[c].pc = "refused" => \E x \in T!Places \ {T!Entry} : dirs[x] # None
  BY DEF T!AloneSucceeds
<1>1. c \in Runs => RunAlone(c)
  BY DEF AloneInv
<1>2. c \in Gcs => GcAlone(c)
  BY DEF AloneInv
<1>3. \A r \in Runs : Lost(r) => T!Install(r) \in T!Places \ {T!Entry} /\ dirs[T!Install(r)] # None
  BY PlacesDiffer DEF Lost
<1> QED BY <1>1, <1>2, <1>3 DEF RunAlone, GcAlone, T!Commands

(***************************************************************************)
(* A run or a collection that no other command was beside does not fail,   *)
(* and such a collection is refused only when a directory other than the   *)
(* entry is left: what a run has staged, installed or moved aside is there *)
(* when it comes to use it, and a sidecar cut off by a full disk or a kill *)
(* stays in the install directory of the run that wrote it.                *)
(***************************************************************************)
THEOREM CommandsAloneSucceed ==
    ASSUME FilesAreReal, None \notin T!Places, Gcs \cap Runs = {}
    PROVE  PartsSpec => []AloneSucceeds
<1> DEFINE Inv == part = "cache" => OwnFiles /\ RunInv /\ AloneInv
<1>1. PartsInit => Inv
  BY PartInit, InitOwn, RunInit, AloneInit
<1>2. Inv /\ [PartsNext]_allVars => Inv'
  <2> SUFFICES ASSUME Inv, [PartsNext]_allVars, part' = "cache" PROVE OwnFiles' /\ RunInv' /\ AloneInv'
    OBVIOUS
  <2>1. OwnFiles /\ RunInv /\ AloneInv /\ [T!Next]_(T!cacheVars)
    BY PartStep
  <2>2. OwnFiles' /\ RunInv'
    BY <2>1, OwnKept, RunsKept DEF FilesAreReal
  <2>3. MetInv
    BY <2>1 DEF RunInv
  <2>4. None # Torn /\ Torn \notin Written /\ None \notin Written
    BY DEF FilesAreReal
  <2>5. AloneInv'
    BY <2>1, <2>2, <2>3, <2>4, AloneKept DEF FilesAreReal
  <2> QED BY <2>2, <2>5
<1>3. Inv => AloneSucceeds
  BY AloneIsWell DEF AloneSucceeds
<1> QED BY <1>1, <1>2, <1>3, PTL DEF PartsSpec

-----------------------------------------------------------------------------
(***************************************************************************)
(* WorkspaceSlot: a slot, its repositories and origin.                     *)
(***************************************************************************)
\* The shapes of the state. What a command has read is kept only while it publishes.
Commits == [n : Nat, yaml : BOOLEAN, contracts : Nat]
Histories == Seq(Commits)
Repos == [state : {"absent", "bare", "ready"}, heads : [W!Branches -> Histories],
          tracking : [W!Branches -> Histories]]
Slots == [kind : {"none", "dir", "init", "git"}, repo : {"mirror", "own", None},
          head : W!Branches \cup {None}, at : Histories, wt : [yaml : BOOLEAN, contracts : Nat],
          edits : SUBSET W!Paths, news : BOOLEAN, late : SUBSET W!Paths,
          madeOn : W!Branches \cup {None}]

SlotTyped ==
    /\ origin \in [W!Branches -> Histories]
    /\ repos \in [{"mirror", "own"} -> Repos]
    /\ slot \in Slots
    /\ central \in Nat /\ change \in W!Changes /\ fresh \in Nat
    /\ "step" \in DOMAIN run /\ (run.step = "publish" => run.local \in Histories)

\* What slot a command works on, that only a clone has edits, and that a prepare about to
\* switch meets those edits alone that were made since it looked.
SlotOfStep ==
    /\ run.step \in {"mirror", "refspec", "worktree", "mkdir"} => slot.kind = "none"
    /\ run.step = "init" => slot.kind = "dir"
    /\ run.step = "remote" => slot.kind = "init"
    /\ run.step \in {"scaffold", "commit", "rescaffold", "amend", "fetch", "share", "inspect",
                     "switch", "forward", "publish"} => slot.kind = "git"
    /\ run.step = "forward" => slot.head = change
    /\ run.step = "switch" /\ slot.head # change => slot.edits \subseteq slot.late
    /\ slot.kind \in {"init", "git"} => slot.repo \in {"mirror", "own"}
    /\ slot.kind # "git" => slot.edits = {} /\ slot.head \notin W!Changes

\* A history that has grown from root, or is empty; that of a project with project.yaml has
\* it in every commit.
Grown(root, h) ==
    h # << >> =>
        /\ root # << >>
        /\ Head(root).yaml => Head(h) = Head(root) /\ \A i \in 1 .. Len(h) : h[i].yaml

\* Nothing enters the branch of a change that has not grown from origin's history, as the
\* scaffold is committed only where the last commit has no project.yaml.
Forks ==
    /\ \A b \in W!Branches : Grown(origin[Main], origin[b])
    /\ \A r \in {"mirror", "own"} : \A b \in W!Branches :
            /\ Grown(origin[Main], repos[r].tracking[b])
            /\ b \in W!Changes => Grown(origin[Main], repos[r].heads[b])
    /\ run.step = "publish" => Grown(origin[Main], run.local)
    /\ slot.head \in W!Changes => W!Repo.heads[slot.head] # << >>
    /\ slot.kind \in {"init", "git"} /\ W!Tree(W!Tip).yaml => slot.wt.yaml
    /\ run.step \in {"rescaffold", "amend"} => ~ W!Tree(W!Tip).yaml
    /\ run.step = "switch" => W!Repo.tracking[Main] # << >>

SlotInv == SlotTyped /\ SlotOfStep /\ W!EditsStay

-----------------------------------------------------------------------------
(***************************************************************************)
(* Histories.                                                              *)
(***************************************************************************)
LEMMA PrefixSelf ==
    ASSUME NEW E, NEW h \in Seq(E)
    PROVE  W!IsPrefix(h, h)
BY DEF W!IsPrefix

LEMMA PrefixAppend ==
    ASSUME NEW E, NEW h \in Seq(E), NEW c \in E
    PROVE  W!IsPrefix(h, Append(h, c))
<1>1. /\ Append(h, c) \in Seq(E) /\ Len(Append(h, c)) = Len(h) + 1
      /\ \A i \in 1 .. Len(h) : Append(h, c)[i] = h[i]
  OBVIOUS
<1>2. SubSeq(Append(h, c), 1, Len(h)) = SubSeq(h, 1, Len(h))
  BY <1>1
<1> QED BY <1>1, <1>2 DEF W!IsPrefix

LEMMA Appended ==
    ASSUME NEW E, NEW h \in Seq(E), NEW c \in E
    PROVE  /\ Append(h, c) \in Seq(E) /\ Append(h, c) # << >>
           /\ Len(Append(h, c)) = Len(h) + 1
           /\ h # << >> => Head(Append(h, c)) = Head(h)
           /\ h = << >> => Head(Append(h, c)) = c
           /\ W!Last(Append(h, c)) = c
           /\ \A i \in 1 .. Len(h) + 1 : Append(h, c)[i] = IF i = Len(h) + 1 THEN c ELSE h[i]
BY DEF W!Last

LEMMA FrontType ==
    ASSUME NEW E, NEW h \in Seq(E), h # << >>
    PROVE  W!Front(h) \in Seq(E)
BY DEF W!Front

LEMMA EmptyHistory == << >> \in Histories
BY DEF Histories

LEMMA TreeType ==
    ASSUME NEW h \in Histories
    PROVE  W!Tree(h) \in [yaml : BOOLEAN, contracts : Nat]
<1>1. CASE h = << >>
  BY <1>1 DEF W!Tree
<1>2. CASE h # << >>
  <2>1. Len(h) \in 1 .. Len(h) /\ h[Len(h)] \in Commits
    BY <1>2 DEF Histories
  <2> QED BY <1>2, <2>1 DEF W!Tree, W!Last, Commits
<1> QED BY <1>1, <1>2

LEMMA PlansGiven ==
    /\ \A b \in W!Changes : b \in W!Branches /\ b # Main /\ b # None
    /\ Main \in W!Branches /\ Main # None /\ None \notin W!Branches
    /\ Head(Plans) \in W!Changes
    /\ \A i \in 1 .. Len(Plans) : Plans[i] \in W!Changes
<1>1. Len(Plans) \in Nat \ {0} /\ DOMAIN Plans = 1 .. Len(Plans) /\ Head(Plans) = Plans[1]
  BY WorkspaceSlotAssumption
<1>2. W!Changes = {Plans[i] : i \in 1 .. Len(Plans)}
  BY <1>1 DEF W!Changes, W!Range
<1> QED BY <1>1, <1>2, WorkspaceSlotAssumption DEF W!Branches

\* What is checked out of a clone.
LEMMA TipType ==
    ASSUME SlotTyped, SlotOfStep, slot.kind \in {"init", "git"}
    PROVE  /\ slot.repo \in {"mirror", "own"} /\ W!Repo \in Repos /\ W!Tip \in Histories
           /\ W!Tree(W!Tip) \in [yaml : BOOLEAN, contracts : Nat]
<1>1. slot.repo \in {"mirror", "own"} /\ W!Repo \in Repos
  BY DEF SlotTyped, SlotOfStep, W!Repo
<1>2. W!Tip \in Histories
  BY <1>1 DEF W!Tip, SlotTyped, Slots, Repos
<1> QED BY <1>1, <1>2, TreeType

LEMMA FetchedType ==
    ASSUME SlotTyped, NEW repo \in Repos
    PROVE  /\ W!Fetched(repo) \in Repos /\ W!Fetched(repo).heads = repo.heads
           /\ W!Fetched(repo).state = repo.state
           /\ \A b \in W!Branches : W!Fetched(repo).tracking[b] \in {origin[b], repo.tracking[b]}
BY DEF W!Fetched, Repos, SlotTyped

LEMMA CommittedNews ==
    ASSUME SlotTyped, NEW h, NEW tree, NEW left, NEW news, W!Committed(h, tree, left, news)
    PROVE  slot'.news = news
BY DEF W!Committed, SlotTyped, Slots

LEMMA CommittedType ==
    ASSUME SlotTyped, SlotOfStep, slot.kind = "git", NEW h \in Histories,
           NEW tree \in [yaml : BOOLEAN, contracts : Nat], NEW left, NEW news,
           W!Committed(h, tree, left, news), slot'.news \in BOOLEAN
    PROVE  /\ fresh' \in Nat /\ repos' \in [{"mirror", "own"} -> Repos] /\ slot' \in Slots
           /\ slot' = [slot EXCEPT !.at = slot'.at, !.edits = slot.edits \cap left, !.news = slot'.news,
                                   !.late = slot.late \cap left, !.madeOn = slot'.madeOn]
           /\ slot'.madeOn = slot.madeOn \/ slot.edits \cap left \subseteq slot.late
           /\ slot.head = None => repos' = repos
           /\ Append(h, W!Commit(fresh, tree.yaml, tree.contracts)) \in Histories
<1> DEFINE c == W!Commit(fresh, tree.yaml, tree.contracts)
           new == Append(h, c)
<1>1. new \in Histories
  <2>1. c \in Commits
    BY DEF W!Commit, Commits, SlotTyped
  <2> HIDE DEF c
  <2> QED BY <2>1 DEF Histories
<1>2. /\ fresh' = fresh + 1
      /\ repos' = IF slot.head = None THEN repos
                  ELSE [repos EXCEPT ![slot.repo].heads[slot.head] = new]
      /\ slot' = [slot EXCEPT !.at = IF slot.head = None THEN new ELSE @,
                              !.edits = @ \cap left, !.late = @ \cap left, !.news = news,
                              !.madeOn = IF slot.edits \cap left \subseteq slot.late THEN None ELSE @]
  BY DEF W!Committed
<1> HIDE DEF new
<1>3. repos' \in [{"mirror", "own"} -> Repos]
  <2>1. slot.repo \in {"mirror", "own"} /\ (slot.head # None => slot.head \in W!Branches)
    BY DEF SlotTyped, SlotOfStep, Slots
  <2>2. ASSUME slot.head # None PROVE [repos[slot.repo] EXCEPT !.heads[slot.head] = new] \in Repos
    BY <1>1, <2>1, <2>2 DEF SlotTyped, Repos
  <2> QED BY <1>2, <2>1, <2>2 DEF SlotTyped
<1>4. slot' \in Slots
  <2>1. slot.edits \cap left \in SUBSET W!Paths /\ slot.late \cap left \in SUBSET W!Paths
    BY DEF SlotTyped, Slots
  <2>2. slot'.news = news
    BY <1>2 DEF SlotTyped, Slots
  <2>3. slot' = [slot EXCEPT !.at = IF slot.head = None THEN new ELSE @,
                             !.edits = @ \cap left, !.late = @ \cap left, !.news = slot'.news,
                             !.madeOn = IF slot.edits \cap left \subseteq slot.late THEN None ELSE @]
    BY <1>2, <2>2
  <2> QED BY <1>1, <2>1, <2>3 DEF SlotTyped, Slots
<1>5. /\ slot' = [slot EXCEPT !.at = slot'.at, !.edits = slot.edits \cap left, !.news = slot'.news,
                               !.late = slot.late \cap left, !.madeOn = slot'.madeOn]
      /\ slot'.madeOn = slot.madeOn \/ slot.edits \cap left \subseteq slot.late
  BY <1>2 DEF SlotTyped, Slots
<1> QED BY <1>1, <1>2, <1>3, <1>4, <1>5 DEF SlotTyped, new

LEMMA CheckoutType ==
    ASSUME SlotTyped, SlotOfStep, slot.kind = "git", NEW b \in W!Branches, NEW h \in Histories,
           W!CheckoutTo(b, h)
    PROVE  /\ repos' \in [{"mirror", "own"} -> Repos] /\ slot' \in Slots
           /\ slot' = [slot EXCEPT !.head = b, !.at = << >>, !.wt = slot'.wt]
           /\ repos' = [repos EXCEPT ![slot.repo].heads[b] = h]
<1>1. PICK yaml \in W!Switched(W!Tree(W!Tip).yaml, slot.wt.yaml, W!Tree(h).yaml),
           contracts \in W!Switched(W!Tree(W!Tip).contracts, slot.wt.contracts, W!Tree(h).contracts) :
        /\ slot' = [slot EXCEPT !.head = b, !.at = << >>, !.wt.yaml = yaml,
                                !.wt.contracts = contracts]
        /\ repos' = [repos EXCEPT ![slot.repo].heads[b] = h]
  BY DEF W!CheckoutTo
<1>2. W!Tree(h) \in [yaml : BOOLEAN, contracts : Nat] /\ slot.wt \in [yaml : BOOLEAN, contracts : Nat]
  BY TreeType DEF SlotTyped, Slots
<1>3. yaml \in BOOLEAN /\ contracts \in Nat
  BY <1>2 DEF W!Switched
<1>4. slot' \in Slots /\ slot' = [slot EXCEPT !.head = b, !.at = << >>, !.wt = slot'.wt]
  <2> DEFINE wt == [slot.wt EXCEPT !.yaml = yaml, !.contracts = contracts]
  <2>1. wt \in [yaml : BOOLEAN, contracts : Nat] /\ << >> \in Histories
    BY <1>2, <1>3, EmptyHistory
  <2>2. slot' = [slot EXCEPT !.head = b, !.at = << >>, !.wt = wt]
    BY <1>1 DEF SlotTyped, Slots
  <2> HIDE DEF wt
  <2>3. slot'.wt = wt
    BY <2>2 DEF SlotTyped, Slots
  <2>4. slot' \in Slots
    BY <2>1, <2>2 DEF SlotTyped, Slots
  <2> QED BY <2>2, <2>3, <2>4
<1>5. repos' \in [{"mirror", "own"} -> Repos]
  <2>1. slot.repo \in {"mirror", "own"}
    BY TipType
  <2>2. [repos[slot.repo] EXCEPT !.heads[b] = h] \in Repos
    BY <2>1 DEF SlotTyped, Repos
  <2> QED BY <1>1, <2>1, <2>2 DEF SlotTyped
<1> QED BY <1>1, <1>4, <1>5

-----------------------------------------------------------------------------
(***************************************************************************)
(* The shapes, the steps and the edits.                                    *)
(***************************************************************************)
LEMMA SlotInitInv == W!Init => SlotInv
<1> SUFFICES ASSUME W!Init PROVE SlotInv
  OBVIOUS
<1>1. SlotTyped
  <2>1. << >> \in Histories /\ W!Tree(<< >>) \in [yaml : BOOLEAN, contracts : Nat]
    BY EmptyHistory, TreeType
  <2>2. \A yaml \in Scaffolded : <<W!Commit(0, yaml, 0)>> \in Histories
    BY WorkspaceSlotAssumption DEF Histories, Commits, W!Commit
  <2>3. origin \in [W!Branches -> Histories]
    BY <2>1, <2>2 DEF W!Init
  <2>4. W!NoRepo \in Repos /\ W!NoSlot \in Slots
    BY <2>1 DEF W!NoRepo, Repos, W!NoSlot, Slots
  <2> QED BY <2>3, <2>4, PlansGiven DEF W!Init, SlotTyped, W!Idle
<1>2. SlotOfStep /\ W!EditsStay
  BY PlansGiven DEF W!Init, W!Idle, W!NoSlot, SlotOfStep, W!EditsStay
<1> QED BY <1>1, <1>2 DEF SlotInv

\* Steps that change no slot.
LEMMA SlotLeftAlone ==
    ASSUME SlotInv,
           \/ W!SyncStart \/ W!SyncFetch \/ W!Mirror \/ W!ConfigureMirror \/ W!PrepareFetch
           \/ W!PrepareInspect \/ W!PushRead \/ W!Publish \/ W!Others \/ W!NewContracts \/ W!NewChange \/ W!Killed
    PROVE  SlotInv'
<1>0. SlotTyped /\ SlotOfStep /\ W!EditsStay
  BY DEF SlotInv
<1>1. CASE W!SyncStart
  BY <1>0, <1>1 DEF SlotInv, W!SyncStart, W!Begin, SlotTyped, SlotOfStep, W!EditsStay, W!IsGit, Slots
<1>2. CASE W!SyncFetch
  <2>1. repos' \in [{"mirror", "own"} -> Repos]
    BY <1>0, <1>2, FetchedType, TipType DEF W!SyncFetch, W!Step, SlotTyped, SlotOfStep, W!Repo
  <2> QED BY <1>0, <1>2, <2>1 DEF SlotInv, W!SyncFetch, W!Step, W!Goto, W!Done, SlotTyped, SlotOfStep, W!EditsStay
<1>3. CASE W!Mirror
  <2>1. repos' \in [{"mirror", "own"} -> Repos]
    <3>1. CASE repos' = [repos EXCEPT !.mirror = W!Fetched(@)]
      BY <1>0, <3>1, FetchedType DEF SlotTyped
    <3>2. CASE repos' = [repos EXCEPT !.mirror.state = "bare", !.mirror.heads = origin]
      BY <1>0, <3>2 DEF SlotTyped, Repos
    <3> QED BY <1>0, <1>3, <3>1, <3>2 DEF W!Mirror, SlotTyped
  <2> QED BY <1>0, <1>3, <2>1 DEF SlotInv, W!Mirror, W!Step, W!Goto, W!Done, SlotTyped, SlotOfStep, W!EditsStay
<1>4. CASE W!ConfigureMirror
  <2> DEFINE ready == [repos.mirror EXCEPT !.state = "ready"]
  <2>1. ready \in Repos
    BY <1>0 DEF SlotTyped, Repos
  <2>2. repos' \in [{"mirror", "own"} -> Repos]
    BY <1>0, <1>4, <2>1, FetchedType DEF W!ConfigureMirror, SlotTyped
  <2> QED BY <1>0, <1>4, <2>2 DEF SlotInv, W!ConfigureMirror, W!Step, W!Goto, W!Done, SlotTyped, SlotOfStep, W!EditsStay
<1>5. CASE W!PrepareFetch
  <2>1. repos' \in [{"mirror", "own"} -> Repos]
    BY <1>0, <1>5, FetchedType, TipType DEF W!PrepareFetch, W!IsGit, SlotTyped, SlotOfStep, W!Repo
  <2> QED BY <1>0, <1>5, <2>1 DEF SlotInv, W!PrepareFetch, W!IsGit, W!Begin, SlotTyped, SlotOfStep, W!EditsStay
<1>6. CASE W!PushRead
  BY <1>0, <1>6, TipType DEF SlotInv, W!PushRead, W!IsGit, SlotTyped, SlotOfStep, W!EditsStay
<1>7. CASE W!Publish
  <2>1. run.step = "publish" /\ run.local \in Histories /\ slot.repo \in {"mirror", "own"} /\ change \in W!Branches
    BY <1>0, <1>7, PlansGiven DEF W!Publish, W!Step, SlotTyped, SlotOfStep
  <2>2. origin' \in [W!Branches -> Histories]
    BY <1>0, <1>7, <2>1 DEF W!Publish, SlotTyped
  <2>3. repos' \in [{"mirror", "own"} -> Repos]
    <3>1. CASE repos' = [repos EXCEPT ![slot.repo].tracking[change] = run.local]
      <4>1. [repos[slot.repo] EXCEPT !.tracking[change] = run.local] \in Repos
        BY <1>0, <2>1 DEF SlotTyped, Repos
      <4> QED BY <1>0, <2>1, <3>1, <4>1 DEF SlotTyped
    <3> QED BY <1>0, <1>7, <3>1 DEF W!Publish, SlotTyped
  <2> QED BY <1>0, <1>7, <2>2, <2>3 DEF SlotInv, W!Publish, W!Done, SlotTyped, SlotOfStep, W!EditsStay
<1>8. CASE W!Others
  <2>1. PICK b \in {Main, change} :
            LET h == IF origin[b] = << >> THEN origin[Main] ELSE origin[b]
            IN  origin' = [origin EXCEPT ![b] =
                    Append(h, W!Commit(fresh, IF h = << >> THEN TRUE ELSE W!Tree(h).yaml, W!Tree(h).contracts))]
    BY <1>8 DEF W!Others
  <2> DEFINE h == IF origin[b] = << >> THEN origin[Main] ELSE origin[b]
             c == W!Commit(fresh, IF h = << >> THEN TRUE ELSE W!Tree(h).yaml, W!Tree(h).contracts)
  <2>2. b \in W!Branches /\ h \in Histories
    BY <1>0, PlansGiven DEF SlotTyped
  <2>3. c \in Commits
    BY <1>0, <2>2, TreeType DEF SlotTyped, W!Commit, Commits
  <2>4. origin' = [origin EXCEPT ![b] = Append(h, c)]
    BY <2>1
  <2> HIDE DEF h, c
  <2>5. Append(h, c) \in Histories
    BY <2>2, <2>3 DEF Histories
  <2>6. origin' \in [W!Branches -> Histories]
    BY <1>0, <2>2, <2>4, <2>5 DEF SlotTyped
  <2>7. fresh' \in Nat
    BY <1>0, <1>8 DEF SlotTyped, W!Others
  <2> QED BY <1>0, <1>8, <2>6, <2>7 DEF SlotInv, W!Others, SlotTyped, SlotOfStep, W!EditsStay
<1>9. CASE W!NewContracts
  BY <1>0, <1>9 DEF SlotInv, W!NewContracts, SlotTyped, SlotOfStep, W!EditsStay
<1>10. CASE W!NewChange
  <2>1. change' \in W!Changes
    BY <1>10, PlansGiven, WorkspaceSlotAssumption DEF W!NewChange
  <2> QED BY <1>0, <1>10, <2>1 DEF SlotInv, W!NewChange, W!Idle, SlotTyped, SlotOfStep, W!EditsStay
<1>11. CASE W!Killed
  BY <1>0, <1>11 DEF SlotInv, W!Killed, W!Idle, SlotTyped, SlotOfStep, W!EditsStay
<1>12. CASE W!PrepareInspect
  <2>1. run.step = "inspect" /\ slot.kind = "git"
        /\ UNCHANGED <<origin, repos, slot, central, change, fresh, faults>>
    BY <1>0, <1>12 DEF W!PrepareInspect, W!Step, SlotOfStep
  <2>2. CASE W!Done(None)
    BY <1>0, <2>1, <2>2 DEF SlotInv, W!Done, SlotTyped, SlotOfStep, W!EditsStay
  <2>3. CASE ~ W!Refused /\ W!Goto("switch")
    <3>1. slot.head # change => slot.edits = {}
      BY <1>0, <2>3 DEF W!Refused, W!DirtyOk, W!TrackedAllowed, W!Paths, SlotTyped, Slots
    <3> QED BY <1>0, <2>1, <2>3, <3>1 DEF SlotInv, W!Goto, SlotTyped, SlotOfStep, W!EditsStay
  <2> QED BY <1>12, <2>2, <2>3 DEF W!PrepareInspect
<1> QED BY <1>1, <1>2, <1>3, <1>4, <1>5, <1>6, <1>7, <1>8, <1>9, <1>10, <1>11, <1>12

\* Steps of a sync that make the slot, and that put a scaffold or contracts into it.
LEMMA SlotSynced ==
    ASSUME SlotInv, W!AddWorktree \/ W!Bootstrap \/ W!Scaffold \/ W!CommitScaffold \/ W!Distribute
    PROVE  SlotInv'
<1>0. SlotTyped /\ SlotOfStep /\ W!EditsStay
  BY DEF SlotInv
<1>1. W!NoRepo \in Repos /\ W!NoSlot \in Slots
  BY EmptyHistory, TreeType DEF W!NoRepo, Repos, W!NoSlot, Slots
<1>2. CASE W!AddWorktree
  <2> DEFINE at == repos.mirror.heads[Main]
  <2>1. at \in Histories
    BY <1>0, PlansGiven DEF SlotTyped, Repos
  <2>2. CASE UNCHANGED slot /\ W!Done(None)
    BY <1>0, <1>2, <2>2 DEF SlotInv, W!AddWorktree, W!Done, SlotTyped, SlotOfStep, W!EditsStay
  <2>3. CASE W!Goto("distribute") /\ slot' = [W!NoSlot EXCEPT !.kind = "git", !.repo = "mirror",
                                                            !.at = at, !.wt = W!Tree(at)]
    <3>1. slot' \in Slots /\ slot'.kind = "git" /\ slot'.repo = "mirror" /\ slot'.edits = {}
      BY <1>1, <2>1, <2>3, TreeType DEF W!NoSlot, Slots
    <3> QED BY <1>0, <1>2, <2>3, <3>1 DEF SlotInv, W!AddWorktree, W!Step, W!Goto, SlotTyped, SlotOfStep, W!EditsStay
  <2> QED BY <1>2, <2>2, <2>3 DEF W!AddWorktree
<1>3. CASE W!Bootstrap
  <2>1. CASE W!Step("mkdir") /\ W!Goto("init") /\ slot' = [W!NoSlot EXCEPT !.kind = "dir"] /\ UNCHANGED repos
    <3>1. slot' \in Slots /\ slot'.kind = "dir" /\ slot'.edits = {} /\ slot'.head = None
      BY <1>1, <2>1 DEF W!NoSlot, Slots
    <3> QED BY <1>0, <1>3, <2>1, <3>1, PlansGiven DEF SlotInv, W!Bootstrap, W!Step, W!Goto, SlotTyped, SlotOfStep, W!EditsStay
  <2>2. CASE /\ W!Step("init") /\ W!Goto("remote")
             /\ slot' = [slot EXCEPT !.kind = "init", !.repo = "own", !.head = Main]
             /\ repos' = [repos EXCEPT !.own = W!NoRepo]
    <3>1. /\ slot' \in Slots /\ slot'.kind = "init" /\ slot'.repo = "own" /\ slot'.edits = slot.edits
          /\ slot'.head = Main
      BY <1>0, <2>2, PlansGiven DEF SlotTyped, Slots
    <3>2. repos' \in [{"mirror", "own"} -> Repos]
      BY <1>0, <1>1, <2>2 DEF SlotTyped
    <3> QED BY <1>0, <1>3, <2>2, <3>1, <3>2, PlansGiven DEF SlotInv, W!Bootstrap, W!Step, W!Goto, SlotTyped, SlotOfStep, W!EditsStay
  <2>3. CASE /\ W!Step("remote") /\ W!Goto("scaffold")
             /\ slot' = [slot EXCEPT !.kind = "git"]
             /\ repos' = [repos EXCEPT !.own.state = "ready"]
    <3>1. /\ slot' \in Slots /\ slot'.kind = "git" /\ slot'.repo = slot.repo /\ slot'.edits = slot.edits
          /\ slot'.head = slot.head /\ slot'.madeOn = slot.madeOn /\ slot'.late = slot.late
      BY <1>0, <2>3 DEF SlotTyped, Slots
    <3>2. [repos.own EXCEPT !.state = "ready"] \in Repos
      BY <1>0 DEF SlotTyped, Repos
    <3>3. repos' \in [{"mirror", "own"} -> Repos]
      BY <1>0, <2>3, <3>2 DEF SlotTyped
    <3> QED BY <1>0, <1>3, <2>3, <3>1, <3>3 DEF SlotInv, W!Bootstrap, W!Step, W!Goto, SlotTyped, SlotOfStep, W!EditsStay
  <2> QED BY <1>3, <2>1, <2>2, <2>3 DEF W!Bootstrap
<1>4. CASE W!Scaffold
  <2>1. /\ slot' \in Slots /\ slot'.kind = slot.kind /\ slot'.repo = slot.repo /\ slot'.edits = slot.edits
        /\ slot'.head = slot.head /\ slot'.madeOn = slot.madeOn /\ slot'.late = slot.late
    <3>1. [slot.wt EXCEPT !.yaml = TRUE] \in [yaml : BOOLEAN, contracts : Nat]
      BY <1>0 DEF SlotTyped, Slots
    <3> QED BY <1>0, <1>4, <3>1 DEF W!Scaffold, SlotTyped, Slots
  <2> QED BY <1>0, <1>4, <2>1 DEF SlotInv, W!Scaffold, W!Step, W!Goto, SlotTyped, SlotOfStep, W!EditsStay
<1>5. CASE W!CommitScaffold
  <2>1. slot.kind = "git" /\ slot.wt \in [yaml : BOOLEAN, contracts : Nat] /\ W!Goto("distribute")
        /\ UNCHANGED <<origin, central, change, faults>>
    BY <1>0, <1>5 DEF W!CommitScaffold, W!Step, SlotOfStep, SlotTyped, Slots
  <2>2. PICK h \in Histories : W!Committed(h, slot.wt, {}, FALSE)
    <3>1. W!Tip \in Histories
      BY <1>0, <2>1, TipType
    <3>2. W!Tip # << >> => W!Front(W!Tip) \in Histories
      BY <3>1, FrontType DEF Histories
    <3> QED BY <1>5, <3>1, <3>2 DEF W!CommitScaffold
  <2>5. slot'.news \in BOOLEAN
    BY <1>0, <2>2, CommittedNews
  <2>3. /\ fresh' \in Nat /\ repos' \in [{"mirror", "own"} -> Repos] /\ slot' \in Slots
        /\ slot' = [slot EXCEPT !.at = slot'.at, !.edits = slot.edits \cap {}, !.news = slot'.news,
                                !.late = slot.late \cap {}, !.madeOn = slot'.madeOn]
    BY <1>0, <2>1, <2>2, <2>5, CommittedType
  <2>4. slot'.kind = slot.kind /\ slot'.repo = slot.repo /\ slot'.edits = {} /\ slot'.head = slot.head
    BY <1>0, <2>3 DEF SlotTyped, Slots
  <2> QED BY <1>0, <2>1, <2>3, <2>4 DEF SlotInv, W!Goto, SlotTyped, SlotOfStep, W!EditsStay
<1>6. CASE W!Distribute
  <2>1. /\ slot' \in Slots /\ slot'.kind = slot.kind /\ slot'.repo = slot.repo /\ slot'.edits = slot.edits
        /\ slot'.head = slot.head /\ slot'.madeOn = slot.madeOn /\ slot'.late = slot.late
    <3>1. [slot.wt EXCEPT !.contracts = central] \in [yaml : BOOLEAN, contracts : Nat]
      BY <1>0 DEF SlotTyped, Slots
    <3> QED BY <1>0, <1>6, <3>1 DEF W!Distribute, SlotTyped, Slots
  <2> QED BY <1>0, <1>6, <2>1 DEF SlotInv, W!Distribute, W!Done, SlotTyped, SlotOfStep, W!EditsStay
<1> QED BY <1>2, <1>3, <1>4, <1>5, <1>6

\* Prepare switches only with edits made since it looked, or to the branch they are on.
LEMMA SlotPrepared ==
    ASSUME SlotInv, W!PrepareSwitch \/ W!PrepareForward
    PROVE  SlotInv'
<1>0. SlotTyped /\ SlotOfStep /\ W!EditsStay
  BY DEF SlotInv
<1>1. /\ run.step \in {"switch", "forward"} /\ slot.kind = "git" /\ change \in W!Branches /\ change \in W!Changes
      /\ UNCHANGED <<origin, central, change, fresh>>
  BY <1>0, PlansGiven DEF W!PrepareSwitch, W!PrepareForward, W!Step, SlotOfStep, SlotTyped
<1>2. CASE UNCHANGED <<slot, repos>> /\ (W!Done(None) \/ (W!Goto("forward") /\ slot.head = change))
  BY <1>0, <1>1, <1>2 DEF SlotInv, W!Goto, W!Done, SlotTyped, SlotOfStep, W!EditsStay
<1>3. ASSUME NEW h \in Histories, W!CheckoutTo(change, h), slot.head # change => slot.edits \subseteq slot.late,
             W!Done(None) \/ W!Goto("forward")
      PROVE  SlotInv'
  <2>1. /\ repos' \in [{"mirror", "own"} -> Repos] /\ slot' \in Slots
        /\ slot' = [slot EXCEPT !.head = change, !.at = << >>, !.wt = slot'.wt]
    BY <1>0, <1>1, <1>3, CheckoutType
  <2>2. /\ slot'.kind = slot.kind /\ slot'.repo = slot.repo /\ slot'.edits = slot.edits
        /\ slot'.head = change /\ slot'.madeOn = slot.madeOn /\ slot'.late = slot.late
    BY <1>0, <2>1 DEF SlotTyped, Slots
  <2> QED BY <1>0, <1>1, <1>3, <2>1, <2>2 DEF SlotInv, W!Goto, W!Done, SlotTyped, SlotOfStep, W!EditsStay
<1>4. W!Repo \in Repos /\ W!StartPoint \in Histories /\ W!Repo.tracking[change] \in Histories
  BY <1>0, <1>1, TipType, PlansGiven DEF Repos, W!StartPoint
<1>5. CASE W!PrepareSwitch
  <2>1. slot.head # change => slot.edits \subseteq slot.late
    BY <1>0, <1>5 DEF W!PrepareSwitch, W!Step, SlotOfStep
  <2> QED BY <1>2, <1>3, <1>4, <1>5, <2>1 DEF W!PrepareSwitch
<1>6. CASE W!PrepareForward
  <2>1. slot.head = change
    BY <1>0, <1>6 DEF W!PrepareForward, W!Step, SlotOfStep
  <2> QED BY <1>2, <1>3, <1>4, <1>6, <2>1 DEF W!PrepareForward
<1> QED BY <1>5, <1>6

\* The work between the commands.
LEMMA SlotWorkedIn ==
    ASSUME SlotInv, W!Edit \/ W!NewFile \/ W!AutoCommit \/ W!CommitAll \/ W!Recheckout
    PROVE  SlotInv'
<1>0. SlotTyped /\ SlotOfStep /\ W!EditsStay
  BY DEF SlotInv
<1>1. CASE W!Edit
  <2>1. PICK p \in W!Paths :
            slot' = IF W!Step("switch") THEN [slot EXCEPT !.edits = @ \cup {p}, !.late = @ \cup {p}]
                    ELSE [slot EXCEPT !.edits = @ \cup {p},
                             !.madeOn = IF slot.edits \subseteq slot.late THEN slot.head ELSE @]
    BY <1>1 DEF W!Edit
  <2>2. /\ slot.kind = "git" /\ UNCHANGED <<origin, repos, central, change, run, fresh>>
    BY <1>1 DEF W!Edit, W!IsGit
  <2>3. slot.edits \cup {p} \in SUBSET W!Paths /\ slot.late \cup {p} \in SUBSET W!Paths
        /\ slot.head \in W!Branches \cup {None}
    BY <1>0 DEF SlotTyped, Slots
  <2>4. /\ slot' \in Slots /\ slot'.kind = slot.kind /\ slot'.repo = slot.repo
        /\ slot'.head = slot.head /\ slot'.edits = slot.edits \cup {p}
    BY <1>0, <2>1, <2>3 DEF SlotTyped, Slots
  <2>5. /\ run.step = "switch" => slot'.late = slot.late \cup {p} /\ slot'.madeOn = slot.madeOn
        /\ run.step # "switch" =>
             slot'.madeOn = IF slot.edits \subseteq slot.late THEN slot.head ELSE slot.madeOn
    BY <1>0, <2>1 DEF W!Step, SlotTyped, Slots
  <2>6. W!EditsStay'
    BY <1>0, <2>4, <2>5 DEF W!EditsStay
  <2>7. run.step = "switch" /\ slot.head # change => slot'.edits \subseteq slot'.late
    BY <1>0, <2>4, <2>5 DEF SlotOfStep
  <2> QED BY <1>0, <2>2, <2>4, <2>6, <2>7 DEF SlotInv, SlotTyped, SlotOfStep
<1>5. CASE W!NewFile
  <2>1. /\ slot.kind = "git" /\ slot' = [slot EXCEPT !.news = ~ @]
        /\ UNCHANGED <<origin, repos, central, change, run, fresh>>
    BY <1>5 DEF W!NewFile, W!IsGit
  <2>2. /\ slot' \in Slots /\ slot'.kind = slot.kind /\ slot'.repo = slot.repo
        /\ slot'.head = slot.head /\ slot'.edits = slot.edits /\ slot'.late = slot.late
        /\ slot'.madeOn = slot.madeOn
    <3>1. (~ slot.news) \in BOOLEAN
      OBVIOUS
    <3> DEFINE news == ~ slot.news
    <3>2. news \in BOOLEAN /\ slot' = [slot EXCEPT !.news = news]
      BY <2>1, <3>1
    <3> HIDE DEF news
    <3> QED BY <1>0, <3>2 DEF SlotTyped, Slots
  <2> QED BY <1>0, <2>1, <2>2 DEF SlotInv, SlotTyped, SlotOfStep, W!EditsStay
<1>2. ASSUME slot.kind = "git", NEW h \in Histories, NEW tree \in [yaml : BOOLEAN, contracts : Nat],
             NEW left, NEW news, W!Committed(h, tree, left, news), slot'.news \in BOOLEAN,
             run.step = "idle",
             UNCHANGED <<origin, central, change, run, faults>>
      PROVE  SlotInv'
  <2>1. /\ fresh' \in Nat /\ repos' \in [{"mirror", "own"} -> Repos] /\ slot' \in Slots
        /\ slot' = [slot EXCEPT !.at = slot'.at, !.edits = slot.edits \cap left, !.news = slot'.news,
                                !.late = slot.late \cap left, !.madeOn = slot'.madeOn]
        /\ slot'.madeOn = slot.madeOn \/ slot.edits \cap left \subseteq slot.late
    BY <1>0, <1>2, CommittedType
  <2>2. /\ slot'.kind = slot.kind /\ slot'.repo = slot.repo /\ slot'.edits = slot.edits \cap left
        /\ slot'.late = slot.late \cap left /\ slot'.head = slot.head
    BY <1>0, <2>1 DEF SlotTyped, Slots
  <2>3. W!EditsStay'
    BY <1>0, <2>1, <2>2 DEF W!EditsStay
  <2> QED BY <1>0, <1>2, <2>1, <2>2, <2>3 DEF SlotInv, SlotTyped, SlotOfStep
<1>3. CASE W!AutoCommit \/ W!CommitAll
  <2>1. slot.kind = "git" /\ slot.wt \in [yaml : BOOLEAN, contracts : Nat]
    BY <1>0, <1>3 DEF W!AutoCommit, W!CommitAll, W!IsGit, SlotTyped, Slots
  <2>2. W!Tip \in Histories /\ W!Tree(W!Tip) \in [yaml : BOOLEAN, contracts : Nat]
    BY <1>0, <2>1, TipType
  <2>3. CASE W!AutoCommit
    <3>1. PICK left \in {W!Paths, W!Paths \ {"slice"}}, news \in {slot.news, FALSE} :
              W!Committed(W!Tip, W!Tree(W!Tip), left, news)
      BY <2>3 DEF W!AutoCommit
    <3>2. slot'.news \in BOOLEAN
      <4>1. slot'.news = news
        BY <1>0, <3>1, CommittedNews
      <4>2. slot.news \in BOOLEAN
        BY <1>0 DEF SlotTyped, Slots
      <4> QED BY <4>1, <4>2
    <3> QED BY <1>2, <2>1, <2>2, <2>3, <3>1, <3>2 DEF W!AutoCommit
  <2>4. CASE W!CommitAll
    <3>1. slot'.news = FALSE
      BY <1>0, <2>4, CommittedNews DEF W!CommitAll
    <3>2. slot'.news \in BOOLEAN
      BY <3>1
    <3> QED BY <1>2, <2>1, <2>2, <2>4, <3>2 DEF W!CommitAll
  <2> QED BY <1>3, <2>3, <2>4
<1>4. CASE W!Recheckout
  <2>1. W!NoRepo \in Repos /\ W!NoSlot \in Slots
    BY EmptyHistory, TreeType DEF W!NoRepo, Repos, W!NoSlot, Slots
  <2>2. repos' \in [{"mirror", "own"} -> Repos]
    BY <1>0, <1>4, <2>1 DEF W!Recheckout, SlotTyped
  <2>3. slot' = W!NoSlot /\ slot'.kind = "none" /\ slot'.edits = {} /\ slot'.head = None
    BY <1>4 DEF W!Recheckout, W!NoSlot
  <2> QED BY <1>0, <1>4, <2>1, <2>2, <2>3, PlansGiven
          DEF SlotInv, W!Recheckout, W!Idle, SlotTyped, SlotOfStep, W!EditsStay
<1> QED BY <1>1, <1>3, <1>4, <1>5

LEMMA SlotStep == SlotInv /\ [W!Next]_(W!slotVars) => SlotInv'
<1> SUFFICES ASSUME SlotInv, [W!Next]_(W!slotVars) PROVE SlotInv'
  OBVIOUS
<1>1. CASE UNCHANGED W!slotVars
  BY <1>1 DEF W!slotVars, SlotInv, SlotTyped, SlotOfStep, W!EditsStay
<1> QED BY <1>1, SlotLeftAlone, SlotSynced, SlotPrepared, SlotWorkedIn DEF W!Next

\* What a push or another one's push does to origin.
LEMMA PushedIsSeen ==
    ASSUME SlotInv, [W!Next]_(W!slotVars)
    PROVE  W!SeenIsReplaced
<1>0. SlotTyped
  BY DEF SlotInv
<1>1. CASE origin' = origin
  BY <1>0, <1>1, PrefixSelf DEF W!SeenIsReplaced, SlotTyped, Histories
<1>2. CASE W!Publish
  <2>1. CASE origin[change] = run.saw /\ origin' = [origin EXCEPT ![change] = run.local]
    BY <1>0, <2>1, PrefixSelf DEF W!SeenIsReplaced, SlotTyped, Histories
  <2> QED BY <1>1, <1>2, <2>1 DEF W!Publish, W!Lease
<1>3. CASE W!Others
  <2>1. PICK b \in {Main, change} :
            LET h == IF origin[b] = << >> THEN origin[Main] ELSE origin[b]
            IN  origin' = [origin EXCEPT ![b] =
                    Append(h, W!Commit(fresh, IF h = << >> THEN TRUE ELSE W!Tree(h).yaml, W!Tree(h).contracts))]
    BY <1>3 DEF W!Others
  <2> DEFINE h == IF origin[b] = << >> THEN origin[Main] ELSE origin[b]
             c == W!Commit(fresh, IF h = << >> THEN TRUE ELSE W!Tree(h).yaml, W!Tree(h).contracts)
  <2>2. b \in W!Branches /\ h \in Histories
    BY <1>0, PlansGiven DEF SlotTyped
  <2>3. c \in Commits
    BY <1>0, <2>2, TreeType DEF SlotTyped, W!Commit, Commits
  <2>4. origin' = [origin EXCEPT ![b] = Append(h, c)]
    BY <2>1
  <2>5. h = origin[b] \/ origin[b] = << >>
    OBVIOUS
  <2> HIDE DEF h, c
  <2>6. W!IsPrefix(origin[b], Append(h, c))
    <3>1. CASE h = origin[b]
      BY <2>2, <2>3, <3>1, PrefixAppend DEF Histories
    <3>2. CASE origin[b] = << >>
      <4>1. Append(h, c) \in Histories
        BY <2>2, <2>3 DEF Histories
      <4> QED BY <3>2, <4>1 DEF W!IsPrefix, Histories
    <3> QED BY <2>5, <3>1, <3>2
  <2>7. ASSUME NEW a \in W!Branches PROVE W!IsPrefix(origin[a], origin'[a])
    BY <1>0, <2>2, <2>4, <2>6, PrefixSelf DEF SlotTyped, Histories
  <2> QED BY <2>7 DEF W!SeenIsReplaced
<1> QED BY <1>1, <1>2, <1>3
       DEF W!slotVars, W!Next, W!SyncStart, W!SyncFetch, W!Mirror, W!ConfigureMirror, W!AddWorktree, W!Bootstrap,
           W!Scaffold, W!CommitScaffold, W!Distribute, W!PrepareFetch, W!PrepareInspect, W!PrepareSwitch,
           W!PrepareForward, W!PushRead, W!Edit, W!NewFile, W!AutoCommit, W!CommitAll, W!Recheckout, W!NewContracts, W!NewChange, W!Killed

-----------------------------------------------------------------------------
(***************************************************************************)
(* What the branches of changes grow from.                                 *)
(***************************************************************************)
LEMMA GrownKept ==
    ASSUME NEW root, NEW later, root # << >> => later # << >> /\ Head(later) = Head(root),
           NEW h, Grown(root, h)
    PROVE  Grown(later, h)
BY DEF Grown

LEMMA GrownOn ==
    ASSUME NEW root \in Histories, NEW h \in Histories, h # << >>, Grown(root, h), NEW c \in Commits,
           Head(root).yaml => c.yaml
    PROVE  Grown(root, Append(h, c))
<1>1. /\ Head(Append(h, c)) = Head(h) /\ Len(Append(h, c)) = Len(h) + 1 /\ Len(h) \in Nat
      /\ \A i \in 1 .. Len(h) + 1 : Append(h, c)[i] = IF i = Len(h) + 1 THEN c ELSE h[i]
  BY Appended DEF Histories
<1>2. ASSUME Head(root).yaml, NEW i \in 1 .. Len(h) + 1 PROVE Append(h, c)[i].yaml
  <2>1. CASE i = Len(h) + 1
    BY <1>1, <1>2, <2>1
  <2>2. CASE i \in 1 .. Len(h)
    BY <1>1, <1>2, <2>2 DEF Grown
  <2> QED BY <1>1, <1>2, <2>1, <2>2
<1> QED BY <1>1, <1>2 DEF Grown

LEMMA GrownHasYaml ==
    ASSUME NEW root, NEW h \in Histories, h # << >>, Grown(root, h), Head(root).yaml
    PROVE  W!Tree(h).yaml
<1>1. Len(h) \in 1 .. Len(h)
  BY DEF Histories
<1> QED BY <1>1 DEF Grown, W!Tree, W!Last

LEMMA ForksInit == W!Init => Forks
<1> SUFFICES ASSUME W!Init PROVE Forks
  OBVIOUS
<1>1. \A h : Grown(h, << >>)
  BY DEF Grown
<1>2. \A b \in W!Branches : Grown(origin[Main], origin[b])
  <2>1. ASSUME NEW yaml PROVE Grown(<<W!Commit(0, yaml, 0)>>, <<W!Commit(0, yaml, 0)>>)
    BY DEF Grown
  <2> QED BY <1>1, <2>1, PlansGiven DEF W!Init
<1>3. ~ W!Tree(<< >>).yaml
  BY DEF W!Tree
<1> QED BY <1>1, <1>2, <1>3, PlansGiven DEF W!Init, Forks, W!NoRepo, W!NoSlot, W!Idle

\* Steps that keep what is checked out and commit nothing.
LEMMA ForksKept ==
    ASSUME SlotInv, Forks, origin' = origin,
           \A r \in {"mirror", "own"} :
                /\ repos'[r].heads = repos[r].heads
                /\ \A b \in W!Branches : repos'[r].tracking[b] \in {repos[r].tracking[b], origin[b]},
           slot'.head = slot.head /\ slot'.repo = slot.repo /\ slot'.at = slot.at,
           slot'.kind \in {"init", "git"} => slot.kind \in {"init", "git"},
           slot.wt.yaml => slot'.wt.yaml,
           run'.step = "publish" => Grown(origin[Main], run'.local),
           run'.step \in {"rescaffold", "amend"} => slot.kind = "git" /\ ~ W!Tree(W!Tip).yaml,
           run'.step = "switch" => repos' = repos /\ W!Repo.tracking[Main] # << >>
    PROVE  Forks'
<1>0. SlotTyped /\ SlotOfStep
  BY DEF SlotInv
<1>1. slot.kind \in {"init", "git"} => W!Repo'.heads = W!Repo.heads /\ W!Tip' = W!Tip
  BY <1>0, TipType DEF W!Repo, W!Tip
<1>2. slot.head \in W!Changes => slot.kind \in {"init", "git"}
  BY <1>0 DEF SlotOfStep
<1>3. W!Tree(W!Tip)' = W!Tree(W!Tip) \/ slot.kind \notin {"init", "git"}
  BY <1>1 DEF W!Tree
<1>4. /\ \A b \in W!Branches : Grown(origin'[Main], origin'[b])
      /\ \A r \in {"mirror", "own"} : \A b \in W!Branches :
            /\ Grown(origin'[Main], repos'[r].tracking[b])
            /\ b \in W!Changes => Grown(origin'[Main], repos'[r].heads[b])
  BY DEF Forks
<1>5. /\ \A b \in W!Branches : Grown(origin[Main], origin[b])'
      /\ \A r \in {"mirror", "own"} : \A b \in W!Branches :
            /\ Grown(origin[Main], repos[r].tracking[b])'
            /\ b \in W!Changes => Grown(origin[Main], repos[r].heads[b])'
      /\ run'.step = "publish" => Grown(origin[Main], run.local)'
  BY <1>4 DEF Grown
<1>6. slot'.head \in W!Changes => W!Repo'.heads[slot'.head] # << >>
  BY <1>1, <1>2 DEF Forks
<1>7. slot'.kind \in {"init", "git"} /\ W!Tree(W!Tip)'.yaml => slot'.wt.yaml
  BY <1>3 DEF Forks
<1>8. run'.step \in {"rescaffold", "amend"} => ~ W!Tree(W!Tip)'.yaml
  BY <1>3
<1>9. run'.step = "switch" => W!Repo'.tracking[Main] # << >>
  BY DEF W!Repo
<1> QED BY <1>5, <1>6, <1>7, <1>8, <1>9 DEF Forks

LEMMA QuietForks ==
    ASSUME SlotInv, Forks,
           \/ W!SyncStart \/ W!SyncFetch \/ W!ConfigureMirror \/ W!PrepareFetch \/ W!PrepareInspect
           \/ W!PushRead \/ W!NewFile
           \/ W!Scaffold \/ W!Distribute \/ W!Edit \/ W!NewContracts \/ W!NewChange \/ W!Killed
    PROVE  Forks'
<1>0. SlotTyped /\ SlotOfStep
  BY DEF SlotInv
<1>1. CASE /\ W!SyncStart \/ W!NewContracts \/ W!NewChange \/ W!Killed
  <2>1. /\ origin' = origin /\ repos' = repos /\ slot' = slot
        /\ run'.step = "publish" => run'.local = run.local /\ run.step = "publish"
        /\ \/ run'.step \notin {"rescaffold", "amend"} \/ run' = run
           \/ slot.kind = "git" /\ ~ slot.wt.yaml
        /\ run'.step = "switch" => run' = run
    BY <1>1 DEF W!SyncStart, W!NewContracts, W!NewChange, W!Killed, W!Begin, W!Idle, W!IsGit
  <2>2. slot.kind = "git" /\ W!Tree(W!Tip).yaml => slot.wt.yaml
    BY DEF Forks
  <2>3. run' = run /\ run'.step \in {"rescaffold", "amend"} => slot.kind = "git" /\ ~ W!Tree(W!Tip).yaml
    BY <1>0 DEF SlotOfStep, Forks
  <2>4. run'.step \in {"rescaffold", "amend"} => slot.kind = "git" /\ ~ W!Tree(W!Tip).yaml
    BY <2>1, <2>2, <2>3
  <2>5. run'.step = "publish" => Grown(origin[Main], run'.local)
    BY <2>1 DEF Forks
  <2>6. run'.step = "switch" => repos' = repos /\ W!Repo.tracking[Main] # << >>
    BY <2>1 DEF Forks
  <2> QED BY <2>1, <2>4, <2>5, <2>6, ForksKept
<1>2. CASE W!SyncFetch \/ W!PrepareFetch
  <2>1. /\ slot.repo \in {"mirror", "own"}
        /\ origin' = origin /\ slot' = slot
        /\ repos' = repos \/ repos' = [repos EXCEPT ![slot.repo] = W!Fetched(@)]
        /\ run'.step \notin {"publish", "rescaffold", "amend", "switch"}
    BY <1>0, <1>2 DEF W!SyncFetch, W!PrepareFetch, W!Step, W!Goto, W!Done, W!Begin, W!IsGit, SlotOfStep, SlotTyped
  <2>2. \A r \in {"mirror", "own"} :
                /\ repos'[r].heads = repos[r].heads
                /\ \A b \in W!Branches : repos'[r].tracking[b] \in {repos[r].tracking[b], origin[b]}
    BY <1>0, <2>1, FetchedType DEF SlotTyped
  <2> QED BY <2>1, <2>2, ForksKept
<1>3. CASE W!ConfigureMirror
  <2> DEFINE ready == [repos.mirror EXCEPT !.state = "ready"]
  <2>1. ready \in Repos /\ ready.heads = repos.mirror.heads /\ ready.tracking = repos.mirror.tracking
    BY <1>0 DEF SlotTyped, Repos
  <2>2. /\ origin' = origin /\ slot' = slot /\ run'.step \notin {"publish", "rescaffold", "amend", "switch"}
        /\ repos' = [repos EXCEPT !.mirror = ready] \/ repos' = [repos EXCEPT !.mirror = W!Fetched(ready)]
    BY <1>0, <1>3 DEF W!ConfigureMirror, W!Step, W!Goto, W!Done, SlotTyped
  <2> HIDE DEF ready
  <2>3. \A r \in {"mirror", "own"} :
                /\ repos'[r].heads = repos[r].heads
                /\ \A b \in W!Branches : repos'[r].tracking[b] \in {repos[r].tracking[b], origin[b]}
    BY <1>0, <2>1, <2>2, FetchedType DEF SlotTyped
  <2> QED BY <2>2, <2>3, ForksKept
<1>4. CASE W!PushRead
  <2>1. /\ origin' = origin /\ slot' = slot /\ repos' = repos /\ run'.step = "publish"
        /\ run'.local = W!Tip /\ slot.kind = "git" /\ slot.head = change /\ change \in W!Changes
    BY <1>0, <1>4 DEF W!PushRead, W!IsGit, SlotTyped
  <2>2. W!Tip = repos[slot.repo].heads[change] /\ slot.repo \in {"mirror", "own"} /\ change \in W!Branches
    BY <1>0, <2>1, PlansGiven DEF W!Tip, W!Repo, SlotOfStep
  <2>3. Grown(origin[Main], run'.local)
    BY <2>1, <2>2 DEF Forks
  <2> QED BY <2>1, <2>3, ForksKept
<1>5. CASE W!Scaffold \/ W!Distribute
  <2>1. /\ slot'.head = slot.head /\ slot'.repo = slot.repo /\ slot'.at = slot.at
        /\ slot'.kind = slot.kind /\ (slot.wt.yaml => slot'.wt.yaml)
        /\ origin' = origin /\ repos' = repos
    <3>1. CASE W!Scaffold
      BY <1>0, <3>1 DEF W!Scaffold, SlotTyped, Slots
    <3>2. CASE W!Distribute
      BY <1>0, <3>2 DEF W!Distribute, SlotTyped, Slots
    <3> QED BY <1>5, <3>1, <3>2
  <2>2. /\ run'.step \notin {"publish", "switch"}
        /\ run'.step \in {"rescaffold", "amend"} => run.step = "rescaffold"
    <3>1. CASE W!Scaffold
      BY <1>0, <3>1 DEF W!Scaffold, W!Step, W!Goto, SlotTyped
    <3>2. CASE W!Distribute
      <4>1. run'.step = "idle"
        BY <3>2 DEF W!Distribute, W!Done
      <4> QED BY <4>1
    <3> QED BY <1>5, <3>1, <3>2
  <2>3. run.step = "rescaffold" => slot.kind = "git" /\ ~ W!Tree(W!Tip).yaml
    BY <1>0 DEF SlotOfStep, Forks
  <2> QED BY <2>1, <2>2, <2>3, ForksKept
<1>6. CASE W!Edit \/ W!NewFile
  <2>1. /\ slot'.head = slot.head /\ slot'.repo = slot.repo /\ slot'.at = slot.at
        /\ slot'.kind = slot.kind /\ slot'.wt = slot.wt
        /\ origin' = origin /\ repos' = repos /\ run' = run
    BY <1>0, <1>6 DEF W!Edit, W!NewFile, SlotTyped, Slots
  <2>2. /\ run.step \in {"rescaffold", "amend"} => slot.kind = "git" /\ ~ W!Tree(W!Tip).yaml
        /\ run.step = "publish" => Grown(origin[Main], run.local)
        /\ run.step = "switch" => W!Repo.tracking[Main] # << >>
    BY <1>0 DEF SlotOfStep, Forks
  <2> QED BY <2>1, <2>2, ForksKept
<1>7. CASE W!PrepareInspect
  <2>1. /\ origin' = origin /\ slot' = slot /\ repos' = repos
        /\ run'.step \notin {"publish", "rescaffold", "amend"}
        /\ run'.step = "switch" => W!Repo.tracking[Main] # << >>
    BY <1>0, <1>7 DEF W!PrepareInspect, W!Goto, W!Done, W!Refused, SlotTyped
  <2> QED BY <2>1, ForksKept
<1> QED BY <1>1, <1>2, <1>3, <1>4, <1>5, <1>6, <1>7

\* Steps that make a slot or drop it, and the clone of the mirror, of which no slot is made yet.
LEMMA NewSlotForks ==
    ASSUME SlotInv, SlotInv', Forks, W!Mirror \/ W!AddWorktree \/ W!Bootstrap \/ W!Recheckout
    PROVE  Forks'
<1>0. SlotTyped /\ SlotOfStep /\ SlotTyped' /\ SlotOfStep'
  BY DEF SlotInv
<1>1. \A h : Grown(h, << >>)
  BY DEF Grown
<1>2. ASSUME origin' = origin, slot'.kind \notin {"init", "git"},
             run'.step \notin {"publish", "rescaffold", "amend", "switch"},
             \A r \in {"mirror", "own"} : \A b \in W!Branches :
                /\ repos'[r].tracking[b] \in {repos[r].tracking[b], origin[b], << >>}
                /\ repos'[r].heads[b] \in {repos[r].heads[b], origin[b], << >>}
      PROVE  Forks'
  <2>1. /\ \A b \in W!Branches : Grown(origin[Main], origin[b])'
        /\ \A r \in {"mirror", "own"} : \A b \in W!Branches :
            /\ Grown(origin[Main], repos[r].tracking[b])'
            /\ b \in W!Changes => Grown(origin[Main], repos[r].heads[b])'
    <3>1. /\ \A b \in W!Branches : Grown(origin'[Main], origin'[b])
          /\ \A r \in {"mirror", "own"} : \A b \in W!Branches :
            /\ Grown(origin'[Main], repos'[r].tracking[b])
            /\ b \in W!Changes => Grown(origin'[Main], repos'[r].heads[b])
      BY <1>1, <1>2 DEF Forks
    <3> QED BY <3>1 DEF Grown
  <2>2. slot'.head \notin W!Changes
    BY <1>0, <1>2 DEF SlotOfStep
  <2> QED BY <1>2, <2>1, <2>2 DEF Forks
<1>3. CASE W!Mirror
  <2>1. /\ slot.kind = "none" /\ slot' = slot /\ origin' = origin
        /\ run'.step \notin {"publish", "rescaffold", "amend", "switch"}
    BY <1>0, <1>3 DEF W!Mirror, W!Step, W!Goto, W!Done, SlotOfStep, SlotTyped
  <2>2. \/ repos' = repos \/ repos' = [repos EXCEPT !.mirror = W!Fetched(@)]
        \/ repos' = [repos EXCEPT !.mirror.state = "bare", !.mirror.heads = origin]
    BY <1>3 DEF W!Mirror
  <2>3. \A r \in {"mirror", "own"} : \A b \in W!Branches :
                /\ repos'[r].tracking[b] \in {repos[r].tracking[b], origin[b]}
                /\ repos'[r].heads[b] \in {repos[r].heads[b], origin[b]}
    <3>1. CASE repos' = [repos EXCEPT !.mirror = W!Fetched(@)]
      BY <1>0, <3>1, FetchedType DEF SlotTyped
    <3>2. CASE repos' = [repos EXCEPT !.mirror.state = "bare", !.mirror.heads = origin]
      BY <1>0, <3>2 DEF SlotTyped, Repos
    <3> QED BY <2>2, <3>1, <3>2
  <2> QED BY <1>2, <2>1, <2>3
<1>4. CASE W!AddWorktree
  <2>1. slot.kind = "none" /\ repos' = repos /\ origin' = origin
        /\ run'.step \notin {"publish", "rescaffold", "amend", "switch"}
    BY <1>0, <1>4 DEF W!AddWorktree, W!Step, W!Goto, W!Done, SlotOfStep, SlotTyped
  <2>2. CASE slot' = slot
    BY <1>2, <2>1, <2>2
  <2>3. CASE slot' = [W!NoSlot EXCEPT !.kind = "git", !.repo = "mirror", !.at = repos.mirror.heads[Main],
                                    !.wt = W!Tree(repos.mirror.heads[Main])]
    <3>1. /\ slot'.head = None /\ slot'.at = repos.mirror.heads[Main]
          /\ slot'.wt = W!Tree(repos.mirror.heads[Main])
      BY <2>3 DEF W!NoSlot
    <3>2. slot'.head \notin W!Changes
      BY <3>1, PlansGiven
    <3>3. W!Tip' = repos.mirror.heads[Main]
      BY <3>1 DEF W!Tip
    <3>4. W!Tree(W!Tip)' = slot'.wt
      BY <3>1, <3>3 DEF W!Tree
    <3>5. /\ \A b \in W!Branches : Grown(origin[Main], origin[b])'
          /\ \A r \in {"mirror", "own"} : \A b \in W!Branches :
            /\ Grown(origin[Main], repos[r].tracking[b])'
            /\ b \in W!Changes => Grown(origin[Main], repos[r].heads[b])'
      BY <2>1 DEF Forks, Grown
    <3> QED BY <2>1, <3>2, <3>4, <3>5 DEF Forks
  <2> QED BY <1>4, <2>2, <2>3 DEF W!AddWorktree
<1>5. CASE W!Bootstrap
  <2>1. origin' = origin /\ run'.step \notin {"publish", "rescaffold", "amend", "switch"}
    BY <1>0, <1>5 DEF W!Bootstrap, W!Goto, SlotTyped
  <2>2. CASE slot' = [W!NoSlot EXCEPT !.kind = "dir"] /\ UNCHANGED repos
    BY <1>2, <2>1, <2>2 DEF W!NoSlot
  <2>3. CASE /\ slot' = [slot EXCEPT !.kind = "init", !.repo = "own", !.head = Main]
             /\ repos' = [repos EXCEPT !.own = W!NoRepo]
    <3>1. slot'.head = Main /\ slot'.repo = "own" /\ Main # None
      BY <1>0, <2>3, PlansGiven DEF SlotTyped, Slots
    <3>2. /\ repos'.own = W!NoRepo /\ repos'.mirror = repos.mirror
          /\ \A b \in W!Branches : repos'.own.heads[b] = << >> /\ repos'.own.tracking[b] = << >>
      BY <1>0, <2>3 DEF SlotTyped, W!NoRepo
    <3>3. W!Tip' = << >>
      BY <3>1, <3>2, PlansGiven DEF W!Tip, W!Repo
    <3>4. ~ W!Tree(W!Tip)'.yaml
      BY <3>3 DEF W!Tree
    <3>5. /\ \A b \in W!Branches : Grown(origin'[Main], origin'[b])
          /\ \A r \in {"mirror", "own"} : \A b \in W!Branches :
            /\ Grown(origin'[Main], repos'[r].tracking[b])
            /\ b \in W!Changes => Grown(origin'[Main], repos'[r].heads[b])
      BY <1>1, <2>1, <3>2 DEF Forks
    <3>6. /\ \A b \in W!Branches : Grown(origin[Main], origin[b])'
          /\ \A r \in {"mirror", "own"} : \A b \in W!Branches :
            /\ Grown(origin[Main], repos[r].tracking[b])'
            /\ b \in W!Changes => Grown(origin[Main], repos[r].heads[b])'
      BY <3>5 DEF Grown
    <3>7. slot'.head \notin W!Changes
      BY <3>1, PlansGiven
    <3> QED BY <2>1, <3>4, <3>6, <3>7 DEF Forks
  <2>4. CASE /\ slot' = [slot EXCEPT !.kind = "git"] /\ W!Step("remote")
             /\ repos' = [repos EXCEPT !.own.state = "ready"]
    <3>1. /\ slot.kind = "init" /\ slot'.head = slot.head /\ slot'.repo = slot.repo
          /\ slot'.at = slot.at /\ slot'.wt = slot.wt
      BY <1>0, <2>4 DEF W!Step, SlotOfStep, SlotTyped, Slots
    <3>2. \A r \in {"mirror", "own"} :
                repos'[r].heads = repos[r].heads /\ repos'[r].tracking = repos[r].tracking
      BY <1>0, <2>4 DEF SlotTyped, Repos
    <3> QED BY <2>1, <3>1, <3>2, ForksKept
  <2> QED BY <1>5, <2>2, <2>3, <2>4 DEF W!Bootstrap
<1>6. CASE W!Recheckout
  <2>1. /\ origin' = origin /\ run'.step \notin {"publish", "rescaffold", "amend", "switch"}
        /\ slot'.kind = "none"
    BY <1>6 DEF W!Recheckout, W!Idle, W!NoSlot
  <2>2. /\ repos'.own = W!NoRepo /\ repos'.mirror = repos.mirror
        /\ \A b \in W!Branches : repos'.own.heads[b] = << >> /\ repos'.own.tracking[b] = << >>
    BY <1>0, <1>6 DEF W!Recheckout, SlotTyped, W!NoRepo
  <2> QED BY <1>2, <2>1, <2>2
<1> QED BY <1>3, <1>4, <1>5, <1>6

\* A commit on what is checked out, or in place of a commit without project.yaml.
LEMMA CommitForks ==
    ASSUME SlotInv, Forks, slot.kind = "git", NEW h \in Histories,
           NEW tree \in [yaml : BOOLEAN, contracts : Nat], NEW left, NEW news,
           W!Committed(h, tree, left, news), origin' = origin,
           run'.step \notin {"publish", "rescaffold", "amend", "switch"},
           tree.yaml => slot.wt.yaml,
           \/ h = W!Tip /\ (W!Tree(W!Tip).yaml => tree.yaml)
           \/ ~ W!Tree(W!Tip).yaml
    PROVE  Forks'
<1> DEFINE c == W!Commit(fresh, tree.yaml, tree.contracts)
           new == Append(h, c)
<1>0. SlotTyped /\ SlotOfStep /\ slot.repo \in {"mirror", "own"}
  BY TipType DEF SlotInv
<1>1. c \in Commits /\ c.yaml = tree.yaml
  BY <1>0 DEF W!Commit, Commits, SlotTyped
<1>2. /\ repos' = IF slot.head = None THEN repos
                  ELSE [repos EXCEPT ![slot.repo].heads[slot.head] = new]
      /\ slot' = [slot EXCEPT !.at = IF slot.head = None THEN new ELSE @,
                              !.edits = @ \cap left, !.late = @ \cap left, !.news = news,
                              !.madeOn = IF slot.edits \cap left \subseteq slot.late THEN None ELSE @]
  BY DEF W!Committed
<1> HIDE DEF c
<1>3. new \in Histories /\ new # << >> /\ W!Tree(new).yaml = tree.yaml
  <2>1. new \in Histories /\ new # << >> /\ W!Last(new) = c
    BY <1>1, Appended DEF Histories
  <2> QED BY <1>1, <2>1 DEF W!Tree
<1>4. ASSUME slot.head \in W!Changes PROVE Grown(origin[Main], new)
  <2>1. W!Tip = repos[slot.repo].heads[slot.head] /\ slot.head \in W!Branches
    BY <1>4, PlansGiven DEF W!Tip, W!Repo
  <2>2. W!Tip \in Histories /\ W!Tip # << >> /\ Grown(origin[Main], W!Tip) /\ origin[Main] \in Histories
    BY <1>0, <1>4, <2>1, TipType, PlansGiven DEF Forks, SlotTyped, W!Repo
  <2>3. CASE Head(origin[Main]).yaml
    <3>1. h = W!Tip /\ tree.yaml
      BY <2>2, <2>3, GrownHasYaml
    <3> QED BY <1>1, <2>2, <3>1, GrownOn
  <2>4. CASE ~ Head(origin[Main]).yaml
    BY <2>2, <2>4 DEF Grown
  <2> QED BY <2>3, <2>4
<1> HIDE DEF new
<1>5. /\ slot'.head = slot.head /\ slot'.repo = slot.repo /\ slot'.kind = slot.kind /\ slot'.wt = slot.wt
      /\ slot'.at = IF slot.head = None THEN new ELSE slot.at
  BY <1>0, <1>2 DEF SlotTyped, Slots
<1>6. slot.head # None => slot.head \in W!Branches /\ repos'[slot.repo].heads[slot.head] = new
  BY <1>0, <1>2 DEF SlotTyped, Slots, Repos
<1>7. \A r \in {"mirror", "own"} : \A b \in W!Branches :
        /\ repos'[r].tracking[b] = repos[r].tracking[b]
        /\ \/ repos'[r].heads[b] = repos[r].heads[b]
           \/ b = slot.head /\ repos'[r].heads[b] = new
  BY <1>0, <1>2 DEF SlotTyped, Repos
<1>8. W!Tip' = new
  BY <1>5, <1>6 DEF W!Tip, W!Repo
<1>9. W!Tree(W!Tip)' = W!Tree(new)
  BY <1>8 DEF W!Tree
<1>10. /\ \A b \in W!Branches : Grown(origin'[Main], origin'[b])
       /\ \A r \in {"mirror", "own"} : \A b \in W!Branches :
            /\ Grown(origin'[Main], repos'[r].tracking[b])
            /\ b \in W!Changes => Grown(origin'[Main], repos'[r].heads[b])
  BY <1>4, <1>7 DEF Forks
<1>11. /\ \A b \in W!Branches : Grown(origin[Main], origin[b])'
       /\ \A r \in {"mirror", "own"} : \A b \in W!Branches :
            /\ Grown(origin[Main], repos[r].tracking[b])'
            /\ b \in W!Changes => Grown(origin[Main], repos[r].heads[b])'
  BY <1>10 DEF Grown
<1>12. slot'.head \in W!Changes => W!Repo'.heads[slot'.head] # << >>
  BY <1>3, <1>5, <1>6, PlansGiven DEF W!Repo
<1>13. W!Tree(W!Tip)'.yaml => slot'.wt.yaml
  BY <1>3, <1>5, <1>9
<1> QED BY <1>11, <1>12, <1>13 DEF Forks

\* The branch of the change is checked out.
LEMMA CheckoutForks ==
    ASSUME SlotInv, Forks, slot.kind = "git", NEW h \in Histories, h # << >>,
           Grown(origin[Main], h), W!CheckoutTo(change, h), origin' = origin,
           run'.step \notin {"publish", "rescaffold", "amend", "switch"}
    PROVE  Forks'
<1>0. SlotTyped /\ SlotOfStep /\ slot.repo \in {"mirror", "own"} /\ change \in W!Changes /\ change \in W!Branches
      /\ change # None
  BY TipType, PlansGiven DEF SlotInv, SlotTyped
<1>1. /\ slot' = [slot EXCEPT !.head = change, !.at = << >>, !.wt = slot'.wt]
      /\ repos' = [repos EXCEPT ![slot.repo].heads[change] = h]
  BY <1>0, CheckoutType
<1>2. /\ slot'.head = change /\ slot'.repo = slot.repo
      /\ repos'[slot.repo].heads[change] = h
      /\ \A r \in {"mirror", "own"} : \A b \in W!Branches :
            /\ repos'[r].tracking[b] = repos[r].tracking[b]
            /\ repos'[r].heads[b] = repos[r].heads[b] \/ repos'[r].heads[b] = h
  <2>1. slot'.head = change /\ slot'.repo = slot.repo
    BY <1>0, <1>1 DEF SlotTyped, Slots
  <2>2. /\ repos'[slot.repo].heads[change] = h
        /\ \A r \in {"mirror", "own"} : \A b \in W!Branches :
            /\ repos'[r].tracking[b] = repos[r].tracking[b]
            /\ repos'[r].heads[b] = repos[r].heads[b] \/ repos'[r].heads[b] = h
    BY <1>0, <1>1 DEF SlotTyped, Repos
  <2> QED BY <2>1, <2>2
<1>3. W!Tip' = h /\ W!Repo'.heads[slot'.head] # << >>
  BY <1>0, <1>2 DEF W!Tip, W!Repo
<1>4. W!Tree(W!Tip)' = W!Tree(h)
  BY <1>3 DEF W!Tree
<1>5. W!Tree(h).yaml => slot'.wt.yaml
  <2>1. PICK yaml \in W!Switched(W!Tree(W!Tip).yaml, slot.wt.yaml, W!Tree(h).yaml),
             contracts \in W!Switched(W!Tree(W!Tip).contracts, slot.wt.contracts, W!Tree(h).contracts) :
            slot' = [slot EXCEPT !.head = change, !.at = << >>, !.wt.yaml = yaml,
                                 !.wt.contracts = contracts]
    BY DEF W!CheckoutTo
  <2>2. slot'.wt.yaml = yaml
    BY <1>0, <2>1 DEF SlotTyped, Slots
  <2>3. W!Tree(W!Tip).yaml \in BOOLEAN /\ slot.wt.yaml \in BOOLEAN /\ W!Tree(h).yaml \in BOOLEAN
    BY <1>0, TipType, TreeType DEF SlotTyped, Slots
  <2>4. W!Tree(W!Tip).yaml => slot.wt.yaml
    BY DEF Forks
  <2>5. W!Tree(h).yaml => yaml
    BY <2>1, <2>3, <2>4 DEF W!Switched
  <2> QED BY <2>2, <2>5
<1>6. /\ \A b \in W!Branches : Grown(origin'[Main], origin'[b])
      /\ \A r \in {"mirror", "own"} : \A b \in W!Branches :
            /\ Grown(origin'[Main], repos'[r].tracking[b])
            /\ b \in W!Changes => Grown(origin'[Main], repos'[r].heads[b])
  BY <1>2 DEF Forks
<1>7. /\ \A b \in W!Branches : Grown(origin[Main], origin[b])'
      /\ \A r \in {"mirror", "own"} : \A b \in W!Branches :
            /\ Grown(origin[Main], repos[r].tracking[b])'
            /\ b \in W!Changes => Grown(origin[Main], repos[r].heads[b])'
  BY <1>6 DEF Grown
<1> QED BY <1>3, <1>4, <1>5, <1>7 DEF Forks

LEMMA WorkForks ==
    ASSUME SlotInv, Forks,
           W!CommitScaffold \/ W!AutoCommit \/ W!CommitAll \/ W!PrepareSwitch \/ W!PrepareForward
    PROVE  Forks'
<1>0. SlotTyped /\ SlotOfStep
  BY DEF SlotInv
<1>1. slot.kind = "git" /\ origin' = origin /\ run'.step \notin {"publish", "rescaffold", "amend", "switch"}
  <2>1. CASE W!CommitScaffold
    BY <1>0, <2>1 DEF W!CommitScaffold, W!Step, W!Goto, SlotOfStep, SlotTyped
  <2>2. CASE W!AutoCommit \/ W!CommitAll
    BY <2>2 DEF W!AutoCommit, W!CommitAll, W!IsGit
  <2>3. CASE W!PrepareSwitch
    BY <1>0, <2>3 DEF W!PrepareSwitch, W!Step, W!Goto, W!Done, SlotOfStep, SlotTyped
  <2>4. CASE W!PrepareForward
    BY <1>0, <2>4 DEF W!PrepareForward, W!Step, W!Done, SlotOfStep
  <2> QED BY <2>1, <2>2, <2>3, <2>4
<1>2. /\ W!Tip \in Histories /\ slot.repo \in {"mirror", "own"} /\ (W!Tree(W!Tip).yaml => slot.wt.yaml)
      /\ W!Tree(W!Tip) \in [yaml : BOOLEAN, contracts : Nat]
      /\ slot.wt \in [yaml : BOOLEAN, contracts : Nat]
  BY <1>0, <1>1, TipType DEF Forks, SlotTyped, Slots
<1>3. CASE W!CommitScaffold
  <2>1. CASE W!Committed(W!Tip, slot.wt, {}, FALSE)
    BY <1>1, <1>2, <2>1, CommitForks
  <2>2. CASE W!Step("amend") /\ W!Committed(IF W!Tip = << >> THEN W!Tip ELSE W!Front(W!Tip), slot.wt, {}, FALSE)
    <3> DEFINE h == IF W!Tip = << >> THEN W!Tip ELSE W!Front(W!Tip)
    <3>1. h \in Histories
      <4>1. W!Tip # << >> => W!Front(W!Tip) \in Histories
        BY <1>2, FrontType DEF Histories
      <4> QED BY <1>2, <4>1
    <3>2. ~ W!Tree(W!Tip).yaml
      BY <2>2 DEF W!Step, Forks
    <3> HIDE DEF h
    <3>3. W!Committed(h, slot.wt, {}, FALSE)
      BY <2>2 DEF h
    <3> QED BY <1>1, <1>2, <3>1, <3>2, <3>3, CommitForks
  <2> QED BY <1>3, <2>1, <2>2 DEF W!CommitScaffold
<1>4. CASE W!AutoCommit
  BY <1>1, <1>2, <1>4, CommitForks DEF W!AutoCommit
<1>5. CASE W!CommitAll
  BY <1>1, <1>2, <1>5, CommitForks DEF W!CommitAll
<1>6. CASE UNCHANGED <<slot, repos>>
  BY <1>1, <1>6, ForksKept
<1>7. W!Repo \in Repos /\ change \in W!Changes /\ change \in W!Branches /\ Main \in W!Branches
  BY <1>0, <1>1, TipType, PlansGiven DEF SlotTyped
<1>8. \A b \in W!Branches : W!Repo.tracking[b] \in Histories /\ Grown(origin[Main], W!Repo.tracking[b])
  <2>1. \A b \in W!Branches : W!Repo.tracking[b] \in Histories
    BY <1>7 DEF Repos
  <2>2. \A b \in W!Branches : Grown(origin[Main], repos[slot.repo].tracking[b])
    BY <1>2 DEF Forks
  <2> QED BY <2>1, <2>2 DEF W!Repo
<1>9. W!StartPoint \in Histories /\ Grown(origin[Main], W!StartPoint)
      /\ (W!Repo.tracking[Main] # << >> => W!StartPoint # << >>)
  <2>1. W!Repo.heads[change] \in Histories
    BY <1>7 DEF Repos
  <2>2. Grown(origin[Main], repos[slot.repo].heads[change])
    BY <1>2, <1>7 DEF Forks
  <2>3. Grown(origin[Main], W!Repo.heads[change])
    BY <2>2 DEF W!Repo
  <2> QED BY <1>7, <1>8, <2>1, <2>3 DEF W!StartPoint
<1>10. CASE W!PrepareSwitch
  <2>1. W!Repo.tracking[Main] # << >>
    BY <1>10 DEF W!PrepareSwitch, W!Step, Forks
  <2> QED BY <1>1, <1>6, <1>9, <1>10, <2>1, CheckoutForks DEF W!PrepareSwitch
<1>11. CASE W!PrepareForward
  BY <1>1, <1>6, <1>7, <1>8, <1>11, CheckoutForks DEF W!PrepareForward
<1> QED BY <1>3, <1>4, <1>5, <1>10, <1>11

\* Pushes to origin, of the slot and of others.
LEMMA PushForks ==
    ASSUME SlotInv, Forks, W!Publish \/ W!Others
    PROVE  Forks'
<1>0. SlotTyped /\ SlotOfStep /\ change \in W!Branches /\ change \in W!Changes /\ Main # change /\ Main \in W!Branches
  BY PlansGiven DEF SlotInv, SlotTyped
<1>1. ASSUME NEW b \in {Main, change}, NEW new \in Histories,
             b = Main => Grown(new, new), b = change => Grown(origin[Main], new),
             b = Main /\ origin[Main] # << >> => new # << >> /\ Head(new) = Head(origin[Main]),
             origin' = [origin EXCEPT ![b] = new], slot' = slot,
             \/ repos' = repos
             \/ /\ b = change /\ slot.repo \in {"mirror", "own"}
                /\ repos' = [repos EXCEPT ![slot.repo].tracking[change] = new],
             run' = run \/ run'.step = "idle"
      PROVE  Forks'
  <2>1. origin[Main] # << >> => origin'[Main] # << >> /\ Head(origin'[Main]) = Head(origin[Main])
    BY <1>0, <1>1 DEF SlotTyped
  <2>2. \A a \in W!Branches : origin'[a] = IF a = b THEN new ELSE origin[a]
    BY <1>0, <1>1 DEF SlotTyped
  <2>3. \A r \in {"mirror", "own"} : \A a \in W!Branches :
            /\ repos'[r].heads[a] = repos[r].heads[a]
            /\ repos'[r].heads = repos[r].heads
            /\ \/ repos'[r].tracking[a] = repos[r].tracking[a]
               \/ b = change /\ repos'[r].tracking[a] = new
    BY <1>0, <1>1 DEF SlotTyped, Repos
  <2>4. \A h : Grown(origin[Main], h) => Grown(origin'[Main], h)
    BY <2>1, GrownKept
  <2>5. /\ \A a \in W!Branches : Grown(origin'[Main], origin'[a])
        /\ \A r \in {"mirror", "own"} : \A a \in W!Branches :
            /\ Grown(origin'[Main], repos'[r].tracking[a])
            /\ a \in W!Changes => Grown(origin'[Main], repos'[r].heads[a])
        /\ run'.step = "publish" => Grown(origin'[Main], run'.local)
    BY <1>0, <1>1, <2>2, <2>3, <2>4 DEF Forks
  <2>6. /\ \A a \in W!Branches : Grown(origin[Main], origin[a])'
        /\ \A r \in {"mirror", "own"} : \A a \in W!Branches :
            /\ Grown(origin[Main], repos[r].tracking[a])'
            /\ a \in W!Changes => Grown(origin[Main], repos[r].heads[a])'
        /\ run'.step = "publish" => Grown(origin[Main], run.local)'
    BY <2>5 DEF Grown
  <2>7. slot.kind \in {"init", "git"} => W!Repo'.heads = W!Repo.heads /\ W!Tip' = W!Tip
    BY <1>0, <1>1, <2>3, TipType DEF W!Repo, W!Tip
  <2>8. W!Tree(W!Tip)' = W!Tree(W!Tip) \/ slot.kind \notin {"init", "git"}
    BY <2>7 DEF W!Tree
  <2>9. slot.head \in W!Changes => slot.kind \in {"init", "git"}
    BY <1>0 DEF SlotOfStep
  <2>10. slot'.head \in W!Changes => W!Repo'.heads[slot'.head] # << >>
    BY <1>1, <2>7, <2>9 DEF Forks
  <2>11. slot'.kind \in {"init", "git"} /\ W!Tree(W!Tip)'.yaml => slot'.wt.yaml
    BY <1>1, <2>8 DEF Forks
  <2>12. run'.step \in {"rescaffold", "amend"} => ~ W!Tree(W!Tip)'.yaml
    BY <1>0, <1>1, <2>8 DEF Forks, SlotOfStep
  <2>13. run'.step = "switch" => W!Repo'.tracking[Main] # << >>
    <3>1. run'.step = "switch" => slot.repo \in {"mirror", "own"} /\ repos[slot.repo].tracking[Main] # << >>
      BY <1>0, <1>1 DEF Forks, SlotOfStep, W!Repo
    <3>2. \A r \in {"mirror", "own"} : repos'[r].tracking[Main] = repos[r].tracking[Main]
      BY <1>0, <1>1 DEF SlotTyped, Repos
    <3> QED BY <1>1, <3>1, <3>2 DEF W!Repo
  <2> QED BY <2>6, <2>10, <2>11, <2>12, <2>13 DEF Forks
<1>2. CASE W!Publish
  <2>1. /\ run.step = "publish" /\ slot' = slot /\ run'.step = "idle" /\ slot.kind = "git"
        /\ slot.repo \in {"mirror", "own"} /\ run.local \in Histories
        /\ Grown(origin[Main], run.local)
    BY <1>0, <1>2 DEF W!Publish, W!Step, W!Done, SlotOfStep, SlotTyped, Forks
  <2>2. CASE UNCHANGED <<origin, repos>>
    BY <2>1, <2>2, ForksKept
  <2>3. CASE origin' = [origin EXCEPT ![change] = run.local]
    BY <1>0, <1>1, <1>2, <2>1, <2>3 DEF W!Publish
  <2> QED BY <1>2, <2>2, <2>3 DEF W!Publish
<1>3. CASE W!Others
  <2>1. PICK b \in {Main, change} :
            /\ b # Main => origin[Main] # << >>
            /\ LET h == IF origin[b] = << >> THEN origin[Main] ELSE origin[b]
               IN  origin' = [origin EXCEPT ![b] =
                    Append(h, W!Commit(fresh, IF h = << >> THEN TRUE ELSE W!Tree(h).yaml, W!Tree(h).contracts))]
    BY <1>3 DEF W!Others
  <2> DEFINE h == IF origin[b] = << >> THEN origin[Main] ELSE origin[b]
             c == W!Commit(fresh, IF h = << >> THEN TRUE ELSE W!Tree(h).yaml, W!Tree(h).contracts)
  <2>2. b \in W!Branches /\ h \in Histories /\ origin[Main] \in Histories
    BY <1>0 DEF SlotTyped
  <2>3. c \in Commits /\ c.yaml = IF h = << >> THEN TRUE ELSE W!Tree(h).yaml
    BY <1>0, <2>2, TreeType DEF SlotTyped, W!Commit, Commits
  <2>4. origin' = [origin EXCEPT ![b] = Append(h, c)]
    BY <2>1
  <2>5. (b = Main => h = origin[Main]) /\ (b # Main => h # << >>) /\ Grown(origin[Main], h)
    BY <1>0, <2>1, <2>2 DEF Forks
  <2> HIDE DEF h, c
  <2>6. /\ Append(h, c) \in Histories /\ Append(h, c) # << >>
        /\ h # << >> => Head(Append(h, c)) = Head(h)
        /\ h = << >> => Head(Append(h, c)) = c /\ Len(Append(h, c)) = 1 /\ Append(h, c)[1] = c
    BY <2>2, <2>3, Appended DEF Histories
  <2>7. h # << >> => Grown(origin[Main], Append(h, c))
    BY <2>2, <2>3, <2>5, GrownHasYaml, GrownOn
  <2>8. b = Main => Grown(Append(h, c), Append(h, c))
    <3>1. CASE h = << >>
      BY <2>3, <2>6, <3>1 DEF Grown
    <3>2. CASE h # << >>
      BY <2>5, <2>6, <2>7, <3>2 DEF Grown
    <3> QED BY <3>1, <3>2
  <2>9. b = change => Grown(origin[Main], Append(h, c))
    BY <1>0, <2>5, <2>7
  <2>10. b = Main /\ origin[Main] # << >> => Head(Append(h, c)) = Head(origin[Main])
    BY <2>5, <2>6
  <2>11. slot' = slot /\ repos' = repos /\ run' = run
    BY <1>3 DEF W!Others
  <2> DEFINE new == Append(h, c)
  <2> HIDE DEF new
  <2>12. new \in Histories /\ new # << >> /\ (b = Main => Grown(new, new))
         /\ (b = change => Grown(origin[Main], new)) /\ origin' = [origin EXCEPT ![b] = new]
         /\ (b = Main /\ origin[Main] # << >> => Head(new) = Head(origin[Main]))
    BY <2>4, <2>6, <2>8, <2>9, <2>10 DEF new
  <2> QED BY <1>1, <2>11, <2>12
<1> QED BY <1>2, <1>3

LEMMA ForksStep == SlotInv /\ SlotInv' /\ Forks /\ [W!Next]_(W!slotVars) => Forks'
<1> SUFFICES ASSUME SlotInv, SlotInv', Forks, [W!Next]_(W!slotVars) PROVE Forks'
  OBVIOUS
<1>1. CASE UNCHANGED W!slotVars
  <2>1. origin' = origin /\ repos' = repos /\ slot' = slot /\ run' = run
    BY <1>1 DEF W!slotVars
  <2>2. /\ run.step \in {"rescaffold", "amend"} => slot.kind = "git" /\ ~ W!Tree(W!Tip).yaml
        /\ run.step = "publish" => Grown(origin[Main], run.local)
        /\ run.step = "switch" => W!Repo.tracking[Main] # << >>
    BY DEF SlotInv, SlotOfStep, Forks
  <2> QED BY <2>1, <2>2, ForksKept
<1> QED BY <1>1, QuietForks, NewSlotForks, WorkForks, PushForks DEF W!Next

LEMMA ForksAreFromMain == SlotInv /\ Forks => W!ForksFromMain
<1> SUFFICES ASSUME SlotInv, Forks PROVE W!ForksFromMain
  OBVIOUS
<1>1. DOMAIN repos = {"mirror", "own"}
  BY DEF SlotInv, SlotTyped
<1> QED BY <1>1, PlansGiven DEF Forks, W!ForksFromMain, Grown

-----------------------------------------------------------------------------
(***************************************************************************)
(* What a sync that reports success leaves behind.                         *)
(***************************************************************************)
\* What a clone has: a mirror without its refspec is one whose configuration was killed, and
\* only commands on a clone report success.
Ready ==
    /\ faults = [offline |-> faults.offline, killed |-> faults.killed]
    /\ repos.own.state # "bare"
    /\ repos.mirror.state = "bare" => (run.step = "refspec" \/ "refspec" \in faults.killed)
    /\ run.step \in {"refspec", "worktree"} => repos.mirror.state # "absent"
    /\ (run.step \in {"distribute", "share"} \/ (run.step = "idle" /\ run.result = "synced")) => slot.kind = "git"
    /\ slot.kind = "git" => repos[slot.repo].state # "absent"
    /\ slot.kind = "init" => slot.repo = "own"

\* project.yaml is in the work tree iff it is committed, but between scaffold and commit.
Unfinished == run.step \in {"commit", "amend"} \/ {"commit", "amend"} \cap faults.killed # {}

AsCommitted ==
    /\ slot.kind \in {"none", "dir"} => ~ slot.wt.yaml
    /\ slot.kind \in {"init", "git"} => (slot.wt.yaml = W!Tree(W!Tip).yaml \/ Unfinished)

LEMMA ReadyInit == W!Init => Ready /\ AsCommitted
BY WorkspaceSlotAssumption
   DEF W!Init, Ready, AsCommitted, W!Idle, W!NoRepo, W!NoSlot, W!Tree

\* Faults are only added.
LEMMA FaultsGrow ==
    ASSUME Ready, W!Next
    PROVE  /\ faults' = [offline |-> faults'.offline, killed |-> faults'.killed]
           /\ faults.killed \subseteq faults'.killed
<1>1. CASE faults' = faults
  BY <1>1 DEF Ready
<1>2. CASE faults' = [faults EXCEPT !.offline = @ + 1]
  BY <1>2 DEF Ready
<1>3. CASE faults' = [faults EXCEPT !.killed = @ \cup {run.step}]
  BY <1>3 DEF Ready
<1> QED BY <1>1, <1>2, <1>3
     DEF W!Next, W!SyncStart, W!SyncFetch, W!Mirror, W!ConfigureMirror, W!AddWorktree, W!Bootstrap, W!Scaffold,
         W!CommitScaffold, W!Distribute, W!PrepareFetch, W!PrepareInspect, W!PrepareSwitch, W!PrepareForward, W!PushRead,
         W!Publish, W!Edit, W!NewFile, W!AutoCommit, W!CommitAll, W!Recheckout, W!Others, W!NewContracts, W!NewChange,
         W!Killed, W!Online, W!Offline

\* Commits and checkouts are made in a clone, which stays one.
LEMMA StatesKept ==
    ASSUME SlotTyped, slot.kind = "git", slot.repo \in {"mirror", "own"}, NEW h, NEW tree, NEW left,
           NEW news,
           \/ W!Committed(h, tree, left, news)
           \/ W!CheckoutTo(change, h)
    PROVE  /\ slot'.kind = slot.kind /\ slot'.repo = slot.repo
           /\ \A r \in {"mirror", "own"} : repos'[r].state = repos[r].state
<1>1. CASE W!Committed(h, tree, left, news)
  <2> DEFINE new == Append(h, W!Commit(fresh, tree.yaml, tree.contracts))
  <2>1. /\ repos' = IF slot.head = None THEN repos
                    ELSE [repos EXCEPT ![slot.repo].heads[slot.head] = new]
        /\ slot' = [slot EXCEPT !.at = IF slot.head = None THEN new ELSE @,
                                !.edits = @ \cap left, !.late = @ \cap left, !.news = news,
                                !.madeOn = IF slot.edits \cap left \subseteq slot.late THEN None ELSE @]
    BY <1>1 DEF W!Committed
  <2> HIDE DEF new
  <2> QED BY <2>1 DEF SlotTyped, Slots, Repos
<1>2. CASE W!CheckoutTo(change, h)
  <2>1. PICK yaml, contracts :
            /\ slot' = [slot EXCEPT !.head = change, !.at = << >>, !.wt.yaml = yaml,
                                    !.wt.contracts = contracts]
            /\ repos' = [repos EXCEPT ![slot.repo].heads[change] = h]
    BY <1>2 DEF W!CheckoutTo
  <2> QED BY <2>1 DEF SlotTyped, Slots, Repos
<1> QED BY <1>1, <1>2

\* A step that leaves the states of the repositories and the kind of the slot alone.
LEMMA ReadyKept ==
    ASSUME SlotInv, Ready, W!Next, slot'.kind = slot.kind, slot'.repo = slot.repo,
           \A r \in {"mirror", "own"} : repos'[r].state = repos[r].state,
           run.step \notin {"refspec", "worktree"} => run'.step \notin {"refspec", "worktree"},
           run.step = "refspec" => run'.step = "refspec" \/ "refspec" \in faults'.killed,
           \/ run'.step \notin {"distribute", "share", "idle"} \/ slot.kind = "git"
           \/ run'.step = "idle" /\ run'.result # "synced"
           \/ run' = run
    PROVE  Ready'
<1>1. slot.kind = "git" => slot.repo \in {"mirror", "own"}
  BY DEF SlotInv, SlotOfStep
<1> QED BY <1>1, FaultsGrow DEF Ready

LEMMA ReadyStep ==
    ASSUME SlotInv, Ready, [W!Next]_(W!slotVars)
    PROVE  Ready'
<1>0. SlotTyped /\ SlotOfStep /\ (slot.kind \in {"init", "git"} => slot.repo \in {"mirror", "own"})
  BY DEF SlotInv, SlotOfStep
<1> USE <1>0, WorkspaceSlotAssumption DEF SlotOfStep
<1>1. CASE UNCHANGED W!slotVars
  BY <1>1 DEF W!slotVars, Ready
<1>2. CASE W!SyncStart \/ W!Edit \/ W!NewFile \/ W!PrepareInspect
  <2>1. W!Next
    BY <1>2 DEF W!Next
  <2>2. /\ slot'.kind = slot.kind /\ slot'.repo = slot.repo /\ repos' = repos
        /\ \/ run'.step \in {"mirror", "fetch", "rescaffold"} /\ run.step = "idle"
           \/ run' = run
           \/ run'.step \in {"switch", "idle"} /\ run.step = "inspect" /\ slot.kind = "git"
    <3>1. CASE W!SyncStart
      BY <3>1 DEF W!SyncStart, W!Begin
    <3>2. CASE W!Edit \/ W!NewFile
      BY <3>2 DEF W!Edit, W!NewFile, SlotTyped, Slots
    <3>3. CASE W!PrepareInspect
      BY <3>3 DEF W!PrepareInspect, W!Step, W!Goto, W!Done, SlotTyped
    <3> QED BY <1>2, <3>1, <3>2, <3>3
  <2> QED BY <2>1, <2>2, ReadyKept
<1>3. CASE W!SyncFetch \/ W!PrepareFetch
  <2>1. \A r \in {"mirror", "own"} : repos'[r].state = repos[r].state
    BY <1>3, FetchedType DEF W!SyncFetch, W!PrepareFetch, W!Step, W!IsGit, SlotTyped
  <2>2. W!Next
    BY <1>3 DEF W!Next
  <2> QED BY <1>3, <2>1, <2>2, ReadyKept DEF W!SyncFetch, W!PrepareFetch, W!Step, W!Goto, W!Done, W!Begin, SlotTyped
<1>4. CASE W!Mirror
  <2>1. W!Next
    BY <1>4 DEF W!Next
  <2>2. /\ slot.kind = "none" /\ slot' = slot /\ run.step = "mirror" 
        /\ (repos.mirror.state # "bare" \/ "refspec" \in faults.killed)
        /\ run'.step = "idle" => run'.result # "synced"
        /\ run'.step \notin {"distribute", "share"}
    BY <1>4 DEF W!Mirror, W!Step, W!Goto, W!Done, Ready, SlotTyped
  <2>3. /\ repos'.own.state = repos.own.state
        /\ \/ repos'.mirror.state = repos.mirror.state /\ run'.step # "refspec"
              /\ (run'.step = "worktree" => repos.mirror.state # "absent")
           \/ repos'.mirror.state = "bare" /\ run'.step = "refspec"
    <3>1. CASE repos' = [repos EXCEPT !.mirror = W!Fetched(@)] /\ W!Goto("worktree") /\ repos.mirror.state # "absent"
      BY <3>1, FetchedType DEF W!Goto, SlotTyped
    <3>2. CASE UNCHANGED repos /\ (W!Done(None) \/ W!Goto("mkdir"))
      BY <3>2 DEF W!Goto, W!Done, SlotTyped
    <3>3. CASE repos' = [repos EXCEPT !.mirror.state = "bare", !.mirror.heads = origin] /\ W!Goto("refspec")
      BY <3>3 DEF W!Goto, SlotTyped, Repos
    <3> QED BY <1>4, <3>1, <3>2, <3>3 DEF W!Mirror
  <2> QED BY <2>1, <2>2, <2>3, FaultsGrow DEF Ready
<1>5. CASE W!ConfigureMirror
  <2> DEFINE ready == [repos.mirror EXCEPT !.state = "ready"]
  <2>1. ready \in Repos /\ ready.state = "ready"
    BY DEF SlotTyped, Repos
  <2> HIDE DEF ready
  <2>2. W!Fetched(ready).state = "ready"
    BY <2>1, FetchedType
  <2>3. repos'.mirror.state = "ready" /\ repos'.own = repos.own
    BY <1>5, <2>1, <2>2 DEF W!ConfigureMirror, SlotTyped, ready
  <2>4. /\ slot.kind = "none" /\ slot' = slot /\ run'.step \in {"worktree", "idle"}
        /\ run'.step = "idle" => run'.result # "synced"
    BY <1>5 DEF W!ConfigureMirror, W!Step, W!Goto, W!Done, SlotTyped
  <2>5. W!Next
    BY <1>5 DEF W!Next
  <2> QED BY <2>3, <2>4, <2>5, FaultsGrow DEF Ready
<1>6. CASE W!AddWorktree
  <2>1. repos' = repos /\ repos.mirror.state # "absent" /\ run.step = "worktree" /\ faults' = faults
        /\ slot.kind = "none"
    BY <1>6 DEF W!AddWorktree, W!Step, Ready
  <2>2. CASE UNCHANGED slot /\ W!Done(None)
    BY <2>1, <2>2 DEF Ready, W!Done
  <2>3. CASE W!Goto("distribute") /\ slot' = [W!NoSlot EXCEPT !.kind = "git", !.repo = "mirror",
                                    !.at = repos.mirror.heads[Main], !.wt = W!Tree(repos.mirror.heads[Main])]
    <3>1. run'.step = "distribute"
      BY <2>3 DEF W!Goto, SlotTyped
    <3>2. slot'.kind = "git" /\ slot'.repo = "mirror"
      BY <2>3 DEF W!NoSlot
    <3> QED BY <2>1, <3>1, <3>2 DEF Ready
  <2> QED BY <1>6, <2>2, <2>3 DEF W!AddWorktree
<1>14. CASE W!Bootstrap
  <2>1. /\ run'.step \in {"init", "remote", "scaffold"} /\ faults' = faults
        /\ repos'.mirror.state = repos.mirror.state /\ run.step # "refspec"
    BY <1>14 DEF W!Bootstrap, W!Step, W!Goto, SlotTyped
  <2>2. repos'.own.state # "bare" /\ (slot'.kind \in {"init", "git"} => slot'.repo = "own")
        /\ (slot'.kind = "git" => repos'.own.state = "ready")
    <3>1. CASE slot' = [W!NoSlot EXCEPT !.kind = "dir"] /\ UNCHANGED repos
      BY <3>1 DEF W!NoSlot, Ready
    <3>2. CASE /\ slot' = [slot EXCEPT !.kind = "init", !.repo = "own", !.head = Main]
               /\ repos' = [repos EXCEPT !.own = W!NoRepo]
      BY <3>2 DEF W!NoRepo, SlotTyped, Slots
    <3>3. CASE /\ W!Step("remote") /\ slot' = [slot EXCEPT !.kind = "git"]
               /\ repos' = [repos EXCEPT !.own.state = "ready"]
      BY <3>3 DEF W!Step, Ready, SlotTyped, Slots, Repos
    <3> QED BY <1>14, <3>1, <3>2, <3>3 DEF W!Bootstrap
  <2> QED BY <2>1, <2>2 DEF Ready
<1>7. CASE W!Scaffold \/ W!Distribute
  <2>1. slot'.kind = slot.kind /\ slot'.repo = slot.repo
    BY <1>7 DEF W!Scaffold, W!Distribute, SlotTyped, Slots
  <2>2. W!Next /\ repos' = repos /\ faults' = faults
        /\ run.step \in {"scaffold", "rescaffold", "distribute", "share"}
        /\ run'.step \in {"commit", "amend", "idle"}
        /\ (run'.step = "idle" => slot.kind = "git")
    BY <1>7 DEF W!Next, W!Scaffold, W!Distribute, W!Step, W!Goto, W!Done, Ready, SlotTyped
  <2> QED BY <2>1, <2>2, ReadyKept
<1>8. CASE W!CommitScaffold \/ W!AutoCommit \/ W!CommitAll
  <2>1. W!Next /\ slot.kind = "git" /\ run.step # "refspec" /\ (run' = run \/ run'.step = "distribute")
    BY <1>8 DEF W!Next, W!CommitScaffold, W!AutoCommit, W!CommitAll, W!Step, W!Goto, W!IsGit, SlotTyped
  <2>2. \E h, tree, left, news : W!Committed(h, tree, left, news)
    BY <1>8 DEF W!CommitScaffold, W!AutoCommit, W!CommitAll
  <2> QED BY <2>1, <2>2, StatesKept, ReadyKept
<1>9. CASE W!PrepareSwitch \/ W!PrepareForward
  <2>1. W!Next /\ slot.kind = "git" /\ run.step \in {"switch", "forward"} /\ run'.step \in {"forward", "idle"}
    BY <1>9 DEF W!Next, W!PrepareSwitch, W!PrepareForward, W!Step, W!Goto, W!Done, SlotTyped
  <2>2. UNCHANGED <<slot, repos>> \/ \E h : W!CheckoutTo(change, h)
    BY <1>9 DEF W!PrepareSwitch, W!PrepareForward
  <2> QED BY <2>1, <2>2, StatesKept, ReadyKept
<1>10. CASE W!PushRead \/ W!Publish
  <2>1. W!Next /\ slot.kind = "git" /\ slot' = slot /\ run'.step \in {"publish", "idle"}
        /\ run.step \in {"publish", "idle"}
    BY <1>10 DEF W!Next, W!PushRead, W!Publish, W!Step, W!Done, W!IsGit
  <2>2. \A r \in {"mirror", "own"} : repos'[r].state = repos[r].state
    BY <1>10, <2>1 DEF W!PushRead, W!Publish, SlotTyped, Repos
  <2> QED BY <2>1, <2>2, ReadyKept
<1>11. CASE W!Recheckout
  BY <1>11 DEF W!Recheckout, W!Idle, W!NoSlot, W!NoRepo, Ready, SlotTyped
<1>12. CASE W!Others \/ W!NewContracts
  <2>1. W!Next /\ slot' = slot /\ repos' = repos /\ run' = run /\ faults' = faults
    BY <1>12 DEF W!Next, W!Others, W!NewContracts
  <2> QED BY <2>1 DEF Ready
<1>13. CASE W!NewChange \/ W!Killed
  <2>1. W!Next /\ slot' = slot /\ repos' = repos /\ run' = W!Idle
        /\ (run.step = "refspec" => "refspec" \in faults'.killed)
    BY <1>13 DEF W!Next, W!NewChange, W!Killed, Ready
  <2> QED BY <2>1, FaultsGrow DEF Ready, W!Idle
<1> QED BY <1>1, <1>2, <1>3, <1>4, <1>5, <1>6, <1>7, <1>8, <1>9, <1>10, <1>11, <1>12, <1>13, <1>14 DEF W!Next

\* A step that leaves the work tree, and what it is compared with, alone.
LEMMA AsCommittedKept ==
    ASSUME SlotInv, Ready, AsCommitted, W!Next, slot'.kind = slot.kind, slot'.head = slot.head,
           slot'.repo = slot.repo, slot'.at = slot.at, slot'.wt.yaml = slot.wt.yaml,
           \A r \in {"mirror", "own"} : repos'[r].heads = repos[r].heads,
           run.step \in {"commit", "amend"} =>
                run' = run \/ {"commit", "amend"} \cap faults'.killed # {}
    PROVE  AsCommitted'
<1>1. slot.kind \in {"init", "git"} => slot.repo \in {"mirror", "own"}
  BY DEF SlotInv, SlotOfStep
<1>2. slot.kind \in {"init", "git"} => W!Tree(W!Tip)' = W!Tree(W!Tip)
  BY <1>1 DEF W!Tip, W!Repo, W!Tree
<1>3. Unfinished => Unfinished'
  BY FaultsGrow DEF Unfinished
<1> QED BY <1>2, <1>3 DEF AsCommitted

\* A commit of what is there.
LEMMA AsCommittedOn ==
    ASSUME SlotInv, slot.kind = "git", NEW h \in Histories,
           NEW tree \in [yaml : BOOLEAN, contracts : Nat], NEW left, NEW news,
           W!Committed(h, tree, left, news), Ready, AsCommitted, W!Next,
           tree.yaml = slot.wt.yaml \/ (tree.yaml = W!Tree(W!Tip).yaml /\ run' = run)
    PROVE  AsCommitted'
<1> DEFINE c == W!Commit(fresh, tree.yaml, tree.contracts)
           new == Append(h, c)
<1>0. SlotTyped /\ SlotOfStep /\ slot.repo \in {"mirror", "own"}
  BY TipType DEF SlotInv
<1>1. c \in Commits /\ c.yaml = tree.yaml
  BY <1>0 DEF W!Commit, Commits, SlotTyped
<1>2. /\ repos' = IF slot.head = None THEN repos
                  ELSE [repos EXCEPT ![slot.repo].heads[slot.head] = new]
      /\ slot' = [slot EXCEPT !.at = IF slot.head = None THEN new ELSE @,
                              !.edits = @ \cap left, !.late = @ \cap left, !.news = news,
                              !.madeOn = IF slot.edits \cap left \subseteq slot.late THEN None ELSE @]
  BY DEF W!Committed
<1> HIDE DEF c
<1>3. W!Tree(new).yaml = tree.yaml
  <2>1. new \in Histories /\ new # << >> /\ W!Last(new) = c
    BY <1>1, Appended DEF Histories
  <2> QED BY <1>1, <2>1 DEF W!Tree
<1> HIDE DEF new
<1>4. /\ slot'.head = slot.head /\ slot'.repo = slot.repo /\ slot'.kind = slot.kind /\ slot'.wt = slot.wt
      /\ slot'.at = IF slot.head = None THEN new ELSE slot.at
  BY <1>0, <1>2 DEF SlotTyped, Slots
<1>5. slot.head # None => repos'[slot.repo].heads[slot.head] = new
  BY <1>0, <1>2 DEF SlotTyped, Slots, Repos
<1>6. W!Tip' = new
  BY <1>4, <1>5 DEF W!Tip, W!Repo
<1>7. W!Tree(W!Tip)'.yaml = tree.yaml
  BY <1>3, <1>6 DEF W!Tree
<1>8. (run' = run /\ Unfinished) => Unfinished'
  BY FaultsGrow DEF Unfinished
<1> QED BY <1>4, <1>7, <1>8 DEF AsCommitted

\* A checkout takes project.yaml along only if it is not committed.
LEMMA AsCommittedAt ==
    ASSUME SlotInv, slot.kind = "git", NEW h \in Histories, W!CheckoutTo(change, h),
           Ready, AsCommitted, W!Next, run.step \notin {"commit", "amend"}
    PROVE  AsCommitted'
<1>0. SlotTyped /\ SlotOfStep /\ slot.repo \in {"mirror", "own"} /\ change \in W!Changes /\ change \in W!Branches
      /\ change # None
  BY TipType, PlansGiven DEF SlotInv, SlotTyped
<1>1. PICK yaml \in W!Switched(W!Tree(W!Tip).yaml, slot.wt.yaml, W!Tree(h).yaml),
           contracts \in W!Switched(W!Tree(W!Tip).contracts, slot.wt.contracts, W!Tree(h).contracts) :
          /\ slot' = [slot EXCEPT !.head = change, !.at = << >>, !.wt.yaml = yaml,
                                  !.wt.contracts = contracts]
          /\ repos' = [repos EXCEPT ![slot.repo].heads[change] = h]
  BY DEF W!CheckoutTo
<1>2. slot'.wt.yaml = yaml /\ slot'.head = change /\ slot'.repo = slot.repo /\ slot'.kind = "git"
  BY <1>0, <1>1 DEF SlotTyped, Slots
<1>3. repos'[slot.repo].heads[change] = h
  BY <1>0, <1>1 DEF SlotTyped, Repos
<1>4. W!Tip' = h
  BY <1>0, <1>2, <1>3 DEF W!Tip, W!Repo
<1>5. W!Tree(W!Tip)' = W!Tree(h)
  BY <1>4 DEF W!Tree
<1>6. slot.wt.yaml = W!Tree(W!Tip).yaml => yaml = W!Tree(h).yaml
  BY <1>1 DEF W!Switched
<1>7. Unfinished => Unfinished'
  BY FaultsGrow DEF Unfinished
<1> QED BY <1>2, <1>5, <1>6, <1>7 DEF AsCommitted

LEMMA AsCommittedStep ==
    ASSUME SlotInv, Ready, AsCommitted, [W!Next]_(W!slotVars)
    PROVE  AsCommitted'
<1>0. SlotTyped /\ SlotOfStep /\ (slot.kind \in {"init", "git"} => slot.repo \in {"mirror", "own"})
  BY DEF SlotInv, SlotOfStep
<1> USE <1>0 DEF SlotOfStep
<1>1. CASE UNCHANGED W!slotVars
  <2>1. slot' = slot /\ repos' = repos /\ run' = run /\ faults' = faults
    BY <1>1 DEF W!slotVars
  <2>2. W!Tree(W!Tip)' = W!Tree(W!Tip)
    BY <2>1 DEF W!Tip, W!Repo, W!Tree
  <2> QED BY <2>1, <2>2 DEF AsCommitted, Unfinished
<1>2. CASE W!Edit \/ W!NewFile
  <2>1. W!Next /\ slot'.kind = slot.kind /\ slot'.head = slot.head /\ slot'.repo = slot.repo
        /\ slot'.at = slot.at /\ slot'.wt = slot.wt /\ repos' = repos /\ run' = run
    BY <1>2 DEF W!Next, W!Edit, W!NewFile, SlotTyped, Slots
  <2> QED BY <2>1, AsCommittedKept
<1>3. CASE W!SyncStart \/ W!SyncFetch \/ W!PrepareFetch \/ W!PrepareInspect \/ W!PushRead \/ W!Publish \/ W!Others \/ W!NewContracts
           \/ W!NewChange \/ W!Killed
  <2>1. W!Next /\ slot' = slot
    BY <1>3 DEF W!Next, W!SyncStart, W!SyncFetch, W!PrepareFetch, W!PrepareInspect, W!PushRead, W!Publish, W!Others, W!NewContracts,
                  W!NewChange, W!Killed
  <2>2. \A r \in {"mirror", "own"} : repos'[r].heads = repos[r].heads
    <3>1. CASE repos' = [repos EXCEPT ![slot.repo] = W!Fetched(@)] /\ slot.kind = "git"
      BY <3>1, FetchedType DEF SlotTyped
    <3>2. CASE W!Publish
      BY <3>2 DEF W!Publish, SlotTyped, Repos
    <3> QED BY <1>3, <3>1, <3>2 DEF W!SyncStart, W!SyncFetch, W!PrepareFetch, W!PrepareInspect, W!PushRead, W!Others,
                W!NewContracts,
                W!NewChange, W!Killed, W!IsGit, W!Step
  <2>3. run.step \in {"commit", "amend"} =>
            run' = run \/ {"commit", "amend"} \cap faults'.killed # {}
    BY <1>3 DEF W!SyncStart, W!SyncFetch, W!PrepareFetch, W!PrepareInspect, W!PushRead, W!Publish, W!Others, W!NewContracts,
                W!NewChange, W!Killed, W!Begin, W!Step, Ready
  <2> QED BY <2>1, <2>2, <2>3, AsCommittedKept
<1>4. CASE W!Mirror \/ W!ConfigureMirror
  <2>1. slot.kind = "none" /\ slot' = slot
    BY <1>4 DEF W!Mirror, W!ConfigureMirror, W!Step
  <2> QED BY <2>1 DEF AsCommitted
<1>5. CASE W!AddWorktree
  <2>1. CASE UNCHANGED slot
    BY <1>5, <2>1 DEF W!AddWorktree, W!Step, AsCommitted
  <2>2. CASE slot' = [W!NoSlot EXCEPT !.kind = "git", !.repo = "mirror",
                                  !.at = repos.mirror.heads[Main], !.wt = W!Tree(repos.mirror.heads[Main])]
    <3>1. /\ slot'.kind = "git" /\ slot'.head = None /\ slot'.at = repos.mirror.heads[Main]
          /\ slot'.wt = W!Tree(repos.mirror.heads[Main])
      BY <2>2 DEF W!NoSlot
    <3>2. W!Tree(W!Tip)' = slot'.wt
      BY <3>1 DEF W!Tip, W!Tree
    <3> QED BY <3>1, <3>2 DEF AsCommitted
  <2> QED BY <1>5, <2>1, <2>2 DEF W!AddWorktree
<1>6. CASE W!Bootstrap
  <2>1. CASE slot' = [W!NoSlot EXCEPT !.kind = "dir"]
    BY <2>1 DEF W!NoSlot, W!Tree, AsCommitted
  <2>2. CASE /\ W!Step("init") /\ slot' = [slot EXCEPT !.kind = "init", !.repo = "own", !.head = Main]
             /\ repos' = [repos EXCEPT !.own = W!NoRepo]
    <3>1. /\ slot'.kind = "init" /\ slot'.head = Main /\ slot'.repo = "own" /\ slot'.wt = slot.wt
      BY <2>2 DEF SlotTyped, Slots
    <3>2. W!Tip' = << >>
      BY <2>2, <3>1, PlansGiven DEF W!Tip, W!Repo, W!NoRepo, SlotTyped
    <3>3. slot.wt.yaml \in BOOLEAN /\ ~ slot.wt.yaml
      BY <2>2 DEF AsCommitted, W!Step, SlotTyped, Slots
    <3>4. W!Tree(W!Tip)'.yaml = FALSE
      BY <3>2 DEF W!Tree
    <3> QED BY <3>1, <3>3, <3>4 DEF AsCommitted
  <2>3. CASE /\ W!Step("remote") /\ slot' = [slot EXCEPT !.kind = "git"] /\ W!Bootstrap
             /\ repos' = [repos EXCEPT !.own.state = "ready"]
    <3>1. slot.kind = "init" /\ slot'.kind = "git" /\ slot'.head = slot.head /\ slot'.repo = slot.repo
          /\ slot'.wt = slot.wt /\ slot'.at = slot.at
      BY <2>3 DEF W!Step, SlotTyped, Slots
    <3>2. repos'[slot.repo].heads = repos[slot.repo].heads
      BY <2>3, <3>1 DEF SlotTyped, Repos
    <3>3. W!Tree(W!Tip)' = W!Tree(W!Tip)
      BY <3>1, <3>2 DEF W!Tip, W!Repo, W!Tree
    <3>4. Unfinished => Unfinished'
      BY <2>3, FaultsGrow DEF Unfinished, W!Step, W!Next
    <3> QED BY <3>1, <3>3, <3>4 DEF AsCommitted
  <2> QED BY <1>6, <2>1, <2>2, <2>3 DEF W!Bootstrap
<1>7. CASE W!Scaffold
  <2>1. slot.kind = "git" /\ slot'.kind = "git" /\ run'.step \in {"commit", "amend"}
    BY <1>7 DEF W!Scaffold, W!Step, W!Goto, SlotTyped, Slots
  <2> QED BY <2>1 DEF AsCommitted, Unfinished
<1>8. CASE W!Distribute
  <2>1. W!Next /\ slot'.kind = slot.kind /\ slot'.head = slot.head /\ slot'.repo = slot.repo
        /\ slot'.at = slot.at /\ slot'.wt.yaml = slot.wt.yaml /\ repos' = repos
        /\ run.step \in {"distribute", "share"}
    BY <1>8 DEF W!Next, W!Distribute, W!Step, SlotTyped, Slots
  <2> QED BY <2>1, AsCommittedKept
<1>9. CASE W!CommitScaffold \/ W!AutoCommit \/ W!CommitAll
  <2>1. W!Next /\ slot.kind = "git"
    BY <1>9 DEF W!Next, W!CommitScaffold, W!AutoCommit, W!CommitAll, W!Step, W!IsGit
  <2>2. /\ W!Tip \in Histories /\ W!Tree(W!Tip) \in [yaml : BOOLEAN, contracts : Nat]
        /\ slot.wt \in [yaml : BOOLEAN, contracts : Nat]
    BY <2>1, TipType DEF SlotTyped, Slots
  <2>3. (IF W!Tip = << >> THEN W!Tip ELSE W!Front(W!Tip)) \in Histories
    <3>1. W!Tip # << >> => W!Front(W!Tip) \in Histories
      BY <2>2, FrontType DEF Histories
    <3> QED BY <2>2, <3>1
  <2>4. CASE W!CommitScaffold
    <3>1. PICK h \in Histories : W!Committed(h, slot.wt, {}, FALSE)
      BY <2>2, <2>3, <2>4 DEF W!CommitScaffold
    <3> QED BY <2>1, <2>2, <3>1, AsCommittedOn
  <2>5. CASE W!AutoCommit
    BY <2>1, <2>2, <2>5, AsCommittedOn DEF W!AutoCommit
  <2>6. CASE W!CommitAll
    BY <2>1, <2>2, <2>6, AsCommittedOn DEF W!CommitAll
  <2> QED BY <1>9, <2>4, <2>5, <2>6
<1>10. CASE W!PrepareSwitch \/ W!PrepareForward
  <2>1. W!Next /\ slot.kind = "git" /\ run.step \in {"switch", "forward"}
    BY <1>10 DEF W!Next, W!PrepareSwitch, W!PrepareForward, W!Step
  <2>2. W!StartPoint \in Histories /\ W!Repo.tracking[change] \in Histories
    BY <2>1, TipType, PlansGiven DEF W!StartPoint, SlotTyped, Repos
  <2>3. UNCHANGED <<slot, repos>> \/ \E h \in Histories : W!CheckoutTo(change, h)
    BY <1>10, <2>2 DEF W!PrepareSwitch, W!PrepareForward
  <2> QED BY <2>1, <2>3, AsCommittedKept, AsCommittedAt
<1>11. CASE W!Recheckout
  BY <1>11 DEF W!Recheckout, W!NoSlot, W!Tree, AsCommitted
<1> QED BY <1>1, <1>2, <1>3, <1>4, <1>5, <1>6, <1>7, <1>8, <1>9, <1>10, <1>11 DEF W!Next

LEMMA SyncedIsAccepted == SlotInv /\ Ready /\ AsCommitted => W!SyncedIsPreparable
<1> SUFFICES ASSUME SlotInv, Ready, AsCommitted, run.step = "idle", run.result = "synced",
                    W!Pristine, origin[Main] # << >>,
                    {"refspec", "commit", "amend"} \cap faults.killed = {},
                    slot.wt.contracts = W!Tree(W!Tip).contracts
             PROVE  W!PrepareAccepts
  BY DEF W!SyncedIsPreparable
<1>1. SlotTyped /\ slot.kind = "git" /\ slot.repo \in {"mirror", "own"} /\ W!Repo \in Repos
  BY TipType DEF SlotInv, Ready
<1>2. W!Repo.state = "ready"
  BY <1>1 DEF Ready, W!Repo, Repos
<1>3. W!Fetched(W!Repo).tracking[Main] = origin[Main]
  BY <1>1, <1>2, PlansGiven DEF W!Fetched, Repos
<1>4. slot.wt.yaml = W!Tree(W!Tip).yaml
  BY <1>1 DEF AsCommitted, Unfinished
<1>5. \A h : W!CanCheckout(h)
  BY <1>4 DEF W!CanCheckout, W!Switched
<1>6. W!DirtyOk
  BY DEF W!Pristine, W!DirtyOk, W!TrackedAllowed, W!ContractsDirty
<1> QED BY <1>3, <1>5, <1>6 DEF W!PrepareAccepts

(***************************************************************************)
(* Uncommitted edits of files git tracks stay on the branch they were made *)
(* on, however syncs, prepares, pushes, kills and the driver's edits       *)
(* follow one another: what prepare looks at before it switches has none,  *)
(* or is on the branch of the change already. Edits made between that look *)
(* and the switch, and new files git does not track, are carried along.    *)
(***************************************************************************)
THEOREM EditsStayWhereMade ==
    PartsSpec => []EditsStay
<1> DEFINE Inv == part = "slot" => SlotInv
<1>1. PartsInit => Inv
  BY PartInit, SlotInitInv
<1>2. Inv /\ [PartsNext]_allVars => Inv'
  BY PartStep, SlotStep
<1>3. Inv => EditsStay
  BY DEF SlotInv, EditsStay
<1> QED BY <1>1, <1>2, <1>3, PTL DEF PartsSpec

(***************************************************************************)
(* A push replaces on origin only what its ls-remote saw, whoever pushes   *)
(* in between.                                                             *)
(***************************************************************************)
THEOREM PushesReplaceWhatTheySaw ==
    PartsSpec => OnlySeenIsReplaced
<1> DEFINE Inv == part = "slot" => SlotInv
<1>1. PartsInit => Inv
  BY PartInit, SlotInitInv
<1>2. Inv /\ [PartsNext]_allVars => Inv'
  BY PartStep, SlotStep
<1>3. Inv /\ [PartsNext]_allVars => [part = "slot" => W!SeenIsReplaced]_allVars
  BY PartStep, PushedIsSeen
<1> QED BY <1>1, <1>2, <1>3, PTL DEF PartsSpec, OnlySeenIsReplaced

(***************************************************************************)
(* The branch of a change grows from origin's history, in the mirror, in   *)
(* the slot's own repository and on origin, whatever fails or is killed:   *)
(* a slot bootstrapped with a history of its own is given a branch only    *)
(* once the fetch has found origin's.                                      *)
(***************************************************************************)
THEOREM BranchesGrowFromMain ==
    PartsSpec => []ForksFromMain
<1> DEFINE Inv == part = "slot" => SlotInv /\ Forks
<1>1. PartsInit => Inv
  BY PartInit, SlotInitInv, ForksInit
<1>2. Inv /\ [PartsNext]_allVars => Inv'
  <2> SUFFICES ASSUME Inv, [PartsNext]_allVars, part' = "slot" PROVE SlotInv' /\ Forks'
    OBVIOUS
  <2>1. SlotInv /\ Forks /\ [W!Next]_(W!slotVars)
    BY PartStep
  <2>2. SlotInv'
    BY <2>1, SlotStep
  <2> QED BY <2>1, <2>2, ForksStep
<1>3. Inv => ForksFromMain
  BY ForksAreFromMain DEF ForksFromMain
<1> QED BY <1>1, <1>2, <1>3, PTL DEF PartsSpec

(***************************************************************************)
(* When sync reports success, prepare accepts the slot while it has no     *)
(* edits and its contracts are the committed ones, unless a sync was       *)
(* killed between the clone and its refspec or between the scaffold and    *)
(* its commit: every other fault leaves a state that a later sync repairs  *)
(* or does not report as a success.                                        *)
(***************************************************************************)
THEOREM SyncedSlotsArePreparable ==
    PartsSpec => []SyncedIsPreparable
<1> DEFINE Inv == part = "slot" => SlotInv /\ Ready /\ AsCommitted
<1>1. PartsInit => Inv
  BY PartInit, SlotInitInv, ReadyInit
<1>2. Inv /\ [PartsNext]_allVars => Inv'
  <2> SUFFICES ASSUME Inv, [PartsNext]_allVars, part' = "slot" PROVE SlotInv' /\ Ready' /\ AsCommitted'
    OBVIOUS
  <2>1. SlotInv /\ Ready /\ AsCommitted /\ [W!Next]_(W!slotVars)
    BY PartStep
  <2> QED BY <2>1, SlotStep, ReadyStep, AsCommittedStep
<1>3. Inv => SyncedIsPreparable
  BY SyncedIsAccepted DEF SyncedIsPreparable
<1> QED BY <1>1, <1>2, <1>3, PTL DEF PartsSpec

-----------------------------------------------------------------------------
(***************************************************************************)
(* AssetExports: builds that prepare, the exports they write and the pins. *)
(***************************************************************************)
\* The shapes of the state.
Pins == {None, "own", "gone", "auto", "map"}
Artifacts == {"pdf", "contents", "xml", "2x", "3x", "mdpi", "xxxhdpi", "dir", "png", "launcher", "icons"}
BuildStates ==
    [pc : {"idle", "read", "pick", "write", "gate", "handed", "refused"},
     doc : [X!Slots -> Pins] \cup {<< >>}, todo : SUBSET X!Slots, at : X!Slots \cup {None},
     left : Seq(Artifacts), wrote : SUBSET X!Slots, failed : BOOLEAN, wanted : SUBSET X!Slots,
     disturbed : SUBSET X!Slots]

ExportsTyped ==
    /\ setup \in Setups
    /\ master \in [Assets -> {"good", "broken", "missing"}]
    /\ pinned \in [X!Slots -> Pins]
    /\ exports \in [X!Slots -> SUBSET Artifacts]
    /\ build \in [Builders -> BuildStates]
    /\ cut \subseteq X!Slots
    /\ \A b \in Builders : build[b].pc \in {"pick", "write"} => build[b].doc \in [X!Slots -> Pins]

\* A write in progress has made what is not left, unless somebody has cleaned the slot and
\* nobody has written it again.
WritesAdd ==
    \A b \in Builders : build[b].pc = "write" =>
        LET s == build[b].at
        IN  /\ s \in X!Slots /\ build[b].left # << >>
            /\ s \notin cut \cap build[b].disturbed =>
                   X!ToSet(X!Layout(X!Role(s), s[2])) \subseteq exports[s] \cup X!ToSet(build[b].left)

\* Between writes a slot holds all of an export or nothing.
AllOrNothing == \A s \in X!Slots : s \in cut \cup X!Writing \/ exports[s] = {} \/ X!Whole(s)

\* The slots a build vouches for, and what it knows of them.
Settled(b) == build[b].wanted \ (cut \cup X!Writing \cup build[b].disturbed)

Vouches(b) ==
    /\ build[b].pc \in {"pick", "write"} =>
         /\ \A s \in X!Slots \ build[b].disturbed : build[b].doc[s] = "own" => pinned[s] = "own"
         /\ build[b].failed \/ \A s \in Settled(b) :
                s \in build[b].todo \/ build[b].doc[s] = "own" \/ X!Whole(s)
    /\ build[b].pc = "gate" => \A s \in Settled(b) : pinned[s] = "own" \/ X!Whole(s)
    /\ build[b].pc = "read" => \A s \in build[b].wanted : s[1] \in setup.sourced

Vouched == \A b \in Builders : Vouches(b)

-----------------------------------------------------------------------------
(***************************************************************************)
(* The first slot of a pass.                                               *)
(***************************************************************************)
LEMMA LeastNatural ==
    ASSUME NEW ks, ks \subseteq Nat, ks # {}
    PROVE  \E m \in ks : \A k \in ks : m <= k
<1>1. \E m \in ks : \A k \in ks : ~ (<<k, m>> \in OpToRel(<, Nat))
  BY WFMin, NatLessThanWellFounded
<1>2. PICK m \in ks : \A k \in ks : ~ (<<k, m>> \in OpToRel(<, Nat))
  BY <1>1
<1>3. \A k \in ks : ~ (k < m)
  BY <1>2 DEF OpToRel
<1> QED BY <1>3

LEMMA PassType ==
    ASSUME ExportsTyped, NEW s \in X!Slots
    PROVE  /\ X!Role(s) \in {"icon", "illustration", "photo", "app-icon"}
           /\ s[1] \in Assets /\ s[2] \in X!Platforms /\ s = <<s[1], s[2]>>
           /\ X!Pass(s) \in 1 .. 4 /\ s[1] \in Nat
<1>1. s[1] \in Assets /\ s[2] \in X!Platforms /\ s = <<s[1], s[2]>> /\ s[1] \in Nat
  <2>1. s[1] \in Assets /\ s[2] \in X!Platforms /\ s = <<s[1], s[2]>>
    BY DEF X!Slots
  <2> QED BY <2>1, AssetExportsAssumption
<1>2. X!Role(s) \in {"icon", "illustration", "photo", "app-icon"}
  BY <1>1, AssetExportsAssumption DEF X!Role, ExportsTyped
<1>3. X!Pass(s) \in 1 .. 4
  BY <1>2 DEF X!Pass
<1> QED BY <1>1, <1>2, <1>3

LEMMA FirstIsOf ==
    ASSUME ExportsTyped, NEW slots \in SUBSET X!Slots, slots # {}
    PROVE  X!First(slots) \in slots
<1> DEFINE Rank(s) == IF s[2] = "ios" THEN 1 ELSE 2
           Before(s, t) ==
             \E i \in 1 .. 3 : X!Order(s)[i] < X!Order(t)[i] /\ \A j \in 1 .. i - 1 : X!Order(s)[j] = X!Order(t)[j]
<1>1. PICK p \in {X!Pass(s) : s \in slots} : \A q \in {X!Pass(s) : s \in slots} : p <= q
  <2>1. {X!Pass(s) : s \in slots} \subseteq Nat /\ {X!Pass(s) : s \in slots} # {}
    BY PassType
  <2> QED BY <2>1, LeastNatural
<1> DEFINE passed == {s \in slots : X!Pass(s) = p}
<1>2. PICK a \in {s[1] : s \in passed} : \A c \in {s[1] : s \in passed} : a <= c
  <2>1. {s[1] : s \in passed} \subseteq Nat /\ {s[1] : s \in passed} # {}
    BY <1>1, PassType
  <2> QED BY <2>1, LeastNatural
<1> DEFINE named == {s \in passed : s[1] = a}
<1>3. PICK r \in {Rank(s) : s \in named} : \A c \in {Rank(s) : s \in named} : r <= c
  <2>1. {Rank(s) : s \in named} \subseteq Nat /\ {Rank(s) : s \in named} # {}
    BY <1>2
  <2> QED BY <2>1, LeastNatural
<1>4. PICK s \in named : Rank(s) = r
  BY <1>3
<1>5. \A t \in slots : X!Order(t) = <<X!Pass(t), t[1], Rank(t)>>
  BY DEF X!Order
<1>6. ASSUME NEW t \in slots \ {s} PROVE Before(s, t)
  <2>0. /\ X!Pass(s) \in Nat /\ X!Pass(t) \in Nat /\ s[1] \in Nat /\ t[1] \in Nat /\ s \in slots
        /\ s[2] \in X!Platforms /\ t[2] \in X!Platforms /\ s = <<s[1], s[2]>> /\ t = <<t[1], t[2]>>
    BY PassType
  <2>1. CASE X!Pass(s) < X!Pass(t)
    <3>1. X!Order(s)[1] < X!Order(t)[1]
      BY <1>5, <2>0, <2>1
    <3> QED BY <3>1
  <2>2. CASE X!Pass(s) = X!Pass(t) /\ s[1] < t[1]
    <3>1. X!Order(s)[2] < X!Order(t)[2] /\ X!Order(s)[1] = X!Order(t)[1]
      BY <1>5, <2>0, <2>2
    <3> QED BY <3>1
  <2>3. CASE X!Pass(s) = X!Pass(t) /\ s[1] = t[1]
    <3>1. t \in named
      BY <2>3
    <3>2. Rank(s) <= Rank(t) /\ s[2] # t[2]
      BY <1>3, <1>4, <2>0, <2>3, <3>1
    <3>3. Rank(s) < Rank(t)
      BY <2>0, <3>2 DEF X!Platforms
    <3>4. X!Order(s)[3] < X!Order(t)[3] /\ X!Order(s)[1] = X!Order(t)[1] /\ X!Order(s)[2] = X!Order(t)[2]
      BY <1>5, <2>0, <2>3, <3>3
    <3> QED BY <3>4
  <2>4. X!Pass(s) <= X!Pass(t) /\ (X!Pass(s) = X!Pass(t) => s[1] <= t[1])
    BY <1>1, <1>2, <1>4, <2>0
  <2> QED BY <2>0, <2>1, <2>2, <2>3, <2>4
<1>7. s \in slots /\ \A t \in slots \ {s} : Before(s, t)
  BY <1>6
<1> QED BY <1>7 DEF X!First

\* The last of what is left to write.
LEMMA LeftIsWritten ==
    ASSUME NEW left \in Seq(Artifacts), left # << >>
    PROVE  /\ Head(left) \in Artifacts /\ Tail(left) \in Seq(Artifacts)
           /\ Len(left) # 1 => Tail(left) # << >>
           /\ Len(left) = 1 => X!ToSet(left) = {Head(left)}
           /\ X!ToSet(left) \subseteq {Head(left)} \cup X!ToSet(Tail(left))
<1>1. /\ Len(left) \in Nat \ {0} /\ DOMAIN left = 1 .. Len(left)
      /\ Head(left) = left[1] /\ Head(left) \in Artifacts /\ Tail(left) \in Seq(Artifacts)
      /\ Len(Tail(left)) = Len(left) - 1 /\ \A i \in 1 .. Len(left) - 1 : Tail(left)[i] = left[i + 1]
  OBVIOUS
<1>2. Len(left) = 1 => X!ToSet(left) = {Head(left)}
  BY <1>1 DEF X!ToSet
<1>3. ASSUME NEW i \in DOMAIN left PROVE left[i] \in {Head(left)} \cup X!ToSet(Tail(left))
  <2>1. CASE i = 1
    BY <1>1, <2>1
  <2>2. CASE i # 1
    <3>1. i - 1 \in 1 .. Len(left) - 1 /\ Tail(left)[i - 1] = left[i]
      BY <1>1, <2>2
    <3>2. DOMAIN Tail(left) = 1 .. Len(left) - 1
      BY <1>1
    <3> QED BY <3>1, <3>2 DEF X!ToSet
  <2> QED BY <2>1, <2>2
<1>4. X!ToSet(left) \subseteq {Head(left)} \cup X!ToSet(Tail(left))
  BY <1>3 DEF X!ToSet
<1>5. Len(left) # 1 => Tail(left) # << >>
  <2>1. Len(left) # 1 => Len(Tail(left)) # 0
    BY <1>1
  <2> QED BY <2>1
<1> QED BY <1>1, <1>2, <1>4, <1>5

LEMMA LayoutType ==
    ASSUME ExportsTyped, NEW s \in X!Slots
    PROVE  X!Layout(X!Role(s), s[2]) \in Seq(Artifacts) /\ X!Layout(X!Role(s), s[2]) # << >>
<1>1. X!Role(s) \in {"icon", "illustration", "photo", "app-icon"} /\ s[2] \in X!Platforms
  BY PassType
<1>2. /\ <<"pdf", "contents">> \in Seq(Artifacts) /\ <<"xml">> \in Seq(Artifacts)
      /\ <<"2x", "3x", "contents">> \in Seq(Artifacts) /\ <<"mdpi", "xxxhdpi">> \in Seq(Artifacts)
      /\ <<"dir", "png", "contents">> \in Seq(Artifacts)
      /\ <<"dir", "launcher", "icons">> \in Seq(Artifacts)
      /\ <<"3x", "contents">> \in Seq(Artifacts) /\ <<"xxxhdpi">> \in Seq(Artifacts)
  BY DEF Artifacts
<1>3. X!Layout(X!Role(s), s[2]) \in
        {<<"pdf", "contents">>, <<"xml">>, <<"2x", "3x", "contents">>, <<"mdpi", "xxxhdpi">>,
         <<"dir", "png", "contents">>, <<"dir", "launcher", "icons">>, <<"3x", "contents">>,
         <<"xxxhdpi">>}
  <2>1. CASE X!Role(s) = "icon"
    BY <2>1 DEF X!Layout
  <2>2. CASE X!Role(s) = "illustration"
    BY <2>2 DEF X!Layout
  <2>3. CASE X!Role(s) = "app-icon"
    BY <2>3 DEF X!Layout
  <2>4. CASE X!Role(s) = "photo"
    BY <2>4 DEF X!Layout
  <2> QED BY <1>1, <2>1, <2>2, <2>3, <2>4
<1>4. X!Layout(X!Role(s), s[2]) \in Seq(Artifacts)
  BY <1>2, <1>3, Zenon
<1>5. X!Layout(X!Role(s), s[2]) # << >>
  BY <1>3
<1> QED BY <1>4, <1>5

-----------------------------------------------------------------------------
(***************************************************************************)
(* The steps of a build change its own state only, of which the following  *)
(* matters.                                                                *)
(***************************************************************************)
Moves(b) == build'[b] \in BuildStates /\ build' = [build EXCEPT ![b] = build'[b]]

LEMMA PrepareDoes ==
    ASSUME ExportsTyped, NEW b \in Builders, X!Prepare(b)
    PROVE  /\ Moves(b) /\ UNCHANGED <<setup, master, pinned, exports, cut>>
           /\ build[b].pc \in {"idle", "refused", "handed"} /\ build'[b].pc \in {"read", "gate"}
           /\ build'[b].disturbed = {}
           /\ build'[b].wanted = {s \in X!Slots : s[1] \in X!Scope \cap setup.sourced}
           /\ build'[b].pc = "gate" => \A a \in X!Scope : ~ X!NeedsMaterialize(a)
<1> DEFINE wanted == {s \in X!Slots : s[1] \in X!Scope \cap setup.sourced}
           pc == IF \E a \in X!Scope : X!NeedsMaterialize(a) THEN "read" ELSE "gate"
           new == [X!Idle EXCEPT !.pc = pc, !.wanted = wanted]
<1>1. build' = [build EXCEPT ![b] = new] /\ build[b].pc \in {"idle", "refused", "handed"}
      /\ UNCHANGED <<setup, master, pinned, exports, cut>>
  BY DEF X!Prepare
<1>2. wanted \in SUBSET X!Slots /\ pc \in {"read", "gate"}
      /\ (pc = "gate" => \A a \in X!Scope : ~ X!NeedsMaterialize(a))
  OBVIOUS
<1> HIDE DEF wanted, pc
<1>3. new \in BuildStates /\ new.pc = pc /\ new.wanted = wanted /\ new.disturbed = {}
  <2>1. << >> \in Seq(Artifacts)
    OBVIOUS
  <2> QED BY <1>2, <2>1 DEF X!Idle, BuildStates
<1> HIDE DEF new
<1>4. build'[b] = new
  BY <1>1 DEF ExportsTyped
<1> QED BY <1>1, <1>2, <1>3, <1>4 DEF wanted, Moves

LEMMA ReadDoes ==
    ASSUME ExportsTyped, NEW b \in Builders, X!Read(b)
    PROVE  /\ Moves(b) /\ UNCHANGED <<setup, master, pinned, exports, cut>>
           /\ build[b].pc = "read" /\ build'[b].pc = "pick" /\ build'[b].doc = pinned
           /\ \A s \in X!Slots : s[1] \in setup.sourced => s \in build'[b].todo
           /\ build'[b].wanted = build[b].wanted /\ build'[b].disturbed = build[b].disturbed
<1> DEFINE todo == {s \in X!Slots : s[1] \in setup.sourced \/ pinned[s] = "map"}
           new == [build[b] EXCEPT !.pc = "pick", !.doc = pinned, !.todo = todo]
<1>0. build[b] \in BuildStates /\ build \in [Builders -> BuildStates]
  BY DEF ExportsTyped
<1>1. build' = [build EXCEPT ![b] = new] /\ build[b].pc = "read"
      /\ UNCHANGED <<setup, master, pinned, exports, cut>>
  BY <1>0 DEF X!Read
<1>2. todo \in SUBSET X!Slots /\ pinned \in [X!Slots -> Pins]
      /\ \A s \in X!Slots : s[1] \in setup.sourced => s \in todo
  BY DEF ExportsTyped
<1> HIDE DEF todo
<1>3. /\ new \in BuildStates /\ new.pc = "pick" /\ new.doc = pinned /\ new.todo = todo
      /\ new.wanted = build[b].wanted /\ new.disturbed = build[b].disturbed
  BY <1>0, <1>2 DEF BuildStates
<1> HIDE DEF new
<1>4. build'[b] = new
  BY <1>0, <1>1
<1> QED BY <1>1, <1>2, <1>3, <1>4 DEF Moves

LEMMA PickDoes ==
    ASSUME ExportsTyped, NEW b \in Builders, X!Pick(b)
    PROVE  /\ Moves(b) /\ UNCHANGED <<setup, master, pinned, exports, cut>>
           /\ build[b].pc = "pick" /\ build'[b].pc \in {"pick", "write"} /\ build'[b].doc = build[b].doc
           /\ build'[b].wanted = build[b].wanted /\ build'[b].disturbed = build[b].disturbed
           /\ build[b].failed => build'[b].failed
           /\ \E s \in build[b].todo :
                /\ build'[b].pc = "write" => build'[b].at = s /\ build'[b].left = X!Layout(X!Role(s), s[2])
                /\ ~ build'[b].failed => /\ build'[b].todo = build[b].todo \ {s}
                                         /\ build'[b].pc = "write" \/ X!Active(build[b].doc, s)
<1> DEFINE s == X!First(build[b].todo)
           readable == X!Role(s) = "photo" \/ master[s[1]] = "good"
           go == readable /\ ~ X!Active(build[b].doc, s)
           todo == {t \in build[b].todo : t # s /\ (readable \/ t[1] # s[1])}
           new == [build[b] EXCEPT
              !.todo = todo,
              !.failed = build[b].failed \/ ~ readable,
              !.pc = IF go THEN "write" ELSE "pick",
              !.at = IF go THEN s ELSE None,
              !.left = IF go THEN X!Layout(X!Role(s), s[2]) ELSE << >>]
<1>0. build[b] \in BuildStates /\ build \in [Builders -> BuildStates]
  BY DEF ExportsTyped
<1>1. build' = [build EXCEPT ![b] = new] /\ build[b].todo # {} /\ build[b].pc = "pick"
      /\ UNCHANGED <<setup, master, pinned, exports, cut>>
  BY <1>0 DEF X!Pick
<1>2. s \in X!Slots /\ s \in build[b].todo
  BY <1>0, <1>1, FirstIsOf DEF BuildStates
<1>3. /\ X!Layout(X!Role(s), s[2]) \in Seq(Artifacts) /\ << >> \in Seq(Artifacts)
      /\ readable \in BOOLEAN /\ go \in BOOLEAN /\ todo \in SUBSET X!Slots
      /\ (readable => todo = build[b].todo \ {s})
      /\ (readable /\ ~ go => X!Active(build[b].doc, s))
  BY <1>0, <1>2, LayoutType DEF BuildStates
<1> HIDE DEF s, readable, go, todo
<1>4. /\ new \in BuildStates /\ new.pc = IF go THEN "write" ELSE "pick"
      /\ new.doc = build[b].doc /\ new.wanted = build[b].wanted /\ new.disturbed = build[b].disturbed
      /\ new.failed = (build[b].failed \/ ~ readable) /\ new.todo = todo
      /\ go => new.at = s /\ new.left = X!Layout(X!Role(s), s[2])
  BY <1>0, <1>2, <1>3 DEF BuildStates
<1> HIDE DEF new
<1>5. build'[b] = new
  BY <1>0, <1>1
<1> QED BY <1>1, <1>2, <1>3, <1>4, <1>5 DEF Moves

LEMMA WriteDoes ==
    ASSUME ExportsTyped, WritesAdd, NEW b \in Builders, X!Write(b)
    PROVE  LET s == build[b].at
           IN  /\ Moves(b) /\ UNCHANGED <<setup, master, pinned>> /\ s \in X!Slots
               /\ exports' = [exports EXCEPT ![s] = exports[s] \cup {Head(build[b].left)}]
               /\ Head(build[b].left) \in Artifacts
               /\ build[b].pc = "write" /\ build'[b].doc = build[b].doc /\ build'[b].todo = build[b].todo
               /\ build'[b].wanted = build[b].wanted /\ build'[b].disturbed = build[b].disturbed
               /\ build'[b].failed = build[b].failed
               /\ \/ /\ build'[b].pc = "pick" /\ X!ToSet(build[b].left) = {Head(build[b].left)}
                     /\ cut' = IF s \notin build[b].disturbed THEN cut \ {s} ELSE cut
                  \/ /\ build'[b].pc = "write" /\ build'[b].at = s /\ cut' = cut
                     /\ build'[b].left # << >>
                     /\ X!ToSet(build[b].left) \subseteq {Head(build[b].left)} \cup X!ToSet(build'[b].left)
<1> DEFINE s == build[b].at
           left == build[b].left
<1>0. build[b] \in BuildStates /\ build \in [Builders -> BuildStates] /\ build[b].pc = "write"
  BY DEF ExportsTyped, X!Write
<1>1. s \in X!Slots /\ left # << >> /\ left \in Seq(Artifacts)
  BY <1>0 DEF WritesAdd, BuildStates
<1>2. /\ Head(left) \in Artifacts /\ Tail(left) \in Seq(Artifacts)
      /\ (Len(left) # 1 => Tail(left) # << >>)
      /\ (Len(left) = 1 => X!ToSet(left) = {Head(left)})
      /\ X!ToSet(left) \subseteq {Head(left)} \cup X!ToSet(Tail(left))
  BY <1>1, LeftIsWritten
<1>3. exports' = [exports EXCEPT ![s] = exports[s] \cup {Head(left)}] /\ UNCHANGED <<setup, master, pinned>>
      /\ cut' = IF Len(left) = 1 /\ s \notin build[b].disturbed THEN cut \ {s} ELSE cut
  BY <1>1 DEF X!Write, ExportsTyped
<1>4. CASE Len(left) = 1
  <2> DEFINE new == [build[b] EXCEPT !.pc = "pick", !.at = None, !.left = << >>, !.wrote = @ \cup {s}]
  <2>1. build' = [build EXCEPT ![b] = new]
    BY <1>0, <1>4 DEF X!Write
  <2>2. /\ new \in BuildStates /\ new.pc = "pick" /\ new.doc = build[b].doc /\ new.todo = build[b].todo
        /\ new.wanted = build[b].wanted /\ new.disturbed = build[b].disturbed /\ new.failed = build[b].failed
    <3>1. << >> \in Seq(Artifacts)
      OBVIOUS
    <3> QED BY <1>0, <1>1, <3>1 DEF BuildStates
  <2> HIDE DEF new
  <2>3. build'[b] = new
    BY <1>0, <2>1
  <2> QED BY <1>0, <1>1, <1>2, <1>3, <1>4, <2>1, <2>2, <2>3 DEF Moves
<1>5. CASE Len(left) # 1
  <2> DEFINE new == [build[b] EXCEPT !.left = Tail(left)]
  <2>1. build' = [build EXCEPT ![b] = new]
    BY <1>0, <1>5 DEF X!Write
  <2>2. /\ new \in BuildStates /\ new.pc = "write" /\ new.doc = build[b].doc /\ new.todo = build[b].todo
        /\ new.wanted = build[b].wanted /\ new.disturbed = build[b].disturbed /\ new.failed = build[b].failed
        /\ new.at = s /\ new.left = Tail(left)
    BY <1>0, <1>1, <1>2 DEF BuildStates
  <2> HIDE DEF new
  <2>3. build'[b] = new
    BY <1>0, <2>1
  <2> QED BY <1>0, <1>1, <1>2, <1>3, <1>5, <2>1, <2>2, <2>3 DEF Moves
<1> QED BY <1>4, <1>5

LEMMA StopDoes ==
    ASSUME ExportsTyped, NEW b \in Builders, X!WriteFails(b) \/ X!Killed(b) \/ X!Gate(b)
    PROVE  /\ Moves(b) /\ UNCHANGED <<setup, master, pinned, exports>>
           /\ cut' = IF build[b].pc = "write" THEN cut \cup {build[b].at} ELSE cut
           /\ build'[b].pc \in {"pick", "handed", "refused"}
           /\ build'[b].pc = "pick" => /\ build[b].pc = "write" /\ build'[b].failed
                                       /\ build'[b].doc = build[b].doc /\ build'[b].disturbed = build[b].disturbed
<1>0. build[b] \in BuildStates /\ build \in [Builders -> BuildStates]
  BY DEF ExportsTyped
<1>1. CASE X!WriteFails(b)
  <2> DEFINE new == [build[b] EXCEPT !.pc = "pick", !.at = None, !.left = << >>, !.failed = TRUE]
  <2>1. build' = [build EXCEPT ![b] = new] /\ build[b].pc = "write" /\ cut' = cut \cup {build[b].at}
        /\ UNCHANGED <<setup, master, pinned, exports>>
    BY <1>0, <1>1 DEF X!WriteFails
  <2>2. new \in BuildStates /\ new.pc = "pick" /\ new.failed /\ new.doc = build[b].doc
        /\ new.disturbed = build[b].disturbed
    <3>1. << >> \in Seq(Artifacts)
      OBVIOUS
    <3> QED BY <1>0, <3>1 DEF BuildStates
  <2> HIDE DEF new
  <2>3. build'[b] = new
    BY <1>0, <2>1
  <2> QED BY <2>1, <2>2, <2>3 DEF Moves
<1>2. CASE X!Killed(b)
  <2> DEFINE new == [X!Idle EXCEPT !.pc = "refused"]
  <2>1. build' = [build EXCEPT ![b] = new] /\ UNCHANGED <<setup, master, pinned, exports>>
        /\ cut' = cut \cup (IF build[b].pc = "write" THEN {build[b].at} ELSE {})
    BY <1>2 DEF X!Killed
  <2>2. new \in BuildStates /\ new.pc = "refused"
    <3>1. << >> \in Seq(Artifacts)
      OBVIOUS
    <3> QED BY <3>1 DEF X!Idle, BuildStates
  <2> HIDE DEF new
  <2>3. build'[b] = new
    BY <1>0, <2>1
  <2> QED BY <2>1, <2>2, <2>3 DEF Moves
<1>3. CASE X!Gate(b)
  <2>1. PICK pc \in {"handed", "refused"} : build' = [build EXCEPT ![b].pc = pc]
    BY <1>3 DEF X!Gate
  <2> DEFINE new == [build[b] EXCEPT !.pc = pc]
  <2>2. build' = [build EXCEPT ![b] = new] /\ UNCHANGED <<setup, master, pinned, exports>> /\ cut' = cut
        /\ build[b].pc = "gate"
    BY <1>0, <1>3, <2>1 DEF X!Gate
  <2>3. new \in BuildStates /\ new.pc = pc
    BY <1>0 DEF BuildStates
  <2> HIDE DEF new
  <2>4. build'[b] = new
    BY <1>0, <2>2
  <2> QED BY <2>2, <2>3, <2>4 DEF Moves
<1> QED BY <1>1, <1>2, <1>3

-----------------------------------------------------------------------------
\* A build that something is changed behind the back of.
Busy(c) == build[c].pc \in {"read", "pick", "write", "gate"}
Kept(old, new) == /\ new = [old EXCEPT !.disturbed = new.disturbed]
                  /\ old.disturbed \subseteq new.disturbed /\ new.disturbed \subseteq X!Slots
Still(c) == Kept(build[c], build'[c])

LEMMA DisturbDoes ==
    ASSUME NEW builds \in [Builders -> BuildStates], NEW x, NEW slots \in SUBSET X!Slots,
           build' = X!Disturb(builds, x, slots)
    PROVE  /\ build' \in [Builders -> BuildStates]
           /\ \A c \in Builders :
                /\ Kept(builds[c], build'[c])
                /\ c = x => build'[c] = builds[c]
                /\ c # x /\ builds[c].pc \in {"read", "pick", "write", "gate"} =>
                        slots \subseteq build'[c].disturbed
<1>1. \A c \in Builders : build'[c] = IF c # x /\ builds[c].pc \notin {"idle", "refused", "handed"}
                                    THEN [builds[c] EXCEPT !.disturbed = @ \cup slots] ELSE builds[c]
  BY DEF X!Disturb
<1>2. ASSUME NEW c \in Builders
      PROVE  /\ Kept(builds[c], build'[c]) /\ build'[c] \in BuildStates
             /\ c = x => build'[c] = builds[c]
             /\ (c # x /\ builds[c].pc \in {"read", "pick", "write", "gate"}) =>
                     slots \subseteq build'[c].disturbed
  <2>0. builds[c] \in BuildStates
    OBVIOUS
  <2>1. CASE c # x /\ builds[c].pc \notin {"idle", "refused", "handed"}
    <3> DEFINE more == builds[c].disturbed \cup slots
               new == [builds[c] EXCEPT !.disturbed = more]
    <3>1. build'[c] = new
      BY <1>1, <2>1
    <3>2. more \in SUBSET X!Slots /\ slots \subseteq more /\ builds[c].disturbed \subseteq more
      BY <2>0 DEF BuildStates
    <3> HIDE DEF more
    <3>3. new \in BuildStates /\ new.disturbed = more
      BY <2>0, <3>2 DEF BuildStates
    <3> QED BY <2>1, <3>1, <3>2, <3>3 DEF Kept
  <2>2. CASE ~ (c # x /\ builds[c].pc \notin {"idle", "refused", "handed"})
    <3>1. build'[c] = builds[c]
      BY <1>1, <2>2
    <3>2. builds[c] = [builds[c] EXCEPT !.disturbed = builds[c].disturbed] /\ builds[c].disturbed \subseteq X!Slots
      BY <2>0 DEF BuildStates
    <3> QED BY <2>0, <2>2, <3>1, <3>2 DEF Kept
  <2> QED BY <2>1, <2>2
<1>3. build' \in [Builders -> BuildStates]
  BY <1>2 DEF X!Disturb
<1> QED BY <1>2, <1>3

LEMMA PinsDo ==
    ASSUME ExportsTyped, NEW b \in Builders, X!WritePins(b)
    PROVE  /\ build' \in [Builders -> BuildStates] /\ UNCHANGED <<setup, master, exports, cut>>
           /\ pinned' \in [X!Slots -> Pins]
           /\ build[b].pc = "pick" /\ build[b].todo = {} /\ build'[b].pc \in {"gate", "refused"}
           /\ build'[b].pc = "gate" => ~ build[b].failed
           /\ build'[b].wanted = build[b].wanted /\ build'[b].disturbed = build[b].disturbed
           /\ pinned' = pinned \/ \A s \in X!Slots : build[b].doc[s] = "own" => pinned'[s] = "own"
           /\ \A c \in Builders \ {b} :
                /\ Still(c)
                /\ Busy(c) => \A s \in X!Slots : pinned[s] = "own" /\ pinned'[s] # "own" => s \in build'[c].disturbed
<1>0. build[b] \in BuildStates /\ build \in [Builders -> BuildStates] /\ build[b].pc = "pick" /\ build[b].todo = {}
      /\ UNCHANGED <<setup, master, exports, cut>>
  BY DEF ExportsTyped, X!WritePins
<1> DEFINE pc == IF build[b].failed THEN "refused" ELSE "gate"
           new == [build EXCEPT ![b].pc = pc]
           lost == {s \in X!Slots : pinned[s] = "own" /\ pinned'[s] # "own"}
<1>1. build' = X!Disturb(new, b, lost) /\ pinned' \in {pinned, X!AutoPinned(b)}
  BY DEF X!WritePins
<1>2. pc \in {"gate", "refused"} /\ (pc = "gate" => ~ build[b].failed)
  OBVIOUS
<1> HIDE DEF pc
<1>3. /\ new \in [Builders -> BuildStates] /\ new[b].pc = pc /\ new[b].wanted = build[b].wanted
      /\ new[b].disturbed = build[b].disturbed /\ \A c \in Builders \ {b} : new[c] = build[c]
  BY <1>0, <1>2 DEF BuildStates
<1> HIDE DEF new
<1>4. /\ build' \in [Builders -> BuildStates] /\ build'[b] = new[b]
      /\ \A c \in Builders \ {b} :
            /\ Still(c)
            /\ Busy(c) => lost \subseteq build'[c].disturbed
  <2>0. lost \in SUBSET X!Slots
    OBVIOUS
  <2> HIDE DEF lost
  <2>1. /\ build' \in [Builders -> BuildStates] /\ build'[b] = new[b]
        /\ \A c \in Builders : Kept(new[c], build'[c])
        /\ \A c \in Builders :
             c # b /\ new[c].pc \in {"read", "pick", "write", "gate"} => lost \subseteq build'[c].disturbed
    BY <1>1, <1>3, <2>0, DisturbDoes
  <2> QED BY <1>3, <2>1 DEF Still, Busy
<1>5. pinned' = pinned \/ \A s \in X!Slots : build[b].doc[s] = "own" => pinned'[s] = "own"
  BY <1>1, AssetExportsAssumption DEF X!AutoPinned
<1>6. pinned' \in [X!Slots -> Pins]
  <2>1. build[b].doc \in [X!Slots -> Pins] /\ pinned \in [X!Slots -> Pins]
    BY <1>0 DEF ExportsTyped
  <2>2. X!AutoPinned(b) \in [X!Slots -> Pins]
    BY <2>1 DEF X!AutoPinned, Pins
  <2> QED BY <1>1, <2>1, <2>2
<1> QED BY <1>0, <1>2, <1>3, <1>4, <1>5, <1>6

LEMMA EditDoes ==
    ASSUME ExportsTyped, X!Edit
    PROVE  /\ build' \in [Builders -> BuildStates] /\ setup' = setup
           /\ master' \in [Assets -> {"good", "broken", "missing"}] /\ pinned' \in [X!Slots -> Pins]
           /\ \A c \in Builders : Still(c)
           /\ \E s \in X!Slots :
                /\ \A c \in Builders : Busy(c) => s \in build'[c].disturbed
                /\ \A t \in X!Slots \ {s} : pinned'[t] = pinned[t]
                /\ \/ UNCHANGED <<exports, cut>>
                   \/ exports' = [exports EXCEPT ![s] = {}] /\ cut' = cut \cup (X!Writing \cap {s})
<1>0. build \in [Builders -> BuildStates] /\ pinned \in [X!Slots -> Pins]
      /\ master \in [Assets -> {"good", "broken", "missing"}]
  BY DEF ExportsTyped
<1>1. PICK s \in X!Slots :
        /\ \/ /\ pinned[s] # "map" /\ \E pin \in {"own", "gone"} : pinned' = [pinned EXCEPT ![s] = pin]
              /\ UNCHANGED <<master, exports, cut>>
           \/ /\ exports' = [exports EXCEPT ![s] = {}]
              /\ cut' = cut \cup (X!Writing \cap {s})
              /\ UNCHANGED <<master, pinned>>
           \/ /\ \E state \in {"good", "broken", "missing"} : master' = [master EXCEPT ![s[1]] = state]
              /\ UNCHANGED <<pinned, exports, cut>>
        /\ build' = X!Disturb(build, None, {s}) /\ setup' = setup
  BY DEF X!Edit
<1>2. /\ build' \in [Builders -> BuildStates]
      /\ \A c \in Builders : Still(c) /\ (Busy(c) => s \in build'[c].disturbed)
  <2>1. \A c \in Builders : c # None
    BY AssetExportsAssumption
  <2>2. {s} \in SUBSET X!Slots
    OBVIOUS
  <2>3. /\ build' \in [Builders -> BuildStates]
        /\ \A c \in Builders : Kept(build[c], build'[c])
        /\ \A c \in Builders :
             c # None /\ build[c].pc \in {"read", "pick", "write", "gate"} => {s} \subseteq build'[c].disturbed
    BY <1>0, <1>1, <2>2, DisturbDoes
  <2> QED BY <2>1, <2>3 DEF Still, Busy
<1>3. pinned' \in [X!Slots -> Pins] /\ \A t \in X!Slots \ {s} : pinned'[t] = pinned[t]
  BY <1>0, <1>1 DEF Pins
<1>4. master' \in [Assets -> {"good", "broken", "missing"}]
  BY <1>0, <1>1, PassType
<1> QED BY <1>1, <1>2, <1>3, <1>4

-----------------------------------------------------------------------------
(***************************************************************************)
(* The steps keep the shapes.                                              *)
(***************************************************************************)
LEMMA ExportsTypedStep ==
    ASSUME ExportsTyped, WritesAdd, [X!Next]_(X!exportVars)
    PROVE  ExportsTyped'
<1>1. CASE UNCHANGED X!exportVars
  BY <1>1 DEF X!exportVars, ExportsTyped
<1>2. ASSUME NEW b \in Builders, Moves(b), UNCHANGED <<setup, master, pinned>>,
             exports' \in [X!Slots -> SUBSET Artifacts], cut' \subseteq X!Slots,
             build'[b].pc \in {"pick", "write"} => build'[b].doc \in [X!Slots -> Pins]
      PROVE  ExportsTyped'
  BY <1>2 DEF Moves, ExportsTyped
<1>3. ASSUME NEW b \in Builders, X!Prepare(b) \/ X!Read(b) \/ X!Pick(b) PROVE ExportsTyped'
  BY <1>2, <1>3, PrepareDoes, ReadDoes, PickDoes DEF ExportsTyped
<1>4. ASSUME NEW b \in Builders, X!Write(b) PROVE ExportsTyped'
  <2>1. exports' \in [X!Slots -> SUBSET Artifacts] /\ cut' \subseteq X!Slots
    BY <1>4, WriteDoes DEF ExportsTyped
  <2>2. build[b].doc \in [X!Slots -> Pins]
    BY <1>4, WriteDoes DEF ExportsTyped
  <2> QED BY <1>2, <1>4, <2>1, <2>2, WriteDoes
<1>5. ASSUME NEW b \in Builders, X!WriteFails(b) \/ X!Killed(b) \/ X!Gate(b) PROVE ExportsTyped'
  <2>1. cut' \subseteq X!Slots
    BY <1>5, StopDoes DEF ExportsTyped, WritesAdd
  <2>2. build'[b].pc = "pick" => build'[b].doc \in [X!Slots -> Pins]
    BY <1>5, StopDoes DEF ExportsTyped
  <2> QED BY <1>2, <1>5, <2>1, <2>2, StopDoes DEF ExportsTyped
<1>6. ASSUME NEW c \in Builders, Still(c), build'[c].pc \in {"pick", "write"}
      PROVE  build'[c].doc \in [X!Slots -> Pins]
  <2>1. build[c] \in BuildStates
    BY DEF ExportsTyped
  <2>2. build'[c].pc = build[c].pc /\ build'[c].doc = build[c].doc
    BY <1>6, <2>1 DEF Still, Kept, BuildStates
  <2> QED BY <1>6, <2>2 DEF ExportsTyped
<1>7. ASSUME NEW b \in Builders, X!WritePins(b) PROVE ExportsTyped'
  <2>1. \A c \in Builders : build'[c].pc \in {"pick", "write"} => build'[c].doc \in [X!Slots -> Pins]
    BY <1>6, <1>7, PinsDo
  <2> QED BY <1>7, <2>1, PinsDo DEF ExportsTyped
<1>8. CASE X!Edit
  <2>1. \A c \in Builders : build'[c].pc \in {"pick", "write"} => build'[c].doc \in [X!Slots -> Pins]
    BY <1>6, <1>8, EditDoes
  <2>2. exports' \in [X!Slots -> SUBSET Artifacts] /\ cut' \subseteq X!Slots
    BY <1>8, EditDoes DEF ExportsTyped
  <2> QED BY <1>8, <2>1, <2>2, EditDoes DEF ExportsTyped
<1> QED BY <1>1, <1>3, <1>4, <1>5, <1>7, <1>8 DEF X!Next

-----------------------------------------------------------------------------
(***************************************************************************)
(* What is written of a slot. A write that ends with nothing in its way    *)
(* leaves the slot whole.                                                  *)
(***************************************************************************)
LEMMA WritesWhole ==
    ASSUME ExportsTyped, WritesAdd, NEW b \in Builders, X!Write(b), build'[b].pc = "pick",
           NEW s \in X!Slots, s = build[b].at, s \notin cut \cap build[b].disturbed
    PROVE  X!Whole(s)'
<1>1. /\ s \in X!Slots /\ setup' = setup /\ exports' = [exports EXCEPT ![s] = exports[s] \cup {Head(build[b].left)}]
      /\ X!ToSet(build[b].left) = {Head(build[b].left)} /\ build[b].pc = "write"
  BY WriteDoes
<1>2. X!ToSet(X!Layout(X!Role(s), s[2])) \subseteq exports[s] \cup X!ToSet(build[b].left)
  BY <1>1 DEF WritesAdd
<1>3. exports'[s] = exports[s] \cup {Head(build[b].left)}
  BY <1>1 DEF ExportsTyped
<1>4. X!ToSet(X!Layout(X!Role(s), s[2])) \subseteq exports'[s]
  BY <1>1, <1>2, <1>3
<1> QED BY <1>1, <1>4 DEF X!Whole, X!Role

-----------------------------------------------------------------------------
LEMMA WritesAddStep ==
    ASSUME ExportsTyped, WritesAdd, [X!Next]_(X!exportVars)
    PROVE  WritesAdd'
<1> DEFINE Adds(c, exp, cuts) ==
             LET s == build'[c].at
             IN  /\ s \in X!Slots /\ build'[c].left # << >>
                 /\ s \notin cuts \cap build'[c].disturbed =>
                        X!ToSet(X!Layout(X!Role(s), s[2])) \subseteq exp[s] \cup X!ToSet(build'[c].left)
<1>1. CASE UNCHANGED X!exportVars
  BY <1>1 DEF X!exportVars, WritesAdd, X!Role
<1>2. ASSUME setup' = setup, \A c \in Builders : build'[c].pc = "write" => Adds(c, exports', cut')
      PROVE  WritesAdd'
  BY <1>2 DEF WritesAdd, X!Role
<1>3. ASSUME NEW c \in Builders, build[c].pc = "write", build'[c] = build[c],
             \A t \in X!Slots : exports[t] \subseteq exports'[t], cut \subseteq cut'
      PROVE  Adds(c, exports', cut')
  <2>1. build[c].at \in X!Slots /\ build[c].left # << >>
    BY <1>3 DEF WritesAdd
  <2>2. build[c].at \notin cut \cap build[c].disturbed =>
          X!ToSet(X!Layout(X!Role(build[c].at), build[c].at[2])) \subseteq exports[build[c].at] \cup X!ToSet(build[c].left)
    BY <1>3 DEF WritesAdd
  <2> QED BY <1>3, <2>1, <2>2
<1>4. ASSUME NEW b \in Builders, Moves(b), UNCHANGED <<setup, exports>>, cut \subseteq cut',
             build'[b].pc = "write" => Adds(b, exports', cut')
      PROVE  WritesAdd'
  <2>1. \A c \in Builders \ {b} : build'[c] = build[c]
    BY <1>4 DEF Moves, ExportsTyped
  <2>2. ASSUME NEW c \in Builders, build'[c].pc = "write" PROVE Adds(c, exports', cut')
    <3>1. CASE c = b
      BY <1>4, <2>2, <3>1
    <3>2. CASE c # b
      BY <1>3, <1>4, <2>1, <2>2, <3>2
    <3> QED BY <3>1, <3>2
  <2> QED BY <1>2, <1>4, <2>2
<1>5. ASSUME NEW b \in Builders, X!Prepare(b) \/ X!Read(b) PROVE WritesAdd'
  <2>1. Moves(b) /\ UNCHANGED <<setup, exports, cut>> /\ build'[b].pc # "write"
    BY <1>5, PrepareDoes, ReadDoes
  <2> HIDE DEF Adds
  <2> QED BY <1>4, <2>1
<1>6. ASSUME NEW b \in Builders, X!Pick(b) PROVE WritesAdd'
  <2>1. Moves(b) /\ UNCHANGED <<setup, exports, cut>>
    BY <1>6, PickDoes
  <2>2. ASSUME build'[b].pc = "write" PROVE Adds(b, exports', cut')
    <3>1. PICK s \in build[b].todo : build'[b].at = s /\ build'[b].left = X!Layout(X!Role(s), s[2])
      BY <1>6, <2>2, PickDoes
    <3>2. s \in X!Slots
      BY <3>1 DEF ExportsTyped, BuildStates
    <3> QED BY <3>1, <3>2, LayoutType
  <2> HIDE DEF Adds
  <2> QED BY <1>4, <2>1, <2>2
<1>7. ASSUME NEW b \in Builders, X!WriteFails(b) \/ X!Killed(b) \/ X!Gate(b) PROVE WritesAdd'
  <2>1. Moves(b) /\ UNCHANGED <<setup, exports>> /\ build'[b].pc # "write" /\ cut \subseteq cut'
    BY <1>7, StopDoes
  <2> HIDE DEF Adds
  <2> QED BY <1>4, <2>1
<1>8. ASSUME NEW b \in Builders, X!Write(b) PROVE WritesAdd'
  <2>0. PICK s \in X!Slots : s = build[b].at
    BY <1>8, WriteDoes
  <2>1. /\ setup' = setup /\ build[b].pc = "write" /\ build'[b].disturbed = build[b].disturbed
        /\ Moves(b) /\ exports' = [exports EXCEPT ![s] = exports[s] \cup {Head(build[b].left)}]
    BY <1>8, <2>0, WriteDoes
  <2>2. exports'[s] = exports[s] \cup {Head(build[b].left)} /\ \A t \in X!Slots : exports[t] \subseteq exports'[t]
    BY <2>1 DEF ExportsTyped
  <2>3. \A c \in Builders \ {b} : build'[c] = build[c]
    BY <2>1 DEF Moves, ExportsTyped
  <2>4. ASSUME NEW c \in Builders \ {b}, build'[c].pc = "write" PROVE Adds(c, exports', cut')
    <3>0. build'[c] = build[c] /\ build[c].pc = "write"
      BY <2>3, <2>4
    <3>1. CASE cut' = cut
      BY <1>3, <2>2, <3>0, <3>1
    <3>2. CASE cut' # cut
      <4>1. cut' = cut \ {s} /\ s \notin build[b].disturbed /\ build'[b].pc = "pick"
        BY <1>8, <2>0, <3>2, WriteDoes
      <4>2. X!Whole(s)'
        BY <1>8, <2>0, <4>1, WritesWhole
      <4>3. X!ToSet(X!Layout(X!Role(s), s[2])) \subseteq exports'[s]
        BY <2>1, <4>2 DEF X!Whole, X!Role
      <4>4. build[c].at \in X!Slots /\ build[c].left # << >>
        BY <3>0 DEF WritesAdd
      <4>5. CASE build[c].at = s
        BY <3>0, <4>3, <4>4, <4>5
      <4>6. CASE build[c].at # s
        <5>1. build[c].at \notin cut \cap build[c].disturbed =>
                X!ToSet(X!Layout(X!Role(build[c].at), build[c].at[2])) \subseteq exports[build[c].at] \cup X!ToSet(build[c].left)
          BY <3>0 DEF WritesAdd
        <5> QED BY <2>2, <3>0, <4>1, <4>4, <4>6, <5>1
      <4> QED BY <4>5, <4>6
    <3> QED BY <3>1, <3>2
  <2>5. ASSUME build'[b].pc = "write" PROVE Adds(b, exports', cut')
    <3>1. /\ build'[b].at = s /\ cut' = cut /\ build'[b].left # << >>
          /\ X!ToSet(build[b].left) \subseteq {Head(build[b].left)} \cup X!ToSet(build'[b].left)
      BY <1>8, <2>0, <2>5, WriteDoes
    <3>2. s \notin cut \cap build[b].disturbed =>
            X!ToSet(X!Layout(X!Role(s), s[2])) \subseteq exports[s] \cup X!ToSet(build[b].left)
      BY <2>0, <2>1 DEF WritesAdd
    <3> QED BY <2>1, <2>2, <3>1, <3>2
  <2>6. ASSUME NEW c \in Builders, build'[c].pc = "write" PROVE Adds(c, exports', cut')
    BY <2>4, <2>5, <2>6
  <2> QED BY <1>2, <2>1, <2>6
<1>9. ASSUME NEW c \in Builders, Still(c), build'[c].pc = "write"
      PROVE  /\ build[c].pc = "write" /\ build'[c].at = build[c].at /\ build'[c].left = build[c].left
             /\ build[c].disturbed \subseteq build'[c].disturbed
             /\ build[c].at \in X!Slots /\ build[c].left # << >>
             /\ build[c].at \notin cut \cap build[c].disturbed =>
                  X!ToSet(X!Layout(X!Role(build[c].at), build[c].at[2])) \subseteq exports[build[c].at] \cup X!ToSet(build[c].left)
  <2>1. build[c] \in BuildStates
    BY DEF ExportsTyped
  <2>2. build[c].pc = "write" /\ build'[c].at = build[c].at /\ build'[c].left = build[c].left
    BY <1>9, <2>1 DEF Still, Kept, BuildStates
  <2> QED BY <1>9, <2>2 DEF Still, Kept, WritesAdd
<1>10. ASSUME NEW b \in Builders, X!WritePins(b) PROVE WritesAdd'
  <2>1. setup' = setup /\ exports' = exports /\ cut' = cut
    BY <1>10, PinsDo
  <2>2. ASSUME NEW c \in Builders, build'[c].pc = "write" PROVE Adds(c, exports', cut')
    <3>1. c # b /\ Still(c)
      BY <1>10, <2>2, PinsDo
    <3> QED BY <1>9, <2>1, <2>2, <3>1
  <2> QED BY <1>2, <2>1, <2>2
<1>11. CASE X!Edit
  <2>1. PICK s \in X!Slots :
          /\ \A c \in Builders : Busy(c) => s \in build'[c].disturbed
          /\ \/ UNCHANGED <<exports, cut>>
             \/ exports' = [exports EXCEPT ![s] = {}] /\ cut' = cut \cup (X!Writing \cap {s})
    BY <1>11, EditDoes
  <2>2. setup' = setup /\ \A c \in Builders : Still(c)
    BY <1>11, EditDoes
  <2>3. ASSUME NEW c \in Builders, build'[c].pc = "write" PROVE Adds(c, exports', cut')
    <3> DEFINE t == build[c].at
    <3>1. /\ build[c].pc = "write" /\ build'[c].at = t /\ build'[c].left = build[c].left
          /\ build[c].disturbed \subseteq build'[c].disturbed /\ t \in X!Slots /\ build[c].left # << >>
          /\ t \notin cut \cap build[c].disturbed =>
                  X!ToSet(X!Layout(X!Role(t), t[2])) \subseteq exports[t] \cup X!ToSet(build[c].left)
      BY <1>9, <2>2, <2>3
    <3>2. t \in X!Writing /\ Busy(c)
      BY <3>1 DEF X!Writing, Busy
    <3>3. CASE UNCHANGED <<exports, cut>>
      BY <3>1, <3>3
    <3>4. CASE exports' = [exports EXCEPT ![s] = {}] /\ cut' = cut \cup (X!Writing \cap {s})
      <4>1. CASE t = s
        BY <2>1, <3>1, <3>2, <3>4, <4>1
      <4>2. CASE t # s
        <5>1. exports'[t] = exports[t] /\ cut \subseteq cut'
          BY <3>1, <3>4, <4>2 DEF ExportsTyped
        <5> QED BY <3>1, <5>1
      <4> QED BY <4>1, <4>2
    <3> QED BY <2>1, <3>3, <3>4
  <2> QED BY <1>2, <2>2, <2>3
<1> QED BY <1>1, <1>5, <1>6, <1>7, <1>8, <1>10, <1>11 DEF X!Next

-----------------------------------------------------------------------------
(***************************************************************************)
(* What is exported goes away only where it is cleaned, and a slot that is *)
(* no longer written or cut short is whole.                                *)
(***************************************************************************)
LEMMA WritingLasts ==
    ASSUME ExportsTyped, NEW b \in Builders, NEW t \in X!Writing,
           \A c \in Builders \ {b} : build[c].pc = "write" => build'[c].pc = "write" /\ build'[c].at = build[c].at
    PROVE  t \in X!Writing' \/ (build[b].pc = "write" /\ t = build[b].at)
<1>1. PICK c \in Builders : build[c].pc = "write" /\ t = build[c].at
  BY DEF X!Writing
<1> QED BY <1>1 DEF X!Writing

\* How a step treats one slot.
Lasts(t) == exports[t] \subseteq exports'[t] \/ \A c \in Builders : Busy(c) => t \in build'[c].disturbed
Freed(t) == t \in cut \cup X!Writing => t \in cut' \cup X!Writing' \/ X!Whole(t)'

LEMMA ExportStep ==
    ASSUME ExportsTyped, WritesAdd, [X!Next]_(X!exportVars), NEW t \in X!Slots
    PROVE  /\ Lasts(t) /\ Freed(t) /\ setup' = setup
           /\ \/ exports'[t] = exports[t] \/ exports'[t] = {} \/ t \in cut' \cup X!Writing' \/ X!Whole(t)'
<1> DEFINE Goal == /\ Lasts(t) /\ Freed(t) /\ setup' = setup
                   /\ \/ exports'[t] = exports[t] \/ exports'[t] = {} \/ t \in cut' \cup X!Writing' \/ X!Whole(t)'
<1>1. CASE UNCHANGED X!exportVars
  BY <1>1 DEF X!exportVars, Lasts, Freed, X!Writing
<1>2. ASSUME NEW b \in Builders, Moves(b), UNCHANGED <<setup, exports>>, cut \subseteq cut',
             build[b].pc = "write" => build[b].at \in cut'
      PROVE  Goal
  <2>1. \A c \in Builders \ {b} : build'[c] = build[c]
    BY <1>2 DEF Moves, ExportsTyped
  <2>2. t \in X!Writing => t \in X!Writing' \/ (build[b].pc = "write" /\ t = build[b].at)
    BY <2>1, WritingLasts
  <2> QED BY <1>2, <2>2 DEF Lasts, Freed
<1>3. ASSUME NEW b \in Builders, X!Prepare(b) \/ X!Read(b) PROVE Goal
  <2>1. Moves(b) /\ UNCHANGED <<setup, exports, cut>> /\ build[b].pc # "write"
    BY <1>3, PrepareDoes, ReadDoes
  <2> HIDE DEF Goal
  <2> QED BY <1>2, <2>1
<1>4. ASSUME NEW b \in Builders, X!Pick(b) PROVE Goal
  <2>1. Moves(b) /\ UNCHANGED <<setup, exports, cut>> /\ build[b].pc # "write"
    BY <1>4, PickDoes
  <2> HIDE DEF Goal
  <2> QED BY <1>2, <2>1
<1>5. ASSUME NEW b \in Builders, X!WriteFails(b) \/ X!Killed(b) \/ X!Gate(b) PROVE Goal
  <2>1. Moves(b) /\ UNCHANGED <<setup, exports>> /\ cut \subseteq cut'
        /\ (build[b].pc = "write" => build[b].at \in cut')
    BY <1>5, StopDoes
  <2> HIDE DEF Goal
  <2> QED BY <1>2, <2>1
<1>6. ASSUME NEW b \in Builders, X!Write(b) PROVE Goal
  <2>0. PICK s \in X!Slots : s = build[b].at
    BY <1>6, WriteDoes
  <2>1. /\ setup' = setup /\ build[b].pc = "write" /\ Moves(b) /\ build'[b].pc \in {"pick", "write"}
        /\ exports' = [exports EXCEPT ![s] = exports[s] \cup {Head(build[b].left)}]
    BY <1>6, <2>0, WriteDoes
  <2>2. exports[t] \subseteq exports'[t] /\ (t # s => exports'[t] = exports[t])
    BY <2>1 DEF ExportsTyped
  <2>3. \A c \in Builders \ {b} : build'[c] = build[c]
    BY <2>1 DEF Moves, ExportsTyped
  <2>4. t \in X!Writing /\ t # s => t \in X!Writing'
    BY <2>0, <2>3, WritingLasts
  <2>5. CASE build'[b].pc = "write"
    <3>1. build'[b].at = s /\ cut' = cut
      BY <1>6, <2>0, <2>5, WriteDoes
    <3>2. s \in X!Writing'
      BY <2>5, <3>1 DEF X!Writing
    <3> QED BY <2>1, <2>2, <2>4, <3>1, <3>2 DEF Lasts, Freed
  <2>6. CASE build'[b].pc = "pick"
    <3>1. cut' = IF s \notin build[b].disturbed THEN cut \ {s} ELSE cut
      BY <1>6, <2>0, <2>6, WriteDoes
    <3>2. s \notin cut \cap build[b].disturbed => X!Whole(s)'
      BY <1>6, <2>0, <2>6, WritesWhole
    <3>3. s \in cut' \/ X!Whole(s)'
      BY <3>1, <3>2
    <3>4. t # s => (t \in cut => t \in cut')
      BY <3>1
    <3> QED BY <2>1, <2>2, <2>4, <3>3, <3>4 DEF Lasts, Freed
  <2> QED BY <2>1, <2>5, <2>6
<1>7. ASSUME NEW c \in Builders, Still(c) PROVE build[c].pc = build'[c].pc /\ build'[c].at = build[c].at
  <2>1. build[c] \in BuildStates
    BY DEF ExportsTyped
  <2> QED BY <1>7, <2>1 DEF Still, Kept, BuildStates
<1>8. ASSUME NEW b \in Builders, X!WritePins(b) PROVE Goal
  <2>1. /\ UNCHANGED <<setup, exports, cut>> /\ build[b].pc = "pick"
        /\ \A c \in Builders \ {b} : Still(c)
    BY <1>8, PinsDo
  <2>2. t \in X!Writing => t \in X!Writing'
    BY <1>7, <2>1, WritingLasts
  <2> QED BY <2>1, <2>2 DEF Lasts, Freed
<1>9. CASE X!Edit
  <2>1. PICK s \in X!Slots :
          /\ \A c \in Builders : Busy(c) => s \in build'[c].disturbed
          /\ \/ UNCHANGED <<exports, cut>>
             \/ exports' = [exports EXCEPT ![s] = {}] /\ cut' = cut \cup (X!Writing \cap {s})
    BY <1>9, EditDoes
  <2>2. setup' = setup /\ \A c \in Builders : Still(c)
    BY <1>9, EditDoes
  <2>3. t \in X!Writing => t \in X!Writing'
    <3>1. \A c \in Builders : build[c].pc = build'[c].pc /\ build'[c].at = build[c].at
      BY <1>7, <2>2
    <3> QED BY <3>1 DEF X!Writing
  <2>4. CASE UNCHANGED <<exports, cut>>
    BY <2>2, <2>3, <2>4 DEF Lasts, Freed
  <2>5. CASE exports' = [exports EXCEPT ![s] = {}] /\ cut' = cut \cup (X!Writing \cap {s})
    <3>1. t # s => exports'[t] = exports[t]
      BY <2>5 DEF ExportsTyped
    <3>2. t = s => exports'[t] = {}
      BY <2>5 DEF ExportsTyped
    <3> QED BY <2>1, <2>2, <2>3, <2>5, <3>1, <3>2 DEF Lasts, Freed
  <2> QED BY <2>1, <2>4, <2>5
<1> QED BY <1>1, <1>3, <1>4, <1>5, <1>6, <1>8, <1>9 DEF X!Next

LEMMA AllOrNothingStep ==
    ASSUME ExportsTyped, WritesAdd, AllOrNothing, [X!Next]_(X!exportVars)
    PROVE  AllOrNothing'
<1>1. ASSUME NEW t \in X!Slots PROVE t \in cut' \cup X!Writing' \/ exports'[t] = {} \/ X!Whole(t)'
  <2>1. /\ Freed(t) /\ setup' = setup
        /\ \/ exports'[t] = exports[t] \/ exports'[t] = {} \/ t \in cut' \cup X!Writing' \/ X!Whole(t)'
    BY ExportStep
  <2>2. t \in cut \cup X!Writing \/ exports[t] = {} \/ X!Whole(t)
    BY DEF AllOrNothing
  <2>3. CASE t \in cut \cup X!Writing
    BY <2>1, <2>3 DEF Freed
  <2>4. CASE exports'[t] = exports[t] /\ (exports[t] = {} \/ X!Whole(t))
    BY <2>1, <2>4 DEF X!Whole, X!Role
  <2> QED BY <2>1, <2>2, <2>3, <2>4
<1> QED BY <1>1 DEF AllOrNothing

-----------------------------------------------------------------------------
(***************************************************************************)
(* What a build vouches for.                                               *)
(***************************************************************************)
LEMMA ActiveIsWhole ==
    ASSUME AllOrNothing, NEW t \in X!Slots, t \notin cut \cup X!Writing, NEW doc, X!Active(doc, t)
    PROVE  doc[t] = "own" \/ X!Whole(t)
BY DEF X!Active, AllOrNothing

LEMMA ExportedIsWhole ==
    ASSUME ExportsTyped, AllOrNothing, NEW t \in X!Slots, t \notin cut \cup X!Writing, X!Exported(t)
    PROVE  X!Whole(t)
<1>1. exports[t] # {}
  <2>1. X!Role(t) \in {"icon", "illustration", "photo", "app-icon"} /\ t[2] \in X!Platforms
    BY PassType
  <2> QED BY <2>1 DEF X!Exported, X!Platforms
<1> QED BY <1>1 DEF AllOrNothing

\* A build that does not move itself goes on vouching.
LEMMA OthersVouch ==
    ASSUME ExportsTyped, WritesAdd, [X!Next]_(X!exportVars), NEW c \in Builders, Vouches(c), Still(c),
           Busy(c) => \A s \in X!Slots : pinned[s] = "own" /\ pinned'[s] # "own" => s \in build'[c].disturbed
    PROVE  Vouches(c)'
<1> USE DEF BuildStates
<1>0. build[c] \in BuildStates
  BY DEF ExportsTyped
<1>1. /\ build'[c].pc = build[c].pc /\ build'[c].doc = build[c].doc /\ build'[c].todo = build[c].todo
      /\ build'[c].failed = build[c].failed /\ build'[c].wanted = build[c].wanted
      /\ build[c].disturbed \subseteq build'[c].disturbed /\ build'[c].wanted \subseteq X!Slots
  BY <1>0 DEF Still, Kept
<1>2. ASSUME Busy(c), NEW t \in Settled(c)'
      PROVE  X!Whole(t)' \/ (t \in Settled(c) /\ (X!Whole(t) => X!Whole(t)'))
  <2>0. /\ t \in build'[c].wanted /\ t \notin cut' \cup X!Writing' /\ t \notin build'[c].disturbed /\ t \in X!Slots
    BY <1>1 DEF Settled
  <2>1. Lasts(t) /\ Freed(t) /\ setup' = setup
    BY <2>0, ExportStep
  <2>2. CASE t \in cut \cup X!Writing
    BY <2>0, <2>1, <2>2 DEF Freed
  <2>3. CASE t \notin cut \cup X!Writing
    <3>1. t \in Settled(c)
      BY <1>1, <2>0, <2>3 DEF Settled
    <3>2. exports[t] \subseteq exports'[t]
      BY <1>2, <2>0, <2>1 DEF Lasts
    <3>3. X!Whole(t) => X!Whole(t)'
      BY <2>1, <3>2 DEF X!Whole, X!Role
    <3> QED BY <3>1, <3>3
  <2> QED BY <2>2, <2>3
<1>3. ASSUME Busy(c), NEW s \in X!Slots \ build'[c].disturbed, pinned[s] = "own" PROVE pinned'[s] = "own"
  BY <1>3
<1>4. ASSUME build[c].pc \in {"pick", "write"}
      PROVE  /\ \A s \in X!Slots \ build'[c].disturbed : build'[c].doc[s] = "own" => pinned'[s] = "own"
             /\ build'[c].failed \/ \A s \in Settled(c)' :
                    s \in build'[c].todo \/ build'[c].doc[s] = "own" \/ X!Whole(s)'
  <2>0. Busy(c)
    BY <1>4 DEF Busy
  <2>1. \A s \in X!Slots \ build[c].disturbed : build[c].doc[s] = "own" => pinned[s] = "own"
    BY <1>4 DEF Vouches
  <2>2. build[c].failed \/ \A s \in Settled(c) : s \in build[c].todo \/ build[c].doc[s] = "own" \/ X!Whole(s)
    BY <1>4 DEF Vouches
  <2>3. \A s \in X!Slots \ build'[c].disturbed : build'[c].doc[s] = "own" => pinned'[s] = "own"
    BY <1>1, <1>3, <2>0, <2>1
  <2>4. build'[c].failed \/ \A s \in Settled(c)' :
                    s \in build'[c].todo \/ build'[c].doc[s] = "own" \/ X!Whole(s)'
    BY <1>1, <1>2, <2>0, <2>2
  <2> QED BY <2>3, <2>4
<1>5. ASSUME build[c].pc = "gate", NEW s \in Settled(c)' PROVE pinned'[s] = "own" \/ X!Whole(s)'
  <2>0. Busy(c) /\ s \in X!Slots \ build'[c].disturbed
    BY <1>1, <1>5 DEF Busy, Settled
  <2>1. X!Whole(s)' \/ (s \in Settled(c) /\ (X!Whole(s) => X!Whole(s)'))
    BY <1>2, <1>5, <2>0
  <2>2. s \in Settled(c) => pinned[s] = "own" \/ X!Whole(s)
    BY <1>5 DEF Vouches
  <2> QED BY <1>3, <2>0, <2>1, <2>2
<1>6. ASSUME build[c].pc = "read", NEW s \in build'[c].wanted PROVE s[1] \in setup'.sourced
  <2>1. s \in X!Slots /\ s \in build[c].wanted
    BY <1>1, <1>6
  <2>2. setup' = setup
    BY <2>1, ExportStep
  <2> QED BY <1>6, <2>1, <2>2 DEF Vouches
<1> QED BY <1>1, <1>4, <1>5, <1>6 DEF Vouches

LEMMA VouchedStep ==
    ASSUME ExportsTyped, WritesAdd, AllOrNothing, Vouched, [X!Next]_(X!exportVars)
    PROVE  Vouched'
<1>1. CASE UNCHANGED X!exportVars
  BY <1>1 DEF X!exportVars, Vouched, Vouches, Settled, X!Writing, X!Whole, X!Role
<1>2. ASSUME NEW c \in Builders, build'[c] = build[c], pinned' = pinned PROVE Vouches(c)'
  <2>1. build[c] \in BuildStates
    BY DEF ExportsTyped
  <2>2. Still(c)
    BY <1>2, <2>1 DEF Still, Kept, BuildStates
  <2> QED BY <1>2, <2>2, OthersVouch DEF Vouched
<1>3. ASSUME NEW b \in Builders, Moves(b), pinned' = pinned, Vouches(b)' PROVE Vouched'
  <2>1. \A c \in Builders \ {b} : build'[c] = build[c]
    BY <1>3 DEF Moves, ExportsTyped
  <2>2. \A c \in Builders \ {b} : Vouches(c)'
    BY <1>2, <1>3, <2>1
  <2> QED BY <1>3, <2>2 DEF Vouched
<1>4. ASSUME NEW b \in Builders, X!Prepare(b) PROVE Vouched'
  <2>1. /\ Moves(b) /\ UNCHANGED <<setup, pinned, exports, cut>> /\ build'[b].pc \in {"read", "gate"}
        /\ build'[b].wanted = {s \in X!Slots : s[1] \in X!Scope \cap setup.sourced}
        /\ build'[b].pc = "gate" => \A a \in X!Scope : ~ X!NeedsMaterialize(a)
    BY <1>4, PrepareDoes
  <2>2. ASSUME build'[b].pc = "gate", NEW s \in Settled(b)' PROVE pinned'[s] = "own" \/ X!Whole(s)'
    <3>1. /\ s \in X!Slots /\ s[1] \in X!Scope \cap setup.sourced /\ s \notin cut' \cup X!Writing'
          /\ ~ X!NeedsMaterialize(s[1]) /\ s[2] \in X!Platforms /\ s = <<s[1], s[2]>>
      BY <2>1, <2>2, PassType DEF Settled
    <3>2. X!Active(pinned, s) \/ X!Exported(s)
      <4>1. X!Active(pinned, <<s[1], s[2]>>) \/ X!Exported(<<s[1], s[2]>>)
        BY <3>1 DEF X!NeedsMaterialize
      <4> QED BY <3>1, <4>1
    <3>3. CASE s \notin cut \cup X!Writing
      <4>1. pinned[s] = "own" \/ X!Whole(s)
        BY <3>1, <3>2, <3>3, ActiveIsWhole, ExportedIsWhole
      <4> QED BY <2>1, <4>1 DEF X!Whole, X!Role
    <3>4. CASE s \in cut \cup X!Writing
      BY <3>1, <3>4, ExportStep DEF Freed
    <3> QED BY <3>3, <3>4
  <2>3. ASSUME NEW s \in build'[b].wanted PROVE s[1] \in setup'.sourced
    BY <2>1, <2>3
  <2>4. Vouches(b)'
    BY <2>1, <2>2, <2>3 DEF Vouches
  <2> QED BY <1>3, <2>1, <2>4
<1>5. ASSUME NEW b \in Builders, X!Read(b) PROVE Vouched'
  <2>1. /\ Moves(b) /\ UNCHANGED <<setup, pinned, exports, cut>> /\ build[b].pc = "read" /\ build'[b].pc = "pick"
        /\ build'[b].doc = pinned /\ build'[b].wanted = build[b].wanted
        /\ \A s \in X!Slots : s[1] \in setup.sourced => s \in build'[b].todo
    BY <1>5, ReadDoes
  <2>2. ASSUME NEW s \in Settled(b)' PROVE s \in build'[b].todo
    <3>1. s \in build[b].wanted /\ s \in X!Slots
      BY <2>1, <2>2 DEF Settled, Moves, BuildStates
    <3>2. s[1] \in setup.sourced
      BY <2>1, <3>1 DEF Vouched, Vouches
    <3> QED BY <2>1, <3>1, <3>2
  <2>3. Vouches(b)'
    BY <2>1, <2>2 DEF Vouches
  <2> QED BY <1>3, <2>1, <2>3
<1>6. ASSUME NEW b \in Builders, X!Pick(b) PROVE Vouched'
  <2>1. /\ Moves(b) /\ UNCHANGED <<setup, pinned, exports, cut>>
        /\ build[b].pc = "pick" /\ build'[b].pc \in {"pick", "write"} /\ build'[b].doc = build[b].doc
        /\ build'[b].wanted = build[b].wanted /\ build'[b].disturbed = build[b].disturbed
        /\ build[b].failed => build'[b].failed
    BY <1>6, PickDoes
  <2>2. PICK s \in build[b].todo :
           /\ build'[b].pc = "write" => build'[b].at = s
           /\ ~ build'[b].failed => /\ build'[b].todo = build[b].todo \ {s}
                                    /\ build'[b].pc = "write" \/ X!Active(build[b].doc, s)
    BY <1>6, PickDoes
  <2>3. ASSUME ~ build'[b].failed, NEW t \in Settled(b)'
        PROVE  t \in build'[b].todo \/ build'[b].doc[t] = "own" \/ X!Whole(t)'
    <3>1. /\ t \in build[b].wanted /\ t \in X!Slots /\ t \notin cut' \cup X!Writing' /\ t \notin build[b].disturbed
      BY <2>1, <2>3 DEF Settled, Moves, BuildStates
    <3>2. CASE t \in cut \cup X!Writing
      BY <3>1, <3>2, ExportStep DEF Freed
    <3>3. CASE t \notin cut \cup X!Writing
      <4>1. t \in Settled(b) /\ ~ build[b].failed
        BY <2>1, <2>3, <3>1, <3>3 DEF Settled
      <4>2. t \in build[b].todo \/ build[b].doc[t] = "own" \/ X!Whole(t)
        BY <2>1, <4>1 DEF Vouched, Vouches
      <4>3. CASE t # s
        BY <2>1, <2>2, <2>3, <4>2, <4>3 DEF X!Whole, X!Role
      <4>4. CASE t = s
        <5>1. build'[b].pc = "write" => t \in X!Writing'
          BY <2>2, <4>4 DEF X!Writing
        <5>2. X!Active(build[b].doc, t)
          BY <2>2, <2>3, <3>1, <4>4, <5>1
        <5>3. build[b].doc[t] = "own" \/ X!Whole(t)
          BY <3>1, <3>3, <5>2, ActiveIsWhole
        <5> QED BY <2>1, <5>3 DEF X!Whole, X!Role
      <4> QED BY <4>3, <4>4
    <3> QED BY <3>2, <3>3
  <2>4. \A t \in X!Slots \ build[b].disturbed : build[b].doc[t] = "own" => pinned[t] = "own"
    BY <2>1 DEF Vouched, Vouches
  <2>5. Vouches(b)'
    BY <2>1, <2>3, <2>4 DEF Vouches
  <2> QED BY <1>3, <2>1, <2>5
<1>7. ASSUME NEW b \in Builders, X!Write(b) PROVE Vouched'
  <2>1. /\ Moves(b) /\ UNCHANGED <<setup, pinned>> /\ build[b].pc = "write" /\ build'[b].pc \in {"pick", "write"}
        /\ build'[b].doc = build[b].doc /\ build'[b].todo = build[b].todo /\ build'[b].wanted = build[b].wanted
        /\ build'[b].disturbed = build[b].disturbed /\ build'[b].failed = build[b].failed
        /\ \A t \in X!Slots : exports[t] \subseteq exports'[t]
    BY <1>7, WriteDoes DEF ExportsTyped
  <2>2. ASSUME ~ build'[b].failed, NEW t \in Settled(b)'
        PROVE  t \in build'[b].todo \/ build'[b].doc[t] = "own" \/ X!Whole(t)'
    <3>1. t \in build[b].wanted /\ t \in X!Slots /\ t \notin cut' \cup X!Writing' /\ t \notin build[b].disturbed
      BY <2>1, <2>2 DEF Settled, Moves, BuildStates
    <3>2. CASE t \in cut \cup X!Writing
      BY <3>1, <3>2, ExportStep DEF Freed
    <3>3. CASE t \notin cut \cup X!Writing
      <4>1. t \in Settled(b) /\ ~ build[b].failed
        BY <2>1, <2>2, <3>1, <3>3 DEF Settled
      <4>2. t \in build[b].todo \/ build[b].doc[t] = "own" \/ X!Whole(t)
        BY <2>1, <4>1 DEF Vouched, Vouches
      <4>3. X!Whole(t) => X!Whole(t)'
        BY <2>1, <3>1 DEF X!Whole, X!Role
      <4> QED BY <2>1, <4>2, <4>3
    <3> QED BY <3>2, <3>3
  <2>3. \A t \in X!Slots \ build[b].disturbed : build[b].doc[t] = "own" => pinned[t] = "own"
    BY <2>1 DEF Vouched, Vouches
  <2>4. Vouches(b)'
    BY <2>1, <2>2, <2>3 DEF Vouches
  <2> QED BY <1>3, <2>1, <2>4
<1>8. ASSUME NEW b \in Builders, X!WriteFails(b) \/ X!Killed(b) \/ X!Gate(b) PROVE Vouched'
  <2>1. /\ Moves(b) /\ pinned' = pinned /\ build'[b].pc \in {"pick", "handed", "refused"}
        /\ build'[b].pc = "pick" => /\ build[b].pc = "write" /\ build'[b].failed
                                    /\ build'[b].doc = build[b].doc /\ build'[b].disturbed = build[b].disturbed
    BY <1>8, StopDoes
  <2>2. build'[b].pc = "pick" =>
          \A t \in X!Slots \ build'[b].disturbed : build'[b].doc[t] = "own" => pinned'[t] = "own"
    BY <2>1 DEF Vouched, Vouches
  <2>3. Vouches(b)'
    BY <2>1, <2>2 DEF Vouches
  <2> QED BY <1>3, <2>1, <2>3
<1>9. ASSUME NEW b \in Builders, X!WritePins(b) PROVE Vouched'
  <2>1. /\ UNCHANGED <<setup, exports, cut>> /\ build[b].pc = "pick" /\ build[b].todo = {}
        /\ build'[b].pc \in {"gate", "refused"} /\ (build'[b].pc = "gate" => ~ build[b].failed)
        /\ build'[b].wanted = build[b].wanted /\ build'[b].disturbed = build[b].disturbed
        /\ pinned' = pinned \/ \A s \in X!Slots : build[b].doc[s] = "own" => pinned'[s] = "own"
        /\ build'[b] \in BuildStates
    BY <1>9, PinsDo
  <2>2. ASSUME build'[b].pc = "gate", NEW t \in Settled(b)' PROVE pinned'[t] = "own" \/ X!Whole(t)'
    <3>1. t \in build[b].wanted /\ t \in X!Slots /\ t \notin cut' \cup X!Writing' /\ t \notin build[b].disturbed
      BY <2>1, <2>2 DEF Settled, BuildStates
    <3>2. CASE t \in cut \cup X!Writing
      BY <3>1, <3>2, ExportStep DEF Freed
    <3>3. CASE t \notin cut \cup X!Writing
      <4>1. t \in Settled(b) /\ ~ build[b].failed
        BY <2>1, <2>2, <3>1, <3>3 DEF Settled
      <4>2. build[b].doc[t] = "own" \/ X!Whole(t)
        BY <2>1, <4>1 DEF Vouched, Vouches
      <4>3. build[b].doc[t] = "own" => pinned[t] = "own"
        BY <2>1, <3>1 DEF Vouched, Vouches
      <4>4. build[b].doc[t] = "own" => pinned'[t] = "own"
        BY <2>1, <3>1, <4>3
      <4> QED BY <2>1, <4>2, <4>4 DEF X!Whole, X!Role
    <3> QED BY <3>2, <3>3
  <2>3. Vouches(b)'
    BY <2>1, <2>2 DEF Vouches
  <2>4. ASSUME NEW c \in Builders \ {b} PROVE Vouches(c)'
    <3>1. Still(c) /\ (Busy(c) => \A s \in X!Slots : pinned[s] = "own" /\ pinned'[s] # "own" => s \in build'[c].disturbed)
      BY <1>9, PinsDo
    <3> QED BY <3>1, OthersVouch DEF Vouched
  <2> QED BY <2>3, <2>4 DEF Vouched
<1>10. CASE X!Edit
  <2>1. ASSUME NEW c \in Builders PROVE Vouches(c)'
    <3>1. PICK s \in X!Slots :
            /\ \A d \in Builders : Busy(d) => s \in build'[d].disturbed
            /\ \A t \in X!Slots \ {s} : pinned'[t] = pinned[t]
      BY <1>10, EditDoes
    <3>2. Still(c) /\ (Busy(c) => \A t \in X!Slots : pinned[t] = "own" /\ pinned'[t] # "own" => t \in build'[c].disturbed)
      BY <1>10, <3>1, EditDoes
    <3> QED BY <3>2, OthersVouch DEF Vouched
  <2> QED BY <2>1 DEF Vouched
<1> QED BY <1>1, <1>4, <1>5, <1>6, <1>7, <1>8, <1>9, <1>10 DEF X!Next

LEMMA ExportsInit == ASSUME X!Init PROVE ExportsTyped /\ WritesAdd /\ AllOrNothing /\ Vouched
<1>1. \A b \in Builders : build[b] = X!Idle
  BY DEF X!Init
<1>2. X!Idle \in BuildStates /\ X!Idle.pc = "idle"
  <2>1. << >> \in Seq(Artifacts)
    OBVIOUS
  <2> QED BY <2>1 DEF X!Idle, BuildStates
<1>3. ExportsTyped
  <2>1. setup \in Setups /\ master \in [Assets -> {"good", "broken", "missing"}]
    BY DEF X!Init
  <2>2. pinned \in [X!Slots -> Pins] /\ exports \in [X!Slots -> SUBSET Artifacts] /\ cut \subseteq X!Slots
    BY DEF X!Init, Pins
  <2>3. build \in [Builders -> BuildStates]
    BY <1>2 DEF X!Init
  <2> QED BY <1>1, <1>2, <2>1, <2>2, <2>3 DEF ExportsTyped
<1>4. AllOrNothing
  BY DEF X!Init, AllOrNothing
<1> QED BY <1>1, <1>2, <1>3, <1>4 DEF WritesAdd, Vouched, Vouches

\* What a build vouches for at the gate is what the property asks for.
LEMMA VouchedAreWhole == ASSUME Vouched PROVE X!HandedWhole
BY DEF Vouched, Vouches, Settled, X!HandedWhole

(***************************************************************************)
(* What a build hands to its builder is exported in full or pinned by the  *)
(* operator, whichever builds write side by side, fail, are killed or have *)
(* the exports cleaned and the pins changed under them: a slot is written  *)
(* in full or counted as cut short, the gate follows a prepare that found  *)
(* every export or a run of the tool that failed nowhere, and what changes *)
(* behind a build is counted as disturbed.                                 *)
(***************************************************************************)
THEOREM HandedExportsAreWhole ==
    PartsSpec => ExportsAreWhole
<1> DEFINE Inv == part = "exports" => ExportsTyped /\ WritesAdd /\ AllOrNothing /\ Vouched
<1>1. PartsInit => Inv
  BY PartInit, ExportsInit
<1>2. Inv /\ [PartsNext]_allVars => Inv'
  <2> SUFFICES ASSUME Inv, [PartsNext]_allVars, part' = "exports"
               PROVE  ExportsTyped' /\ WritesAdd' /\ AllOrNothing' /\ Vouched'
    OBVIOUS
  <2>1. ExportsTyped /\ WritesAdd /\ AllOrNothing /\ Vouched /\ [X!Next]_(X!exportVars)
    BY PartStep
  <2> QED BY <2>1, ExportsTypedStep, WritesAddStep, AllOrNothingStep, VouchedStep
<1>3. Inv => (part = "exports" => X!HandedWhole)
  BY VouchedAreWhole
<1> QED BY <1>1, <1>2, <1>3, PTL DEF PartsSpec, ExportsAreWhole

-----------------------------------------------------------------------------
(***************************************************************************)
(* ComponentCatalog: the names that binds record and the builds that miss a *)
(* change of them.                                                         *)
(***************************************************************************)
\* The shapes of the state.
Slugs == Labels \X ({0} \cup Prints)
Status == {"confirmed", "rejected"}
Entry == [status : Status, print : Prints \cup {None}]
Desires == [label : Labels, pinned : BOOLEAN]

\* A suffixed slug has the print it is named for.
IsCatalog(c) ==
    /\ c \in [DOMAIN c -> Entry] /\ DOMAIN c \subseteq Slugs
    /\ \A s \in DOMAIN c : s[2] # 0 => c[s].print = s[2]
IsNames(n) == n \in [DOMAIN n -> Labels] /\ DOMAIN n \subseteq Prints
IsDesired(d) == d \in [DOMAIN d -> Desires] /\ DOMAIN d \subseteq Prints

IsRecord(r) ==
    \E pc, names, desired, staged, behind :
        r = [pc |-> pc, names |-> names, desired |-> desired, staged |-> staged, behind |-> behind]
IsBuild(r) ==
    /\ IsRecord(r)
    /\ r.names = None \/ IsNames(r.names)
    /\ r.pc \in {"load", "save"} => IsDesired(r.desired)
    /\ r.pc = "save" => IsCatalog(r.staged)

NamesTyped ==
    /\ components = None \/ IsCatalog(components)
    /\ pins = None \/ DOMAIN pins \subseteq Labels
    /\ builder = [b \in Builders |-> builder[b]]
    /\ \A b \in Builders : IsBuild(builder[b])

\* What a build that has missed nothing knows: its prints have no entry, what is not pinned
\* is desired under its name, and what it stages is the catalog with that.
Informed(b) ==
    /\ builder[b].pc \in {"load", "save"} =>
         \A p \in DOMAIN builder[b].desired : ~ builder[b].desired[p].pinned =>
            /\ builder[b].names # None /\ p \in DOMAIN builder[b].names
            /\ builder[b].desired[p].label = builder[b].names[p]
    /\ builder[b].pc \in {"named", "load", "save"} /\ ~ builder[b].behind /\ builder[b].names # None =>
         \A p \in DOMAIN builder[b].names : N!Of(N!Entries, p) = {}
    /\ builder[b].pc = "save" /\ ~ builder[b].behind =>
         builder[b].staged = N!Bound(N!Entries, builder[b].desired)

NamesInv == NamesTyped /\ \A b \in Builders : Informed(b)

-----------------------------------------------------------------------------
(***************************************************************************)
(* The last of some slugs.                                                 *)
(***************************************************************************)
LEMMA SlugType ==
    /\ \A s \in Slugs : s[1] \in Labels /\ s[2] \in {0} \cup Prints /\ s = <<s[1], s[2]>>
    /\ \A n \in Labels : N!Bare(n) \in Slugs /\ \A p \in Prints : N!Suffixed(n, p) \in Slugs
    /\ \A s \in Slugs : s[1] \in Nat /\ s[2] \in Nat
    /\ None \notin Slugs /\ IsFiniteSet(Slugs)
<1>1. \A s \in Slugs : s[1] \in Labels /\ s[2] \in {0} \cup Prints /\ s = <<s[1], s[2]>>
  BY DEF Slugs
<1>2. \A n \in Labels : N!Bare(n) \in Slugs /\ \A p \in Prints : N!Suffixed(n, p) \in Slugs
  BY DEF Slugs, N!Bare, N!Suffixed
<1>3. \A s \in Slugs : s[1] \in Nat /\ s[2] \in Nat
  BY <1>1, ComponentCatalogAssumption
<1>4. IsFiniteSet({0} \cup Prints)
  BY ComponentCatalogAssumption, FS_Singleton, FS_Union
<1>5. IsFiniteSet(Slugs)
  BY <1>4, ComponentCatalogAssumption, FS_Product DEF Slugs
<1>6. None \notin Slugs
  BY ComponentCatalogAssumption DEF Slugs
<1> QED BY <1>1, <1>2, <1>3, <1>5, <1>6

LEMMA LastIsOf ==
    ASSUME NEW slugs \in SUBSET Slugs, slugs # {}
    PROVE  N!LastOf(slugs) \in slugs /\ N!LastOf(slugs) # None
<1> DEFINE UpTo(r, s) == r[1] < s[1] \/ (r[1] = s[1] /\ r[2] <= s[2])
           Above(s) == {r \in slugs : ~ UpTo(r, s)}
           heights == {Cardinality(Above(s)) : s \in slugs}
<1>1. \A s \in slugs : s[1] \in Nat /\ s[2] \in Nat
  BY SlugType
<1>2. \A s \in slugs : IsFiniteSet(Above(s)) /\ Cardinality(Above(s)) \in Nat
  <2>1. IsFiniteSet(slugs)
    BY SlugType, FS_Subset
  <2>2. \A s \in slugs : Above(s) \subseteq slugs
    OBVIOUS
  <2> HIDE DEF Above
  <2> QED BY <2>1, <2>2, FS_Subset, FS_CardinalityType
<1>3. PICK m \in heights : \A k \in heights : m <= k
  <2>1. heights \subseteq Nat /\ heights # {}
    BY <1>2
  <2> HIDE DEF heights
  <2> QED BY <2>1, LeastNatural
<1>4. PICK s \in slugs : m = Cardinality(Above(s))
  BY <1>3
<1>5. ASSUME NEW r \in slugs PROVE UpTo(r, s)
  <2>1. SUFFICES ASSUME ~ UpTo(r, s) PROVE FALSE
    OBVIOUS
  <2>2. Above(r) \subseteq Above(s) /\ r \in Above(s) /\ r \notin Above(r)
    BY <1>1, <2>1
  <2>3. Cardinality(Above(s)) <= Cardinality(Above(r))
    BY <1>3, <1>4
  <2> HIDE DEF Above
  <2>4. Cardinality(Above(r)) <= Cardinality(Above(s))
        /\ (Cardinality(Above(r)) = Cardinality(Above(s)) => Above(r) = Above(s))
    BY <1>2, <2>2, FS_Subset
  <2> QED BY <1>2, <2>2, <2>3, <2>4
<1>6. N!LastOf(slugs) \in slugs
  BY <1>4, <1>5 DEF N!LastOf
<1> QED BY <1>6, SlugType

LEMMA LastOfOne == ASSUME NEW s \in Slugs PROVE N!LastOf({s}) = s
<1>1. s[1] \in Nat /\ s[2] \in Nat
  BY SlugType
<1> QED BY <1>1 DEF N!LastOf

\* The part of a print is a part.
LEMMA PinIsPart ==
    ASSUME NamesTyped, NEW p \in Prints, N!IsPinned(p) PROVE N!Pin(p) \in Labels
<1>1. N!PinsOf(p) \subseteq Labels /\ N!PinsOf(p) # {}
  BY DEF N!IsPinned, N!PinsOf, NamesTyped
<1>2. N!PinsOf(p) \subseteq Nat
  BY <1>1, ComponentCatalogAssumption
<1>3. \E n \in N!PinsOf(p) : \A m \in N!PinsOf(p) : n <= m
  BY <1>1, <1>2, LeastNatural
<1>4. N!Pin(p) \in N!PinsOf(p)
  BY <1>3 DEF N!Pin
<1> QED BY <1>1, <1>4

LEMMA EntriesType == ASSUME NamesTyped PROVE IsCatalog(N!Entries)
<1>1. CASE components = None
  <2>1. DOMAIN << >> = {}
    OBVIOUS
  <2>2. << >> \in [{} -> Entry]
    BY <2>1
  <2> QED BY <1>1, <2>1, <2>2 DEF N!Entries, IsCatalog
<1>2. CASE components # None
  BY <1>2 DEF N!Entries, NamesTyped
<1> QED BY <1>1, <1>2

\* A print a report has no name for has no entry.
LEMMA NamelessHasNone ==
    ASSUME NamesTyped, NEW p \in Prints, N!Echo(p) = None PROVE N!Of(N!Entries, p) = {}
<1>1. N!Of(N!Entries, p) \subseteq Slugs
  BY DEF N!Of, N!Entries, NamesTyped, IsCatalog
<1>2. ~ N!IsPinned(p)
  BY PinIsPart, SlugType DEF N!Echo
<1>3. N!LastOf(N!Of(N!Entries, p)) = None
  BY <1>2 DEF N!Echo, N!Index
<1> QED BY <1>1, <1>3, LastIsOf

-----------------------------------------------------------------------------
(***************************************************************************)
(* What a bind makes of the catalog it has loaded.                         *)
(***************************************************************************)
LEMMA ResolvedType ==
    ASSUME NEW desired, IsDesired(desired), NEW p \in DOMAIN desired
    PROVE  /\ N!Resolved(desired, p) \in Slugs /\ N!Resolved(desired, p)[1] = desired[p].label
           /\ N!Resolved(desired, p)[2] \in {0, p} /\ p # 0
           /\ p \in Prints /\ desired[p].label \in Labels
<1>1. p \in Prints /\ desired[p].label \in Labels /\ p # 0
  BY ComponentCatalogAssumption DEF IsDesired, Desires
<1>2. N!Resolved(desired, p) \in {N!Bare(desired[p].label), N!Suffixed(desired[p].label, p)}
  BY DEF N!Resolved
<1> QED BY <1>1, <1>2, SlugType DEF N!Bare, N!Suffixed

\* A slug is of the print alone, unless the print is pinned.
LEMMA ResolvedIsOwn ==
    ASSUME NEW desired, IsDesired(desired), NEW p \in DOMAIN desired, NEW q \in DOMAIN desired,
           N!Resolved(desired, p) = N!Resolved(desired, q), ~ desired[p].pinned
    PROVE  p = q
<1>1. /\ N!Resolved(desired, p)[1] = desired[p].label /\ N!Resolved(desired, q)[1] = desired[q].label
      /\ N!Resolved(desired, p)[2] \in {0, p} /\ N!Resolved(desired, q)[2] \in {0, q}
      /\ p # 0 /\ q # 0 /\ p \in Nat /\ q \in Nat
  BY ResolvedType, ComponentCatalogAssumption
<1>2. CASE N!Resolved(desired, p)[2] # 0
  BY <1>1, <1>2
<1>3. CASE N!Resolved(desired, p)[2] = 0
  <2>1. N!Resolved(desired, p) # N!Suffixed(desired[p].label, p) /\ N!Resolved(desired, q) # N!Suffixed(desired[q].label, q)
    BY <1>1, <1>3 DEF N!Suffixed
  <2>2. desired[p].pinned \/ (~ desired[q].pinned /\ p <= q)
    BY <1>1, <2>1 DEF N!Resolved
  <2>3. desired[q].pinned \/ (~ desired[p].pinned /\ q <= p)
    BY <1>1, <2>1 DEF N!Resolved
  <2> QED BY <1>1, <2>2, <2>3
<1> QED BY <1>2, <1>3

LEMMA BoundDoes ==
    ASSUME NEW entries, IsCatalog(entries), NEW desired, IsDesired(desired)
    PROVE  /\ IsCatalog(N!Bound(entries, desired))
           /\ DOMAIN N!Bound(entries, desired) =
                 DOMAIN entries \cup {N!Resolved(desired, p) : p \in DOMAIN desired}
           /\ \A s \in DOMAIN entries : N!Bound(entries, desired)[s] = entries[s]
           /\ \A s \in DOMAIN N!Bound(entries, desired) \ DOMAIN entries :
                /\ N!Bound(entries, desired)[s].print \in DOMAIN desired
                /\ N!Resolved(desired, N!Bound(entries, desired)[s].print) = s
<1> DEFINE slug == [p \in DOMAIN desired |-> N!Resolved(desired, p)]
           new(s) == [status |-> "confirmed", print |-> CHOOSE p \in DOMAIN desired : slug[p] = s]
           bound == N!Bound(entries, desired)
           dom == DOMAIN entries \cup {slug[p] : p \in DOMAIN desired}
<1>1. bound = [s \in dom |-> IF s \in DOMAIN entries THEN entries[s] ELSE new(s)]
  BY DEF N!Bound
<1>2. dom = DOMAIN entries \cup {N!Resolved(desired, p) : p \in DOMAIN desired}
  OBVIOUS
<1>3. ASSUME NEW s \in dom \ DOMAIN entries
      PROVE  /\ new(s).print \in DOMAIN desired /\ N!Resolved(desired, new(s).print) = s
             /\ new(s) \in Entry /\ (s[2] # 0 => new(s).print = s[2])
  <2>1. PICK q \in DOMAIN desired : slug[q] = s
    BY <1>3
  <2> DEFINE p == CHOOSE q2 \in DOMAIN desired : slug[q2] = s
  <2>2. p \in DOMAIN desired /\ slug[p] = s
    BY <2>1
  <2>3. new(s) = [status |-> "confirmed", print |-> p]
    OBVIOUS
  <2> HIDE DEF p, new
  <2>4. N!Resolved(desired, p) = s
    BY <2>2
  <2>5. p \in Prints /\ s[2] \in {0, p}
    BY <2>2, <2>4, ResolvedType
  <2> QED BY <2>2, <2>3, <2>4, <2>5 DEF Entry, Status
<1> HIDE DEF new, slug, dom
<1>4. DOMAIN bound = dom /\ \A s \in dom : bound[s] = IF s \in DOMAIN entries THEN entries[s] ELSE new(s)
  BY <1>1
<1>5. IsCatalog(bound)
  <2>1. bound \in [dom -> Entry]
    BY <1>1, <1>3 DEF IsCatalog
  <2>2. dom \subseteq Slugs
    BY <1>2, ResolvedType DEF IsCatalog
  <2>3. \A s \in dom : s[2] # 0 => bound[s].print = s[2]
    BY <1>3, <1>4 DEF IsCatalog
  <2> QED BY <1>4, <2>1, <2>2, <2>3 DEF IsCatalog
<1>6. \A s \in DOMAIN entries : bound[s] = entries[s]
  BY <1>2, <1>4
<1>7. \A s \in dom \ DOMAIN entries : bound[s].print \in DOMAIN desired /\ N!Resolved(desired, bound[s].print) = s
  BY <1>3, <1>4
<1> QED BY <1>2, <1>4, <1>5, <1>6, <1>7

\* What the property asks of a bind that has missed nothing.
LEMMA BoundKeepsNames ==
    ASSUME NEW entries, IsCatalog(entries), NEW desired, IsDesired(desired), NEW names,
           \A p \in DOMAIN desired : ~ desired[p].pinned =>
              N!Of(entries, p) = {} /\ desired[p].label = names[p],
           NEW p \in Prints, p \in DOMAIN desired => ~ desired[p].pinned
    PROVE  LET now == N!Bound(entries, desired)
           IN  /\ N!Of(entries, p) # {} => N!Of(now, p) = N!Of(entries, p)
               /\ p \in DOMAIN desired /\ N!Bare(names[p]) \notin DOMAIN entries =>
                     \E s \in N!Of(now, p) : s[1] = names[p] /\ s = N!Index(now, p)
<1> DEFINE now == N!Bound(entries, desired)
<1>1. /\ DOMAIN now = DOMAIN entries \cup {N!Resolved(desired, q) : q \in DOMAIN desired}
      /\ \A s \in DOMAIN entries : now[s] = entries[s]
      /\ \A s \in DOMAIN now \ DOMAIN entries :
             now[s].print \in DOMAIN desired /\ N!Resolved(desired, now[s].print) = s
  BY BoundDoes
<1> HIDE DEF now
<1>2. ASSUME N!Of(entries, p) # {} PROVE N!Of(now, p) = N!Of(entries, p)
  <2>1. p \notin DOMAIN desired
    BY <1>2
  <2> QED BY <1>1, <2>1 DEF N!Of
<1>3. ASSUME p \in DOMAIN desired, N!Bare(names[p]) \notin DOMAIN entries
      PROVE  \E s \in N!Of(now, p) : s[1] = names[p] /\ s = N!Index(now, p)
  <2> DEFINE s == N!Resolved(desired, p)
  <2>1. N!Of(entries, p) = {} /\ desired[p].label = names[p] /\ ~ desired[p].pinned
    BY <1>3
  <2>2. s \in Slugs /\ s[1] = names[p] /\ s[2] \in {0, p} /\ p # 0 /\ s = <<s[1], s[2]>>
    BY <1>3, <2>1, ResolvedType, SlugType
  <2>3. s \notin DOMAIN entries
    <3>1. CASE s[2] = 0
      BY <1>3, <2>2, <3>1 DEF N!Bare
    <3>2. CASE s[2] = p
      BY <2>1, <2>2, <3>2 DEF N!Of, IsCatalog
    <3> QED BY <2>2, <3>1, <3>2
  <2>4. s \in DOMAIN now \ DOMAIN entries
    BY <1>1, <1>3, <2>3
  <2>5. ASSUME NEW t \in DOMAIN now PROVE now[t].print = p <=> t = s
    <3>1. CASE t \in DOMAIN entries
      BY <1>1, <2>1, <2>3, <3>1 DEF N!Of
    <3>2. CASE t \notin DOMAIN entries
      <4>1. now[t].print \in DOMAIN desired /\ N!Resolved(desired, now[t].print) = t
        BY <1>1, <3>2
      <4> QED BY <1>3, <2>1, <4>1, ResolvedIsOwn
    <3> QED BY <3>1, <3>2
  <2>6. N!Of(now, p) = {s}
    BY <2>4, <2>5 DEF N!Of
  <2>7. N!Index(now, p) = s
    BY <2>2, <2>6, LastOfOne DEF N!Index
  <2> QED BY <2>2, <2>6, <2>7
<1> QED BY <1>2, <1>3 DEF now

-----------------------------------------------------------------------------
(***************************************************************************)
(* The steps. A build changes its own state, and one that saves marks the  *)
(* others.                                                                 *)
(***************************************************************************)
LEMMA BehindDoes ==
    ASSUME NEW builds, builds = [b \in Builders |-> builds[b]], NEW c
    PROVE  /\ N!Behind(builds, c) = [b \in Builders |-> N!Behind(builds, c)[b]]
           /\ \A b \in Builders :
                /\ N!Behind(builds, c)[b] = builds[b] \/ N!Behind(builds, c)[b] = [builds[b] EXCEPT !.behind = TRUE]
                /\ b = c => N!Behind(builds, c)[b] = builds[b]
                /\ b # c /\ builds[b].pc \in {"named", "load", "save"} =>
                      N!Behind(builds, c)[b] = [builds[b] EXCEPT !.behind = TRUE]
BY DEF N!Behind

\* What an update leaves of a build.
LEMMA BuildFields ==
    ASSUME NEW r, IsRecord(r), NEW pc, NEW v
    PROVE  /\ [r EXCEPT !.pc = pc] =
                [pc |-> pc, names |-> r.names, desired |-> r.desired, staged |-> r.staged, behind |-> r.behind]
           /\ [r EXCEPT !.pc = pc, !.names = v] =
                [pc |-> pc, names |-> v, desired |-> r.desired, staged |-> r.staged, behind |-> r.behind]
           /\ [r EXCEPT !.pc = pc, !.desired = v] =
                [pc |-> pc, names |-> r.names, desired |-> v, staged |-> r.staged, behind |-> r.behind]
           /\ [r EXCEPT !.behind = v] =
                [pc |-> r.pc, names |-> r.names, desired |-> r.desired, staged |-> r.staged, behind |-> v]
<1>1. PICK a, n, d, s, h : r = [pc |-> a, names |-> n, desired |-> d, staged |-> s, behind |-> h]
  BY DEF IsRecord
<1>2. a = r.pc /\ n = r.names /\ d = r.desired /\ s = r.staged /\ h = r.behind
  BY <1>1
<1> DEFINE m == [r EXCEPT !.pc = pc]
<1>3. m = [pc |-> pc, names |-> n, desired |-> d, staged |-> s, behind |-> h]
  BY <1>1
<1>4. [r EXCEPT !.behind = v] = [pc |-> a, names |-> n, desired |-> d, staged |-> s, behind |-> v]
  BY <1>1
<1> HIDE DEF m
<1>5. [m EXCEPT !.names = v] = [pc |-> pc, names |-> v, desired |-> d, staged |-> s, behind |-> h]
  BY <1>3
<1>6. [m EXCEPT !.desired = v] = [pc |-> pc, names |-> n, desired |-> v, staged |-> s, behind |-> h]
  BY <1>3
<1> QED BY <1>2, <1>3, <1>4, <1>5, <1>6 DEF m

LEMMA BuildStaged ==
    ASSUME NEW r, IsRecord(r), NEW pc, NEW v
    PROVE  [r EXCEPT !.pc = pc, !.staged = v] =
                [pc |-> pc, names |-> r.names, desired |-> r.desired, staged |-> v, behind |-> r.behind]
<1>1. PICK a, n, d, s, h : r = [pc |-> a, names |-> n, desired |-> d, staged |-> s, behind |-> h]
  BY DEF IsRecord
<1>2. a = r.pc /\ n = r.names /\ d = r.desired /\ s = r.staged /\ h = r.behind
  BY <1>1
<1> DEFINE m == [r EXCEPT !.pc = pc]
<1>3. m = [pc |-> pc, names |-> n, desired |-> d, staged |-> s, behind |-> h]
  BY <1>1
<1> HIDE DEF m
<1>4. [m EXCEPT !.staged = v] = [pc |-> pc, names |-> n, desired |-> d, staged |-> v, behind |-> h]
  BY <1>3
<1> QED BY <1>2, <1>3, <1>4 DEF m

LEMMA BuildMarked ==
    ASSUME NEW old, IsBuild(old), NEW new, new = old \/ new = [old EXCEPT !.behind = TRUE]
    PROVE  /\ IsBuild(new) /\ new.pc = old.pc /\ new.names = old.names /\ new.desired = old.desired
           /\ new.staged = old.staged /\ (old.behind => new.behind)
           /\ new = [old EXCEPT !.behind = TRUE] => new.behind
<1>1. IsRecord(old)
  BY DEF IsBuild
<1>2. CASE new = [old EXCEPT !.behind = TRUE]
  <2>1. new = [pc |-> old.pc, names |-> old.names, desired |-> old.desired, staged |-> old.staged, behind |-> TRUE]
    BY <1>1, <1>2, BuildFields
  <2>2. IsRecord(new)
    BY <2>1 DEF IsRecord
  <2> QED BY <2>1, <2>2 DEF IsBuild
<1>3. CASE new # [old EXCEPT !.behind = TRUE]
  BY <1>3
<1> QED BY <1>2, <1>3

\* A build that does not move itself stays informed.
LEMMA OthersInformed ==
    ASSUME NamesTyped, NEW c \in Builders, Informed(c),
           builder'[c] = builder[c] \/ builder'[c] = [builder[c] EXCEPT !.behind = TRUE],
           \/ components' = components
           \/ builder[c].pc \in {"named", "load", "save"} => builder'[c] = [builder[c] EXCEPT !.behind = TRUE]
    PROVE  Informed(c)' /\ IsBuild(builder'[c])
<1>1. /\ IsBuild(builder'[c]) /\ builder'[c].pc = builder[c].pc /\ builder'[c].names = builder[c].names
      /\ builder'[c].desired = builder[c].desired /\ builder'[c].staged = builder[c].staged
      /\ (builder[c].behind => builder'[c].behind)
      /\ builder'[c] = [builder[c] EXCEPT !.behind = TRUE] => builder'[c].behind
  BY BuildMarked DEF NamesTyped
<1>2. CASE components' = components
  BY <1>1, <1>2 DEF Informed, N!Entries
<1>3. CASE builder[c].pc \in {"named", "load", "save"} => builder'[c].behind
  BY <1>1, <1>3 DEF Informed
<1> QED BY <1>1, <1>2, <1>3

\* A step of a build that leaves the catalog alone.
LEMMA BuilderStep ==
    ASSUME NamesInv, NEW b \in Builders, NEW r, builder' = [builder EXCEPT ![b] = r],
           UNCHANGED <<components, pins>>, IsBuild(r), Informed(b)'
    PROVE  NamesInv'
<1>1. builder'[b] = r /\ (\A c \in Builders \ {b} : builder'[c] = builder[c])
      /\ builder' = [c \in Builders |-> builder'[c]]
  BY DEF NamesInv, NamesTyped
<1>2. \A c \in Builders \ {b} : Informed(c)' /\ IsBuild(builder'[c])
  BY <1>1, OthersInformed DEF NamesInv
<1>3. NamesTyped'
  BY <1>1, <1>2 DEF NamesInv, NamesTyped
<1> QED BY <1>2, <1>3 DEF NamesInv

LEMMA ReportStep == ASSUME NamesInv, NEW b \in Builders, N!Report(b) PROVE NamesInv'
<1>1. PICK min \in 1 .. 2 :
        \E names \in {None} \cup UNION {[some -> Labels] : some \in SUBSET {p \in N!Clusters(min) : N!Echo(p) = None}} :
            builder' = [builder EXCEPT ![b].pc = "named", ![b].names = names]
  BY DEF N!Report
<1> DEFINE nameless == {p \in N!Clusters(min) : N!Echo(p) = None}
<1>2. PICK names \in {None} \cup UNION {[some -> Labels] : some \in SUBSET nameless} :
            builder' = [builder EXCEPT ![b].pc = "named", ![b].names = names]
  BY <1>1
<1>3. nameless \subseteq Prints /\ \A p \in nameless : N!Of(N!Entries, p) = {}
  BY NamelessHasNone DEF N!Clusters, N!Observed, NamesInv
<1> HIDE DEF nameless
<1>4. names = None \/ (IsNames(names) /\ DOMAIN names \subseteq nameless)
  BY <1>2, <1>3 DEF IsNames
<1> DEFINE r == [builder[b] EXCEPT !.pc = "named", !.names = names]
<1>5. builder' = [builder EXCEPT ![b] = r] /\ UNCHANGED <<components, pins>>
  BY <1>2 DEF NamesInv, NamesTyped, N!Report
<1>6. IsBuild(builder[b])
  BY DEF NamesInv, NamesTyped
<1>7. IsBuild(r) /\ r.pc = "named" /\ r.names = names
  <2>1. IsRecord(builder[b])
    BY <1>6 DEF IsBuild
  <2>2. r = [pc |-> "named", names |-> names, desired |-> builder[b].desired,
             staged |-> builder[b].staged, behind |-> builder[b].behind]
    BY <2>1, BuildFields
  <2> HIDE DEF r
  <2> QED BY <1>4, <2>2 DEF IsBuild, IsRecord
<1> HIDE DEF r
<1>8. builder'[b] = r
  BY <1>5 DEF NamesInv, NamesTyped
<1>9. Informed(b)'
  BY <1>3, <1>4, <1>5, <1>7, <1>8 DEF Informed, N!Entries
<1> QED BY <1>5, <1>7, <1>9, BuilderStep

LEMMA ProjectStep == ASSUME NamesInv, NEW b \in Builders, N!Project(b) PROVE NamesInv'
<1>0. /\ UNCHANGED <<components, pins>> /\ builder[b].pc = "named" /\ IsBuild(builder[b])
      /\ IsRecord(builder[b])
  BY DEF N!Project, NamesInv, NamesTyped, IsBuild
<1>1. CASE builder' = [builder EXCEPT ![b].pc = "refused"]
  <2> DEFINE r == [builder[b] EXCEPT !.pc = "refused"]
  <2>1. builder' = [builder EXCEPT ![b] = r]
    BY <1>1 DEF NamesInv, NamesTyped
  <2>2. r = [pc |-> "refused", names |-> builder[b].names, desired |-> builder[b].desired,
             staged |-> builder[b].staged, behind |-> builder[b].behind]
    BY <1>0, BuildFields
  <2> HIDE DEF r
  <2>3. IsBuild(r) /\ r.pc = "refused"
    BY <1>0, <2>2 DEF IsBuild, IsRecord
  <2>4. builder'[b] = r
    BY <2>1 DEF NamesInv, NamesTyped
  <2>5. Informed(b)'
    BY <2>3, <2>4 DEF Informed
  <2> QED BY <1>0, <2>1, <2>3, <2>5, BuilderStep
<1>2. CASE builder' = [builder EXCEPT ![b].pc = "load", ![b].desired = N!Combined(builder[b].names)]
  <2> DEFINE names == builder[b].names
             desired == N!Combined(names)
             r == [builder[b] EXCEPT !.pc = "load", !.desired = desired]
             projected == IF composition = None THEN {} ELSE {p \in N!Observed : N!IsPinned(p)}
             named == IF names = None THEN {} ELSE DOMAIN names
  <2>1. desired = [p \in projected \cup named |-> IF p \in projected THEN N!Want(N!Pin(p), TRUE) ELSE N!Want(names[p], FALSE)]
    BY DEF N!Combined
  <2>2. /\ projected \subseteq Prints /\ (\A p \in projected : N!Pin(p) \in Labels)
        /\ named \subseteq Prints /\ (\A p \in named : names # None /\ p \in DOMAIN names /\ names[p] \in Labels)
    BY <1>0, PinIsPart DEF NamesInv, IsBuild, IsNames, N!Observed
  <2> HIDE DEF projected, named
  <2>3. IsDesired(desired)
    <3>1. \A n \in Labels, v \in BOOLEAN : N!Want(n, v) \in Desires
      BY DEF N!Want, Desires
    <3>2. \A p \in projected \cup named :
            (IF p \in projected THEN N!Want(N!Pin(p), TRUE) ELSE N!Want(names[p], FALSE)) \in Desires
      BY <2>2, <3>1
    <3> HIDE DEF desired
    <3> QED BY <2>1, <2>2, <3>2 DEF IsDesired
  <2>4. \A p \in DOMAIN desired : ~ desired[p].pinned =>
           names # None /\ p \in DOMAIN names /\ desired[p].label = names[p]
    <3>1. ASSUME NEW p \in DOMAIN desired, p \in projected PROVE desired[p].pinned
      BY <2>1, <3>1 DEF N!Want
    <3>2. ASSUME NEW p \in DOMAIN desired, p \notin projected PROVE p \in named /\ desired[p].label = names[p]
      BY <2>1, <3>2 DEF N!Want
    <3> HIDE DEF desired
    <3> QED BY <2>2, <3>1, <3>2
  <2> HIDE DEF desired
  <2>5. builder' = [builder EXCEPT ![b] = r]
    BY <1>2 DEF NamesInv, NamesTyped, desired
  <2>6. r = [pc |-> "load", names |-> names, desired |-> desired,
             staged |-> builder[b].staged, behind |-> builder[b].behind]
    BY <1>0, BuildFields
  <2> HIDE DEF r
  <2>7. IsBuild(r) /\ r.pc = "load" /\ r.names = names /\ r.desired = desired /\ r.behind = builder[b].behind
    BY <1>0, <2>3, <2>6 DEF IsBuild, IsRecord
  <2>8. builder'[b] = r
    BY <2>5 DEF NamesInv, NamesTyped
  <2>9. ~ builder[b].behind /\ names # None => \A p \in DOMAIN names : N!Of(N!Entries, p) = {}
    BY <1>0 DEF NamesInv, Informed
  <2>10. Informed(b)'
    BY <1>0, <2>4, <2>7, <2>8, <2>9 DEF Informed, N!Entries
  <2> QED BY <1>0, <2>5, <2>7, <2>10, BuilderStep
<1> QED BY <1>1, <1>2 DEF N!Project

LEMMA LoadStep == ASSUME NamesInv, NEW b \in Builders, N!Load(b) PROVE NamesInv'
<1>0. /\ UNCHANGED <<components, pins>> /\ builder[b].pc = "load" /\ IsBuild(builder[b])
      /\ IsRecord(builder[b])
  BY DEF N!Load, NamesInv, NamesTyped, IsBuild
<1>1. PICK saved : saved = N!Bound(N!Entries, builder[b].desired)
  OBVIOUS
<1>2. IsCatalog(saved)
  BY <1>0, <1>1, EntriesType, BoundDoes DEF NamesInv, IsBuild
<1> DEFINE r == [builder[b] EXCEPT !.pc = "save", !.staged = saved]
<1>3. builder' = [builder EXCEPT ![b] = r]
  BY <1>1 DEF N!Load, NamesInv, NamesTyped
<1>4. r = [pc |-> "save", names |-> builder[b].names, desired |-> builder[b].desired,
           staged |-> saved, behind |-> builder[b].behind]
  BY <1>0, BuildStaged
<1> HIDE DEF r
<1>5. /\ IsBuild(r) /\ r.pc = "save" /\ r.names = builder[b].names /\ r.desired = builder[b].desired
      /\ r.staged = saved /\ r.behind = builder[b].behind
  BY <1>0, <1>2, <1>4 DEF IsBuild, IsRecord
<1>6. builder'[b] = r
  BY <1>3 DEF NamesInv, NamesTyped
<1>7. Informed(b) /\ N!Entries' = N!Entries
  BY <1>0 DEF NamesInv, N!Entries
<1>8. Informed(b)'
  <2>1. \A p \in DOMAIN r.desired : ~ r.desired[p].pinned =>
           r.names # None /\ p \in DOMAIN r.names /\ r.desired[p].label = r.names[p]
    BY <1>0, <1>5, <1>7 DEF Informed
  <2>2. ~ r.behind /\ r.names # None => \A p \in DOMAIN r.names : N!Of(N!Entries, p) = {}
    BY <1>0, <1>5, <1>7 DEF Informed
  <2> QED BY <1>1, <1>5, <1>6, <1>7, <2>1, <2>2 DEF Informed
<1> QED BY <1>0, <1>3, <1>5, <1>8, BuilderStep

-----------------------------------------------------------------------------
LEMMA SaveDoes ==
    ASSUME NamesInv, NEW b \in Builders, N!Save(b)
    PROVE  /\ builder[b].pc = "save" /\ builder'[b].pc = "saved" /\ IsBuild(builder'[b]) /\ pins' = pins
           /\ builder' = [c \in Builders |-> builder'[c]]
           /\ IsCatalog(builder[b].staged)
           /\ components' = IF DOMAIN builder[b].staged = {} THEN components ELSE builder[b].staged
           /\ \A c \in Builders \ {b} :
                /\ builder'[c] = builder[c] \/ builder'[c] = [builder[c] EXCEPT !.behind = TRUE]
                /\ \/ components' = components
                   \/ builder[c].pc \in {"named", "load", "save"} => builder'[c] = [builder[c] EXCEPT !.behind = TRUE]
<1> DEFINE done == [builder EXCEPT ![b].pc = "saved"]
           r == [builder[b] EXCEPT !.pc = "saved"]
<1>1. /\ builder[b].pc = "save" /\ pins' = pins /\ IsBuild(builder[b]) /\ IsRecord(builder[b])
      /\ IsCatalog(builder[b].staged)
      /\ components' = IF DOMAIN builder[b].staged = {} THEN components ELSE builder[b].staged
      /\ builder' = IF components' = components THEN done ELSE N!Behind(done, b)
      /\ builder = [c \in Builders |-> builder[c]]
  BY DEF N!Save, NamesInv, NamesTyped, IsBuild
<1>2. r = [pc |-> "saved", names |-> builder[b].names, desired |-> builder[b].desired,
           staged |-> builder[b].staged, behind |-> builder[b].behind]
  BY <1>1, BuildFields
<1>3. done[b] = r /\ (\A c \in Builders \ {b} : done[c] = builder[c]) /\ done = [c \in Builders |-> done[c]]
  BY <1>1
<1> HIDE DEF r, done
<1>4. r.pc = "saved" /\ IsBuild(r)
  BY <1>1, <1>2 DEF IsBuild, IsRecord
<1>5. CASE components' = components
  <2>1. builder' = done
    BY <1>1, <1>5
  <2> QED BY <1>1, <1>3, <1>4, <1>5, <2>1
<1>6. CASE components' # components
  <2>1. builder' = N!Behind(done, b)
    BY <1>1, <1>6
  <2>2. builder' = [c \in Builders |-> builder'[c]]
    <3>1. N!Behind(done, b) = [c \in Builders |-> N!Behind(done, b)[c]]
      BY <1>3, BehindDoes
    <3> QED BY <2>1, <3>1, Zenon
  <2>6. builder'[b] = r
    <3>1. N!Behind(done, b)[b] = done[b]
      BY <1>3 DEF N!Behind
    <3> QED BY <1>3, <2>1, <3>1
  <2>3. \A c \in Builders \ {b} :
          /\ builder'[c] = builder[c] \/ builder'[c] = [builder[c] EXCEPT !.behind = TRUE]
          /\ builder[c].pc \in {"named", "load", "save"} => builder'[c] = [builder[c] EXCEPT !.behind = TRUE]
    BY <1>3, <2>1, BehindDoes
  <2> QED BY <1>1, <1>4, <2>2, <2>3, <2>6
<1> QED BY <1>5, <1>6

LEMMA SaveStep == ASSUME NamesInv, NEW b \in Builders, N!Save(b) PROVE NamesInv'
<1>1. \A c \in Builders \ {b} : Informed(c)' /\ IsBuild(builder'[c])
  BY SaveDoes, OthersInformed DEF NamesInv
<1>2. Informed(b)' /\ IsBuild(builder'[b])
  BY SaveDoes DEF Informed
<1>3. NamesTyped'
  BY <1>1, <1>2, SaveDoes DEF NamesInv, NamesTyped
<1> QED BY <1>1, <1>2, <1>3 DEF NamesInv

LEMMA CatalogIs ==
    ASSUME NEW dom \in SUBSET Slugs, NEW c \in [dom -> Entry], \A s \in dom : s[2] # 0 => c[s].print = s[2]
    PROVE  IsCatalog(c)
BY DEF IsCatalog

LEMMA CurateDoes ==
    ASSUME NamesInv, N!Curate
    PROVE  /\ IsCatalog(components') /\ pins' = pins /\ builder' = [c \in Builders |-> builder'[c]]
           /\ \A c \in Builders :
                /\ builder'[c] = builder[c] \/ builder'[c] = [builder[c] EXCEPT !.behind = TRUE]
                /\ builder[c].pc \in {"named", "load", "save"} => builder'[c] = [builder[c] EXCEPT !.behind = TRUE]
<1>1. IsCatalog(N!Entries)
  BY EntriesType DEF NamesInv
<1>2. PICK s \in DOMAIN N!Entries :
        \/ components' = [components EXCEPT ![s].status = "rejected"]
        \/ \E n \in Labels :
             components' = [r \in (DOMAIN N!Entries \ {s}) \cup {N!Bare(n)} |->
                                IF r = N!Bare(n) THEN N!Entries[s] ELSE N!Entries[r]]
  BY DEF N!Curate
<1>3. components = N!Entries
  <2>1. DOMAIN << >> = {}
    OBVIOUS
  <2> QED BY <1>2, <2>1 DEF N!Entries
<1>4. /\ N!Entries \in [DOMAIN N!Entries -> Entry] /\ DOMAIN N!Entries \subseteq Slugs
      /\ \A t \in DOMAIN N!Entries : t[2] # 0 => N!Entries[t].print = t[2]
  BY <1>1 DEF IsCatalog
<1>5. ASSUME components' = [components EXCEPT ![s].status = "rejected"] PROVE IsCatalog(components')
  <2> DEFINE e == [N!Entries[s] EXCEPT !.status = "rejected"]
  <2>1. components' = [N!Entries EXCEPT ![s] = e]
    BY <1>3, <1>5
  <2>2. N!Entries[s] \in Entry
    BY <1>4
  <2>3. e \in Entry /\ e.print = N!Entries[s].print
    BY <2>2 DEF Entry, Status
  <2> HIDE DEF e
  <2>4. /\ components' \in [DOMAIN N!Entries -> Entry] /\ DOMAIN components' = DOMAIN N!Entries
        /\ \A t \in DOMAIN N!Entries : components'[t].print = N!Entries[t].print
    BY <1>4, <2>1, <2>3
  <2>5. \A t \in DOMAIN N!Entries : t[2] # 0 => components'[t].print = t[2]
    BY <1>4, <2>4
  <2> QED BY <1>4, <2>4, <2>5, CatalogIs
<1>6. ASSUME \E n \in Labels :
             components' = [r \in (DOMAIN N!Entries \ {s}) \cup {N!Bare(n)} |->
                                IF r = N!Bare(n) THEN N!Entries[s] ELSE N!Entries[r]]
      PROVE  IsCatalog(components')
  <2>1. PICK n \in Labels :
             components' = [r \in (DOMAIN N!Entries \ {s}) \cup {N!Bare(n)} |->
                                IF r = N!Bare(n) THEN N!Entries[s] ELSE N!Entries[r]]
    BY <1>6
  <2> DEFINE dom == (DOMAIN N!Entries \ {s}) \cup {N!Bare(n)}
  <2>2. N!Bare(n) \in Slugs /\ N!Bare(n)[2] = 0
    BY SlugType DEF N!Bare
  <2>3. dom \subseteq Slugs /\ \A r \in dom : r = N!Bare(n) \/ r \in DOMAIN N!Entries
    BY <1>4, <2>2
  <2>4. components' = [r \in dom |-> IF r = N!Bare(n) THEN N!Entries[s] ELSE N!Entries[r]]
    BY <2>1
  <2> HIDE DEF dom
  <2>5. components' \in [dom -> Entry] /\ DOMAIN components' = dom
    BY <1>4, <2>3, <2>4
  <2>6. \A r \in dom : r[2] # 0 => components'[r].print = r[2]
    BY <1>4, <2>2, <2>3, <2>4
  <2> QED BY <2>3, <2>5, <2>6, CatalogIs
<1>7. builder' = N!Behind(builder, None) /\ builder = [c \in Builders |-> builder[c]] /\ pins' = pins
  BY DEF N!Curate, NamesInv, NamesTyped
<1>8. builder' = [c \in Builders |-> builder'[c]]
  BY <1>7, BehindDoes
<1>9. \A c \in Builders : c # None
  BY ComponentCatalogAssumption
<1>10. \A c \in Builders :
         /\ builder'[c] = builder[c] \/ builder'[c] = [builder[c] EXCEPT !.behind = TRUE]
         /\ builder[c].pc \in {"named", "load", "save"} => builder'[c] = [builder[c] EXCEPT !.behind = TRUE]
  BY <1>7, <1>9, BehindDoes
<1> QED BY <1>2, <1>5, <1>6, <1>7, <1>8, <1>10

LEMMA NamesStep == ASSUME NamesInv, [N!Next]_(N!catalogVars) PROVE NamesInv'
<1>1. ASSUME UNCHANGED <<components, builder>>, pins' = None \/ DOMAIN pins' \subseteq Labels PROVE NamesInv'
  BY <1>1 DEF NamesInv, NamesTyped, Informed, N!Entries
<1>2. CASE UNCHANGED N!catalogVars
  BY <1>1, <1>2 DEF N!catalogVars, NamesInv, NamesTyped
<1>3. CASE N!Curate
  <2>1. \A c \in Builders : Informed(c)' /\ IsBuild(builder'[c])
    BY <1>3, CurateDoes, OthersInformed DEF NamesInv
  <2>2. NamesTyped'
    BY <1>3, <2>1, CurateDoes DEF NamesInv, NamesTyped
  <2> QED BY <2>1, <2>2 DEF NamesInv
<1>4. CASE N!WriteParts
  BY <1>1, <1>4, ComponentCatalogAssumption DEF N!WriteParts
<1>5. CASE N!Evolve
  BY <1>1, <1>5 DEF N!Evolve, NamesInv, NamesTyped
<1> QED BY <1>2, <1>3, <1>4, <1>5, ReportStep, ProjectStep, LoadStep, SaveStep DEF N!Next

LEMMA NamesInit == ASSUME N!Init PROVE NamesInv
<1>1. \A b \in Builders : builder[b] = N!Idle
  BY DEF N!Init
<1>2. N!Idle.pc = "idle" /\ IsBuild(N!Idle)
  BY DEF N!Idle, IsBuild, IsRecord
<1>3. components = None \/ IsCatalog(components)
  BY ComponentCatalogAssumption DEF N!Init, IsCatalog, Entry, Status, Slugs
<1>4. pins = None \/ DOMAIN pins \subseteq Labels
  BY ComponentCatalogAssumption DEF N!Init
<1>5. builder = [b \in Builders |-> builder[b]]
  BY DEF N!Init
<1> QED BY <1>1, <1>2, <1>3, <1>4, <1>5 DEF NamesInv, NamesTyped, Informed

-----------------------------------------------------------------------------
(***************************************************************************)
(* A bind that has missed nothing keeps the names.                         *)
(***************************************************************************)
LEMMA SaveKeepsNames ==
    ASSUME NamesInv, NEW b \in Builders, N!Save(b), ~ builder[b].behind
    PROVE  LET names == builder[b].names
               desired == builder[b].desired
               now == IF components' = None THEN << >> ELSE components'
           IN  /\ \A s \in DOMAIN N!Entries : s \in DOMAIN now /\ now[s] = N!Entries[s]
               /\ \A p \in Prints : (p \in DOMAIN desired => ~ desired[p].pinned) =>
                    /\ N!Of(N!Entries, p) # {} => N!Of(now, p) = N!Of(N!Entries, p)
                    /\ p \in DOMAIN desired /\ N!Bare(names[p]) \notin DOMAIN N!Entries =>
                          \E s \in N!Of(now, p) : s[1] = names[p] /\ s = N!Index(now, p)
<1> DEFINE names == builder[b].names
           desired == builder[b].desired
           staged == builder[b].staged
           now == IF components' = None THEN << >> ELSE components'
<1>1. /\ IsCatalog(N!Entries) /\ IsDesired(desired) /\ IsCatalog(staged) /\ staged = N!Bound(N!Entries, desired)
      /\ components' = IF DOMAIN staged = {} THEN components ELSE staged
      /\ \A p \in DOMAIN desired : ~ desired[p].pinned =>
              N!Of(N!Entries, p) = {} /\ desired[p].label = names[p]
  <2>1. NamesTyped /\ IsBuild(builder[b]) /\ Informed(b) /\ builder[b].pc = "save"
    BY SaveDoes DEF NamesInv, NamesTyped
  <2>2. IsCatalog(N!Entries) /\ IsDesired(desired)
    BY <2>1, EntriesType DEF IsBuild
  <2>3. IsCatalog(staged) /\ components' = IF DOMAIN staged = {} THEN components ELSE staged
    BY SaveDoes
  <2>4. staged = N!Bound(N!Entries, desired)
    BY <2>1 DEF Informed
  <2>5. \A p \in DOMAIN desired : ~ desired[p].pinned => N!Of(N!Entries, p) = {} /\ desired[p].label = names[p]
    BY <2>1 DEF Informed
  <2> QED BY <2>2, <2>3, <2>4, <2>5
<1> HIDE DEF names, desired, staged
<1>2. /\ DOMAIN staged = DOMAIN N!Entries \cup {N!Resolved(desired, p) : p \in DOMAIN desired}
      /\ \A s \in DOMAIN N!Entries : staged[s] = N!Entries[s]
  BY <1>1, BoundDoes
<1>3. CASE DOMAIN staged = {}
  <2>1. now = N!Entries /\ DOMAIN N!Entries = {} /\ DOMAIN desired = {}
    BY <1>1, <1>2, <1>3 DEF N!Entries
  <2> QED BY <2>1 DEF N!Of, names, desired
<1>4. CASE DOMAIN staged # {}
  <2>1. staged # None
    BY <1>1, ComponentCatalogAssumption DEF IsCatalog, Slugs, Entry, Status
  <2>2. now = staged
    BY <1>1, <1>4, <2>1
  <2> HIDE DEF now
  <2>3. \A s \in DOMAIN N!Entries : s \in DOMAIN now /\ now[s] = N!Entries[s]
    BY <1>2, <2>2
  <2>4. ASSUME NEW p \in Prints, p \in DOMAIN desired => ~ desired[p].pinned
        PROVE  /\ N!Of(N!Entries, p) # {} => N!Of(now, p) = N!Of(N!Entries, p)
               /\ p \in DOMAIN desired /\ N!Bare(names[p]) \notin DOMAIN N!Entries =>
                          \E s \in N!Of(now, p) : s[1] = names[p] /\ s = N!Index(now, p)
    BY <1>1, <2>2, <2>4, BoundKeepsNames
  <2> QED BY <2>3, <2>4 DEF now, names, desired
<1> QED BY <1>3, <1>4

LEMMA NamesAreKept == ASSUME NamesInv, [N!Next]_(N!catalogVars) PROVE N!NamesKept
<1> SUFFICES ASSUME NEW b \in Builders, builder[b].pc = "save", builder'[b].pc = "saved", ~ builder[b].behind
             PROVE  N!Save(b)
  BY SaveKeepsNames DEF N!NamesKept
<1>1. ASSUME builder'[b] = builder[b] \/ builder'[b] = [builder[b] EXCEPT !.behind = TRUE] PROVE FALSE
  BY <1>1, BuildMarked DEF NamesInv, NamesTyped
<1>2. ASSUME NEW c \in Builders, c # b, NEW r, builder' = [builder EXCEPT ![c] = r] PROVE FALSE
  <2>1. builder'[b] = builder[b]
    BY <1>2 DEF NamesInv, NamesTyped
  <2> QED BY <1>1, <2>1
<1>3. ASSUME NEW c \in Builders, N!Report(c) \/ N!Project(c) \/ N!Load(c) PROVE FALSE
  <2>1. CASE c = b
    <3>1. builder[b].pc # "save"
      BY <1>3, <2>1 DEF N!Report, N!Project, N!Load, N!Idle
    <3> QED BY <3>1
  <2>2. CASE c # b
    <3>1. builder'[b] = builder[b]
      BY <1>3, <2>2 DEF N!Report, N!Project, N!Load, NamesInv, NamesTyped
    <3> QED BY <1>1, <3>1
  <2> QED BY <2>1, <2>2
<1>4. ASSUME NEW c \in Builders, c # b, N!Save(c) PROVE FALSE
  BY <1>1, <1>4, SaveDoes
<1>5. CASE N!Curate
  BY <1>1, <1>5, CurateDoes
<1>6. CASE N!WriteParts \/ N!Evolve \/ UNCHANGED N!catalogVars
  BY <1>1, <1>6 DEF N!WriteParts, N!Evolve, N!catalogVars
<1> QED BY <1>3, <1>4, <1>5, <1>6 DEF N!Next

(***************************************************************************)
(* A bind whose catalog nobody has changed since its report keeps every    *)
(* entry, gives no second one to a print that has one and is not a part's, *)
(* and records each name the skill has given, whatever the operator,       *)
(* merges and other builds do meanwhile to the parts, the baseline and the *)
(* candidates, and to the catalog of the builds that are marked for it.    *)
(***************************************************************************)
THEOREM BindsKeepTheNames ==
    PartsSpec => BindsKeepNames
<1> DEFINE Inv == part = "names" => NamesInv
<1>1. PartsInit => Inv
  BY PartInit, NamesInit
<1>2. Inv /\ [PartsNext]_allVars => Inv'
  BY PartStep, NamesStep
<1>3. Inv /\ [PartsNext]_allVars => (part = "names" => N!NamesKept)
  BY PartStep, NamesAreKept
<1> QED BY <1>1, <1>2, <1>3, PTL DEF PartsSpec, BindsKeepNames
-----------------------------------------------------------------------------
(***************************************************************************)
(* PlanStore: the theorems of PlanStore_proofs carry over.                 *)
(***************************************************************************)
PP == INSTANCE PlanStore_proofs WITH run <- command

\* PlanStore_proofs has definitions of PlanStore of its own; they say the same.
LEMMA StoreTests ==
    \A p : /\ P!Structural(p) = PP!Structural(p) /\ P!Replaceable(p) = PP!Replaceable(p)
           /\ P!Executing(p) = PP!Executing(p) /\ P!Drained(p) = PP!Drained(p)
           /\ P!Exists(p) = PP!Exists(p) /\ P!Entries(p) = PP!Entries(p)
<1>1. \A p : P!Entries(p) = PP!Entries(p) /\ P!Exists(p) = PP!Exists(p)
  BY DEF P!Entries, PP!Entries, P!Exists, PP!Exists
<1>2. \A p : P!Structural(p) = PP!Structural(p)
  BY DEF P!Structural, PP!Structural, P!Blocking, PP!Blocking, P!UnknownDependsOn, PP!UnknownDependsOn,
         P!MultipleInProgress, PP!MultipleInProgress, P!Cyclic, PP!Cyclic, P!Entries, PP!Entries
<1>3. \A p : P!Replaceable(p) = PP!Replaceable(p)
  BY DEF P!Replaceable, PP!Replaceable, P!Entries, PP!Entries
<1>4. \A p : P!Executing(p) = PP!Executing(p) /\ P!Drained(p) = PP!Drained(p)
  BY DEF P!Executing, PP!Executing, P!Drained, PP!Drained, P!Entries, PP!Entries
<1> QED BY <1>1, <1>2, <1>3, <1>4

LEMMA StoreVerbs ==
    ASSUME NEW p
    PROVE  /\ P!NextPlans(p) = PP!NextPlans(p) /\ P!ApprovePlans(p) = PP!ApprovePlans(p)
           /\ \A n : P!DonePlans(p, n) = PP!DonePlans(p, n) /\ P!UndoPlans(p, n) = PP!UndoPlans(p, n)
           /\ \A n, D : P!AddPlans(p, n, D) = PP!AddPlans(p, n, D) /\ P!AmendPlans(p, n, D) = PP!AmendPlans(p, n, D)
           /\ \A n : P!RemovePlans(p, n) = PP!RemovePlans(p, n)
           /\ \A r, boots : P!ProposePlans(p, r, boots) = PP!ProposePlans(p, r, boots)
           /\ \A force : P!ArchivePlans(p, force) = PP!ArchivePlans(p, force)
           /\ \A stamp : P!Init0(stamp) = PP!Init0(stamp)
<1>1. P!NextPlans(p) = PP!NextPlans(p)
  <2>1. \A n : P!Eligible(p, n) = PP!Eligible(p, n)
    BY DEF P!Eligible, PP!Eligible
  <2>2. P!NextEligible(p) = PP!NextEligible(p)
    BY <2>1, StoreTests DEF P!NextEligible, PP!NextEligible
  <2>3. \A n, s : P!Restatus(p, n, s) = PP!Restatus(p, n, s)
    BY DEF P!Restatus, PP!Restatus
  <2> QED BY <2>2, <2>3, StoreTests DEF P!NextPlans, PP!NextPlans
<1>2. P!ApprovePlans(p) = PP!ApprovePlans(p)
  BY DEF P!ApprovePlans, PP!ApprovePlans
<1>3. \A n : P!DonePlans(p, n) = PP!DonePlans(p, n) /\ P!UndoPlans(p, n) = PP!UndoPlans(p, n)
  BY DEF P!DonePlans, PP!DonePlans, P!UndoPlans, PP!UndoPlans, P!Restatus, PP!Restatus
<1>4. \A n, D : P!AddPlans(p, n, D) = PP!AddPlans(p, n, D)
  <2>1. \A picked : P!Cardinality(picked) = PP!Cardinality(picked)
    BY DEF P!Cardinality, PP!Cardinality
  <2> QED BY <2>1, StoreTests DEF P!AddPlans, PP!AddPlans
<1>5. \A n, D : P!AmendPlans(p, n, D) = PP!AmendPlans(p, n, D)
  BY StoreTests DEF P!AmendPlans, PP!AmendPlans
<1>6. \A n : P!RemovePlans(p, n) = PP!RemovePlans(p, n)
  BY StoreTests DEF P!RemovePlans, PP!RemovePlans
<1>7. \A r, boots : P!ProposePlans(p, r, boots) = PP!ProposePlans(p, r, boots)
  <2>1. \A r, boots : P!Proposed(p, r) = PP!Proposed(p, r)
    BY DEF P!Proposed, PP!Proposed
  <2>2. \A q, boots : P!Bootstrapped(q, boots) = PP!Bootstrapped(q, boots)
    BY DEF P!Bootstrapped, PP!Bootstrapped
  <2> QED BY <2>1, <2>2, StoreTests DEF P!ProposePlans, PP!ProposePlans
<1>8. \A force : P!ArchivePlans(p, force) = PP!ArchivePlans(p, force)
  BY StoreTests DEF P!ArchivePlans, PP!ArchivePlans, P!NoPlan, PP!NoPlan
<1>9. \A stamp : P!Init0(stamp) = PP!Init0(stamp)
  BY DEF P!Init0, PP!Init0, P!NoPlan, PP!NoPlan
<1> QED BY <1>1, <1>2, <1>3, <1>4, <1>5, <1>6, <1>7, <1>8, <1>9

LEMMA StoreWrites == \A c, p : P!Written(c, p) = PP!Written(c, p)
BY StoreVerbs, StoreTests DEF P!Written, PP!Written

LEMMA StoreEmits == \A c, p, q : P!Emitted(c, p, q) = PP!Emitted(c, p, q)
BY DEF P!Emitted, PP!Emitted

LEMMA StoreNext == [P!Next]_(P!vars) => [PP!Next]_(PP!vars)
<1>1. P!Command = PP!Command /\ P!Event = PP!Event /\ P!Gated = PP!Gated
  BY DEF P!Command, PP!Command, P!Event, PP!Event, P!Gated, PP!Gated
<1>2. P!Idle = PP!Idle /\ \A p : P!Exists(p) = PP!Exists(p)
  BY DEF P!Idle, PP!Idle, P!NoPlan, PP!NoPlan, P!NoCommand, PP!NoCommand, P!Exists, PP!Exists
<1>3. \A a : P!Acquire(a) = PP!Acquire(a) /\ P!Release(a) = PP!Release(a) /\ P!Orphan(a) = PP!Orphan(a)
  BY DEF P!Acquire, PP!Acquire, P!Release, PP!Release, P!Orphan, PP!Orphan
<1>4. \A a, c : P!Start(a, c) = PP!Start(a, c)
  BY <1>1, <1>2 DEF P!Start, PP!Start
<1>5. \A a : P!Probe(a) = PP!Probe(a)
  BY <1>2 DEF P!Probe, PP!Probe, P!Goto, PP!Goto, P!Finish, PP!Finish
<1>6. \A a : P!Load(a) = PP!Load(a)
  BY <1>1, <1>2 DEF P!Load, PP!Load
<1>7. \A a : P!Refuse(a) = PP!Refuse(a)
  BY <1>2, StoreWrites DEF P!Refuse, PP!Refuse, P!Finish, PP!Finish
<1>8. \A a : P!Save(a) = PP!Save(a)
  BY <1>2, StoreWrites, StoreEmits DEF P!Save, PP!Save, P!Finish, PP!Finish
<1>9. \A a : P!Emit(a) = PP!Emit(a) /\ P!Crash(a) = PP!Crash(a)
  BY <1>1, <1>2 DEF P!Emit, PP!Emit, P!Crash, PP!Crash, P!Finish, PP!Finish
<1>10. P!Next => PP!Next
  BY <1>1, <1>3, <1>4, <1>5, <1>6, <1>7, <1>8, <1>9 DEF P!Next, PP!Next
<1>11. UNCHANGED P!vars => UNCHANGED PP!vars
  BY DEF P!vars, PP!vars
<1> QED BY <1>10, <1>11

LEMMA StoreInit == P!Init => PP!Init
BY DEF P!Init, PP!Init, P!Idle, PP!Idle, P!NoPlan, PP!NoPlan, P!NoCommand, PP!NoCommand,
     P!Event, PP!Event, P!Status, PP!Status

\* What PlanStore assumes of its constants.
LEMMA StoreConstants ==
    /\ PP!IsFiniteSet(Names)
    /\ InitPlans \subseteq {p \in PP!PlanType : ~ PP!MultipleInProgress(p) /\ PP!StartedInOrder(p)}
BY PlanStoreAssumption
   DEF PP!IsFiniteSet, IsFiniteSet,
       P!PlanType, PP!PlanType, P!MultipleInProgress, PP!MultipleInProgress,
       P!StartedInOrder, PP!StartedInOrder, P!Lifecycle, PP!Lifecycle, P!Status,
       PP!Status

(***************************************************************************)
(* Without crashes and orphans and within lock sessions, the advances of   *)
(* an entry in the journal outnumber its walks back to pending by one iff  *)
(* plan.yaml has it in progress or done, but while a command has saved and *)
(* not yet emitted. An archive leaves the journal of its plan behind.      *)
(***************************************************************************)
THEOREM JournalFollowsStatus ==
    ASSUME Hazards = {}, "archive" \notin Verbs, \A p \in InitPlans : PP!NoneBegun(p)
    PROVE  PartsSpec => []JournalAgrees
<1> DEFINE Inv == part = "plan" => PP!LockInv /\ PP!JournalInv
<1>1. PartsInit => Inv
  <2> SUFFICES ASSUME PP!Init PROVE PP!LockInv /\ PP!JournalInv
    BY PartInit, StoreInit
  <2> QED BY PP!JournalInit, StoreConstants, PlanStoreAssumption
<1>2. Inv /\ [PartsNext]_allVars => Inv'
  <2> SUFFICES ASSUME Inv, [PartsNext]_allVars, part' = "plan" PROVE PP!LockInv' /\ PP!JournalInv'
    OBVIOUS
  <2>1. PP!LockInv /\ PP!JournalInv /\ [PP!Next]_(PP!vars)
    BY PartStep, StoreNext
  <2>2. PP!LockInv'
    BY <2>1, PP!LockedStep, StoreConstants, PlanStoreAssumption
  <2>3. PP!JournalInv'
    BY <2>1, PP!JournalStep, StoreConstants, PlanStoreAssumption
  <2> QED BY <2>2, <2>3
<1>3. Inv => JournalAgrees
  BY DEF JournalAgrees, P!JournalAgrees, PP!JournalInv, PP!Ledger, PP!Advance, PP!Retreat,
         PP!BegunOnce, PP!Begun
<1> QED BY <1>1, <1>2, <1>3, PTL DEF PartsSpec

=================================================================================
