------------------------------- MODULE ToolCache -------------------------------
(***************************************************************************)
(* One version directory of the tool cache, <scope>/<tool>/<version>/ with *)
(* its meta.yaml and module.wasm, and the directories next to it that a    *)
(* resolve stages, installs and backs up in. The cache belongs to the user *)
(* and no lock guards it: `tool run`, `tool fetch` and `tool gc` of any    *)
(* project with the scope's name work on it at the same time, may be       *)
(* killed between two steps, and may find the disk full.                   *)
(***************************************************************************)
EXTENDS Naturals, FiniteSets

CONSTANTS
    Runs, Gcs,      \* the commands, each given once
    Manifests,      \* what the commands' manifests may declare: a source and a digest or None
    Bytes,          \* the modules a source may serve
    MaxKilled,      \* bound
    None, Torn, Junk

VARIABLES
    decl,       \* the source and the pinned digest each command's manifest declares
    dirs,       \* the directories: the entry, and three of each run
    cmd,        \* the state of each command
    met         \* history: the other commands that were under way beside this one

cacheVars == <<decl, dirs, cmd, met>>

Commands == Runs \cup Gcs
Entry == <<"entry", None>>
Places == {Entry} \cup ({"staged", "install", "backup"} \X Runs)
Staged(p) == <<"staged", p>>
Install(p) == <<"install", p>>
Backup(p) == <<"backup", p>>

Files == {"meta", "module"}
\* A file is absent, cut off, or what the fetch of a run made of it.
EmptyDir == [f \in Files |-> None]
IsEmpty(d) == d = EmptyDir

File(p, bytes) == [by |-> p, source |-> decl[p].source, pin |-> decl[p].pin, bytes |-> bytes]

Ready == [pc |-> "ready", todo |-> {}, at |-> None, got |-> None]

Init ==
    /\ decl \in Manifests
    /\ dirs = [x \in Places |-> None]
    /\ cmd = [c \in Commands |-> Ready]
    /\ met = [c \in Commands |-> {}]

-----------------------------------------------------------------------------
Active(c) == cmd[c].pc \notin {"ready", "done", "refused", "full", "failed", "killed"}

\* A command meets those under way when it starts, and those that take a step later.
Meets(c) ==
    met' = [b \in Commands |->
        IF b = c /\ cmd[c].pc = "ready" THEN {a \in Commands : Active(a)}
        ELSE IF b # c /\ Active(b) THEN met[b] \cup {c} ELSE met[b]]

At(c, pc) == cmd[c].pc = pc /\ Meets(c) /\ decl' = decl
Goto(c, pc) == cmd' = [cmd EXCEPT ![c].pc = pc]

\* A rename takes along whoever has the directory open.
Moved(from, to) ==
    [c \in Commands |-> IF cmd[c].at = from THEN [cmd[c] EXCEPT !.at = to] ELSE cmd[c]]

\* Mutant of Hit: a directory of the version is a hit.
HitByVersion(p, e) == e # None /\ e.module # None

\* cache::status: the entry is a hit if its sidecar says what the manifest says.
Hit(p, e) ==
    /\ e # None /\ e.module # None /\ e.meta # None
    /\ e.meta.source = decl[p].source /\ e.meta.pin = decl[p].pin

Status(p) ==
    /\ At(p, "ready")
    /\ IF Hit(p, dirs[Entry]) THEN Goto(p, "digest") ELSE Goto(p, "stage")
    /\ UNCHANGED dirs

\* digest::cached_matches
Digest(p) ==
    /\ At(p, "digest")
    /\ LET e == dirs[Entry]
       IN  IF decl[p].pin = None THEN Goto(p, "resolved")
           ELSE IF e = None \/ e.module = None THEN Goto(p, "failed")
           ELSE IF e.module.bytes = decl[p].pin THEN Goto(p, "resolved")
           ELSE Goto(p, "stage")
    /\ UNCHANGED dirs

\* The staging directory, and the download into it. What fails the digest, or does not
\* come, fails the resolve; the parent of the download is made again if it is gone.
Fetch(p) ==
    /\ At(p, "stage")
    /\ \/ \E b \in Bytes :
            /\ decl[p].pin \in {None, b}
            /\ dirs' = [dirs EXCEPT ![Staged(p)] = [EmptyDir EXCEPT !.module = File(p, b)]]
            /\ Goto(p, "sidecar")
       \/ UNCHANGED dirs /\ Goto(p, "refused")

WriteSidecar(p) ==
    /\ At(p, "sidecar")
    /\ LET d == IF dirs[Staged(p)] = None THEN EmptyDir ELSE dirs[Staged(p)]
       IN  dirs' = [dirs EXCEPT ![Staged(p)] = [d EXCEPT !.meta = File(p, None)]]
    /\ Goto(p, "mkdir")

\* stage_and_install: a sibling directory, and the files that are in the staged one.
MakeInstall(p) ==
    /\ At(p, "mkdir")
    /\ IF dirs[Staged(p)] = None THEN Goto(p, "failed") /\ UNCHANGED dirs
       ELSE /\ dirs' = [dirs EXCEPT ![Install(p)] = EmptyDir]
            /\ cmd' = [cmd EXCEPT ![p].pc = "copy",
                                  ![p].todo = {f \in Files : dirs[Staged(p)][f] # None}]

\* The files in the order of their names. A failed copy removes the staged directory and
\* leaves the install directory with what is in it; a full disk cuts the file off.
Copy(p) ==
    /\ At(p, "copy") /\ cmd[p].todo # {}
    /\ LET f == IF "meta" \in cmd[p].todo THEN "meta" ELSE "module"
           from == dirs[Staged(p)]
           ok == from # None /\ dirs[Install(p)] # None /\ from[f] # None
       IN  \/ /\ ok
              /\ dirs' = [dirs EXCEPT ![Install(p)][f] = from[f]]
              /\ cmd' = [cmd EXCEPT ![p].todo = @ \ {f}]
           \/ /\ ok
              /\ dirs' = [dirs EXCEPT ![Install(p)][f] = Torn, ![Staged(p)] = None]
              /\ Goto(p, "full")
           \/ /\ ~ ok
              /\ dirs' = [dirs EXCEPT ![Staged(p)] = None]
              /\ Goto(p, "failed")

\* Is there an entry to be moved away?
Inspect(p) ==
    /\ At(p, "copy") /\ cmd[p].todo = {}
    /\ Goto(p, IF dirs[Entry] = None THEN "install" ELSE "backup")
    /\ UNCHANGED dirs

\* Mutant of MoveAway: one backup name for all.
MoveAwayShared(p) ==
    /\ At(p, "backup")
    /\ LET b == Backup(CHOOSE q \in Runs : TRUE)
       IN  IF dirs[Entry] = None \/ (dirs[b] # None /\ ~ IsEmpty(dirs[b]))
           THEN dirs' = [dirs EXCEPT ![Staged(p)] = None] /\ Goto(p, "failed")
           ELSE /\ dirs' = [dirs EXCEPT ![b] = dirs[Entry], ![Entry] = None]
                /\ cmd' = [Moved(Entry, b) EXCEPT ![p].pc = "install", ![p].got = b]

MoveAway(p) ==
    /\ At(p, "backup")
    /\ IF dirs[Entry] = None
       THEN dirs' = [dirs EXCEPT ![Staged(p)] = None] /\ Goto(p, "failed")
       ELSE /\ dirs' = [dirs EXCEPT ![Backup(p)] = dirs[Entry], ![Entry] = None]
            /\ cmd' = [Moved(Entry, Backup(p)) EXCEPT ![p].pc = "install", ![p].got = Backup(p)]

\* rename refuses a directory that is not empty; then the backup is put back, if that
\* works, and the rest removed.
MoveIn(p) ==
    /\ At(p, "install")
    /\ LET new == dirs[Install(p)]
           old == dirs[Backup(p)]
           free == dirs[Entry] = None \/ IsEmpty(dirs[Entry])
           restored == old # None /\ free
       IN  IF new # None /\ free
           THEN /\ dirs' = [dirs EXCEPT ![Entry] = new, ![Install(p)] = None]
                /\ cmd' = [Moved(Install(p), Entry) EXCEPT ![p].pc = "drop"]
           ELSE /\ dirs' = [dirs EXCEPT ![Install(p)] = None, ![Staged(p)] = None,
                                        ![Entry] = IF restored THEN old ELSE @,
                                        ![Backup(p)] = IF restored THEN None ELSE @]
                /\ cmd' = [(IF restored THEN Moved(Backup(p), Entry) ELSE cmd)
                                EXCEPT ![p].pc = "failed"]

\* The backup is removed, which fails if it is gone or going; the staged directory is
\* removed in any case.
Drop(p) ==
    /\ At(p, "drop")
    /\ dirs' = [dirs EXCEPT ![Backup(p)] = None, ![Staged(p)] = None]
    /\ \/ /\ cmd[p].got # None => dirs[Backup(p)] # None
          /\ Goto(p, "resolved")
       \/ /\ cmd[p].got # None
          /\ dirs[Backup(p)] = None \/ \E g \in Gcs : cmd[g].at = Backup(p)
          /\ Goto(p, "failed")

\* The host loads the module by its path.
Load(p) ==
    /\ At(p, "resolved")
    /\ LET e == dirs[Entry]
       IN  IF e = None \/ e.module = None THEN Goto(p, "failed")
           ELSE cmd' = [cmd EXCEPT ![p].pc = "done", ![p].got = e.module]
    /\ UNCHANGED dirs

-----------------------------------------------------------------------------
\* scan: the entry if its sidecar is missing or not of the manifest, and every other
\* directory, as none has the name of a version. A sidecar that does not parse ends it.
Unreferenced(g) ==
    {x \in Places :
        /\ dirs[x] # None
        /\ x = Entry => dirs[x].meta = None \/ dirs[x].meta.source # decl[g].source}

Scan(g) ==
    /\ At(g, "ready")
    /\ IF \E x \in Places : dirs[x] # None /\ dirs[x].meta = Torn
       THEN Goto(g, "refused")
       ELSE cmd' = [cmd EXCEPT ![g].pc = "remove", ![g].todo = Unreferenced(g)]
    /\ UNCHANGED dirs

\* remove_dir_all of one directory after the other: opened, emptied, removed by its path.
Open(g) ==
    /\ At(g, "remove")
    /\ IF cmd[g].todo = {} THEN Goto(g, "done")
       ELSE \E x \in cmd[g].todo :
                IF dirs[x] = None THEN Goto(g, "failed")
                ELSE cmd' = [cmd EXCEPT ![g].pc = "empty", ![g].at = x, ![g].got = x]
    /\ UNCHANGED dirs

Unlink(g) ==
    /\ At(g, "empty")
    /\ LET x == cmd[g].at
       IN  IF dirs[x] = None \/ IsEmpty(dirs[x]) THEN Goto(g, "rmdir") /\ UNCHANGED dirs
           ELSE \E f \in Files :
                   /\ dirs[x][f] # None
                   /\ dirs' = [dirs EXCEPT ![x][f] = None]
                   /\ UNCHANGED cmd

Rmdir(g) ==
    /\ At(g, "rmdir")
    /\ LET x == cmd[g].got
       IN  IF dirs[x] # None /\ IsEmpty(dirs[x])
           THEN /\ dirs' = [dirs EXCEPT ![x] = None]
                /\ cmd' = [cmd EXCEPT ![g].pc = "remove", ![g].todo = @ \ {x},
                                      ![g].at = None]
           ELSE cmd' = [cmd EXCEPT ![g].pc = "failed", ![g].at = None] /\ UNCHANGED dirs

\* A file that was being copied is cut off.
Killed(c) ==
    /\ Active(c) /\ Meets(c)
    /\ Cardinality({b \in Commands : cmd[b].pc = "killed"}) < MaxKilled
    /\ cmd' = [cmd EXCEPT ![c].pc = "killed", ![c].at = None]
    /\ \/ UNCHANGED dirs
       \/ cmd[c].pc = "stage" /\ dirs' = [dirs EXCEPT ![Staged(c)] = EmptyDir]
       \/ /\ cmd[c].pc = "copy" /\ cmd[c].todo # {} /\ dirs[Install(c)] # None
          /\ dirs' = [dirs EXCEPT ![Install(c)] =
                [f \in Files |-> IF f \in cmd[c].todo /\ (f = "meta" \/ "meta" \notin cmd[c].todo)
                                 THEN Torn ELSE @[f]]]
    /\ UNCHANGED decl

\* Someone writes over the module.
Corrupt ==
    /\ \A c \in Commands : ~ Active(c)
    /\ dirs[Entry] # None /\ dirs[Entry].module # None
    /\ dirs' = [dirs EXCEPT ![Entry].module.bytes = Junk]
    /\ UNCHANGED <<decl, cmd, met>>

Next ==
    \/ \E p \in Runs :
        \/ Status(p) \/ Digest(p) \/ Fetch(p) \/ WriteSidecar(p) \/ MakeInstall(p)
        \/ Copy(p) \/ Inspect(p) \/ MoveAway(p) \/ MoveIn(p) \/ Drop(p) \/ Load(p)
    \/ \E g \in Gcs : Scan(g) \/ Open(g) \/ Unlink(g) \/ Rmdir(g)
    \/ \E c \in Commands : Killed(c)
    \/ Corrupt

CacheSpec == Init /\ [][Next]_cacheVars

-----------------------------------------------------------------------------
(***************************************************************************)
(* The sidecar and the module of an entry come from one fetch, and neither *)
(* is cut off, however resolves, collections and kills interleave: an      *)
(* entry is there as a whole, or lacks what gc has removed.                *)
(***************************************************************************)
NeverMixed ==
    LET e == dirs[Entry]
    IN  e # None => /\ Torn \notin {e.meta, e.module}
                    /\ e.meta # None /\ e.module # None => e.meta.by = e.module.by

\* The runs beside p declare the same, and no collection was beside those: a collection
\* takes their install directories away, and what they then put back is an old entry.
Undisturbed(p) == \A c \in met[p] \cap Runs : decl[c] = decl[p] /\ met[c] \cap Gcs = {}

(***************************************************************************)
(* What a run loads is of the source its manifest declares, and has the    *)
(* digest it pins, if the runs at work beside it declare the same and none *)
(* of them had its install directory collected.                            *)
(***************************************************************************)
RunsDeclared ==
    \A p \in Runs :
        cmd[p].pc = "done" /\ Undisturbed(p) =>
            /\ cmd[p].got.source = decl[p].source
            /\ decl[p].pin \in {None, cmd[p].got.bytes}

(***************************************************************************)
(* A command with no other beside it fails only for want of the module or  *)
(* of space, whatever killed commands have left; gc also when it meets a   *)
(* sidecar that was cut off, and no other way.                             *)
(***************************************************************************)
AloneSucceeds ==
    \A c \in Commands : met[c] = {} =>
        /\ cmd[c].pc # "failed"
        /\ c \in Gcs /\ cmd[c].pc = "refused" =>
              \E x \in Places \ {Entry} : dirs[x] # None

=============================================================================
