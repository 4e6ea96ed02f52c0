------------------------------- MODULE ProjectInit -------------------------------
(***************************************************************************)
(* `specify init`, `init --workspace`, `init --upgrade` and `rules sync`   *)
(* on one project, step by step: directories are replaced file by file,    *)
(* files are written in place or by a rename, checks and the writes they   *)
(* allow are apart. Runs may be side by side and may be killed, the        *)
(* operator edits what is theirs, and the cache outside the tree may be    *)
(* deleted at any time.                                                    *)
(***************************************************************************)
EXTENDS Naturals, Sequences, FiniteSets, SequencesExt, Filters

CONSTANTS
    Processes,
    Offers,         \* what is found at each address of an adapter
    Taken,          \* names that source adapters declare
    Local,          \* in-repo target adapters: the address of their twin, by name
    Asks,           \* the command lines
    Documents,      \* forms the operator gives AGENTS.md
    Projects,       \* projects to start with
    Current,        \* the version of the binary
    MaxKills, MaxTouches,   \* bounds
    None, Torn, Malformed, Codex

VARIABLES
    project,        \* the files of the project and of its cache
    inits,          \* the state of each run
    spent           \* kills and touches so far

initVars == <<project, inits, spent>>

\* was: what a run found that nothing has come between since, else None.
Idle == [at |-> "idle", ask |-> None, was |-> None, origin |-> None, into |-> None,
         left |-> {}, mem |-> None]

Init ==
    /\ project \in Projects
    /\ inits = [p \in Processes |-> Idle]
    /\ spent = [kills |-> 0, touches |-> 0]

Over == {"idle", "ok", "refused", "killed"}
Running(p) == inits[p].at \notin Over

-----------------------------------------------------------------------------
(***************************************************************************)
(* AGENTS.md is a sequence of lines; the block between the fences is ours. *)
(***************************************************************************)
Line(kind, value) == [kind |-> kind, value |-> value]

\* The lines of doc from i on, up to j.
At(doc, kinds) == {i \in DOMAIN doc : doc[i].kind \in kinds}

\* parse_document. A closing fence counts only on a line of its own; the opening one is
\* found anywhere ("mention" is a line that merely contains it).
Parsed(doc) ==
    LET opens == At(doc, {"open", "mention"})
        open == CHOOSE i \in opens : TRUE
        ends == {i \in At(doc, {"-->"}) : i > open}
        end == CHOOSE i \in ends : \A j \in ends : i <= j
        keys == {<<i, doc[i].value>> : i \in open + 1 .. end - 1}
        closes == {i \in At(doc, {"close"}) : i > end}
    IN  IF opens = {} THEN IF At(doc, {"close"}) = {} THEN None ELSE Malformed
        ELSE IF \/ Cardinality(opens) > 1
                \/ doc[open].kind = "mention" \/ ends = {}
                \/ keys = {} \/ Cardinality({k[2] : k \in keys}) < Cardinality(keys)
                \/ \E i \in open + 1 .. end - 1 : doc[i].kind # "meta"
                \/ Cardinality(closes) # 1
             THEN Malformed
             ELSE [open |-> open, end |-> end, close |-> CHOOSE i \in closes : TRUE]

Body(doc, f) == SubSeq(doc, f.end + 1, f.close - 1)

\* render_document_with_fingerprint, as far as it tells configurations apart.
Generated(config) ==
    <<Line("title", None), Line("open", None), Line("meta", "fingerprint"),
      Line("meta", "generated-by"), Line("-->", None), Line("body", config.adapter),
      Line("close", None)>>

\* Mutant of Planned: as with --force.
PlannedForced(doc, generated) == generated

\* plan_agents_write, without force; Malformed stands for its errors.
Planned(doc, generated) ==
    IF doc = None THEN generated
    ELSE LET old == Parsed(doc)
             new == Parsed(generated)
         IN  IF old \in {None, Malformed} THEN Malformed
             ELSE SubSeq(doc, 1, old.open - 1) \o SubSeq(generated, new.open, new.close)
                    \o SubSeq(doc, old.close + 1, Len(doc))

\* refuse_modified_fenced_body
Modified(doc, lock) ==
    /\ doc # None /\ lock # None /\ Parsed(doc) # None
    /\ Parsed(doc) = Malformed \/ Body(doc, Parsed(doc)) # lock

-----------------------------------------------------------------------------
\* locate_axis, load_validated: the cache wins over the tree, whatever is in it.
Manifest(name) ==
    LET cached == project.dirs[name]
    IN  IF cached = None THEN Local[name]
        ELSE IF "manifest" \in DOMAIN cached THEN cached["manifest"] ELSE None

\* TargetAdapter::resolve: shape, axis and name (sound), the pin, the floor.
Resolves(adapter) ==
    LET name == Offers[adapter.origin].name
        found == Manifest(name)
    IN  /\ name \notin Taken
        /\ found \notin {None, Torn}
        /\ Offers[found].sound
        /\ adapter.pin \in {None, Offers[found].version}
        /\ Offers[found].floor <= Current

\* PlatformsCapability::check; a set that is not asked for is empty.
Fits(asked, capability) ==
    LET set == IF asked = None THEN {} ELSE asked
    IN  \/ capability = None
        \/ set = {} /\ ~ capability.required
        \/ "core" \in set /\ set \subseteq capability.allowed

\* ProjectConfig::load
Loads(config) == config \notin {None, Torn} /\ config.version <= Current

Adapter(ask) == [origin |-> ask.origin, pin |-> ask.pin]
Minted(ask) ==
    [adapter |-> IF ask.verb = "workspace" THEN None ELSE Adapter(ask), version |-> Current,
     platforms |-> IF ask.platforms = None THEN {} ELSE ask.platforms, tools |-> 0]

-----------------------------------------------------------------------------
Become(p, r) == inits' = [inits EXCEPT ![p] = r] /\ UNCHANGED spent
Step(p, at) == Become(p, [inits[p] EXCEPT !.at = at])
Keep(p, at, mem) == Become(p, [inits[p] EXCEPT !.at = at, !.mem = mem])
Refuse(p) == Step(p, "refused") /\ UNCHANGED project

\* Whatever else happens comes between the runs there are.
Alone(p, r) ==
    [q \in Processes |-> IF q = p THEN r ELSE [inits[q] EXCEPT !.was = None]]

Begin(p) ==
    /\ inits[p].at = "idle"
    /\ \E ask \in Asks :
        inits' = Alone(p, [Idle EXCEPT
            !.at = IF ask.verb \in {"regular", "workspace"} THEN "dirs" ELSE "load",
            !.ask = ask, !.origin = ask.origin,
            !.was = IF \E q \in Processes : Running(q) THEN None ELSE project])
    /\ UNCHANGED <<project, spent>>

\* regular::run makes the directories there are not; workspace::run refuses if there are.
Dirs(p) ==
    /\ inits[p].at = "dirs"
    /\ \/ /\ inits[p].ask.verb = "regular" /\ Step(p, "fetch")
          /\ project' = [project EXCEPT !.dir = TRUE]
       \/ /\ inits[p].ask.verb = "workspace" /\ ~ project.dir
          /\ Keep(p, "truncate", Minted(inits[p].ask))
          /\ project' = [project EXCEPT !.dir = TRUE]
       \/ inits[p].ask.verb = "workspace" /\ project.dir /\ Refuse(p)

\* AdapterUri::parse, check_axis_unique_for_name, and the search for the rules pack. A
\* source without one leaves the codex as it is.
Fetch(p) ==
    /\ inits[p].at = "fetch" /\ UNCHANGED project
    /\ LET offer == Offers[inits[p].origin]
           sync == inits[p].ask.verb = "sync"
       IN  IF "manifest" \notin offer.files \/ (~ sync /\ offer.name \in Taken) THEN Step(p, "refused")
           ELSE IF sync /\ offer.packs = {} THEN Step(p, "ok")
           ELSE Become(p, [inits[p] EXCEPT !.at = "clear",
                                           !.into = IF sync THEN Codex ELSE offer.name])

\* What of the source goes into the directory.
Wanted(p) ==
    LET offer == Offers[inits[p].origin]
    IN  IF inits[p].into = Codex
        THEN offer.packs \cap (IF inits[p].ask.core THEN {"universal", "core"} ELSE {"universal"})
        ELSE offer.files

Put(dir, contents) == [project EXCEPT !.dirs[dir] = contents]
Without(files, f) == [g \in DOMAIN files \ {f} |-> files[g]]
With(files, f, content) == [g \in DOMAIN files \cup {f} |-> IF g = f THEN content ELSE files[g]]

\* Mutant of Clear: copy over what is there.
ClearSkipped(p) ==
    /\ inits[p].at = "clear"
    /\ Become(p, [inits[p] EXCEPT !.at = "make", !.left = Wanted(p)]) /\ UNCHANGED project

\* remove_dir_all: file by file, the directory last.
Clear(p) ==
    /\ inits[p].at = "clear"
    /\ LET dir == inits[p].into
           files == project.dirs[dir]
       IN  \/ /\ files = None /\ UNCHANGED project
              /\ Become(p, [inits[p] EXCEPT !.at = "make", !.left = Wanted(p)])
           \/ /\ files # None /\ DOMAIN files = {}
              /\ project' = Put(dir, None) /\ UNCHANGED <<inits, spent>>
           \/ /\ files # None /\ UNCHANGED <<inits, spent>>
              /\ \E f \in DOMAIN files : project' = Put(dir, Without(files, f))

Make(p) ==
    /\ inits[p].at = "make"
    /\ project' = IF project.dirs[inits[p].into] = None THEN Put(inits[p].into, << >>) ELSE project
    /\ Step(p, "copy")

\* fs::copy empties a file before it fills it.
Open(p) ==
    /\ inits[p].at = "copy" /\ project.dirs[inits[p].into] # None
    /\ \E f \in inits[p].left :
        /\ project' = Put(inits[p].into, With(project.dirs[inits[p].into], f, Torn))
        /\ Keep(p, "fill", f)

\* A file that another run removed meanwhile is filled where nobody sees it.
Fill(p) ==
    /\ inits[p].at = "fill"
    /\ LET r == inits[p]
           files == project.dirs[r.into]
       IN  /\ \/ /\ files # None /\ r.mem \in DOMAIN files
                 /\ project' = Put(r.into, [files EXCEPT ![r.mem] = r.origin])
              \/ r.was = None /\ UNCHANGED project
           /\ Become(p, [r EXCEPT !.left = @ \ {r.mem}, !.mem = None,
                                  !.at = IF r.left = {r.mem} THEN "stamp" ELSE "copy"])

\* Runs that replace one directory at once may fail each other's calls.
Stumble(p) ==
    /\ inits[p].at \in {"clear", "make", "copy", "stamp"} /\ inits[p].was = None
    /\ Refuse(p)

\* write_manifest_meta beside the tree, or write_codex_meta inside it.
Stamp(p) ==
    /\ inits[p].at = "stamp"
    /\ LET r == inits[p]
       IN  IF r.into = Codex
           THEN /\ project.dirs[Codex] # None
                /\ project' = Put(Codex, With(project.dirs[Codex], "meta", r.origin))
                /\ Step(p, IF r.ask.verb = "sync" THEN "ok" ELSE "resolve")
           ELSE /\ project' = [project EXCEPT !.stamp = r.origin]
                /\ IF Offers[r.origin].packs = {} THEN Step(p, "resolve")
                   ELSE Become(p, [r EXCEPT !.at = "clear", !.into = Codex])

-----------------------------------------------------------------------------
\* The configuration an upgrade leaves: nothing else of it changes.
Bumped(config, ask) ==
    [config EXCEPT !.version = Current,
                   !.platforms = IF ask.platforms = None THEN @ ELSE ask.platforms]

Bump(p, config) ==
    LET next == Bumped(config, inits[p].ask)
    IN  Keep(p, IF next = config THEN "context" ELSE "truncate", next)

\* The configuration is read first, by upgrade::run and by every verb that has a context.
Load(p) ==
    /\ inits[p].at = "load" /\ UNCHANGED project
    /\ LET config == project.config
           ask == inits[p].ask
       IN  IF ~ Loads(config) THEN Step(p, "refused")
           ELSE IF ask.verb = "upgrade" /\ ask.platforms = None THEN Bump(p, config)
           ELSE IF config.adapter = None THEN Step(p, "refused")
           ELSE Become(p, [inits[p] EXCEPT
                    !.at = IF ask.verb = "sync" THEN "fetch" ELSE "resolve",
                    !.origin = config.adapter.origin,
                    !.mem = IF ask.verb = "sync" THEN None ELSE config])

\* A refusal here comes after the cache was replaced.
Resolve(p) ==
    /\ inits[p].at = "resolve" /\ UNCHANGED project
    /\ LET ask == inits[p].ask
           adapter == IF ask.verb = "regular" THEN Adapter(ask) ELSE inits[p].mem.adapter
           capability == Offers[Manifest(Offers[adapter.origin].name)].platforms
       IN  IF ~ (Resolves(adapter) /\ Fits(ask.platforms, capability)) THEN Step(p, "refused")
           ELSE IF ask.verb = "regular" THEN Keep(p, "truncate", Minted(ask))
           ELSE Bump(p, inits[p].mem)

\* project.yaml is written in place.
Truncate(p) ==
    /\ inits[p].at = "truncate" /\ project' = [project EXCEPT !.config = Torn]
    /\ Step(p, "save")

Save(p) ==
    /\ inits[p].at = "save" /\ project' = [project EXCEPT !.config = inits[p].mem]
    /\ Keep(p, IF inits[p].ask.verb = "upgrade" THEN "context" ELSE "wasm", None)

AfterWasm(p) == IF inits[p].ask.verb = "workspace" THEN "registry" ELSE "ignore"

\* scaffold_wasm_pkg_config
Wasm(p) ==
    /\ inits[p].at = "wasm" /\ UNCHANGED project
    /\ Step(p, IF project.wasm = None THEN "wasm-write" ELSE AfterWasm(p))

WasmWrite(p) ==
    /\ inits[p].at = "wasm-write" /\ project' = [project EXCEPT !.wasm = 0]
    /\ Step(p, AfterWasm(p))

\* workspace::run writes an empty registry, whatever was there.
EmptyRegistry(p) ==
    /\ inits[p].at \in {"registry", "registry-write"}
    /\ IF inits[p].at = "registry"
       THEN project' = [project EXCEPT !.registry = Torn] /\ Step(p, "registry-write")
       ELSE project' = [project EXCEPT !.registry = "empty"] /\ Step(p, "ignore")

\* ensure_gitignore_entries: read, and, if a line is missing, empty and write. A missing
\* file is an empty one.
Ignore(p) ==
    \/ /\ inits[p].at = "ignore" /\ UNCHANGED project
       /\ Keep(p, IF project.ignore.ours THEN "context" ELSE "ignore-empty", project.ignore)
    \/ /\ inits[p].at = "ignore-empty" /\ Step(p, "ignore-write")
       /\ project' = [project EXCEPT !.ignore = [own |-> 0, ours |-> FALSE]]
    \/ /\ inits[p].at = "ignore-write" /\ Step(p, "context")
       /\ project' = [project EXCEPT !.ignore = [inits[p].mem EXCEPT !.ours = TRUE]]

-----------------------------------------------------------------------------
\* generate_initial_context: not in a slot, and not if there is an AGENTS.md.
Context(p) ==
    /\ inits[p].at = "context" /\ UNCHANGED project
    /\ IF project.slot \/ project.agents # None THEN Step(p, "ok")
       ELSE IF ~ Loads(project.config) THEN Step(p, "refused")
       ELSE Keep(p, "assemble", project.config)

\* render_input, and body up to its writes. AGENTS.md may be there by now.
Assemble(p) ==
    /\ inits[p].at = "assemble" /\ UNCHANGED project
    /\ LET config == inits[p].mem
           generated == Generated(config)
           planned == Planned(project.agents, generated)
           lock == Body(generated, Parsed(generated))
           next == IF planned # project.agents THEN "write"
                   ELSE IF lock # project.lock THEN "lock" ELSE "ok"
       IN  IF \/ project.registry = Torn
              \/ config.adapter # None /\ ~ Resolves(config.adapter)
              \/ Modified(project.agents, project.lock)
              \/ planned = Malformed
           THEN Step(p, "refused")
           ELSE Keep(p, next, [agents |-> planned, lock |-> lock, seen |-> project.agents,
                               relock |-> lock # project.lock])

WriteAgents(p) ==
    /\ inits[p].at = "write" /\ project' = [project EXCEPT !.agents = inits[p].mem.agents]
    /\ Step(p, IF inits[p].mem.relock THEN "lock" ELSE "ok")

SaveLock(p) ==
    /\ inits[p].at = "lock" /\ project' = [project EXCEPT !.lock = inits[p].mem.lock]
    /\ Step(p, "ok")

Kill(p) ==
    /\ Running(p) /\ spent.kills < MaxKills
    /\ inits' = [inits EXCEPT ![p] = [Idle EXCEPT !.at = "killed"]]
    /\ spent' = [spent EXCEPT !.kills = @ + 1] /\ UNCHANGED project

\* The operator edits or deletes AGENTS.md, edits the files that are theirs to edit, or
\* something deletes the cache.
Touch ==
    LET n == spent.touches + 1
    IN  /\ n <= MaxTouches /\ spent' = [spent EXCEPT !.touches = n]
        /\ inits' = [p \in Processes |-> [inits[p] EXCEPT !.was = None]]
        /\ \/ \E doc \in Documents : doc # project.agents /\ project' = [project EXCEPT !.agents = doc]
           \/ project.wasm # None /\ project' = [project EXCEPT !.wasm = n]
           \/ project' = [project EXCEPT !.ignore.own = n]
           \/ project.config \notin {None, Torn} /\ project' = [project EXCEPT !.config.tools = n]
           \/ project' = [project EXCEPT !.dirs = [d \in DOMAIN project.dirs |-> None], !.stamp = None]

Next ==
    \/ \E p \in Processes :
        \/ Begin(p) \/ Dirs(p) \/ Fetch(p) \/ Clear(p) \/ Make(p) \/ Open(p) \/ Fill(p)
        \/ Stumble(p) \/ Stamp(p) \/ Load(p) \/ Resolve(p) \/ Truncate(p) \/ Save(p)
        \/ Wasm(p) \/ WasmWrite(p) \/ EmptyRegistry(p) \/ Ignore(p)
        \/ Context(p) \/ Assemble(p) \/ WriteAgents(p) \/ SaveLock(p) \/ Kill(p)
    \/ Touch

-----------------------------------------------------------------------------
\* What was asked for can be had: by the source for an init, by the project for the rest.
Sensible(ask, was) ==
    LET offer == Offers[ask.origin]
        bound == was.config.adapter
    IN  CASE ask.verb = "regular" ->
                /\ "manifest" \in offer.files /\ offer.sound /\ offer.name \notin Taken
                /\ ask.pin \in {None, offer.version} /\ offer.floor <= Current
                /\ Fits(ask.platforms, offer.platforms) /\ was.registry # Torn
          [] ask.verb = "workspace" -> ~ was.dir
          [] ask.verb = "upgrade" ->
                /\ Loads(was.config) /\ was.registry # Torn
                /\ bound # None => Resolves(bound)
                /\ ask.platforms # None =>
                        bound # None /\ Fits(ask.platforms, Offers[Manifest(Offers[bound.origin].name)].platforms)
          [] ask.verb = "sync" ->
                Loads(was.config) /\ bound # None /\ "manifest" \in Offers[bound.origin].files

Copy(origin, files) == [f \in files |-> origin]

\* The rules pack of the source, if it has one.
CodexOf(ask, origin) ==
    Copy(origin, {"meta"} \cup
        (Offers[origin].packs \cap IF ask.core THEN {"universal", "core"} ELSE {"universal"}))

\* What a run is for is there, and what is the operator's is as it was.
Delivered(r) ==
    LET ask == r.ask
        offer == Offers[r.origin]
    IN  /\ r.was.agents # None => project.agents = r.was.agents
        /\ r.was.wasm # None => project.wasm = r.was.wasm
        /\ project.ignore.own = r.was.ignore.own
        /\ ask.verb \in {"regular", "workspace"} =>
            /\ project.config = Minted(ask)
            /\ project.wasm # None /\ project.ignore.ours
            /\ project.slot \/ project.agents # None
        /\ ask.verb = "regular" =>
            /\ project.dirs[offer.name] = Copy(r.origin, offer.files) /\ project.stamp = r.origin
            /\ Resolves(Adapter(ask))
        /\ ask.verb = "upgrade" =>
            project = [r.was EXCEPT !.config = Bumped(@, ask), !.agents = project.agents, !.lock = project.lock]
        /\ ask.verb \in {"regular", "sync"} /\ offer.packs # {} =>
            project.dirs[Codex] = CodexOf(ask, r.origin)

\* A run that nothing comes between delivers what it was asked for, whatever runs that were
\* killed, edits and a deleted cache left behind, and is refused only for what was asked of it.
InitHeals ==
    \A p \in Processes :
        LET r == inits[p]
        IN  r.was # None =>
                /\ r.at = "ok" => Delivered(r)
                /\ r.at = "refused" => ~ Sensible(r.ask, r.was)

\* A document is a list of lines.
IsDocument(doc) == doc \in Seq({doc[i] : i \in 1 .. Len(doc)})

\* Where it parses, nothing between its fences is the operator's.
Fenced(doc) ==
    doc # None =>
        /\ IsDocument(doc)
        /\ Parsed(doc) \notin {None, Malformed} =>
              \A i \in Parsed(doc).open .. Parsed(doc).close : doc[i].kind # "note"

\* The lines around the fences are the operator's.
Notes(doc) == IF doc = None THEN << >> ELSE Filtered(doc, LAMBDA l : l.kind = "note")

\* A run that writes AGENTS.md, though it began when there was none, keeps the operator's
\* lines in it, unless they were changed after it read them.
NotesKept ==
    \A p \in Processes :
        inits[p].at = "write" /\ inits'[p].at \in {"lock", "ok"} /\ project.agents = inits[p].mem.seen
            => Notes(project'.agents) = Notes(project.agents)

===================================================================================
