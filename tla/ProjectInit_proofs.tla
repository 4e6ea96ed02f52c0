--------------------------- MODULE ProjectInit_proofs ---------------------------
(***************************************************************************)
(* Proofs about ProjectInit as the part of Parts that runs explore: runs   *)
(* on a project, what one finds that nothing comes between, and that it    *)
(* heals the project.                                                      *)
(***************************************************************************)
EXTENDS Parts, TLAPS

\* A behaviour of this part is one of ProjectInit.
LEMMA InitPartStep ==
    ASSUME [PartsNext]_allVars
    PROVE  part' = part /\ (part = "init" => [I!Next]_(I!initVars))
<1>1. CASE UNCHANGED allVars
  BY <1>1 DEF allVars, initVars, I!initVars
<1>2. CASE PartsNext
  BY <1>2 DEF PartsNext
<1> QED BY <1>1, <1>2

LEMMA InitPartStart ==
    ASSUME PartsInit PROVE part = "init" => I!Init
BY DEF PartsInit

(***************************************************************************)
(* What a run that nothing comes between finds at each of its steps.       *)
(***************************************************************************)
Folders == {Offers[o].name : o \in DOMAIN Offers} \cup {Codex}

ConfigFields(c) ==
    c = [adapter |-> c.adapter, version |-> c.version, platforms |-> c.platforms, tools |-> c.tools]
ProjectFields(x) ==
    /\ x = [dir |-> x.dir, config |-> x.config, dirs |-> x.dirs, stamp |-> x.stamp, agents |-> x.agents,
            lock |-> x.lock, wasm |-> x.wasm, ignore |-> x.ignore, registry |-> x.registry, slot |-> x.slot]
    /\ x.ignore = [own |-> x.ignore.own, ours |-> x.ignore.ours]
    /\ Folders \subseteq DOMAIN x.dirs /\ x.dirs = [d \in DOMAIN x.dirs |-> x.dirs[d]]
    /\ x.config \notin {None, Torn} => ConfigFields(x.config)
RunFields(r) ==
    r = [at |-> r.at, ask |-> r.ask, was |-> r.was, origin |-> r.origin, into |-> r.into,
         left |-> r.left, mem |-> r.mem]

\* The stages of a run, by what it was asked.
Caching == {"clear", "make", "copy", "fill", "stamp"}
Rewriting == {"truncate", "save"}
Late == {"context", "assemble", "write", "lock", "ok"}
After == {"ignore", "ignore-empty", "ignore-write"} \cup Late
Saved == {"wasm", "wasm-write", "registry", "registry-write"} \cup After
Onward == {"resolve"} \cup Rewriting \cup Saved
StagesOf(verb) ==
    CASE verb = "regular" -> {"dirs", "fetch", "refused"} \cup Caching \cup (Onward \ {"registry", "registry-write"})
      [] verb = "workspace" -> {"dirs", "refused"} \cup Rewriting \cup Saved
      [] verb = "upgrade" -> {"load", "resolve", "refused"} \cup Rewriting \cup Late
      [] verb = "sync" -> {"load", "fetch", "ok", "refused"} \cup Caching

\* What is the operator's is as it was.
TheirsKept(r) ==
    /\ project.slot = r.was.slot
    /\ r.at \in {"lock", "ok"} \/ project.agents = r.was.agents
    /\ r.was.agents # None => r.at \notin {"assemble", "write", "lock"} /\ project.agents = r.was.agents
    /\ r.at = "assemble" => ~ project.slot
    /\ r.at = "write" => r.mem.agents # None
    /\ r.at = "lock" => project.agents # None
    /\ r.was.wasm # None => project.wasm = r.was.wasm
    /\ r.at = "wasm-write" => project.wasm = None
    /\ r.at = "ignore-write" \/ project.ignore.own = r.was.ignore.own
    /\ r.at \in {"ignore-empty", "ignore-write"} => r.mem = [own |-> r.was.ignore.own, ours |-> r.mem.ours]

\* The directory a run fills holds what it has put there.
FillsOwn(r, wanted) ==
    /\ r.into \in Folders
    /\ r.at = "make" => project.dirs[r.into] = None /\ r.left = wanted
    /\ r.at = "copy" => /\ r.left \subseteq wanted
                        /\ \/ project.dirs[r.into] = << >> /\ r.left = wanted
                           \/ project.dirs[r.into] = [f \in wanted \ r.left |-> r.origin]
    /\ r.at = "fill" => /\ r.mem \in r.left /\ r.left \subseteq wanted
                        /\ project.dirs[r.into] =
                             [f \in (wanted \ r.left) \cup {r.mem} |-> IF f = r.mem THEN Torn ELSE r.origin]
    /\ r.at = "stamp" => project.dirs[r.into] = I!Copy(r.origin, wanted)

RegularHas(r) ==
    LET offer == Offers[r.origin]
    IN  /\ r.origin = r.ask.origin /\ project.registry = r.was.registry
        /\ r.at \in Caching \cup Onward => "manifest" \in offer.files /\ offer.name \notin Taken
        /\ r.at \in Caching => r.into = offer.name \/ (r.into = Codex /\ offer.packs # {})
        /\ r.at \in Onward \/ (r.at \in Caching /\ r.into = Codex) =>
              project.dirs[offer.name] = I!Copy(r.origin, offer.files) /\ project.stamp = r.origin
        /\ r.at \in Onward /\ offer.packs # {} => project.dirs[Codex] = I!CodexOf(r.ask, r.origin)
        /\ r.at \in Rewriting \cup Saved => I!Resolves(I!Adapter(r.ask))

InitHas(r) ==
    /\ r.at \in Rewriting => r.mem = I!Minted(r.ask)
    /\ r.at \in Saved => project.config = I!Minted(r.ask)
    /\ r.at \in {"registry", "registry-write"} \cup After => project.wasm # None
    /\ r.at \in Late => project.ignore.ours
    /\ r.at = "ok" => project.slot \/ project.agents # None

WorkspaceHas(r) ==
    /\ r.at = "dirs" => project.dir = r.was.dir
    /\ r.at \in After => project.registry = "empty"

UpgradeHas(r) ==
    /\ project.dir = r.was.dir /\ project.dirs = r.was.dirs /\ project.stamp = r.was.stamp
    /\ project.wasm = r.was.wasm /\ project.ignore = r.was.ignore /\ project.registry = r.was.registry
    /\ r.at \in Onward => I!Loads(r.was.config)
    /\ r.at \in {"load", "resolve"} => project.config = r.was.config
    /\ r.at = "resolve" => r.mem = r.was.config /\ r.ask.platforms # None /\ r.was.config.adapter # None
    /\ r.at \in Rewriting => r.mem = I!Bumped(r.was.config, r.ask)
    /\ r.at \in Late => project.config = I!Bumped(r.was.config, r.ask)

SyncHas(r) ==
    LET offer == Offers[r.origin]
    IN  /\ project.config = r.was.config
        /\ r.at \in {"fetch", "ok"} \cup Caching =>
              I!Loads(r.was.config) /\ r.was.config.adapter # None /\ r.origin = r.was.config.adapter.origin
        /\ r.at \in Caching => r.into = Codex /\ offer.packs # {}
        /\ r.at = "ok" /\ offer.packs # {} => project.dirs[Codex] = I!CodexOf(r.ask, r.origin)

Going(p) ==
    LET r == inits[p]
    IN  /\ r.ask \in Asks /\ r.at \in StagesOf(r.ask.verb) /\ ProjectFields(r.was)
        /\ TheirsKept(r)
        /\ r.at \in Caching => FillsOwn(r, I!Wanted(p))
        /\ r.ask.verb = "regular" => RegularHas(r)
        /\ r.ask.verb \in {"regular", "workspace"} => InitHas(r)
        /\ r.ask.verb = "workspace" => WorkspaceHas(r)
        /\ r.ask.verb = "upgrade" => UpgradeHas(r)
        /\ r.ask.verb = "sync" => SyncHas(r)
        /\ r.at = "assemble" => r.mem = project.config
        /\ r.at = "refused" => ~ I!Sensible(r.ask, r.was)

ProjectInv ==
    /\ ProjectFields(project)
    /\ inits = [p \in Processes |-> inits[p]]
    /\ \A p \in Processes :
        /\ RunFields(inits[p])
        /\ inits[p].was # None => Going(p) /\ \A q \in Processes \ {p} : ~ I!Running(q)

\* The marks None, Torn and Malformed are none of the things they stand in for.
MarksAreMarks ==
    /\ \A a, v, l, t : [adapter |-> a, version |-> v, platforms |-> l, tools |-> t] \notin {None, Torn}
    /\ \A c : I!Generated(c) \notin {None, Malformed}
    /\ \A o, files : I!Copy(o, files) # None

LEMMA InitGoes == I!Init => ProjectInv
<1> SUFFICES ASSUME I!Init PROVE ProjectInv
  OBVIOUS
<1>1. ProjectFields(project)
  BY ProjectInitAssumption DEF I!Init, ProjectFields, ConfigFields, Folders
<1>2. \A p \in Processes : inits[p] = I!Idle
  BY DEF I!Init
<1>3. RunFields(I!Idle) /\ I!Idle.was = None
  BY DEF RunFields, I!Idle
<1>4. inits = [p \in Processes |-> inits[p]]
  BY DEF I!Init
<1> QED BY <1>1, <1>2, <1>3, <1>4 DEF ProjectInv

\* A step of a run that is under way is all that a run which nothing comes between knows of.
LEMMA RunGoes ==
    ASSUME ProjectInv, NEW p \in Processes, I!Running(p), NEW r, inits' = [inits EXCEPT ![p] = r],
           RunFields(r), r.was = inits[p].was, ProjectFields(project)',
           inits[p].was # None => Going(p)'
    PROVE  ProjectInv'
<1>1. inits' = [q \in Processes |-> inits'[q]] /\ inits'[p] = r
      /\ \A q \in Processes \ {p} : inits'[q] = inits[q]
  BY DEF ProjectInv
<1>2. \A q \in Processes \ {p} : inits[q].was = None
  BY DEF ProjectInv
<1>3. \A q \in Processes \ {p} : I!Running(q)' <=> I!Running(q)
  BY <1>1 DEF I!Running
<1> QED BY <1>1, <1>2, <1>3 DEF ProjectInv

\* What a run keeps as it goes on.
LEMMA RunRecord ==
    ASSUME NEW r, RunFields(r), NEW at, NEW mem
    PROVE  /\ [r EXCEPT !.at = at] = [at |-> at, ask |-> r.ask, was |-> r.was, origin |-> r.origin,
                                      into |-> r.into, left |-> r.left, mem |-> r.mem]
           /\ [r EXCEPT !.at = at, !.mem = mem] = [at |-> at, ask |-> r.ask, was |-> r.was, origin |-> r.origin,
                                      into |-> r.into, left |-> r.left, mem |-> mem]
<1>1. [r EXCEPT !.at = at] = [at |-> at, ask |-> r.ask, was |-> r.was, origin |-> r.origin,
                              into |-> r.into, left |-> r.left, mem |-> r.mem]
  BY DEF RunFields
<1>2. [r EXCEPT !.at = at, !.mem = mem] = [[r EXCEPT !.at = at] EXCEPT !.mem = mem]
  OBVIOUS
<1>3. [[at |-> at, ask |-> r.ask, was |-> r.was, origin |-> r.origin,
        into |-> r.into, left |-> r.left, mem |-> r.mem] EXCEPT !.mem = mem]
        = [at |-> at, ask |-> r.ask, was |-> r.was, origin |-> r.origin,
           into |-> r.into, left |-> r.left, mem |-> mem]
  OBVIOUS
<1> QED BY <1>1, <1>2, <1>3

LEMMA IntoRecord ==
    ASSUME NEW r, RunFields(r), NEW at, NEW into
    PROVE  [r EXCEPT !.at = at, !.into = into] = [at |-> at, ask |-> r.ask, was |-> r.was, origin |-> r.origin,
                                      into |-> into, left |-> r.left, mem |-> r.mem]
<1>1. [r EXCEPT !.at = at] = [at |-> at, ask |-> r.ask, was |-> r.was, origin |-> r.origin,
                              into |-> r.into, left |-> r.left, mem |-> r.mem]
  BY RunRecord
<1>2. [r EXCEPT !.at = at, !.into = into] = [[r EXCEPT !.at = at] EXCEPT !.into = into]
  OBVIOUS
<1>3. [[at |-> at, ask |-> r.ask, was |-> r.was, origin |-> r.origin,
        into |-> r.into, left |-> r.left, mem |-> r.mem] EXCEPT !.into = into]
        = [at |-> at, ask |-> r.ask, was |-> r.was, origin |-> r.origin,
           into |-> into, left |-> r.left, mem |-> r.mem]
  OBVIOUS
<1> QED BY <1>1, <1>2, <1>3

LEMMA LeftRecord ==
    ASSUME NEW r, RunFields(r), NEW at, NEW left
    PROVE  [r EXCEPT !.at = at, !.left = left] = [at |-> at, ask |-> r.ask, was |-> r.was, origin |-> r.origin,
                                      into |-> r.into, left |-> left, mem |-> r.mem]
<1>1. [r EXCEPT !.at = at] = [at |-> at, ask |-> r.ask, was |-> r.was, origin |-> r.origin,
                              into |-> r.into, left |-> r.left, mem |-> r.mem]
  BY RunRecord
<1>2. [r EXCEPT !.at = at, !.left = left] = [[r EXCEPT !.at = at] EXCEPT !.left = left]
  OBVIOUS
<1>3. [[at |-> at, ask |-> r.ask, was |-> r.was, origin |-> r.origin,
        into |-> r.into, left |-> r.left, mem |-> r.mem] EXCEPT !.left = left]
        = [at |-> at, ask |-> r.ask, was |-> r.was, origin |-> r.origin,
           into |-> r.into, left |-> left, mem |-> r.mem]
  OBVIOUS
<1> QED BY <1>1, <1>2, <1>3

LEMMA FilledRecord ==
    ASSUME NEW r, RunFields(r), NEW at, NEW left, NEW mem
    PROVE  [r EXCEPT !.left = left, !.mem = mem, !.at = at] =
                [at |-> at, ask |-> r.ask, was |-> r.was, origin |-> r.origin,
                 into |-> r.into, left |-> left, mem |-> mem]
<1>3. [r EXCEPT !.left = left] = [at |-> r.at, ask |-> r.ask, was |-> r.was, origin |-> r.origin,
                                  into |-> r.into, left |-> left, mem |-> r.mem]
  BY DEF RunFields
<1>4. [r EXCEPT !.left = left, !.mem = mem, !.at = at] = [[[r EXCEPT !.left = left] EXCEPT !.mem = mem] EXCEPT !.at = at]
  OBVIOUS
<1>5. [[at |-> r.at, ask |-> r.ask, was |-> r.was, origin |-> r.origin,
        into |-> r.into, left |-> left, mem |-> r.mem] EXCEPT !.mem = mem]
        = [at |-> r.at, ask |-> r.ask, was |-> r.was, origin |-> r.origin,
           into |-> r.into, left |-> left, mem |-> mem]
  OBVIOUS
<1>6. [[at |-> r.at, ask |-> r.ask, was |-> r.was, origin |-> r.origin,
        into |-> r.into, left |-> left, mem |-> mem] EXCEPT !.at = at]
        = [at |-> at, ask |-> r.ask, was |-> r.was, origin |-> r.origin,
           into |-> r.into, left |-> left, mem |-> mem]
  OBVIOUS
<1> QED BY <1>3, <1>4, <1>5, <1>6

LEMMA Steps ==
    ASSUME ProjectInv, NEW p \in Processes, NEW at, I!Step(p, at)
    PROVE  /\ inits' = [inits EXCEPT ![p] = inits'[p]]
           /\ inits'[p] = [at |-> at, ask |-> inits[p].ask, was |-> inits[p].was, origin |-> inits[p].origin,
                           into |-> inits[p].into, left |-> inits[p].left, mem |-> inits[p].mem]
<1>1. RunFields(inits[p])
  BY DEF ProjectInv
<1> QED BY <1>1, RunRecord DEF I!Step, I!Become, ProjectInv

LEMMA Keeps ==
    ASSUME ProjectInv, NEW p \in Processes, NEW at, NEW mem, I!Keep(p, at, mem)
    PROVE  /\ inits' = [inits EXCEPT ![p] = inits'[p]]
           /\ inits'[p] = [at |-> at, ask |-> inits[p].ask, was |-> inits[p].was, origin |-> inits[p].origin,
                           into |-> inits[p].into, left |-> inits[p].left, mem |-> mem]
<1>1. RunFields(inits[p])
  BY DEF ProjectInv
<1> QED BY <1>1, RunRecord DEF I!Keep, I!Become, ProjectInv

LEMMA CacheSame ==
    ASSUME project'.dirs = project.dirs
    PROVE  /\ \A a : I!Resolves(a)' <=> I!Resolves(a)
           /\ \A n : I!Manifest(n)' = I!Manifest(n)
           /\ \A a, w : I!Sensible(a, w)' <=> I!Sensible(a, w)
<1>1. \A n : I!Manifest(n)' = I!Manifest(n)
  BY DEF I!Manifest
<1>2. \A a : I!Resolves(a)' <=> I!Resolves(a)
  BY <1>1 DEF I!Resolves
<1>3. \A a, w : I!Sensible(a, w)' <=> I!Sensible(a, w)
  BY <1>1, <1>2 DEF I!Sensible
<1> QED BY <1>1, <1>2, <1>3

\* What a run that is refused was asked for could not be had.
LEMMA RefusedGoes ==
    ASSUME ProjectInv, NEW p \in Processes, I!Running(p), I!Refuse(p),
           inits[p].was # None => ~ I!Sensible(inits[p].ask, inits[p].was) /\ inits[p].at \notin {"lock", "ignore-write"}
    PROVE  ProjectInv'
<1>1. /\ project' = project /\ inits' = [inits EXCEPT ![p] = inits'[p]]
      /\ inits'[p] = [at |-> "refused", ask |-> inits[p].ask, was |-> inits[p].was, origin |-> inits[p].origin,
                      into |-> inits[p].into, left |-> inits[p].left, mem |-> inits[p].mem]
  BY Steps DEF I!Refuse
<1>2. ASSUME inits[p].was # None PROVE Going(p)'
  <2>1. Going(p)
    BY <1>2 DEF ProjectInv
  <2>2. TheirsKept(inits[p])'
    BY <1>1, <1>2, <2>1 DEF Going, TheirsKept, I!Running, I!Over
  <2>3. inits[p].ask.verb = "regular" => RegularHas(inits[p])'
    BY <1>1, <2>1 DEF Going, RegularHas, Caching, Onward, Rewriting, Saved, After, Late
  <2>4. InitHas(inits[p])'
    BY <1>1 DEF InitHas, Rewriting, Saved, After, Late
  <2>5. WorkspaceHas(inits[p])'
    BY <1>1 DEF WorkspaceHas, After, Late
  <2>6. inits[p].ask.verb = "upgrade" => UpgradeHas(inits[p])'
    BY <1>1, <2>1 DEF Going, UpgradeHas, Onward, Rewriting, Saved, After, Late
  <2>7. inits[p].ask.verb = "sync" => SyncHas(inits[p])'
    BY <1>1, <2>1 DEF Going, SyncHas, Caching
  <2>8. ~ I!Sensible(inits[p].ask, inits[p].was)'
    BY <1>1, <1>2, CacheSame
  <2>9. /\ inits'[p].ask \in Asks /\ inits'[p].at \in StagesOf(inits'[p].ask.verb)
    BY <1>1, <2>1, ProjectInitAssumption DEF Going, StagesOf
  <2>10. ProjectFields(inits'[p].was)
    BY <1>1, <2>1 DEF Going
  <2> QED BY <1>1, <2>2, <2>3, <2>4, <2>5, <2>6, <2>7, <2>8, <2>9, <2>10 DEF Going, Caching
<1>3. ProjectFields(project)'
  BY <1>1 DEF ProjectInv, ProjectFields, ConfigFields
<1> QED BY <1>1, <1>2, <1>3, RunGoes DEF RunFields

LEMMA BeginGoes ==
    ASSUME ProjectInv, NEW p \in Processes, I!Begin(p)
    PROVE  ProjectInv'
<1>1. PICK ask \in Asks :
        inits' = I!Alone(p, [I!Idle EXCEPT
            !.at = IF ask.verb \in {"regular", "workspace"} THEN "dirs" ELSE "load",
            !.ask = ask, !.origin = ask.origin,
            !.was = IF \E q \in Processes : I!Running(q) THEN None ELSE project])
  BY DEF I!Begin
<1>2. project' = project /\ inits[p].at = "idle"
  BY DEF I!Begin
<1> DEFINE at == IF ask.verb \in {"regular", "workspace"} THEN "dirs" ELSE "load"
           was == IF \E q \in Processes : I!Running(q) THEN None ELSE project
<1>3. inits'[p] = [at |-> at, ask |-> ask, was |-> was, origin |-> ask.origin, into |-> None,
                   left |-> {}, mem |-> None]
  BY <1>1 DEF I!Alone, I!Idle
<1>4. \A q \in Processes \ {p} : inits'[q] = [inits[q] EXCEPT !.was = None]
  BY <1>1 DEF I!Alone
<1>5. \A q \in Processes \ {p} :
        inits'[q] = [at |-> inits[q].at, ask |-> inits[q].ask, was |-> None, origin |-> inits[q].origin,
                     into |-> inits[q].into, left |-> inits[q].left, mem |-> inits[q].mem]
  <2> TAKE q \in Processes \ {p}
  <2>1. RunFields(inits[q])
    BY DEF ProjectInv
  <2> QED BY <1>4, <2>1 DEF RunFields
<1>6. inits' = [q \in Processes |-> inits'[q]]
  BY <1>1 DEF I!Alone
<1>7. \A q \in Processes : RunFields(inits'[q]) /\ (q # p => inits'[q].was = None)
  <2>1. RunFields(inits'[p])
    <3> HIDE DEF at, was
    <3> QED BY <1>3 DEF RunFields
  <2>2. \A q \in Processes \ {p} : RunFields(inits'[q]) /\ inits'[q].was = None
    <3> TAKE q \in Processes \ {p}
    <3>1. inits'[q] = [at |-> inits[q].at, ask |-> inits[q].ask, was |-> None, origin |-> inits[q].origin,
                      into |-> inits[q].into, left |-> inits[q].left, mem |-> inits[q].mem]
      BY <1>5
    <3> QED BY <3>1 DEF RunFields
  <2> QED BY <2>1, <2>2
<1>8. ProjectFields(project)'
  BY <1>2 DEF ProjectInv, ProjectFields, ConfigFields
<1>9. ASSUME inits'[p].was # None PROVE Going(p)' /\ \A q \in Processes \ {p} : ~ I!Running(q)'
  <2>1. was = project /\ \A q \in Processes : ~ I!Running(q)
    <3>1. was = None \/ (was = project /\ \A q \in Processes : ~ I!Running(q))
      OBVIOUS
    <3> HIDE DEF at, was
    <3> QED BY <1>3, <1>9, <3>1
  <2>2. \A q \in Processes \ {p} : ~ I!Running(q)'
    <3> TAKE q \in Processes \ {p}
    <3>1. inits'[q] = [at |-> inits[q].at, ask |-> inits[q].ask, was |-> None, origin |-> inits[q].origin,
                      into |-> inits[q].into, left |-> inits[q].left, mem |-> inits[q].mem]
      BY <1>5
    <3>2. inits'[q].at = inits[q].at
      BY <3>1
    <3> QED BY <2>1, <3>2 DEF I!Running
  <2> HIDE DEF was
  <2>3. at \in {"dirs", "load"} /\ (ask.verb = "regular" \/ ask.verb = "workspace" => at = "dirs")
        /\ (ask.verb = "upgrade" \/ ask.verb = "sync" => at = "load")
    OBVIOUS
  <2> HIDE DEF at
  <2>4. TheirsKept(inits[p])'
    BY <1>2, <1>3, <2>1, <2>3 DEF TheirsKept
  <2>5. ask.verb = "regular" => RegularHas(inits[p])'
    BY <1>2, <1>3, <2>1, <2>3 DEF RegularHas, Caching, Onward, Rewriting, Saved, After, Late
  <2>6. InitHas(inits[p])'
    BY <1>3, <2>3 DEF InitHas, Rewriting, Saved, After, Late
  <2>7. WorkspaceHas(inits[p])'
    BY <1>2, <1>3, <2>1, <2>3 DEF WorkspaceHas, After, Late
  <2>8. ask.verb = "upgrade" => UpgradeHas(inits[p])'
    BY <1>2, <1>3, <2>1, <2>3 DEF UpgradeHas, Onward, Rewriting, Saved, After, Late
  <2>9. ask.verb = "sync" => SyncHas(inits[p])'
    BY <1>2, <1>3, <2>1, <2>3 DEF SyncHas, Caching
  <2>10. /\ inits'[p].ask \in Asks /\ inits'[p].at \in StagesOf(inits'[p].ask.verb)
    BY <1>3, <2>3, ProjectInitAssumption DEF StagesOf
  <2>11. ProjectFields(inits'[p].was)
    BY <1>3, <2>1 DEF ProjectInv
  <2> QED BY <1>3, <2>2, <2>3, <2>4, <2>5, <2>6, <2>7, <2>8, <2>9, <2>10, <2>11 DEF Going, Caching
<1> QED BY <1>6, <1>7, <1>8, <1>9 DEF ProjectInv

LEMMA DirsGoes ==
    ASSUME ProjectInv, NEW p \in Processes, I!Dirs(p)
    PROVE  ProjectInv'
<1>0. I!Running(p) /\ inits[p].at = "dirs"
  BY DEF I!Dirs, I!Running, I!Over
<1>1. CASE inits[p].ask.verb = "regular" /\ I!Step(p, "fetch") /\ project' = [project EXCEPT !.dir = TRUE]
  <2>1. /\ inits' = [inits EXCEPT ![p] = inits'[p]]
        /\ inits'[p] = [at |-> "fetch", ask |-> inits[p].ask, was |-> inits[p].was, origin |-> inits[p].origin,
                        into |-> inits[p].into, left |-> inits[p].left, mem |-> inits[p].mem]
    BY <1>1, Steps
  <2>2. ProjectFields(project)'
    BY <1>1 DEF ProjectInv, ProjectFields, ConfigFields
  <2>3. ASSUME inits[p].was # None PROVE Going(p)'
    <3>1. Going(p)
      BY <2>3 DEF ProjectInv
    <3>2. TheirsKept(inits[p])' /\ RegularHas(inits[p])' /\ InitHas(inits[p])'
      BY <1>0, <1>1, <2>1, <3>1 DEF ProjectInv, ProjectFields, Going, TheirsKept, RegularHas, InitHas, Caching, Onward, Rewriting,
                                    Saved, After, Late
    <3>3. "fetch" \in StagesOf("regular")
      BY DEF StagesOf
    <3> QED BY <1>1, <2>1, <3>1, <3>2, <3>3 DEF Going, Caching
  <2> QED BY <1>0, <2>1, <2>2, <2>3, RunGoes DEF RunFields
<1>2. CASE /\ inits[p].ask.verb = "workspace" /\ ~ project.dir
           /\ I!Keep(p, "truncate", I!Minted(inits[p].ask)) /\ project' = [project EXCEPT !.dir = TRUE]
  <2>1. /\ inits' = [inits EXCEPT ![p] = inits'[p]]
        /\ inits'[p] = [at |-> "truncate", ask |-> inits[p].ask, was |-> inits[p].was, origin |-> inits[p].origin,
                        into |-> inits[p].into, left |-> inits[p].left, mem |-> I!Minted(inits[p].ask)]
    BY <1>2, Keeps
  <2>2. ProjectFields(project)'
    BY <1>2 DEF ProjectInv, ProjectFields, ConfigFields
  <2>3. ASSUME inits[p].was # None PROVE Going(p)'
    <3>1. Going(p)
      BY <2>3 DEF ProjectInv
    <3>2. TheirsKept(inits[p])' /\ InitHas(inits[p])' /\ WorkspaceHas(inits[p])'
      BY <1>0, <1>2, <2>1, <3>1 DEF ProjectInv, ProjectFields, Going, TheirsKept, InitHas, WorkspaceHas,
                                    Saved, After, Late
    <3>3. "truncate" \in StagesOf("workspace")
      BY DEF StagesOf, Rewriting
    <3> QED BY <1>2, <2>1, <3>1, <3>2, <3>3 DEF Going, Caching
  <2> QED BY <1>0, <2>1, <2>2, <2>3, RunGoes DEF RunFields
<1>3. CASE inits[p].ask.verb = "workspace" /\ project.dir /\ I!Refuse(p)
  BY <1>0, <1>3, RefusedGoes DEF ProjectInv, Going, WorkspaceHas, I!Sensible
<1> QED BY <1>1, <1>2, <1>3 DEF I!Dirs

LEMMA FetchGoes ==
    ASSUME ProjectInv, NEW p \in Processes, I!Fetch(p)
    PROVE  ProjectInv'
<1> DEFINE offer == Offers[inits[p].origin]
           sync == inits[p].ask.verb = "sync"
<1>0. I!Running(p) /\ inits[p].at = "fetch" /\ project' = project
  BY DEF I!Fetch, I!Running, I!Over
<1>1. CASE I!Step(p, "refused") /\ ("manifest" \notin offer.files \/ (~ sync /\ offer.name \in Taken))
  <2>1. ASSUME inits[p].was # None PROVE ~ I!Sensible(inits[p].ask, inits[p].was)
    <3>1. Going(p)
      BY <2>1 DEF ProjectInv
    <3>2. inits[p].ask.verb = "regular" \/ inits[p].ask.verb = "sync"
      BY <1>0, <3>1, ProjectInitAssumption DEF Going, StagesOf, Rewriting, Onward, Saved, After, Late
    <3> QED BY <1>0, <1>1, <3>1, <3>2 DEF Going, RegularHas, SyncHas, I!Sensible
  <2> QED BY <1>0, <1>1, <2>1, RefusedGoes DEF I!Refuse
<1>2. CASE "manifest" \in offer.files /\ sync /\ offer.packs = {} /\ I!Step(p, "ok")
  <2>1. /\ inits' = [inits EXCEPT ![p] = inits'[p]]
        /\ inits'[p] = [at |-> "ok", ask |-> inits[p].ask, was |-> inits[p].was, origin |-> inits[p].origin,
                        into |-> inits[p].into, left |-> inits[p].left, mem |-> inits[p].mem]
    BY <1>2, Steps
  <2>2. ProjectFields(project)'
    BY <1>0 DEF ProjectInv, ProjectFields, ConfigFields
  <2>3. ASSUME inits[p].was # None PROVE Going(p)'
    <3>1. Going(p)
      BY <2>3 DEF ProjectInv
    <3>2. TheirsKept(inits[p])' /\ SyncHas(inits[p])'
      BY <1>0, <1>2, <2>1, <3>1 DEF Going, TheirsKept, SyncHas, Caching
    <3>3. "ok" \in StagesOf("sync")
      BY DEF StagesOf
    <3> QED BY <1>2, <2>1, <3>1, <3>2, <3>3 DEF Going, Caching
  <2> QED BY <1>0, <2>1, <2>2, <2>3, RunGoes DEF RunFields
<1>3. CASE /\ "manifest" \in offer.files /\ (sync => offer.packs # {}) /\ (~ sync => offer.name \notin Taken)
           /\ I!Become(p, [inits[p] EXCEPT !.at = "clear", !.into = IF sync THEN Codex ELSE offer.name])
  <2>1. /\ inits' = [inits EXCEPT ![p] = inits'[p]]
        /\ inits'[p] = [at |-> "clear", ask |-> inits[p].ask, was |-> inits[p].was, origin |-> inits[p].origin,
                        into |-> IF sync THEN Codex ELSE offer.name, left |-> inits[p].left, mem |-> inits[p].mem]
    <3>1. RunFields(inits[p])
      BY DEF ProjectInv
    <3>2. [inits[p] EXCEPT !.at = "clear", !.into = IF sync THEN Codex ELSE offer.name]
            = [at |-> "clear", ask |-> inits[p].ask, was |-> inits[p].was, origin |-> inits[p].origin,
               into |-> IF sync THEN Codex ELSE offer.name, left |-> inits[p].left, mem |-> inits[p].mem]
      BY <3>1, IntoRecord
    <3> QED BY <1>3, <3>2 DEF ProjectInv, I!Become
  <2>2. ProjectFields(project)'
    BY <1>0 DEF ProjectInv, ProjectFields, ConfigFields
  <2>3. ASSUME inits[p].was # None PROVE Going(p)'
    <3>1. Going(p)
      BY <2>3 DEF ProjectInv
    <3>2. inits[p].ask.verb = "regular" \/ inits[p].ask.verb = "sync"
      BY <1>0, <3>1, ProjectInitAssumption DEF Going, StagesOf, Rewriting, Onward, Saved, After, Late
    <3>3. TheirsKept(inits[p])' /\ InitHas(inits[p])'
      BY <1>0, <2>1, <3>1 DEF Going, TheirsKept, InitHas, Rewriting, Saved, After, Late
    <3>4. inits[p].ask.verb = "regular" => RegularHas(inits[p])'
      BY <1>0, <1>3, <2>1, <3>1, ProjectInitAssumption
         DEF Going, RegularHas, Caching, Onward, Rewriting, Saved, After, Late
    <3>5. inits[p].ask.verb = "sync" => SyncHas(inits[p])'
      BY <1>0, <1>3, <2>1, <3>1 DEF Going, SyncHas, Caching
    <3>6. inits'[p].into \in Folders
      BY <1>3, <2>1, <3>1, <3>2, ProjectInitAssumption DEF Folders, Going, RegularHas
    <3>7. FillsOwn(inits[p], I!Wanted(p))'
      BY <2>1, <3>6 DEF FillsOwn
    <3>8. "clear" \in StagesOf("sync") /\ "clear" \in StagesOf("regular")
      BY DEF StagesOf, Caching
    <3> QED BY <2>1, <3>1, <3>2, <3>3, <3>4, <3>5, <3>7, <3>8 DEF Going
  <2> QED BY <1>0, <2>1, <2>2, <2>3, RunGoes DEF RunFields
<1> QED BY <1>1, <1>2, <1>3 DEF I!Fetch

\* A step on the directory that a run fills leaves the rest of the project as it is.
LEMMA PutFields ==
    ASSUME ProjectFields(project), NEW d \in Folders, NEW files, project' = I!Put(d, files)
    PROVE  /\ ProjectFields(project)'
           /\ project'.dirs[d] = files /\ \A e \in DOMAIN project.dirs \ {d} : project'.dirs[e] = project.dirs[e]
           /\ project'.dir = project.dir /\ project'.config = project.config /\ project'.stamp = project.stamp
           /\ project'.agents = project.agents /\ project'.lock = project.lock /\ project'.wasm = project.wasm
           /\ project'.ignore = project.ignore /\ project'.registry = project.registry
           /\ project'.slot = project.slot
<1>1. project' = [project EXCEPT !.dirs = [project.dirs EXCEPT ![d] = files]]
  BY DEF I!Put
<1>2. d \in DOMAIN project.dirs
  BY DEF ProjectFields
<1> DEFINE folders == [project.dirs EXCEPT ![d] = files]
<1>3. /\ folders[d] = files /\ \A e \in DOMAIN project.dirs \ {d} : folders[e] = project.dirs[e]
      /\ DOMAIN folders = DOMAIN project.dirs /\ folders = [e \in DOMAIN folders |-> folders[e]]
  BY <1>2 DEF ProjectFields
<1> HIDE DEF folders
<1>4. project' = [dir |-> project.dir, config |-> project.config, dirs |-> folders, stamp |-> project.stamp,
                  agents |-> project.agents, lock |-> project.lock, wasm |-> project.wasm,
                  ignore |-> project.ignore, registry |-> project.registry, slot |-> project.slot]
  BY <1>1 DEF ProjectFields, folders
<1> QED BY <1>3, <1>4 DEF ProjectFields, ConfigFields

LEMMA PutKeeps ==
    ASSUME ProjectFields(project), NEW d, NEW files, project' = I!Put(d, files)
    PROVE  ProjectFields(project)'
<1>1. project' = [project EXCEPT !.dirs = [project.dirs EXCEPT ![d] = files]]
  BY DEF I!Put
<1> DEFINE folders == [project.dirs EXCEPT ![d] = files]
<1>2. DOMAIN folders = DOMAIN project.dirs /\ folders = [e \in DOMAIN folders |-> folders[e]]
  BY DEF ProjectFields
<1> HIDE DEF folders
<1>3. project' = [dir |-> project.dir, config |-> project.config, dirs |-> folders, stamp |-> project.stamp,
                  agents |-> project.agents, lock |-> project.lock, wasm |-> project.wasm,
                  ignore |-> project.ignore, registry |-> project.registry, slot |-> project.slot]
  BY <1>1 DEF ProjectFields, folders
<1> QED BY <1>2, <1>3 DEF ProjectFields, ConfigFields

\* A run that fills a directory is at it, and has its own in what it filled before.
LEMMA FillGoes ==
    ASSUME ProjectInv, NEW p \in Processes, inits[p].at \in Caching, inits[p].was # None,
           inits'[p].at \in Caching, inits'[p].ask = inits[p].ask, inits'[p].was = inits[p].was,
           inits'[p].origin = inits[p].origin, inits'[p].into = inits[p].into,
           project' = project \/ \E files : project' = I!Put(inits[p].into, files),
           FillsOwn(inits[p], I!Wanted(p))'
    PROVE  Going(p)'
<1>1. Going(p)
  BY DEF ProjectInv
<1>2. inits[p].into \in Folders /\ inits[p].ask \in Asks
  BY <1>1 DEF Going, FillsOwn
<1>3. inits[p].ask.verb = "regular" \/ inits[p].ask.verb = "sync"
  BY <1>1, ProjectInitAssumption DEF Going, StagesOf, Rewriting, Caching, Onward, Saved, After, Late
<1>4. /\ \A e \in DOMAIN project.dirs \ {inits[p].into} : project'.dirs[e] = project.dirs[e]
      /\ project'.config = project.config /\ project'.stamp = project.stamp
      /\ project'.agents = project.agents /\ project'.wasm = project.wasm
      /\ project'.ignore = project.ignore /\ project'.registry = project.registry
      /\ project'.slot = project.slot
  BY <1>2, PutFields DEF ProjectInv
<1>5. TheirsKept(inits[p])' /\ InitHas(inits[p])'
  BY <1>1, <1>4 DEF Going, TheirsKept, InitHas, Rewriting, Caching, Saved, After, Late
<1>6. ASSUME inits[p].ask.verb = "regular" PROVE RegularHas(inits[p])'
  <2>1. RegularHas(inits[p])
    BY <1>1, <1>6 DEF Going
  <2>2. inits[p].at \notin Onward /\ inits'[p].at \notin Onward /\ inits'[p].at \notin Rewriting \cup Saved
    BY DEF Caching, Onward, Rewriting, Saved, After, Late
  <2>3. inits[p].origin \in DOMAIN Offers
    BY <1>2, <1>6, <2>1, ProjectInitAssumption DEF RegularHas
  <2>4. Offers[inits[p].origin].name \in DOMAIN project.dirs /\ Offers[inits[p].origin].name # Codex
    BY <2>3, ProjectInitAssumption DEF ProjectInv, ProjectFields, Folders
  <2> QED BY <1>4, <2>1, <2>2, <2>4 DEF RegularHas
<1>7. ASSUME inits[p].ask.verb = "sync" PROVE SyncHas(inits[p])'
  <2>1. inits[p].at # "ok" /\ inits'[p].at # "ok"
    BY DEF Caching
  <2> QED BY <1>1, <1>4, <1>7, <2>1 DEF Going, SyncHas
<1>8. /\ inits'[p].at \in StagesOf("regular") /\ inits'[p].at \in StagesOf("sync")
      /\ inits'[p].at \notin {"assemble", "refused"}
  BY DEF StagesOf, Caching
<1> QED BY <1>1, <1>3, <1>5, <1>6, <1>7, <1>8 DEF Going

\* Files a run puts into a directory, and those it takes out of it.
LEMMA EmptyFiles == DOMAIN << >> = {}
OBVIOUS

LEMMA ClearGoes ==
    ASSUME ProjectInv, NEW p \in Processes, I!Clear(p)
    PROVE  ProjectInv'
<1>0. I!Running(p) /\ inits[p].at = "clear"
  BY DEF I!Clear, I!Running, I!Over
<1>1. CASE /\ project.dirs[inits[p].into] = None /\ project' = project
           /\ I!Become(p, [inits[p] EXCEPT !.at = "make", !.left = I!Wanted(p)])
  <2>1. /\ inits' = [inits EXCEPT ![p] = inits'[p]]
        /\ inits'[p] = [at |-> "make", ask |-> inits[p].ask, was |-> inits[p].was, origin |-> inits[p].origin,
                        into |-> inits[p].into, left |-> I!Wanted(p), mem |-> inits[p].mem]
    BY <1>1, LeftRecord DEF ProjectInv, I!Become
  <2>2. ASSUME inits[p].was # None PROVE Going(p)'
    <3>1. I!Wanted(p)' = I!Wanted(p)
      BY <2>1 DEF I!Wanted
    <3>2. FillsOwn(inits[p], I!Wanted(p))
      BY <1>0, <2>2 DEF ProjectInv, Going, Caching
    <3>3. FillsOwn(inits[p], I!Wanted(p))'
      BY <1>1, <2>1, <3>1, <3>2 DEF FillsOwn
    <3> QED BY <1>0, <1>1, <2>1, <2>2, <3>3, FillGoes DEF Caching
  <2> QED BY <1>0, <1>1, <2>1, <2>2, RunGoes DEF RunFields, ProjectInv, ProjectFields, ConfigFields
<1>2. ASSUME inits' = inits, NEW files, project' = I!Put(inits[p].into, files)
      PROVE  ProjectInv'
  <2>1. inits' = [inits EXCEPT ![p] = inits[p]] /\ RunFields(inits[p])
    BY <1>2 DEF ProjectInv
  <2>2. CASE inits[p].was # None
    <3>1. I!Wanted(p)' = I!Wanted(p)
      BY <1>2 DEF I!Wanted
    <3>2. FillsOwn(inits[p], I!Wanted(p)) /\ inits[p].into \in Folders
      BY <1>0, <2>2 DEF ProjectInv, Going, FillsOwn, Caching
    <3>3. FillsOwn(inits[p], I!Wanted(p))'
      BY <1>0, <1>2, <3>1, <3>2 DEF FillsOwn
    <3>4. Going(p)'
      BY <1>0, <1>2, <2>2, <3>3, FillGoes DEF Caching
    <3>5. ProjectFields(project)'
      BY <1>2, <3>2, PutFields DEF ProjectInv
    <3> QED BY <1>0, <2>1, <3>4, <3>5, RunGoes
  <2>3. CASE inits[p].was = None
    <3>1. ProjectFields(project)'
      BY <1>2, PutKeeps DEF ProjectInv
    <3> QED BY <1>0, <2>1, <2>3, <3>1, RunGoes
  <2> QED BY <2>2, <2>3
<1> QED BY <1>1, <1>2 DEF I!Clear

LEMMA MakeGoes ==
    ASSUME ProjectInv, NEW p \in Processes, I!Make(p)
    PROVE  ProjectInv'
<1>0. I!Running(p) /\ inits[p].at = "make" /\ I!Step(p, "copy")
  BY DEF I!Make, I!Running, I!Over
<1>1. /\ inits' = [inits EXCEPT ![p] = inits'[p]]
      /\ inits'[p] = [at |-> "copy", ask |-> inits[p].ask, was |-> inits[p].was, origin |-> inits[p].origin,
                      into |-> inits[p].into, left |-> inits[p].left, mem |-> inits[p].mem]
  BY <1>0, Steps
<1>2. project' = project \/ project' = I!Put(inits[p].into, << >>)
  BY DEF I!Make
<1>3. ProjectFields(project)'
  BY <1>2, PutKeeps DEF ProjectInv
<1>4. ASSUME inits[p].was # None PROVE Going(p)'
  <2>1. FillsOwn(inits[p], I!Wanted(p))
    BY <1>0, <1>4 DEF ProjectInv, Going, Caching
  <2>2. inits[p].into \in Folders /\ project.dirs[inits[p].into] = None /\ inits[p].left = I!Wanted(p)
    BY <1>0, <2>1 DEF FillsOwn
  <2>3. project' = I!Put(inits[p].into, << >>)
    BY <2>2 DEF I!Make
  <2>4. project'.dirs[inits[p].into] = << >>
    BY <2>2, <2>3, PutFields DEF ProjectInv
  <2>5. I!Wanted(p)' = I!Wanted(p)
    BY <1>1 DEF I!Wanted
  <2>6. FillsOwn(inits[p], I!Wanted(p))'
    BY <1>1, <2>2, <2>4, <2>5 DEF FillsOwn
  <2> QED BY <1>0, <1>1, <1>2, <1>4, <2>6, FillGoes DEF Caching
<1> QED BY <1>0, <1>1, <1>3, <1>4, RunGoes DEF RunFields

LEMMA OpenGoes ==
    ASSUME ProjectInv, NEW p \in Processes, I!Open(p)
    PROVE  ProjectInv'
<1>0. I!Running(p) /\ inits[p].at = "copy"
  BY DEF I!Open, I!Running, I!Over
<1>1. PICK f \in inits[p].left :
        /\ project' = I!Put(inits[p].into, I!With(project.dirs[inits[p].into], f, Torn))
        /\ I!Keep(p, "fill", f)
  BY DEF I!Open
<1>2. /\ inits' = [inits EXCEPT ![p] = inits'[p]]
      /\ inits'[p] = [at |-> "fill", ask |-> inits[p].ask, was |-> inits[p].was, origin |-> inits[p].origin,
                      into |-> inits[p].into, left |-> inits[p].left, mem |-> f]
  BY <1>1, Keeps
<1>3. ProjectFields(project)'
  BY <1>1, PutKeeps DEF ProjectInv
<1>4. ASSUME inits[p].was # None PROVE Going(p)'
  <2> DEFINE files == project.dirs[inits[p].into]
             o == inits[p].origin
             left == inits[p].left
             wanted == I!Wanted(p)
  <2>1. FillsOwn(inits[p], I!Wanted(p))
    BY <1>0, <1>4 DEF ProjectInv, Going, Caching
  <2>2. /\ inits[p].into \in Folders /\ left \subseteq wanted
        /\ (files = << >> /\ left = wanted) \/ files = [g \in wanted \ left |-> o]
    BY <1>0, <2>1 DEF FillsOwn
  <2>3. project'.dirs[inits[p].into] = I!With(files, f, Torn)
    BY <1>1, <2>2, PutFields DEF ProjectInv
  <2>4. DOMAIN files = wanted \ left /\ \A g \in DOMAIN files : files[g] = o
    BY <2>2, EmptyFiles
  <2>5. f \notin DOMAIN files
    BY <2>4
  <2>6. I!With(files, f, Torn) = [g \in (wanted \ left) \cup {f} |-> IF g = f THEN Torn ELSE o]
    BY <2>4 DEF I!With
  <2>7. I!Wanted(p)' = I!Wanted(p)
    BY <1>2 DEF I!Wanted
  <2>8. FillsOwn(inits[p], I!Wanted(p))'
    BY SMTT(20), <1>2, <2>2, <2>3, <2>6, <2>7 DEF FillsOwn
  <2> QED BY <1>0, <1>1, <1>2, <1>4, <2>8, FillGoes DEF Caching
<1> QED BY <1>0, <1>2, <1>3, <1>4, RunGoes DEF RunFields

LEMMA FilledGoes ==
    ASSUME ProjectInv, NEW p \in Processes, I!Fill(p)
    PROVE  ProjectInv'
<1> DEFINE r == inits[p]
           files == project.dirs[r.into]
           left == r.left \ {r.mem}
           at == IF r.left = {r.mem} THEN "stamp" ELSE "copy"
<1>0. I!Running(p) /\ r.at = "fill"
  BY DEF I!Fill, I!Running, I!Over
<1>1. /\ \/ /\ files # None /\ r.mem \in DOMAIN files
            /\ project' = I!Put(r.into, [files EXCEPT ![r.mem] = r.origin])
         \/ r.was = None /\ project' = project
      /\ inits' = [inits EXCEPT ![p] = [r EXCEPT !.left = left, !.mem = None, !.at = at]]
  BY DEF I!Fill, I!Become
<1>2. /\ inits' = [inits EXCEPT ![p] = inits'[p]]
      /\ inits'[p] = [at |-> at, ask |-> r.ask, was |-> r.was, origin |-> r.origin,
                      into |-> r.into, left |-> left, mem |-> None]
  <2>1. RunFields(r)
    BY DEF ProjectInv
  <2> HIDE DEF at, left
  <2>2. [r EXCEPT !.left = left, !.mem = None, !.at = at] =
            [at |-> at, ask |-> r.ask, was |-> r.was, origin |-> r.origin,
             into |-> r.into, left |-> left, mem |-> None]
    BY <2>1, FilledRecord
  <2> HIDE DEF r
  <2> QED BY <1>1, <2>2 DEF ProjectInv
<1>3. ProjectFields(project)'
  BY <1>1, PutKeeps DEF ProjectInv
<1>4. ASSUME r.was # None PROVE Going(p)'
  <2> DEFINE o == r.origin
             wanted == I!Wanted(p)
  <2>1. FillsOwn(r, I!Wanted(p))
    BY <1>0, <1>4 DEF ProjectInv, Going, Caching
  <2>2. /\ r.into \in Folders /\ r.left \subseteq wanted /\ r.mem \in r.left
        /\ files = [g \in (wanted \ r.left) \cup {r.mem} |-> IF g = r.mem THEN Torn ELSE o]
    BY <1>0, <2>1 DEF FillsOwn
  <2>3. project' = I!Put(r.into, [files EXCEPT ![r.mem] = r.origin])
    BY <1>1, <1>4
  <2>4. project'.dirs[r.into] = [files EXCEPT ![r.mem] = o]
    BY <2>2, <2>3, PutFields DEF ProjectInv
  <2>5. [files EXCEPT ![r.mem] = o] = [g \in wanted \ left |-> o]
    <3>1. wanted \ left = (wanted \ r.left) \cup {r.mem}
      BY <2>2
    <3> QED BY <2>2, <3>1
  <2>6. I!Wanted(p)' = I!Wanted(p)
    BY <1>2 DEF I!Wanted
  <2>7. at = "stamp" => left = {}
    OBVIOUS
  <2>8. at \in {"stamp", "copy"} /\ left \subseteq wanted
    BY <2>2
  <2>9. FillsOwn(inits[p], I!Wanted(p))'
    <3>1. at = "stamp" => [g \in wanted \ left |-> o] = I!Copy(o, wanted)
      BY <2>7 DEF I!Copy
    <3> HIDE DEF at, left
    <3> QED BY <1>2, <2>2, <2>4, <2>5, <2>6, <2>8, <3>1 DEF FillsOwn
  <2> HIDE DEF at, left
  <2> QED BY <1>0, <1>2, <1>4, <2>3, <2>8, <2>9, FillGoes DEF Caching
<1> HIDE DEF at, left
<1> QED BY <1>0, <1>2, <1>3, <1>4, RunGoes DEF RunFields

LEMMA StumbleGoes ==
    ASSUME ProjectInv, NEW p \in Processes, I!Stumble(p)
    PROVE  ProjectInv'
BY RefusedGoes DEF I!Stumble, I!Running, I!Over

\* The name that the source of a run declares is found where the run put it.
LEMMA FoundWhereMade ==
    ASSUME MarksAreMarks, NEW o \in DOMAIN Offers, "manifest" \in Offers[o].files,
           project.dirs[Offers[o].name] = I!Copy(o, Offers[o].files)
    PROVE  I!Manifest(Offers[o].name) = o
<1>1. "manifest" \in DOMAIN I!Copy(o, Offers[o].files) /\ I!Copy(o, Offers[o].files)["manifest"] = o
  BY DEF I!Copy
<1>2. I!Copy(o, Offers[o].files) # None
  BY DEF MarksAreMarks
<1> QED BY <1>1, <1>2 DEF I!Manifest

LEMMA StampGoes ==
    ASSUME ProjectInv, NEW p \in Processes, I!Stamp(p)
    PROVE  ProjectInv'
<1> DEFINE r == inits[p]
<1>0. I!Running(p) /\ r.at = "stamp" /\ RunFields(r)
  BY DEF I!Stamp, I!Running, I!Over, ProjectInv
<1>1. CASE r.into = Codex
  <2> DEFINE at == IF r.ask.verb = "sync" THEN "ok" ELSE "resolve"
             files == project.dirs[Codex]
  <2>1. project' = I!Put(Codex, I!With(files, "meta", r.origin)) /\ I!Step(p, at)
    BY <1>1 DEF I!Stamp
  <2>2. /\ inits' = [inits EXCEPT ![p] = inits'[p]]
        /\ inits'[p] = [at |-> at, ask |-> r.ask, was |-> r.was, origin |-> r.origin,
                        into |-> r.into, left |-> r.left, mem |-> r.mem]
    BY <2>1, Steps
  <2>3. ProjectFields(project)'
    BY <2>1, PutKeeps DEF ProjectInv
  <2>4. ASSUME r.was # None PROVE Going(p)'
    <3>1. Going(p)
      BY <2>4 DEF ProjectInv
    <3>2. r.ask \in Asks /\ (r.ask.verb = "regular" \/ r.ask.verb = "sync")
      BY <1>0, <3>1, ProjectInitAssumption DEF Going, StagesOf, Rewriting, Onward, Saved, After, Late
    <3>3. files = I!Copy(r.origin, I!Wanted(p)) /\ Codex \in Folders
      BY <1>0, <1>1, <3>1 DEF Going, FillsOwn, Caching, Folders
    <3>4. /\ project'.dirs[Codex] = I!With(files, "meta", r.origin)
          /\ \A e \in DOMAIN project.dirs \ {Codex} : project'.dirs[e] = project.dirs[e]
          /\ project'.config = project.config /\ project'.stamp = project.stamp
          /\ project'.agents = project.agents /\ project'.wasm = project.wasm
          /\ project'.ignore = project.ignore /\ project'.registry = project.registry
          /\ project'.slot = project.slot
      BY <2>1, <3>3, PutFields DEF ProjectInv
    <3>5. project'.dirs[Codex] = I!CodexOf(r.ask, r.origin)
      <4>1. I!Wanted(p) = Offers[r.origin].packs \cap (IF r.ask.core THEN {"universal", "core"} ELSE {"universal"})
        BY <1>1 DEF I!Wanted
      <4>2. I!With(files, "meta", r.origin) = [g \in {"meta"} \cup I!Wanted(p) |-> r.origin]
        BY <3>3 DEF I!With, I!Copy
      <4> QED BY <3>4, <4>1, <4>2 DEF I!CodexOf, I!Copy
    <3>6. at \in {"ok", "resolve"} /\ (r.ask.verb = "regular" => at = "resolve") /\ (r.ask.verb = "sync" => at = "ok")
      OBVIOUS
    <3> HIDE DEF at
    <3>7. TheirsKept(inits[p])'
      BY <1>0, <2>2, <3>1, <3>4, <3>6 DEF Going, TheirsKept
    <3>8. ASSUME r.ask.verb = "regular" PROVE RegularHas(inits[p])' /\ InitHas(inits[p])'
      <4>1. RegularHas(r) /\ at = "resolve"
        BY <3>1, <3>6, <3>8 DEF Going
      <4>2. r.origin \in DOMAIN Offers
        BY <3>2, <3>8, <4>1, ProjectInitAssumption DEF RegularHas
      <4>3. Offers[r.origin].name \in DOMAIN project.dirs /\ Offers[r.origin].name # Codex
        BY <4>2, ProjectInitAssumption DEF ProjectInv, ProjectFields, Folders
      <4>4. /\ "resolve" \in Onward
            /\ "resolve" \notin Caching \cup {"registry", "registry-write", "ok"} \cup Rewriting \cup Saved \cup After \cup Late
        BY DEF Caching, Onward, Rewriting, Saved, After, Late
      <4>5. RegularHas(inits[p])'
        BY <1>0, <1>1, <2>2, <3>4, <3>5, <4>1, <4>3, <4>4 DEF RegularHas, Caching
      <4>6. InitHas(inits[p])'
        BY <2>2, <4>1, <4>4 DEF InitHas
      <4> QED BY <4>5, <4>6
    <3>9. ASSUME r.ask.verb = "sync" PROVE SyncHas(inits[p])'
      BY <1>0, <2>2, <3>1, <3>4, <3>5, <3>6, <3>9 DEF Going, SyncHas, Caching
    <3>10. "ok" \in StagesOf("sync") /\ "resolve" \in StagesOf("regular")
      BY DEF StagesOf, Onward
    <3> QED BY <2>2, <3>1, <3>2, <3>6, <3>7, <3>8, <3>9, <3>10 DEF Going, Caching
  <2> HIDE DEF at
  <2> QED BY <1>0, <2>2, <2>3, <2>4, RunGoes DEF RunFields
<1>2. CASE r.into # Codex
  <2> DEFINE more == Offers[r.origin].packs # {}
             at == IF more THEN "clear" ELSE "resolve"
             into == IF more THEN Codex ELSE r.into
  <2>1. project' = [project EXCEPT !.stamp = r.origin]
    BY <1>2 DEF I!Stamp
  <2>2. /\ inits' = [inits EXCEPT ![p] = inits'[p]]
        /\ inits'[p] = [at |-> at, ask |-> r.ask, was |-> r.was, origin |-> r.origin,
                        into |-> into, left |-> r.left, mem |-> r.mem]
    <3>1. CASE more
      <4>1. I!Become(p, [r EXCEPT !.at = "clear", !.into = Codex])
        BY <1>2, <3>1 DEF I!Stamp
      <4> HIDE DEF r
      <4> QED BY <1>0, <3>1, <4>1, IntoRecord DEF ProjectInv, I!Become
    <3>2. CASE ~ more
      <4>1. I!Step(p, "resolve")
        BY <1>2, <3>2 DEF I!Stamp
      <4> QED BY <3>2, <4>1, Steps
    <3> QED BY <3>1, <3>2
  <2>3. ProjectFields(project)'
    BY <2>1 DEF ProjectInv, ProjectFields, ConfigFields
  <2>4. ASSUME r.was # None PROVE Going(p)'
    <3>1. Going(p)
      BY <2>4 DEF ProjectInv
    <3>2. r.ask \in Asks /\ r.ask.verb = "regular"
      BY <1>0, <1>2, <3>1, ProjectInitAssumption
         DEF Going, SyncHas, StagesOf, Rewriting, Onward, Saved, After, Late, Caching
    <3>3. RegularHas(r) /\ r.into = Offers[r.origin].name
      BY <1>0, <1>2, <3>1, <3>2 DEF Going, RegularHas, Caching
    <3>4. project.dirs[r.into] = I!Copy(r.origin, Offers[r.origin].files)
      BY <1>0, <1>2, <3>1 DEF Going, FillsOwn, Caching, I!Wanted
    <3>5. /\ project'.dirs = project.dirs /\ project'.stamp = r.origin
          /\ project'.config = project.config /\ project'.agents = project.agents /\ project'.wasm = project.wasm
          /\ project'.ignore = project.ignore /\ project'.registry = project.registry
          /\ project'.slot = project.slot
      BY <2>1 DEF ProjectInv, ProjectFields
    <3>6. at \in {"clear", "resolve"} /\ (at = "clear" => into = Codex /\ more) /\ (at = "resolve" => ~ more)
      OBVIOUS
    <3> HIDE DEF at, into
    <3>7. TheirsKept(inits[p])'
      BY <1>0, <2>2, <3>1, <3>5, <3>6 DEF Going, TheirsKept
    <3>8. RegularHas(inits[p])'
      <4>1. "stamp" \in Caching /\ {"clear", "resolve"} \cap (Rewriting \cup Saved) = {}
        BY DEF Caching, Rewriting, Saved, After, Late
      <4>2. "clear" \in Caching /\ "clear" \notin Onward /\ "resolve" \notin Caching
        BY DEF Caching, Onward, Rewriting, Saved, After, Late
      <4> QED BY <1>0, <2>2, <3>3, <3>4, <3>5, <3>6, <4>1, <4>2 DEF RegularHas
    <3>9. InitHas(inits[p])'
      BY <2>2, <3>6 DEF InitHas, Rewriting, Saved, After, Late
    <3>10. at \in Caching => FillsOwn(inits[p], I!Wanted(p))'
      BY <2>2, <3>6 DEF FillsOwn, Folders, Caching
    <3>11. "clear" \in StagesOf("regular") /\ "resolve" \in StagesOf("regular")
      BY DEF StagesOf, Onward, Caching
    <3> QED BY <2>2, <3>1, <3>2, <3>6, <3>7, <3>8, <3>9, <3>10, <3>11 DEF Going
  <2> HIDE DEF at, into
  <2> QED BY <1>0, <2>2, <2>3, <2>4, RunGoes DEF RunFields
<1> QED BY <1>1, <1>2

LEMMA LoadedRecord ==
    ASSUME NEW r, RunFields(r), NEW at, NEW source, NEW mem
    PROVE  [r EXCEPT !.at = at, !.origin = source, !.mem = mem] =
                [at |-> at, ask |-> r.ask, was |-> r.was, origin |-> source,
                 into |-> r.into, left |-> r.left, mem |-> mem]
<1>1. [r EXCEPT !.at = at] = [at |-> at, ask |-> r.ask, was |-> r.was, origin |-> r.origin,
                              into |-> r.into, left |-> r.left, mem |-> r.mem]
  BY RunRecord
<1>2. [r EXCEPT !.at = at, !.origin = source, !.mem = mem] = [[[r EXCEPT !.at = at] EXCEPT !.origin = source] EXCEPT !.mem = mem]
  OBVIOUS
<1>3. [[at |-> at, ask |-> r.ask, was |-> r.was, origin |-> r.origin,
        into |-> r.into, left |-> r.left, mem |-> r.mem] EXCEPT !.origin = source]
        = [at |-> at, ask |-> r.ask, was |-> r.was, origin |-> source,
           into |-> r.into, left |-> r.left, mem |-> r.mem]
  OBVIOUS
<1>4. [[at |-> at, ask |-> r.ask, was |-> r.was, origin |-> source,
        into |-> r.into, left |-> r.left, mem |-> r.mem] EXCEPT !.mem = mem]
        = [at |-> at, ask |-> r.ask, was |-> r.was, origin |-> source,
           into |-> r.into, left |-> r.left, mem |-> mem]
  OBVIOUS
<1> QED BY <1>1, <1>2, <1>3, <1>4

\* What an upgrade makes of the configuration that it found.
LEMMA BumpGoes ==
    ASSUME ProjectInv, NEW p \in Processes, NEW config, I!Bump(p, config), project' = project,
           inits[p].at \in {"load", "resolve"},
           inits[p].was # None => /\ inits[p].ask.verb = "upgrade" /\ config = inits[p].was.config
                                  /\ I!Loads(config) /\ project.config = config
    PROVE  ProjectInv'
<1> DEFINE r == inits[p]
           next == I!Bumped(config, r.ask)
           at == IF next = config THEN "context" ELSE "truncate"
<1>0. I!Running(p)
  BY DEF I!Running, I!Over
<1>1. /\ inits' = [inits EXCEPT ![p] = inits'[p]]
      /\ inits'[p] = [at |-> at, ask |-> r.ask, was |-> r.was, origin |-> r.origin,
                      into |-> r.into, left |-> r.left, mem |-> next]
  <2>1. I!Keep(p, at, next)
    BY DEF I!Bump
  <2> QED BY <2>1, Keeps
<1>2. ProjectFields(project)'
  BY DEF ProjectInv, ProjectFields, ConfigFields
<1>3. ASSUME r.was # None PROVE Going(p)'
  <2>1. Going(p) /\ r.ask.verb = "upgrade" /\ config = r.was.config /\ I!Loads(config) /\ project.config = config
    BY <1>3 DEF ProjectInv
  <2>2. at \in {"context", "truncate"} /\ (at = "context" => next = config)
    OBVIOUS
  <2> HIDE DEF at, next
  <2>3. TheirsKept(inits[p])'
    BY <1>1, <2>1, <2>2 DEF Going, TheirsKept
  <2>4. UpgradeHas(inits[p])'
    <3>1. UpgradeHas(r)
      BY <2>1 DEF Going
    <3>2. "truncate" \notin Late /\ "context" \notin Rewriting
      BY DEF Late, Rewriting
    <3> QED BY <1>1, <2>1, <2>2, <3>1, <3>2 DEF UpgradeHas, I!Loads, next
  <2>5. {"context", "truncate"} \subseteq StagesOf("upgrade")
    BY DEF StagesOf, Late, Rewriting
  <2> QED BY <1>1, <2>1, <2>2, <2>3, <2>4, <2>5 DEF Going, Caching
<1> HIDE DEF at, next
<1> QED BY <1>0, <1>1, <1>2, <1>3, RunGoes DEF RunFields

LEMMA LoadGoes ==
    ASSUME ProjectInv, NEW p \in Processes, I!Load(p)
    PROVE  ProjectInv'
<1> DEFINE r == inits[p]
           config == project.config
<1>0. I!Running(p) /\ r.at = "load" /\ RunFields(r) /\ project' = project
  BY DEF I!Load, I!Running, I!Over, ProjectInv
<1>1. ProjectFields(project)'
  BY <1>0 DEF ProjectInv, ProjectFields, ConfigFields
<1>2. CASE I!Step(p, "refused") /\ (~ I!Loads(config) \/ (~ (r.ask.verb = "upgrade" /\ r.ask.platforms = None) /\ config.adapter = None))
  <2>1. ASSUME r.was # None PROVE ~ I!Sensible(r.ask, r.was)
    <3>1. Going(p)
      BY <2>1 DEF ProjectInv
    <3>2. r.ask.verb = "upgrade" \/ r.ask.verb = "sync"
      BY <1>0, <3>1, ProjectInitAssumption DEF Going, StagesOf, Rewriting, Onward, Saved, After, Late, Caching
    <3>3. config = r.was.config
      BY <1>0, <3>1, <3>2 DEF Going, UpgradeHas, SyncHas
    <3> QED BY <1>2, <3>2, <3>3 DEF I!Sensible
  <2> QED BY <1>0, <1>2, <2>1, RefusedGoes DEF I!Refuse
<1>3. CASE I!Loads(config) /\ r.ask.verb = "upgrade" /\ r.ask.platforms = None /\ I!Bump(p, config)
  BY <1>0, <1>3, BumpGoes DEF ProjectInv, Going, UpgradeHas
<1>4. CASE /\ I!Loads(config) /\ config.adapter # None /\ ~ (r.ask.verb = "upgrade" /\ r.ask.platforms = None)
           /\ I!Become(p, [r EXCEPT !.at = IF r.ask.verb = "sync" THEN "fetch" ELSE "resolve",
                                  !.origin = config.adapter.origin,
                                  !.mem = IF r.ask.verb = "sync" THEN None ELSE config])
  <2> DEFINE at == IF r.ask.verb = "sync" THEN "fetch" ELSE "resolve"
             mem == IF r.ask.verb = "sync" THEN None ELSE config
             source == config.adapter.origin
  <2>1. /\ inits' = [inits EXCEPT ![p] = inits'[p]]
        /\ inits'[p] = [at |-> at, ask |-> r.ask, was |-> r.was, origin |-> source,
                        into |-> r.into, left |-> r.left, mem |-> mem]
    <3>1. inits' = [inits EXCEPT ![p] = [r EXCEPT !.at = at, !.origin = source, !.mem = mem]]
      BY <1>4 DEF I!Become
    <3>a. RunFields(r)
      BY <1>0
    <3> HIDE DEF at, mem, source, r, config
    <3>2. [r EXCEPT !.at = at, !.origin = source, !.mem = mem] =
            [at |-> at, ask |-> r.ask, was |-> r.was, origin |-> source,
             into |-> r.into, left |-> r.left, mem |-> mem]
      BY <3>a, LoadedRecord
    <3> QED BY <3>1, <3>2 DEF ProjectInv
  <2>2. ASSUME r.was # None PROVE Going(p)'
    <3>1. Going(p)
      BY <2>2 DEF ProjectInv
    <3>2. r.ask.verb = "upgrade" \/ r.ask.verb = "sync"
      BY <1>0, <3>1, ProjectInitAssumption DEF Going, StagesOf, Rewriting, Onward, Saved, After, Late, Caching
    <3>3. config = r.was.config
      BY <1>0, <3>1, <3>2 DEF Going, UpgradeHas, SyncHas
    <3>4. (r.ask.verb = "sync" => at = "fetch") /\ (r.ask.verb # "sync" => at = "resolve" /\ mem = config)
      OBVIOUS
    <3> HIDE DEF at, mem
    <3>5. TheirsKept(inits[p])'
      BY <1>0, <2>1, <3>1, <3>4 DEF Going, TheirsKept
    <3>6. ASSUME r.ask.verb = "upgrade" PROVE UpgradeHas(inits[p])'
      <4>1. UpgradeHas(r) /\ at = "resolve" /\ mem = config /\ r.ask.platforms # None
        BY <1>4, <3>1, <3>4, <3>6 DEF Going
      <4>2. "resolve" \notin Rewriting \cup Late
        BY DEF Rewriting, Late
      <4> QED BY <1>0, <1>4, <2>1, <3>3, <4>1, <4>2 DEF UpgradeHas, I!Loads
    <3>7. ASSUME r.ask.verb = "sync" PROVE SyncHas(inits[p])'
      <4>1. SyncHas(r) /\ at = "fetch" /\ "fetch" \notin Caching
        BY <3>1, <3>4, <3>7 DEF Going, Caching
      <4> QED BY <1>0, <1>4, <2>1, <3>3, <4>1 DEF SyncHas
    <3>8. "fetch" \in StagesOf("sync") /\ "resolve" \in StagesOf("upgrade")
      BY DEF StagesOf
    <3>9. {"fetch", "resolve"} \cap (Caching \cup {"assemble", "refused"}) = {}
      BY DEF Caching
    <3> QED BY <2>1, <3>1, <3>2, <3>4, <3>5, <3>6, <3>7, <3>8, <3>9 DEF Going
  <2> HIDE DEF at, mem
  <2> QED BY <1>0, <1>1, <2>1, <2>2, RunGoes DEF RunFields
<1> QED BY <1>2, <1>3, <1>4 DEF I!Load

\* A regular run finds what it asked for where it put it, if it can be had at all.
LEMMA SensibleResolves ==
    ASSUME MarksAreMarks, NEW ask \in Asks, ask.verb = "regular", NEW was, I!Sensible(ask, was),
           project.dirs[Offers[ask.origin].name] = I!Copy(ask.origin, Offers[ask.origin].files)
    PROVE  /\ I!Resolves(I!Adapter(ask))
           /\ I!Fits(ask.platforms, Offers[I!Manifest(Offers[ask.origin].name)].platforms)
<1>1. ask.origin \in DOMAIN Offers /\ ask.origin \notin {None, Torn}
  BY ProjectInitAssumption
<1>2. /\ "manifest" \in Offers[ask.origin].files /\ Offers[ask.origin].sound
      /\ Offers[ask.origin].name \notin Taken /\ ask.pin \in {None, Offers[ask.origin].version}
      /\ Offers[ask.origin].floor <= Current /\ I!Fits(ask.platforms, Offers[ask.origin].platforms)
  BY DEF I!Sensible
<1>3. I!Manifest(Offers[ask.origin].name) = ask.origin
  BY <1>1, <1>2, FoundWhereMade
<1>4. I!Adapter(ask).origin = ask.origin /\ I!Adapter(ask).pin = ask.pin
  BY DEF I!Adapter
<1> QED BY <1>1, <1>2, <1>3, <1>4 DEF I!Resolves

LEMMA ResolveGoes ==
    ASSUME MarksAreMarks, ProjectInv, NEW p \in Processes, I!Resolve(p)
    PROVE  ProjectInv'
<1> DEFINE r == inits[p]
           ask == r.ask
           bound == IF ask.verb = "regular" THEN I!Adapter(ask) ELSE r.mem.adapter
           fits == I!Fits(ask.platforms, Offers[I!Manifest(Offers[bound.origin].name)].platforms)
<1>0. I!Running(p) /\ r.at = "resolve" /\ project' = project
  BY DEF I!Resolve, I!Running, I!Over
<1>1. ASSUME r.was # None
      PROVE  /\ Going(p) /\ ask \in Asks
             /\ (ask.verb = "regular" /\ RegularHas(r)) \/ (ask.verb = "upgrade" /\ UpgradeHas(r))
  <2>1. Going(p)
    BY <1>1 DEF ProjectInv
  <2>2. ask.verb = "regular" \/ ask.verb = "upgrade"
    BY <1>0, <2>1, ProjectInitAssumption DEF Going, StagesOf, Rewriting, Saved, After, Late, Caching
  <2> QED BY <2>1, <2>2 DEF Going
<1>2. CASE ~ (I!Resolves(bound) /\ fits) /\ I!Step(p, "refused")
  <2>1. ASSUME r.was # None PROVE ~ I!Sensible(ask, r.was)
    <3>1. CASE ask.verb = "regular" /\ RegularHas(r)
      <4>1. /\ r.origin = ask.origin
            /\ project.dirs[Offers[ask.origin].name] = I!Copy(ask.origin, Offers[ask.origin].files)
        BY <1>0, <3>1 DEF RegularHas, Onward
      <4>2. I!Adapter(ask).origin = ask.origin
        BY DEF I!Adapter
      <4> QED BY <1>1, <1>2, <2>1, <3>1, <4>1, <4>2, SensibleResolves
    <3>2. CASE ask.verb = "upgrade" /\ UpgradeHas(r)
      <4>1. r.mem = r.was.config /\ ask.platforms # None /\ r.was.config.adapter # None
        BY <1>0, <3>2 DEF UpgradeHas
      <4> QED BY <1>2, <3>2, <4>1 DEF I!Sensible
    <3> QED BY <1>1, <2>1, <3>1, <3>2
  <2> QED BY <1>0, <1>2, <2>1, RefusedGoes DEF I!Refuse
<1>3. CASE I!Resolves(bound) /\ ask.verb = "regular" /\ I!Keep(p, "truncate", I!Minted(ask))
  <2>1. /\ inits' = [inits EXCEPT ![p] = inits'[p]]
        /\ inits'[p] = [at |-> "truncate", ask |-> ask, was |-> r.was, origin |-> r.origin,
                        into |-> r.into, left |-> r.left, mem |-> I!Minted(ask)]
    BY <1>3, Keeps
  <2>2. ProjectFields(project)'
    BY <1>0 DEF ProjectInv, ProjectFields, ConfigFields
  <2>3. ASSUME r.was # None PROVE Going(p)'
    <3>1. Going(p) /\ RegularHas(r)
      BY <1>1, <1>3, <2>3
    <3>2. I!Resolves(I!Adapter(ask))'
      <4>1. \A a : I!Resolves(a)' <=> I!Resolves(a)
        BY <1>0, CacheSame
      <4>2. inits'[p].ask = ask
        BY <2>1
      <4>3. I!Resolves(I!Adapter(inits'[p].ask))
        BY <1>3, <4>2
      <4> QED BY <4>1, <4>3
    <3>3. TheirsKept(inits[p])'
      BY <1>0, <2>1, <3>1 DEF Going, TheirsKept
    <3>4. /\ {"resolve", "truncate"} \subseteq Onward
          /\ "truncate" \notin Caching \cup Saved \cup After \cup Late \cup {"registry", "registry-write"}
      BY DEF Onward, Rewriting, Caching, Saved, After, Late
    <3>5. RegularHas(inits[p])'
      BY <1>0, <1>3, <2>1, <3>1, <3>2, <3>4 DEF RegularHas
    <3>6. InitHas(inits[p])'
      BY <2>1, <3>4 DEF InitHas
    <3>7. "truncate" \in StagesOf("regular")
      BY DEF StagesOf, Onward, Rewriting
    <3> QED BY <1>3, <2>1, <3>1, <3>3, <3>4, <3>5, <3>6, <3>7 DEF Going
  <2> QED BY <1>0, <2>1, <2>2, <2>3, RunGoes DEF RunFields
<1>4. CASE ask.verb # "regular" /\ I!Bump(p, r.mem)
  <2>1. ASSUME r.was # None
        PROVE  ask.verb = "upgrade" /\ r.mem = r.was.config /\ I!Loads(r.mem) /\ project.config = r.mem
    BY <1>0, <1>1, <1>4, <2>1 DEF UpgradeHas, Onward
  <2> QED BY <1>0, <1>4, <2>1, BumpGoes
<1> QED BY <1>2, <1>3, <1>4 DEF I!Resolve

\* A record in the place of one field of the project.
LEMMA ConfigPut ==
    ASSUME ProjectFields(project), NEW config, project' = [project EXCEPT !.config = config],
           config \notin {None, Torn} => ConfigFields(config)
    PROVE  /\ ProjectFields(project)' /\ project'.config = config
           /\ project'.dir = project.dir /\ project'.dirs = project.dirs /\ project'.stamp = project.stamp
           /\ project'.agents = project.agents /\ project'.lock = project.lock /\ project'.wasm = project.wasm
           /\ project'.ignore = project.ignore /\ project'.registry = project.registry
           /\ project'.slot = project.slot
<1>1. project' = [dir |-> project.dir, config |-> config, dirs |-> project.dirs, stamp |-> project.stamp,
                  agents |-> project.agents, lock |-> project.lock, wasm |-> project.wasm,
                  ignore |-> project.ignore, registry |-> project.registry, slot |-> project.slot]
  BY DEF ProjectFields
<1> QED BY <1>1 DEF ProjectFields, ConfigFields

LEMMA TruncateGoes ==
    ASSUME ProjectInv, NEW p \in Processes, I!Truncate(p)
    PROVE  ProjectInv'
<1> DEFINE r == inits[p]
<1>0. I!Running(p) /\ r.at = "truncate"
  BY DEF I!Truncate, I!Running, I!Over
<1>1. /\ inits' = [inits EXCEPT ![p] = inits'[p]]
      /\ inits'[p] = [at |-> "save", ask |-> r.ask, was |-> r.was, origin |-> r.origin,
                      into |-> r.into, left |-> r.left, mem |-> r.mem]
  BY Steps DEF I!Truncate
<1>2. /\ ProjectFields(project)'
      /\ project'.dir = project.dir /\ project'.dirs = project.dirs /\ project'.stamp = project.stamp
      /\ project'.agents = project.agents /\ project'.lock = project.lock /\ project'.wasm = project.wasm
      /\ project'.ignore = project.ignore /\ project'.registry = project.registry
      /\ project'.slot = project.slot
  BY ConfigPut DEF I!Truncate, ProjectInv
<1>3. ASSUME r.was # None PROVE Going(p)'
  <2>1. Going(p)
    BY <1>3 DEF ProjectInv
  <2>2. r.ask.verb = "regular" \/ r.ask.verb = "workspace" \/ r.ask.verb = "upgrade"
    BY <1>0, <2>1, ProjectInitAssumption DEF Going, StagesOf, Caching
  <2>3. /\ {"truncate", "save"} \subseteq Onward \cap Rewriting
        /\ {"truncate", "save"} \cap (Caching \cup Saved \cup After \cup Late \cup {"registry", "registry-write"}) = {}
    BY DEF Onward, Rewriting, Caching, Saved, After, Late
  <2>4. TheirsKept(inits[p])'
    BY <1>0, <1>1, <1>2, <2>1 DEF Going, TheirsKept
  <2>5. r.ask.verb = "regular" => RegularHas(inits[p])'
    BY <1>0, <1>1, <1>2, <2>1, <2>3, CacheSame DEF Going, RegularHas
  <2>6. r.ask.verb \in {"regular", "workspace"} => InitHas(inits[p])'
    BY <1>0, <1>1, <2>1, <2>3 DEF Going, InitHas
  <2>7. WorkspaceHas(inits[p])'
    BY <1>1, <2>3 DEF WorkspaceHas
  <2>8. r.ask.verb = "upgrade" => UpgradeHas(inits[p])'
    BY <1>0, <1>1, <1>2, <2>1, <2>3 DEF Going, UpgradeHas
  <2>9. "save" \in StagesOf("regular") \cap StagesOf("workspace") \cap StagesOf("upgrade")
    BY DEF StagesOf, Onward, Rewriting
  <2> QED BY <1>1, <2>1, <2>2, <2>3, <2>4, <2>5, <2>6, <2>7, <2>8, <2>9 DEF Going
<1> QED BY <1>0, <1>1, <1>2, <1>3, RunGoes DEF RunFields

\* The record that a run is about to write down is one.
Carries(r) ==
    /\ r.at \in {"fetch"} \cup Caching =>
          r.ask.verb = "regular" \/ (r.ask.verb = "sync" /\ (r.at # "fetch" => r.into = Codex))
    /\ r.at = "resolve" => r.ask.verb = "regular" \/ ConfigFields(r.mem)
    /\ r.at \in Rewriting => ConfigFields(r.mem)
    /\ r.at \in {"ignore-empty", "ignore-write"} => r.mem = [own |-> r.mem.own, ours |-> r.mem.ours]

LEMMA BumpedRecord ==
    ASSUME NEW c, ConfigFields(c), NEW ask
    PROVE  I!Bumped(c, ask) = [adapter |-> c.adapter, version |-> Current,
                             platforms |-> IF ask.platforms = None THEN c.platforms ELSE ask.platforms,
                             tools |-> c.tools]
<1> DEFINE l == IF ask.platforms = None THEN c.platforms ELSE ask.platforms
<1>1. I!Bumped(c, ask) = [[c EXCEPT !.version = Current] EXCEPT !.platforms = l]
  BY DEF I!Bumped, ConfigFields
<1>2. [c EXCEPT !.version = Current] = [adapter |-> c.adapter, version |-> Current, platforms |-> c.platforms,
                                        tools |-> c.tools]
  BY DEF ConfigFields
<1> HIDE DEF l
<1>3. [[adapter |-> c.adapter, version |-> Current, platforms |-> c.platforms, tools |-> c.tools]
        EXCEPT !.platforms = l]
        = [adapter |-> c.adapter, version |-> Current, platforms |-> l, tools |-> c.tools]
  OBVIOUS
<1> QED BY <1>1, <1>2, <1>3 DEF l

LEMMA SaveGoes ==
    ASSUME ProjectInv, NEW p \in Processes, Carries(inits[p]), I!Save(p)
    PROVE  ProjectInv'
<1> DEFINE r == inits[p]
           at == IF r.ask.verb = "upgrade" THEN "context" ELSE "wasm"
<1>0. I!Running(p) /\ r.at = "save" /\ ConfigFields(r.mem)
  BY DEF I!Save, I!Running, I!Over, Carries, Rewriting
<1>1. /\ inits' = [inits EXCEPT ![p] = inits'[p]]
      /\ inits'[p] = [at |-> at, ask |-> r.ask, was |-> r.was, origin |-> r.origin,
                      into |-> r.into, left |-> r.left, mem |-> None]
  <2>1. I!Keep(p, at, None)
    BY DEF I!Save
  <2> QED BY <2>1, Keeps
<1>2. /\ ProjectFields(project)' /\ project'.config = r.mem
      /\ project'.dir = project.dir /\ project'.dirs = project.dirs /\ project'.stamp = project.stamp
      /\ project'.agents = project.agents /\ project'.lock = project.lock /\ project'.wasm = project.wasm
      /\ project'.ignore = project.ignore /\ project'.registry = project.registry
      /\ project'.slot = project.slot
  BY <1>0, ConfigPut DEF I!Save, ProjectInv
<1>3. ASSUME r.was # None PROVE Going(p)'
  <2>1. Going(p)
    BY <1>3 DEF ProjectInv
  <2>2. r.ask.verb = "regular" \/ r.ask.verb = "workspace" \/ r.ask.verb = "upgrade"
    BY <1>0, <2>1, ProjectInitAssumption DEF Going, StagesOf, Caching
  <2>3. (r.ask.verb = "upgrade" => at = "context") /\ (r.ask.verb # "upgrade" => at = "wasm")
    OBVIOUS
  <2> HIDE DEF at
  <2>4. /\ "save" \in Onward \cap Rewriting /\ {"context", "wasm"} \subseteq Onward \cap Saved
        /\ {"context", "wasm"} \cap (Caching \cup Rewriting \cup {"registry", "registry-write"}) = {}
        /\ "wasm" \notin After \cup Late /\ "context" \in Late
    BY DEF Onward, Rewriting, Caching, Saved, After, Late
  <2>5. TheirsKept(inits[p])'
    BY <1>0, <1>1, <1>2, <2>1, <2>2, <2>3 DEF Going, TheirsKept
  <2>6. r.ask.verb = "regular" => RegularHas(inits[p])'
    BY <1>0, <1>1, <1>2, <2>1, <2>3, <2>4, CacheSame DEF Going, RegularHas
  <2>7. r.ask.verb \in {"regular", "workspace"} => InitHas(inits[p])'
    BY <1>0, <1>1, <1>2, <2>1, <2>3, <2>4 DEF Going, InitHas
  <2>8. r.ask.verb = "workspace" => WorkspaceHas(inits[p])'
    BY <1>1, <2>3, <2>4 DEF WorkspaceHas
  <2>9. r.ask.verb = "upgrade" => UpgradeHas(inits[p])'
    BY <1>0, <1>1, <1>2, <2>1, <2>3, <2>4 DEF Going, UpgradeHas
  <2>10. "wasm" \in StagesOf("regular") \cap StagesOf("workspace") /\ "context" \in StagesOf("upgrade")
    BY DEF StagesOf, Onward, Saved, Late
  <2> QED BY <1>1, <2>1, <2>2, <2>3, <2>4, <2>5, <2>6, <2>7, <2>8, <2>9, <2>10 DEF Going
<1> HIDE DEF at
<1> QED BY <1>0, <1>1, <1>2, <1>3, RunGoes DEF RunFields

\* The steps between the configuration and the files that are the operator's, of an init.
LEMMA InitVerb ==
    ASSUME NEW p, Going(p), inits[p].at \in Saved \ Late
    PROVE  inits[p].ask.verb = "regular" \/ inits[p].ask.verb = "workspace"
BY ProjectInitAssumption DEF Going, StagesOf, Rewriting, Caching, Saved, After, Late

LEMMA WasmGoes ==
    ASSUME ProjectInv, NEW p \in Processes, I!Wasm(p)
    PROVE  ProjectInv'
<1> DEFINE r == inits[p]
           at == IF project.wasm = None THEN "wasm-write" ELSE I!AfterWasm(p)
<1>0. I!Running(p) /\ r.at = "wasm" /\ project' = project
  BY DEF I!Wasm, I!Running, I!Over
<1>1. /\ inits' = [inits EXCEPT ![p] = inits'[p]]
      /\ inits'[p] = [at |-> at, ask |-> r.ask, was |-> r.was, origin |-> r.origin,
                      into |-> r.into, left |-> r.left, mem |-> r.mem]
  <2>1. I!Step(p, at)
    BY DEF I!Wasm
  <2> QED BY <2>1, Steps
<1>2. ProjectFields(project)'
  BY <1>0 DEF ProjectInv, ProjectFields, ConfigFields
<1>3. ASSUME r.was # None PROVE Going(p)'
  <2>1. Going(p)
    BY <1>3 DEF ProjectInv
  <2>2. r.ask.verb = "regular" \/ r.ask.verb = "workspace"
    BY <1>0, <2>1, InitVerb DEF Saved, After, Late
  <2>3. \/ at = "wasm-write" /\ project.wasm = None
        \/ at = "registry" /\ project.wasm # None /\ r.ask.verb = "workspace"
        \/ at = "ignore" /\ project.wasm # None /\ r.ask.verb = "regular"
    BY <2>2 DEF I!AfterWasm
  <2> HIDE DEF at
  <2>4. /\ {"wasm", "wasm-write", "registry", "ignore"} \subseteq Onward \cap Saved
        /\ {"wasm-write", "registry", "ignore"} \cap (Caching \cup Rewriting \cup Late) = {}
        /\ {"wasm-write", "registry"} \cap After = {}
    BY DEF Onward, Rewriting, Caching, Saved, After, Late
  <2>5. TheirsKept(inits[p])'
    BY <1>0, <1>1, <2>1, <2>3 DEF Going, TheirsKept
  <2>6. r.ask.verb = "regular" => RegularHas(inits[p])'
    BY <1>0, <1>1, <2>1, <2>3, <2>4, CacheSame DEF Going, RegularHas
  <2>7. InitHas(inits[p])'
    BY <1>0, <1>1, <2>1, <2>2, <2>3, <2>4 DEF Going, InitHas
  <2>8. r.ask.verb = "workspace" => WorkspaceHas(inits[p])'
    BY <1>1, <2>3, <2>4 DEF WorkspaceHas
  <2>9. /\ {"wasm-write", "ignore"} \subseteq StagesOf("regular")
        /\ {"wasm-write", "registry"} \subseteq StagesOf("workspace")
    BY DEF StagesOf, Onward, Saved, After
  <2> QED BY <1>1, <2>1, <2>2, <2>3, <2>4, <2>5, <2>6, <2>7, <2>8, <2>9 DEF Going
<1> HIDE DEF at
<1> QED BY <1>0, <1>1, <1>2, <1>3, RunGoes DEF RunFields

LEMMA WasmWriteGoes ==
    ASSUME ProjectInv, NEW p \in Processes, I!WasmWrite(p)
    PROVE  ProjectInv'
<1> DEFINE r == inits[p]
           at == I!AfterWasm(p)
<1>0. I!Running(p) /\ r.at = "wasm-write"
  BY DEF I!WasmWrite, I!Running, I!Over
<1>1. /\ inits' = [inits EXCEPT ![p] = inits'[p]]
      /\ inits'[p] = [at |-> at, ask |-> r.ask, was |-> r.was, origin |-> r.origin,
                      into |-> r.into, left |-> r.left, mem |-> r.mem]
  BY Steps DEF I!WasmWrite
<1>2. /\ ProjectFields(project)' /\ project'.wasm = 0 /\ project'.dirs = project.dirs
      /\ project'.stamp = project.stamp /\ project'.config = project.config /\ project'.slot = project.slot
      /\ project'.registry = project.registry /\ project'.agents = project.agents
      /\ project'.ignore = project.ignore
  BY DEF I!WasmWrite, ProjectInv, ProjectFields, ConfigFields
<1>3. ASSUME r.was # None PROVE Going(p)'
  <2>1. Going(p)
    BY <1>3 DEF ProjectInv
  <2>2. r.ask.verb = "regular" \/ r.ask.verb = "workspace"
    BY <1>0, <2>1, InitVerb DEF Saved, After, Late
  <2>3. \/ at = "registry" /\ r.ask.verb = "workspace"
        \/ at = "ignore" /\ r.ask.verb = "regular"
    BY <2>2 DEF I!AfterWasm
  <2> HIDE DEF at
  <2>4. /\ {"wasm-write", "registry", "ignore"} \subseteq Onward \cap Saved
        /\ {"registry", "ignore"} \cap (Caching \cup Rewriting \cup Late) = {} /\ "registry" \notin After
    BY DEF Onward, Rewriting, Caching, Saved, After, Late
  <2>5. TheirsKept(inits[p])'
    BY <1>0, <1>1, <1>2, <2>1, <2>3 DEF Going, TheirsKept
  <2>6. r.ask.verb = "regular" => RegularHas(inits[p])'
    BY <1>0, <1>1, <1>2, <2>1, <2>3, <2>4, CacheSame DEF Going, RegularHas
  <2>7. InitHas(inits[p])'
    BY <1>0, <1>1, <1>2, <2>1, <2>2, <2>3, <2>4, ProjectInitAssumption DEF Going, InitHas
  <2>8. r.ask.verb = "workspace" => WorkspaceHas(inits[p])'
    BY <1>1, <2>3, <2>4 DEF WorkspaceHas
  <2>9. "ignore" \in StagesOf("regular") /\ "registry" \in StagesOf("workspace")
    BY DEF StagesOf, Onward, Saved, After
  <2> QED BY <1>1, <2>1, <2>2, <2>3, <2>4, <2>5, <2>6, <2>7, <2>8, <2>9 DEF Going
<1> HIDE DEF at
<1> QED BY <1>0, <1>1, <1>2, <1>3, RunGoes DEF RunFields

LEMMA EmptyRegistryGoes ==
    ASSUME ProjectInv, NEW p \in Processes, I!EmptyRegistry(p)
    PROVE  ProjectInv'
<1> DEFINE r == inits[p]
           at == IF r.at = "registry" THEN "registry-write" ELSE "ignore"
           registry == IF r.at = "registry" THEN Torn ELSE "empty"
<1>0. I!Running(p) /\ (r.at = "registry" \/ r.at = "registry-write")
  BY DEF I!EmptyRegistry, I!Running, I!Over
<1>1. /\ inits' = [inits EXCEPT ![p] = inits'[p]]
      /\ inits'[p] = [at |-> at, ask |-> r.ask, was |-> r.was, origin |-> r.origin,
                      into |-> r.into, left |-> r.left, mem |-> r.mem]
  <2>1. I!Step(p, at)
    BY DEF I!EmptyRegistry
  <2> QED BY <2>1, Steps
<1>2. /\ ProjectFields(project)' /\ project'.registry = registry /\ project'.dirs = project.dirs
      /\ project'.stamp = project.stamp /\ project'.config = project.config /\ project'.slot = project.slot
      /\ project'.wasm = project.wasm /\ project'.agents = project.agents
      /\ project'.ignore = project.ignore
  <2>1. project' = [project EXCEPT !.registry = registry]
    BY DEF I!EmptyRegistry
  <2> HIDE DEF registry
  <2> QED BY <2>1 DEF ProjectInv, ProjectFields, ConfigFields
<1>3. ASSUME r.was # None PROVE Going(p)'
  <2>1. Going(p)
    BY <1>3 DEF ProjectInv
  <2>2. r.ask.verb = "workspace"
    BY <1>0, <2>1, ProjectInitAssumption DEF Going, StagesOf, Rewriting, Caching, Onward, Saved, After, Late
  <2>3. at = "registry-write" \/ (at = "ignore" /\ registry = "empty")
    OBVIOUS
  <2> HIDE DEF at, registry
  <2>4. /\ {"registry", "registry-write", "ignore"} \subseteq Saved
        /\ {"registry-write", "ignore"} \cap (Caching \cup Rewriting \cup Late) = {}
        /\ "registry-write" \notin After
    BY DEF Rewriting, Caching, Saved, After, Late
  <2>5. TheirsKept(inits[p])'
    BY <1>0, <1>1, <1>2, <2>1, <2>3 DEF Going, TheirsKept
  <2>6. InitHas(inits[p])'
    BY <1>0, <1>1, <1>2, <2>1, <2>2, <2>3, <2>4 DEF Going, InitHas
  <2>7. WorkspaceHas(inits[p])'
    BY <1>1, <1>2, <2>3, <2>4 DEF WorkspaceHas
  <2>8. {"ignore", "registry-write"} \subseteq StagesOf("workspace")
    BY DEF StagesOf, Saved, After
  <2> QED BY <1>1, <2>1, <2>2, <2>3, <2>4, <2>5, <2>6, <2>7, <2>8 DEF Going
<1> HIDE DEF at, registry
<1> QED BY <1>0, <1>1, <1>2, <1>3, RunGoes DEF RunFields

LEMMA OursRecord ==
    ASSUME NEW m, m = [own |-> m.own, ours |-> m.ours], NEW v
    PROVE  [m EXCEPT !.ours = v] = [own |-> m.own, ours |-> v]
OBVIOUS

\* The three steps over .gitignore, and the file in between.
LEMMA IgnoreGoes ==
    ASSUME ProjectInv, NEW p \in Processes, Carries(inits[p]), I!Ignore(p)
    PROVE  ProjectInv'
<1> DEFINE r == inits[p]
<1>0. I!Running(p) /\ r.at \in {"ignore", "ignore-empty", "ignore-write"}
  BY DEF I!Ignore, I!Running, I!Over
<1>1. PICK at, mem, ignore :
        /\ inits' = [inits EXCEPT ![p] = inits'[p]]
        /\ inits'[p] = [at |-> at, ask |-> r.ask, was |-> r.was, origin |-> r.origin,
                        into |-> r.into, left |-> r.left, mem |-> mem]
        /\ ProjectFields(project)' /\ project'.ignore = ignore
        /\ project'.dirs = project.dirs /\ project'.registry = project.registry
        /\ project'.stamp = project.stamp /\ project'.config = project.config /\ project'.slot = project.slot
        /\ project'.wasm = project.wasm /\ project'.agents = project.agents
        /\ \/ /\ r.at = "ignore" /\ ignore = project.ignore /\ mem = ignore
              /\ (at = "context" /\ ignore.ours) \/ at = "ignore-empty"
           \/ r.at = "ignore-empty" /\ at = "ignore-write" /\ mem = r.mem
           \/ r.at = "ignore-write" /\ at = "context" /\ mem = r.mem /\ ignore = [own |-> mem.own, ours |-> TRUE]
  <2>1. CASE r.at = "ignore"
    <3> DEFINE at == IF project.ignore.ours THEN "context" ELSE "ignore-empty"
    <3>1. project' = project /\ I!Keep(p, at, project.ignore)
      BY <2>1 DEF I!Ignore
    <3>2. /\ inits' = [inits EXCEPT ![p] = inits'[p]]
          /\ inits'[p] = [at |-> at, ask |-> r.ask, was |-> r.was, origin |-> r.origin,
                          into |-> r.into, left |-> r.left, mem |-> project.ignore]
      BY <3>1, Keeps
    <3>3. ProjectFields(project)'
      BY <3>1 DEF ProjectInv, ProjectFields, ConfigFields
    <3>4. (at = "context" /\ project.ignore.ours) \/ at = "ignore-empty"
      OBVIOUS
    <3> HIDE DEF at
    <3> WITNESS at, project.ignore, project.ignore
    <3> QED BY <2>1, <3>1, <3>2, <3>3, <3>4
  <2>2. CASE r.at = "ignore-empty"
    <3> DEFINE ignore == [own |-> 0, ours |-> FALSE]
    <3>1. project' = [project EXCEPT !.ignore = ignore] /\ I!Step(p, "ignore-write")
      BY <2>2 DEF I!Ignore
    <3>2. /\ inits' = [inits EXCEPT ![p] = inits'[p]]
          /\ inits'[p] = [at |-> "ignore-write", ask |-> r.ask, was |-> r.was, origin |-> r.origin,
                          into |-> r.into, left |-> r.left, mem |-> r.mem]
      BY <3>1, Steps
    <3>3. ignore = [own |-> ignore.own, ours |-> ignore.ours]
      OBVIOUS
    <3> HIDE DEF ignore
    <3>4. /\ ProjectFields(project)' /\ project'.ignore = ignore
          /\ project'.dirs = project.dirs /\ project'.registry = project.registry
          /\ project'.stamp = project.stamp /\ project'.config = project.config /\ project'.slot = project.slot
          /\ project'.wasm = project.wasm /\ project'.agents = project.agents
      BY <3>1, <3>3 DEF ProjectInv, ProjectFields, ConfigFields
    <3> WITNESS "ignore-write", r.mem, ignore
    <3> QED BY <2>2, <3>2, <3>4
  <2>3. CASE r.at = "ignore-write"
    <3> DEFINE ignore == [r.mem EXCEPT !.ours = TRUE]
    <3>1. project' = [project EXCEPT !.ignore = ignore] /\ I!Step(p, "context")
      BY <2>3 DEF I!Ignore
    <3>2. /\ inits' = [inits EXCEPT ![p] = inits'[p]]
          /\ inits'[p] = [at |-> "context", ask |-> r.ask, was |-> r.was, origin |-> r.origin,
                          into |-> r.into, left |-> r.left, mem |-> r.mem]
      BY <3>1, Steps
    <3>3. ignore = [own |-> r.mem.own, ours |-> TRUE]
      <4>1. r.mem = [own |-> r.mem.own, ours |-> r.mem.ours]
        BY <2>3 DEF Carries
      <4>2. \A v : [r.mem EXCEPT !.ours = v] = [own |-> r.mem.own, ours |-> v]
        BY <4>1, OursRecord
      <4> QED BY <4>2, Zenon
    <3>4. ignore = [own |-> ignore.own, ours |-> ignore.ours]
      <4> HIDE DEF ignore
      <4> QED BY <3>3
    <3> HIDE DEF ignore
    <3>5. /\ ProjectFields(project)' /\ project'.ignore = ignore
          /\ project'.dirs = project.dirs /\ project'.registry = project.registry
          /\ project'.stamp = project.stamp /\ project'.config = project.config /\ project'.slot = project.slot
          /\ project'.wasm = project.wasm /\ project'.agents = project.agents
      BY <3>1, <3>4 DEF ProjectInv, ProjectFields, ConfigFields
    <3> WITNESS "context", r.mem, ignore
    <3> QED BY <2>3, <3>2, <3>3, <3>5
  <2> QED BY <1>0, <2>1, <2>2, <2>3
<1>2. ASSUME r.was # None PROVE Going(p)'
  <2>1. Going(p)
    BY <1>2 DEF ProjectInv
  <2>2. r.ask.verb = "regular" \/ r.ask.verb = "workspace"
    BY <1>0, <2>1, InitVerb DEF Saved, After, Late
  <2>3. r.was.ignore = [own |-> r.was.ignore.own, ours |-> r.was.ignore.ours]
    BY <2>1 DEF Going, ProjectFields
  <2>4. /\ {"ignore", "ignore-empty", "ignore-write", "context"} \subseteq Onward \cap Saved \cap After
        /\ {"ignore", "ignore-empty", "ignore-write", "context"} \cap (Caching \cup Rewriting) = {}
        /\ {"ignore", "ignore-empty", "ignore-write"} \cap Late = {}
    BY DEF Onward, Rewriting, Caching, Saved, After, Late
  <2>5. TheirsKept(inits[p])'
    <3>1. /\ TheirsKept(r) /\ project.ignore = [own |-> project.ignore.own, ours |-> project.ignore.ours]
      BY <2>1 DEF Going, ProjectInv, ProjectFields
    <3>2. CASE r.at = "ignore"
      BY <1>1, <3>1, <3>2 DEF TheirsKept
    <3>3. CASE r.at = "ignore-empty"
      BY <1>1, <3>1, <3>3 DEF TheirsKept
    <3>4. CASE r.at = "ignore-write"
      BY <1>1, <3>1, <3>4 DEF TheirsKept
    <3> QED BY <1>0, <3>2, <3>3, <3>4
  <2>6. r.ask.verb = "regular" => RegularHas(inits[p])'
    BY <1>1, <1>0, <2>1, <2>4, CacheSame DEF Going, RegularHas
  <2>7. InitHas(inits[p])'
    BY <1>0, <1>1, <2>1, <2>2, <2>4 DEF Going, InitHas
  <2>8. r.ask.verb = "workspace" => WorkspaceHas(inits[p])'
    BY <1>0, <1>1, <2>1, <2>4 DEF Going, WorkspaceHas
  <2>9. {"ignore", "ignore-empty", "ignore-write", "context"} \subseteq StagesOf("regular") \cap StagesOf("workspace")
    BY DEF StagesOf, Onward, Saved, After, Late
  <2> QED BY <1>1, <2>1, <2>2, <2>4, <2>5, <2>6, <2>7, <2>8, <2>9 DEF Going
<1> QED BY <1>0, <1>1, <1>2, RunGoes DEF RunFields

\* The configuration a run made loads, and names what it was asked for.
LEMMA MintedLoads ==
    ASSUME MarksAreMarks, NEW ask
    PROVE  /\ I!Loads(I!Minted(ask)) /\ ConfigFields(I!Minted(ask))
           /\ I!Minted(ask).adapter = IF ask.verb = "workspace" THEN None ELSE I!Adapter(ask)
<1> DEFINE a == IF ask.verb = "workspace" THEN None ELSE I!Adapter(ask)
           l == IF ask.platforms = None THEN {} ELSE ask.platforms
<1>1. I!Minted(ask) = [adapter |-> a, version |-> Current, platforms |-> l, tools |-> 0]
  BY DEF I!Minted
<1> HIDE DEF a, l
<1>2. I!Minted(ask) \notin {None, Torn}
  BY <1>1 DEF MarksAreMarks
<1>3. I!Minted(ask).version = Current /\ I!Minted(ask).adapter = a
  BY <1>1
<1>4. ConfigFields(I!Minted(ask))
  BY <1>1 DEF ConfigFields
<1> QED BY <1>2, <1>3, <1>4, ProjectInitAssumption DEF I!Loads, a

LEMMA BumpedLoads ==
    ASSUME MarksAreMarks, NEW c, ConfigFields(c), NEW ask
    PROVE  /\ I!Loads(I!Bumped(c, ask)) /\ ConfigFields(I!Bumped(c, ask))
           /\ I!Bumped(c, ask).adapter = c.adapter
<1> DEFINE l == IF ask.platforms = None THEN c.platforms ELSE ask.platforms
<1>1. I!Bumped(c, ask) = [adapter |-> c.adapter, version |-> Current, platforms |-> l, tools |-> c.tools]
  BY BumpedRecord
<1> HIDE DEF l
<1>2. I!Bumped(c, ask) \notin {None, Torn}
  BY <1>1 DEF MarksAreMarks
<1>3. I!Bumped(c, ask).version = Current /\ I!Bumped(c, ask).adapter = c.adapter
  BY <1>1
<1>4. ConfigFields(I!Bumped(c, ask))
  BY <1>1, <1>3 DEF ConfigFields
<1> QED BY <1>2, <1>3, <1>4, ProjectInitAssumption DEF I!Loads

\* What a run finds when it comes to AGENTS.md: a configuration that loads, and, if what
\* it was asked for can be had, an adapter that resolves.
LEMMA LateFinds ==
    ASSUME MarksAreMarks, ProjectInv, NEW p \in Processes, inits[p].was # None, inits[p].at \in Late
    PROVE  /\ inits[p].ask.verb \in {"regular", "workspace", "upgrade"} \/ inits[p].at = "ok"
           /\ inits[p].at # "ok" => I!Loads(project.config)
           /\ inits[p].at # "ok" /\ I!Sensible(inits[p].ask, inits[p].was) =>
                  /\ project.registry # Torn
                  /\ project.config.adapter # None => I!Resolves(project.config.adapter)
<1> DEFINE r == inits[p]
<1>1. Going(p) /\ r.ask \in Asks
  BY DEF ProjectInv, Going
<1>2. Late \subseteq Saved \cap Onward \cap After
  BY DEF Onward, Saved, After
<1>3. CASE r.ask.verb = "regular"
  <2>1. project.config = I!Minted(r.ask) /\ project.registry = r.was.registry /\ I!Resolves(I!Adapter(r.ask))
    BY <1>1, <1>2, <1>3 DEF Going, InitHas, RegularHas
  <2>2. I!Sensible(r.ask, r.was) => r.was.registry # Torn
    BY <1>3 DEF I!Sensible
  <2>3. I!Loads(I!Minted(r.ask)) /\ I!Minted(r.ask).adapter = I!Adapter(r.ask)
    BY <1>3, MintedLoads
  <2> QED BY <1>3, <2>1, <2>2, <2>3
<1>4. CASE r.ask.verb = "workspace"
  <2>1. project.config = I!Minted(r.ask) /\ project.registry = "empty"
    BY <1>1, <1>2, <1>4 DEF Going, InitHas, WorkspaceHas
  <2>2. I!Loads(I!Minted(r.ask)) /\ I!Minted(r.ask).adapter = None
    BY <1>4, MintedLoads
  <2> QED BY <1>4, <2>1, <2>2, ProjectInitAssumption
<1>5. CASE r.ask.verb = "upgrade"
  <2>1. project.config = I!Bumped(r.was.config, r.ask) /\ project.registry = r.was.registry /\ I!Loads(r.was.config)
    BY <1>1, <1>2, <1>5 DEF Going, UpgradeHas
  <2>2. ConfigFields(r.was.config)
    BY <1>1, <2>1 DEF Going, ProjectFields, I!Loads
  <2>3. I!Loads(I!Bumped(r.was.config, r.ask)) /\ I!Bumped(r.was.config, r.ask).adapter = r.was.config.adapter
    BY <2>2, BumpedLoads
  <2>4. I!Sensible(r.ask, r.was) => r.was.registry # Torn /\ (r.was.config.adapter # None => I!Resolves(r.was.config.adapter))
    BY <1>5 DEF I!Sensible
  <2> QED BY <1>5, <2>1, <2>3, <2>4
<1>6. CASE r.ask.verb = "sync"
  <2>1. "context" \notin StagesOf("sync") /\ "assemble" \notin StagesOf("sync") /\ "write" \notin StagesOf("sync")
        /\ "lock" \notin StagesOf("sync")
    BY DEF StagesOf, Caching
  <2> QED BY <1>1, <1>6, <2>1 DEF Going, Late
<1> QED BY <1>1, <1>3, <1>4, <1>5, <1>6, ProjectInitAssumption

\* The last steps touch AGENTS.md and its lock, and nothing else.
LEMMA LateGoes ==
    ASSUME MarksAreMarks, ProjectInv, NEW p \in Processes, I!Running(p), inits[p].at \in Late,
           NEW at \in Late, inits' = [inits EXCEPT ![p] = inits'[p]], RunFields(inits'[p]),
           inits'[p].at = at, inits'[p].ask = inits[p].ask, inits'[p].was = inits[p].was,
           inits'[p].origin = inits[p].origin, ProjectFields(project)',
           project'.dirs = project.dirs, project'.registry = project.registry, project'.dir = project.dir,
           project'.stamp = project.stamp, project'.config = project.config, project'.slot = project.slot,
           project'.wasm = project.wasm, project'.ignore = project.ignore,
           inits[p].was # None => /\ TheirsKept(inits[p])'
                                  /\ at = "ok" => project.slot \/ project'.agents # None
                                  /\ at = "assemble" => inits'[p].mem = project.config
    PROVE  ProjectInv'
<1> DEFINE r == inits[p]
<1>1. ASSUME r.was # None PROVE Going(p)'
  <2>1. Going(p) /\ r.at # "ok" /\ r.ask \in Asks
    BY <1>1 DEF ProjectInv, I!Running, I!Over, Going
  <2>2. r.ask.verb = "regular" \/ r.ask.verb = "workspace" \/ r.ask.verb = "upgrade"
    BY <1>1, <2>1, LateFinds
  <2>3. Late \subseteq Saved \cap Onward \cap After /\ Late \cap (Caching \cup Rewriting \cup {"resolve", "load", "dirs", "refused"}) = {}
    BY DEF Onward, Rewriting, Caching, Saved, After, Late
  <2>4. r.ask.verb = "regular" => RegularHas(inits[p])'
    <3>1. \A a : I!Resolves(a)' <=> I!Resolves(a)
      BY CacheSame
    <3>2. r.ask.verb = "regular" => RegularHas(r)
      BY <2>1 DEF Going
    <3>3. r.at \in Saved /\ r.at \in Onward /\ at \in Onward /\ at \notin Caching
      BY <2>3
    <3> QED BY <3>1, <3>2, <3>3 DEF RegularHas
  <2>5. r.ask.verb \in {"regular", "workspace"} => InitHas(inits[p])'
    BY <1>1, <2>1, <2>3 DEF Going, InitHas
  <2>6. r.ask.verb = "workspace" => WorkspaceHas(inits[p])'
    BY <2>1, <2>3 DEF Going, WorkspaceHas
  <2>7. r.ask.verb = "upgrade" => UpgradeHas(inits[p])'
    BY <2>1, <2>3 DEF Going, UpgradeHas
  <2>8. Late \subseteq StagesOf("regular") \cap StagesOf("workspace") \cap StagesOf("upgrade")
    BY DEF StagesOf, Onward, Saved, After, Late
  <2> QED BY <1>1, <2>1, <2>2, <2>3, <2>4, <2>5, <2>6, <2>7, <2>8 DEF Going
<1> QED BY <1>1, RunGoes

LEMMA ContextGoes ==
    ASSUME MarksAreMarks, ProjectInv, NEW p \in Processes, I!Context(p)
    PROVE  ProjectInv'
<1> DEFINE r == inits[p]
<1>0. /\ I!Running(p) /\ r.at = "context" /\ project' = project
      /\ {"context", "ok", "assemble"} \subseteq Late
  BY DEF I!Context, I!Running, I!Over, Late
<1>1. ProjectFields(project)'
  BY <1>0 DEF ProjectInv, ProjectFields, ConfigFields
<1>2. CASE (project.slot \/ project.agents # None) /\ I!Step(p, "ok")
  <2>1. /\ inits' = [inits EXCEPT ![p] = inits'[p]]
        /\ inits'[p] = [at |-> "ok", ask |-> r.ask, was |-> r.was, origin |-> r.origin,
                        into |-> r.into, left |-> r.left, mem |-> r.mem]
    BY <1>2, Steps
  <2>2. ASSUME r.was # None PROVE TheirsKept(inits[p])'
    <3>1. TheirsKept(r)
      BY <2>2 DEF ProjectInv, Going
    <3> QED BY <1>0, <2>1, <3>1 DEF TheirsKept
  <2> QED BY <1>0, <1>1, <1>2, <2>1, <2>2, LateGoes DEF RunFields
<1>3. CASE ~ I!Loads(project.config) /\ I!Refuse(p)
  <2>1. r.was = None
    BY <1>0, <1>3, LateFinds
  <2> QED BY <1>0, <1>3, <2>1, RefusedGoes
<1>4. CASE ~ project.slot /\ project.agents = None /\ I!Keep(p, "assemble", project.config)
  <2>1. /\ inits' = [inits EXCEPT ![p] = inits'[p]]
        /\ inits'[p] = [at |-> "assemble", ask |-> r.ask, was |-> r.was, origin |-> r.origin,
                        into |-> r.into, left |-> r.left, mem |-> project.config]
    BY <1>4, Keeps
  <2>2. ASSUME r.was # None PROVE TheirsKept(inits[p])'
    <3>1. TheirsKept(r)
      BY <2>2 DEF ProjectInv, Going
    <3> QED BY <1>0, <1>4, <2>1, <3>1 DEF TheirsKept
  <2> QED BY <1>0, <1>1, <2>1, <2>2, LateGoes DEF RunFields
<1> QED BY <1>2, <1>3, <1>4 DEF I!Context, I!Refuse

LEMMA AssembleGoes ==
    ASSUME MarksAreMarks, ProjectInv, NEW p \in Processes, I!Assemble(p)
    PROVE  ProjectInv'
<1> DEFINE r == inits[p]
           config == r.mem
           generated == I!Generated(config)
           planned == I!Planned(project.agents, generated)
           lock == I!Body(generated, I!Parsed(generated))
           next == IF planned # project.agents THEN "write"
                   ELSE IF lock # project.lock THEN "lock" ELSE "ok"
           mem == [agents |-> planned, lock |-> lock, seen |-> project.agents, relock |-> lock # project.lock]
<1>0. I!Running(p) /\ r.at = "assemble" /\ r.at \in Late /\ project' = project
  BY DEF I!Assemble, I!Running, I!Over, Late
<1>1. ProjectFields(project)'
  BY <1>0 DEF ProjectInv, ProjectFields, ConfigFields
<1>2. r.was # None => project.agents = None /\ config = project.config /\ TheirsKept(r)
  BY <1>0 DEF ProjectInv, Going, TheirsKept
<1>3. r.was # None => planned = generated /\ planned \notin {None, Malformed}
  BY <1>2 DEF I!Planned, MarksAreMarks
<1>4. \/ /\ \/ project.registry = Torn
            \/ config.adapter # None /\ ~ I!Resolves(config.adapter)
            \/ I!Modified(project.agents, project.lock)
            \/ planned = Malformed
         /\ I!Step(p, "refused")
      \/ I!Keep(p, next, mem)
  BY DEF I!Assemble
<1>5. CASE /\ \/ project.registry = Torn
              \/ config.adapter # None /\ ~ I!Resolves(config.adapter)
              \/ I!Modified(project.agents, project.lock)
              \/ planned = Malformed
           /\ I!Step(p, "refused")
  <2>1. r.was # None => ~ I!Modified(project.agents, project.lock)
    BY <1>2 DEF I!Modified
  <2>2. r.was # None => ~ I!Sensible(r.ask, r.was)
    BY <1>0, <1>2, <1>3, <1>5, <2>1, LateFinds
  <2> QED BY <1>0, <1>5, <2>2, RefusedGoes DEF I!Refuse
<1>6. CASE I!Keep(p, next, mem)
  <2>1. next \in {"write", "lock", "ok"} /\ (planned # project.agents => next = "write")
    <3> HIDE DEF planned, lock
    <3> QED OBVIOUS
  <2>2. mem.agents = planned
    OBVIOUS
  <2> HIDE DEF mem, next, planned, generated, lock, config
  <2>3. /\ inits' = [inits EXCEPT ![p] = inits'[p]]
        /\ inits'[p] = [at |-> next, ask |-> r.ask, was |-> r.was, origin |-> r.origin,
                        into |-> r.into, left |-> r.left, mem |-> mem]
    BY <1>6, Keeps
  <2>4. ASSUME r.was # None PROVE TheirsKept(inits[p])' /\ next = "write"
    <3>1. next = "write" /\ mem.agents # None
      BY <1>2, <1>3, <2>1, <2>2, <2>4
    <3> QED BY <1>0, <1>2, <2>3, <2>4, <3>1 DEF TheirsKept
  <2>5. next \in Late
    BY <2>1 DEF Late
  <2> QED BY <1>0, <1>1, <2>3, <2>4, <2>5, LateGoes DEF RunFields
<1> QED BY <1>4, <1>5, <1>6

LEMMA WriteAgentsGoes ==
    ASSUME MarksAreMarks, ProjectInv, NEW p \in Processes, I!WriteAgents(p)
    PROVE  ProjectInv'
<1> DEFINE r == inits[p]
           at == IF r.mem.relock THEN "lock" ELSE "ok"
<1>0. I!Running(p) /\ r.at = "write" /\ r.at \in Late
  BY DEF I!WriteAgents, I!Running, I!Over, Late
<1>1. /\ ProjectFields(project)' /\ project'.agents = r.mem.agents
      /\ project'.dirs = project.dirs /\ project'.registry = project.registry /\ project'.dir = project.dir
      /\ project'.stamp = project.stamp /\ project'.config = project.config /\ project'.slot = project.slot
      /\ project'.wasm = project.wasm /\ project'.ignore = project.ignore
  BY DEF I!WriteAgents, ProjectInv, ProjectFields, ConfigFields
<1>2. /\ inits' = [inits EXCEPT ![p] = inits'[p]]
      /\ inits'[p] = [at |-> at, ask |-> r.ask, was |-> r.was, origin |-> r.origin,
                      into |-> r.into, left |-> r.left, mem |-> r.mem]
  BY Steps DEF I!WriteAgents
<1>3. at \in {"lock", "ok"}
  OBVIOUS
<1> HIDE DEF at
<1>4. ASSUME r.was # None PROVE TheirsKept(inits[p])' /\ project'.agents # None
  <2>1. TheirsKept(r)
    BY <1>4 DEF ProjectInv, Going
  <2> QED BY <1>0, <1>1, <1>2, <1>3, <2>1 DEF TheirsKept
<1>5. at \in Late /\ at # "assemble"
  BY <1>3 DEF Late
<1> QED BY <1>0, <1>1, <1>2, <1>4, <1>5, LateGoes DEF RunFields

LEMMA SaveLockGoes ==
    ASSUME MarksAreMarks, ProjectInv, NEW p \in Processes, I!SaveLock(p)
    PROVE  ProjectInv'
<1> DEFINE r == inits[p]
<1>0. I!Running(p) /\ r.at = "lock" /\ {"lock", "ok"} \subseteq Late
  BY DEF I!SaveLock, I!Running, I!Over, Late
<1>1. /\ ProjectFields(project)' /\ project'.agents = project.agents
      /\ project'.dirs = project.dirs /\ project'.registry = project.registry /\ project'.dir = project.dir
      /\ project'.stamp = project.stamp /\ project'.config = project.config /\ project'.slot = project.slot
      /\ project'.wasm = project.wasm /\ project'.ignore = project.ignore
  BY DEF I!SaveLock, ProjectInv, ProjectFields, ConfigFields
<1>2. /\ inits' = [inits EXCEPT ![p] = inits'[p]]
      /\ inits'[p] = [at |-> "ok", ask |-> r.ask, was |-> r.was, origin |-> r.origin,
                      into |-> r.into, left |-> r.left, mem |-> r.mem]
  BY Steps DEF I!SaveLock
<1>3. ASSUME r.was # None PROVE TheirsKept(inits[p])' /\ project'.agents # None
  <2>1. TheirsKept(r)
    BY <1>3 DEF ProjectInv, Going
  <2> QED BY <1>0, <1>1, <1>2, <2>1 DEF TheirsKept
<1> QED BY <1>0, <1>1, <1>2, <1>3, LateGoes DEF RunFields

\* A killed run knows nothing, and no other run that nothing came between was beside it.
LEMMA KillGoes ==
    ASSUME ProjectInv, NEW p \in Processes, I!Kill(p)
    PROVE  ProjectInv'
<1> DEFINE killed == [at |-> "killed", ask |-> None, was |-> None, origin |-> None, into |-> None,
                      left |-> {}, mem |-> None]
<1>1. I!Running(p) /\ inits' = [inits EXCEPT ![p] = killed] /\ project' = project
  <2>1. [I!Idle EXCEPT !.at = "killed"] = killed
    BY DEF I!Idle
  <2> HIDE DEF killed
  <2> QED BY <2>1 DEF I!Kill
<1>2. RunFields(killed) /\ killed.was = None
  BY DEF RunFields
<1> HIDE DEF killed
<1>3. \A q \in Processes \ {p} : inits'[q] = inits[q] /\ inits[q].was = None
  BY <1>1 DEF ProjectInv
<1>4. inits'[p] = killed /\ inits' = [q \in Processes |-> inits'[q]]
  BY <1>1 DEF ProjectInv
<1>5. ProjectFields(project)'
  BY <1>1 DEF ProjectInv, ProjectFields, ConfigFields
<1>6. \A q \in Processes : RunFields(inits'[q]) /\ inits'[q].was = None
  BY <1>2, <1>3, <1>4 DEF ProjectInv
<1> QED BY <1>4, <1>5, <1>6 DEF ProjectInv

\* Nobody is alone any more once the operator was at the files.
LEMMA TouchGoes ==
    ASSUME ProjectInv, I!Touch
    PROVE  ProjectInv'
<1>1. inits' = [p \in Processes |-> [inits[p] EXCEPT !.was = None]]
  BY DEF I!Touch
<1>2. \A p \in Processes : RunFields(inits'[p]) /\ inits'[p].was = None
  <2> TAKE p \in Processes
  <2>1. RunFields(inits[p])
    BY DEF ProjectInv
  <2>2. inits'[p] = [at |-> inits[p].at, ask |-> inits[p].ask, was |-> None, origin |-> inits[p].origin,
                     into |-> inits[p].into, left |-> inits[p].left, mem |-> inits[p].mem]
    BY <1>1, <2>1 DEF RunFields
  <2> QED BY <2>2 DEF RunFields
<1>3. ProjectFields(project)'
  <2>1. CASE \E doc \in Documents : project' = [project EXCEPT !.agents = doc]
    BY <2>1 DEF ProjectInv, ProjectFields, ConfigFields
  <2>2. CASE project' = [project EXCEPT !.wasm = spent.touches + 1]
    BY <2>2 DEF ProjectInv, ProjectFields, ConfigFields
  <2>3. CASE project' = [project EXCEPT !.ignore.own = spent.touches + 1]
    <3>1. [project.ignore EXCEPT !.own = spent.touches + 1] = [own |-> spent.touches + 1, ours |-> project.ignore.ours]
      BY DEF ProjectInv, ProjectFields
    <3>2. project' = [project EXCEPT !.ignore = [own |-> spent.touches + 1, ours |-> project.ignore.ours]]
      BY <2>3, <3>1
    <3> QED BY <3>2 DEF ProjectInv, ProjectFields, ConfigFields
  <2>4. CASE project.config \notin {None, Torn} /\ project' = [project EXCEPT !.config.tools = spent.touches + 1]
    <3> DEFINE config == [project.config EXCEPT !.tools = spent.touches + 1]
    <3>1. ConfigFields(project.config)
      BY <2>4 DEF ProjectInv, ProjectFields
    <3>2. config = [adapter |-> project.config.adapter, version |-> project.config.version,
                    platforms |-> project.config.platforms, tools |-> spent.touches + 1]
      BY <3>1 DEF ConfigFields
    <3>3. project' = [project EXCEPT !.config = config]
      BY <2>4
    <3> HIDE DEF config
    <3>4. ConfigFields(config)
      BY <3>2 DEF ConfigFields
    <3> QED BY <3>3, <3>4, ConfigPut DEF ProjectInv
  <2>5. CASE project' = [project EXCEPT !.dirs = [d \in DOMAIN project.dirs |-> None], !.stamp = None]
    BY <2>5 DEF ProjectInv, ProjectFields, ConfigFields
  <2> QED BY <2>1, <2>2, <2>3, <2>4, <2>5 DEF I!Touch
<1> QED BY <1>1, <1>2, <1>3 DEF ProjectInv

\* Whatever step is taken, a run that writes a record down has one to write.
Proceeds(p) ==
    \/ I!Dirs(p) \/ I!Fetch(p) \/ I!Clear(p) \/ I!Make(p) \/ I!Open(p) \/ I!Fill(p)
    \/ I!Stumble(p) \/ I!Stamp(p) \/ I!Load(p) \/ I!Resolve(p) \/ I!Truncate(p) \/ I!Save(p)
    \/ I!Wasm(p) \/ I!WasmWrite(p) \/ I!EmptyRegistry(p) \/ I!Ignore(p)
    \/ I!Context(p) \/ I!Assemble(p) \/ I!WriteAgents(p) \/ I!SaveLock(p)

LEMMA OthersStay ==
    ASSUME ProjectInv, NEW q \in Processes, Proceeds(q), NEW p \in Processes \ {q}
    PROVE  inits'[p] = inits[p]
<1>1. (\E r : I!Become(q, r)) \/ UNCHANGED inits => inits'[p] = inits[p]
  BY DEF I!Become, ProjectInv
<1>2. CASE I!Dirs(q)
  BY <1>1, <1>2 DEF I!Dirs, I!Step, I!Keep, I!Refuse, I!Bump
<1>3. CASE I!Fetch(q)
  BY <1>1, <1>3 DEF I!Fetch, I!Step, I!Keep, I!Refuse, I!Bump
<1>4. CASE I!Clear(q)
  BY <1>1, <1>4 DEF I!Clear, I!Step, I!Keep, I!Refuse, I!Bump
<1>5. CASE I!Make(q)
  BY <1>1, <1>5 DEF I!Make, I!Step, I!Keep, I!Refuse, I!Bump
<1>6. CASE I!Open(q)
  BY <1>1, <1>6 DEF I!Open, I!Step, I!Keep, I!Refuse, I!Bump
<1>7. CASE I!Fill(q)
  BY <1>1, <1>7 DEF I!Fill, I!Step, I!Keep, I!Refuse, I!Bump
<1>8. CASE I!Stumble(q)
  BY <1>1, <1>8 DEF I!Stumble, I!Step, I!Keep, I!Refuse, I!Bump
<1>9. CASE I!Stamp(q)
  BY <1>1, <1>9 DEF I!Stamp, I!Step, I!Keep, I!Refuse, I!Bump
<1>10. CASE I!Load(q)
  BY <1>1, <1>10 DEF I!Load, I!Step, I!Keep, I!Refuse, I!Bump
<1>11. CASE I!Resolve(q)
  BY <1>1, <1>11 DEF I!Resolve, I!Step, I!Keep, I!Refuse, I!Bump
<1>12. CASE I!Truncate(q)
  BY <1>1, <1>12 DEF I!Truncate, I!Step, I!Keep, I!Refuse, I!Bump
<1>13. CASE I!Save(q)
  BY <1>1, <1>13 DEF I!Save, I!Step, I!Keep, I!Refuse, I!Bump
<1>14. CASE I!Wasm(q)
  BY <1>1, <1>14 DEF I!Wasm, I!Step, I!Keep, I!Refuse, I!Bump
<1>15. CASE I!WasmWrite(q)
  BY <1>1, <1>15 DEF I!WasmWrite, I!Step, I!Keep, I!Refuse, I!Bump
<1>16. CASE I!EmptyRegistry(q)
  BY <1>1, <1>16 DEF I!EmptyRegistry, I!Step, I!Keep, I!Refuse, I!Bump
<1>17. CASE I!Ignore(q)
  BY <1>1, <1>17 DEF I!Ignore, I!Step, I!Keep, I!Refuse, I!Bump
<1>18. CASE I!Context(q)
  BY <1>1, <1>18 DEF I!Context, I!Step, I!Keep, I!Refuse, I!Bump
<1>19. CASE I!Assemble(q)
  BY <1>1, <1>19 DEF I!Assemble, I!Step, I!Keep, I!Refuse, I!Bump
<1>20. CASE I!WriteAgents(q)
  BY <1>1, <1>20 DEF I!WriteAgents, I!Step, I!Keep, I!Refuse, I!Bump
<1>21. CASE I!SaveLock(q)
  BY <1>1, <1>21 DEF I!SaveLock, I!Step, I!Keep, I!Refuse, I!Bump
<1> QED BY <1>2, <1>3, <1>4, <1>5, <1>6, <1>7, <1>8, <1>9, <1>10, <1>11, <1>12, <1>13, <1>14, <1>15, <1>16, <1>17, <1>18, <1>19, <1>20, <1>21 DEF Proceeds

LEMMA StepFields ==
    ASSUME ProjectInv, NEW p \in Processes, NEW at, I!Step(p, at)
    PROVE  /\ inits'[p].at = at /\ inits'[p].ask = inits[p].ask /\ inits'[p].into = inits[p].into
           /\ inits'[p].mem = inits[p].mem
<1>1. inits'[p] = [at |-> at, ask |-> inits[p].ask, was |-> inits[p].was, origin |-> inits[p].origin,
                  into |-> inits[p].into, left |-> inits[p].left, mem |-> inits[p].mem]
  BY Steps
<1> QED BY <1>1

LEMMA KeepFields ==
    ASSUME ProjectInv, NEW p \in Processes, NEW at, NEW mem, I!Keep(p, at, mem)
    PROVE  /\ inits'[p].at = at /\ inits'[p].ask = inits[p].ask /\ inits'[p].into = inits[p].into
           /\ inits'[p].mem = mem
<1>1. inits'[p] = [at |-> at, ask |-> inits[p].ask, was |-> inits[p].was, origin |-> inits[p].origin,
                  into |-> inits[p].into, left |-> inits[p].left, mem |-> mem]
  BY Keeps
<1> QED BY <1>1

LEMMA CarriesGoes ==
    ASSUME ProjectInv, NEW p \in Processes, Carries(inits[p]), Proceeds(p)
    PROVE  Carries(inits'[p])
<1> DEFINE r == inits[p]
<1>0. RunFields(r) /\ ConfigFields(I!Minted(r.ask))
  BY DEF ProjectInv, ConfigFields, I!Minted
<1>1. ASSUME NEW at, I!Step(p, at), at \notin {"fetch", "resolve", "ignore-empty", "ignore-write"} \cup Caching \cup Rewriting
      PROVE  Carries(inits'[p])
  BY <1>1, StepFields DEF Carries
<1>2. ASSUME NEW at, NEW mem, I!Keep(p, at, mem), at \notin {"fetch", "resolve"} \cup Caching,
             at \in Rewriting => ConfigFields(mem),
             at \in {"ignore-empty", "ignore-write"} => mem = [own |-> mem.own, ours |-> mem.ours]
      PROVE  Carries(inits'[p])
  BY <1>2, KeepFields DEF Carries
<1>3. CASE I!Dirs(p)
  <2>1. CASE r.ask.verb = "regular" /\ I!Step(p, "fetch")
    BY <2>1, StepFields DEF Carries, Caching, Rewriting
  <2>2. CASE I!Keep(p, "truncate", I!Minted(r.ask))
    BY <1>0, <1>2, <2>2 DEF Caching
  <2>3. CASE I!Step(p, "refused")
    BY <1>1, <2>3 DEF Caching, Rewriting
  <2> QED BY <1>3, <2>1, <2>2, <2>3 DEF I!Dirs, I!Refuse
<1>4. CASE I!Fetch(p)
  <2> DEFINE sync == r.ask.verb = "sync"
             into == IF sync THEN Codex ELSE Offers[r.origin].name
  <2>1. CASE I!Step(p, "refused") \/ I!Step(p, "ok")
    BY <1>1, <2>1 DEF Caching, Rewriting
  <2>2. CASE I!Become(p, [r EXCEPT !.at = "clear", !.into = into])
    <3>1. inits'[p] = [at |-> "clear", ask |-> r.ask, was |-> r.was, origin |-> r.origin, into |-> into,
                       left |-> r.left, mem |-> r.mem]
      <4> HIDE DEF into
      <4>1. RunFields(r) /\ inits'[p] = [r EXCEPT !.at = "clear", !.into = into]
        BY <1>0, <2>2 DEF I!Become, ProjectInv
      <4> HIDE DEF r
      <4> QED BY <4>1, IntoRecord
    <3>2. r.ask.verb = "regular" \/ r.ask.verb = "sync"
      BY <1>4 DEF Carries, I!Fetch
    <3> QED BY <3>1, <3>2 DEF Carries, Caching, Rewriting
  <2> QED BY <1>4, <2>1, <2>2 DEF I!Fetch
<1>5. ASSUME r.at \in Caching \ {"stamp"}, inits'[p].at \in Caching, inits'[p].ask = r.ask, inits'[p].into = r.into
      PROVE  Carries(inits'[p])
  BY <1>5 DEF Carries, Caching, Rewriting
<1>6. CASE I!Clear(p)
  <2>1. CASE inits' = inits
    BY <2>1
  <2>2. CASE I!Become(p, [r EXCEPT !.at = "make", !.left = I!Wanted(p)])
    <3>1. inits'[p].at = "make" /\ inits'[p].ask = r.ask /\ inits'[p].into = r.into
      <4>1. RunFields(r) /\ inits'[p] = [r EXCEPT !.at = "make", !.left = I!Wanted(p)]
        BY <1>0, <2>2 DEF I!Become, ProjectInv
      <4> HIDE DEF r
      <4>2. inits'[p] = [at |-> "make", ask |-> r.ask, was |-> r.was, origin |-> r.origin, into |-> r.into,
                         left |-> I!Wanted(p), mem |-> r.mem]
        BY <4>1, LeftRecord
      <4> QED BY <4>2
    <3> QED BY <1>5, <1>6, <3>1 DEF I!Clear, Caching
  <2> QED BY <1>6, <2>1, <2>2 DEF I!Clear
<1>7. CASE I!Make(p)
  <2>1. I!Step(p, "copy") /\ r.at = "make"
    BY <1>7 DEF I!Make
  <2> QED BY <1>5, <2>1, StepFields DEF Caching
<1>8. CASE I!Open(p)
  <2>1. PICK f : I!Keep(p, "fill", f) /\ r.at = "copy"
    BY <1>8 DEF I!Open
  <2> QED BY <1>5, <2>1, KeepFields DEF Caching
<1>9. CASE I!Fill(p)
  <2> DEFINE at == IF r.left = {r.mem} THEN "stamp" ELSE "copy"
             left == r.left \ {r.mem}
  <2>1. I!Become(p, [r EXCEPT !.left = left, !.mem = None, !.at = at]) /\ r.at = "fill"
    BY <1>9 DEF I!Fill
  <2>2. at \in {"stamp", "copy"}
    OBVIOUS
  <2> HIDE DEF at, left
  <2>3. inits'[p].at = at /\ inits'[p].ask = r.ask /\ inits'[p].into = r.into
    <3>1. RunFields(r) /\ inits'[p] = [r EXCEPT !.left = left, !.mem = None, !.at = at]
      BY <1>0, <2>1 DEF I!Become, ProjectInv
    <3> HIDE DEF r
    <3>2. inits'[p] = [at |-> at, ask |-> r.ask, was |-> r.was, origin |-> r.origin, into |-> r.into,
                       left |-> left, mem |-> None]
      BY <3>1, FilledRecord
    <3> QED BY <3>2
  <2> QED BY <1>5, <2>1, <2>2, <2>3 DEF Caching
<1>10. CASE I!Stamp(p)
  <2>1. CASE r.into = Codex
    <3>1. CASE I!Step(p, "ok")
      BY <1>1, <3>1 DEF Caching, Rewriting
    <3>2. CASE r.ask.verb # "sync" /\ I!Step(p, "resolve")
      <4>1. r.ask.verb = "regular"
        BY <1>10, <3>2 DEF Carries, Caching, I!Stamp
      <4> QED BY <3>2, <4>1, StepFields DEF Carries, Caching, Rewriting
    <3> QED BY <1>10, <2>1, <3>1, <3>2 DEF I!Stamp
  <2>2. CASE r.into # Codex
    <3>1. r.ask.verb = "regular"
      BY <1>10, <2>2 DEF Carries, Caching, I!Stamp
    <3>2. CASE I!Step(p, "resolve")
      BY <3>1, <3>2, StepFields DEF Carries, Caching, Rewriting
    <3>3. CASE I!Become(p, [r EXCEPT !.at = "clear", !.into = Codex])
      <4>1. inits'[p].at = "clear" /\ inits'[p].ask = r.ask
        <5>1. RunFields(r) /\ inits'[p] = [r EXCEPT !.at = "clear", !.into = Codex]
          BY <1>0, <3>3 DEF I!Become, ProjectInv
        <5> HIDE DEF r
        <5>2. inits'[p] = [at |-> "clear", ask |-> r.ask, was |-> r.was, origin |-> r.origin, into |-> Codex,
                           left |-> r.left, mem |-> r.mem]
          BY <5>1, IntoRecord
        <5> QED BY <5>2
      <4> QED BY <3>1, <4>1 DEF Carries, Caching, Rewriting
    <3> QED BY <1>10, <2>2, <3>2, <3>3 DEF I!Stamp
  <2> QED BY <2>1, <2>2
<1>11. ASSUME NEW config, ConfigFields(config), I!Bump(p, config) PROVE Carries(inits'[p])
  <2> DEFINE next == I!Bumped(config, r.ask)
             at == IF next = config THEN "context" ELSE "truncate"
  <2>1. I!Keep(p, at, next)
    BY <1>11 DEF I!Bump
  <2>2. ConfigFields(next)
    <3> DEFINE l == IF r.ask.platforms = None THEN config.platforms ELSE r.ask.platforms
    <3>1. next = [adapter |-> config.adapter, version |-> Current, platforms |-> l, tools |-> config.tools]
      BY <1>11, BumpedRecord
    <3> HIDE DEF l, next
    <3> QED BY <3>1 DEF ConfigFields
  <2>3. at \in {"context", "truncate"}
    OBVIOUS
  <2> HIDE DEF next, at
  <2> QED BY <1>2, <2>1, <2>2, <2>3 DEF Caching, Rewriting
<1>12. CASE I!Load(p)
  <2>1. CASE I!Step(p, "refused")
    BY <1>1, <2>1 DEF Caching, Rewriting
  <2>2. ASSUME I!Loads(project.config) PROVE ConfigFields(project.config)
    BY <2>2 DEF ProjectInv, ProjectFields, I!Loads
  <2>3. CASE I!Loads(project.config) /\ I!Bump(p, project.config)
    BY <1>11, <2>2, <2>3
  <2>4. CASE /\ I!Loads(project.config)
             /\ I!Become(p, [r EXCEPT !.at = IF r.ask.verb = "sync" THEN "fetch" ELSE "resolve",
                                    !.origin = project.config.adapter.origin,
                                    !.mem = IF r.ask.verb = "sync" THEN None ELSE project.config])
    <3> DEFINE at == IF r.ask.verb = "sync" THEN "fetch" ELSE "resolve"
               mem == IF r.ask.verb = "sync" THEN None ELSE project.config
               source == project.config.adapter.origin
    <3>1. I!Become(p, [r EXCEPT !.at = at, !.origin = source, !.mem = mem])
      BY <2>4
    <3>2. (at = "fetch" /\ r.ask.verb = "sync") \/ (at = "resolve" /\ mem = project.config)
      OBVIOUS
    <3> HIDE DEF at, mem, source
    <3>3. inits'[p].at = at /\ inits'[p].ask = r.ask /\ inits'[p].mem = mem
      <4>1. RunFields(r) /\ inits'[p] = [r EXCEPT !.at = at, !.origin = source, !.mem = mem]
        BY <1>0, <3>1 DEF I!Become, ProjectInv
      <4> HIDE DEF r
      <4>2. inits'[p] = [at |-> at, ask |-> r.ask, was |-> r.was, origin |-> source, into |-> r.into,
                         left |-> r.left, mem |-> mem]
        BY <4>1, LoadedRecord
      <4> QED BY <4>2
    <3> QED BY <2>2, <2>4, <3>2, <3>3 DEF Carries, Caching, Rewriting
  <2> QED BY <1>12, <2>1, <2>3, <2>4 DEF I!Load
<1>13. CASE I!Resolve(p)
  <2>1. CASE I!Step(p, "refused")
    BY <1>1, <2>1 DEF Caching, Rewriting
  <2>2. CASE I!Keep(p, "truncate", I!Minted(r.ask))
    BY <1>0, <1>2, <2>2 DEF Caching
  <2>3. CASE r.ask.verb # "regular" /\ I!Bump(p, r.mem)
    BY <1>11, <1>13, <2>3 DEF I!Resolve, Carries
  <2> QED BY <1>13, <2>1, <2>2, <2>3 DEF I!Resolve
<1>14. CASE I!Truncate(p)
  <2>1. I!Step(p, "save") /\ r.at = "truncate"
    BY <1>14 DEF I!Truncate
  <2> QED BY <2>1, StepFields DEF Carries, Caching, Rewriting
<1>15. CASE I!Ignore(p)
  <2>1. CASE r.at = "ignore" /\ I!Keep(p, IF project.ignore.ours THEN "context" ELSE "ignore-empty", project.ignore)
    <3> DEFINE at == IF project.ignore.ours THEN "context" ELSE "ignore-empty"
    <3>1. at \in {"context", "ignore-empty"} /\ I!Keep(p, at, project.ignore)
      BY <2>1
    <3> HIDE DEF at
    <3>2. project.ignore = [own |-> project.ignore.own, ours |-> project.ignore.ours]
      BY DEF ProjectInv, ProjectFields
    <3> QED BY <1>2, <3>1, <3>2 DEF Caching, Rewriting
  <2>2. CASE r.at = "ignore-empty" /\ I!Step(p, "ignore-write")
    BY <2>2, StepFields DEF Carries, Caching, Rewriting
  <2>3. CASE I!Step(p, "context")
    BY <1>1, <2>3 DEF Caching, Rewriting
  <2> QED BY <1>15, <2>1, <2>2, <2>3 DEF I!Ignore
<1>16. CASE \/ I!Stumble(p) \/ I!Save(p) \/ I!Wasm(p) \/ I!WasmWrite(p) \/ I!EmptyRegistry(p)
            \/ I!Context(p) \/ I!Assemble(p) \/ I!WriteAgents(p) \/ I!SaveLock(p)
  <2> DEFINE Plain == {"wasm", "wasm-write", "registry", "registry-write", "ignore", "refused"} \cup Late
  <2>1. \E at \in Plain : I!Step(p, at) \/ \E mem : I!Keep(p, at, mem)
    <3>1. {"context", "assemble", "write", "lock", "ok", "wasm", "wasm-write", "registry", "registry-write",
           "ignore", "refused"} \subseteq Plain
      BY DEF Late
    <3> HIDE DEF Plain
    <3>2. CASE I!Assemble(p)
      BY <3>1, <3>2 DEF I!Assemble
    <3> QED BY <1>16, <3>1, <3>2
            DEF I!Stumble, I!Refuse, I!Save, I!Wasm, I!WasmWrite, I!AfterWasm, I!EmptyRegistry, I!Context, I!WriteAgents, I!SaveLock
  <2>2. Plain \cap ({"fetch", "resolve", "ignore-empty", "ignore-write"} \cup Caching \cup Rewriting) = {}
    BY DEF Caching, Rewriting, Late
  <2> HIDE DEF Plain
  <2> QED BY <1>1, <1>2, <2>1, <2>2
<1> QED BY <1>3, <1>4, <1>6, <1>7, <1>8, <1>9, <1>10, <1>12, <1>13, <1>14, <1>15, <1>16 DEF Proceeds

\* What holds of every run, those that others came between included.
ProjectKept == ProjectInv /\ \A p \in Processes : Carries(inits[p])

LEMMA KeptGoes ==
    ASSUME MarksAreMarks, ProjectKept, [I!Next]_(I!initVars)
    PROVE  ProjectKept'
<1> USE DEF ProjectKept
<1>1. ASSUME NEW p \in Processes, Proceeds(p) PROVE ProjectKept'
  <2>1. ProjectInv'
    BY <1>1, DirsGoes, FetchGoes, ClearGoes, MakeGoes, OpenGoes, FilledGoes, StumbleGoes, StampGoes, LoadGoes,
       ResolveGoes, TruncateGoes, SaveGoes, WasmGoes, WasmWriteGoes, EmptyRegistryGoes, IgnoreGoes,
       ContextGoes, AssembleGoes, WriteAgentsGoes, SaveLockGoes DEF Proceeds
  <2>2. Carries(inits'[p])
    BY <1>1, CarriesGoes
  <2>3. \A q \in Processes \ {p} : Carries(inits'[q])
    BY <1>1, OthersStay
  <2> QED BY <2>1, <2>2, <2>3
<1>2. ASSUME \A p \in Processes : \/ /\ inits'[p].at = inits[p].at /\ inits'[p].ask = inits[p].ask
                                     /\ inits'[p].into = inits[p].into /\ inits'[p].mem = inits[p].mem
                                  \/ inits'[p].at \in {"dirs", "load", "killed"},
             ProjectInv'
      PROVE  ProjectKept'
  BY <1>2 DEF Carries, Caching, Rewriting
<1>3. ASSUME NEW p \in Processes, I!Begin(p) PROVE ProjectKept'
  <2>1. PICK ask \in Asks :
        inits' = I!Alone(p, [I!Idle EXCEPT
            !.at = IF ask.verb \in {"regular", "workspace"} THEN "dirs" ELSE "load",
            !.ask = ask, !.origin = ask.origin,
            !.was = IF \E q \in Processes : I!Running(q) THEN None ELSE project])
    BY <1>3 DEF I!Begin
  <2>2. inits'[p].at \in {"dirs", "load"}
    BY <2>1 DEF I!Alone, I!Idle
  <2>3. \A q \in Processes \ {p} : /\ inits'[q].at = inits[q].at /\ inits'[q].ask = inits[q].ask
                                   /\ inits'[q].into = inits[q].into /\ inits'[q].mem = inits[q].mem
    <3> TAKE q \in Processes \ {p}
    <3>1. RunFields(inits[q]) /\ inits'[q] = [inits[q] EXCEPT !.was = None]
      BY <2>1 DEF I!Alone, ProjectInv
    <3> QED BY <3>1 DEF RunFields
  <2> QED BY <1>2, <1>3, <2>2, <2>3, BeginGoes
<1>4. ASSUME NEW p \in Processes, I!Kill(p) PROVE ProjectKept'
  <2>1. inits' = [inits EXCEPT ![p] = [I!Idle EXCEPT !.at = "killed"]]
    BY <1>4 DEF I!Kill
  <2>2. inits'[p].at = "killed" /\ \A q \in Processes \ {p} : inits'[q] = inits[q]
    BY <2>1 DEF I!Idle, ProjectInv
  <2> QED BY <1>2, <1>4, <2>2, KillGoes
<1>5. CASE I!Touch
  <2>1. \A q \in Processes : /\ inits'[q].at = inits[q].at /\ inits'[q].ask = inits[q].ask
                             /\ inits'[q].into = inits[q].into /\ inits'[q].mem = inits[q].mem
    <3> TAKE q \in Processes
    <3>1. RunFields(inits[q]) /\ inits'[q] = [inits[q] EXCEPT !.was = None]
      BY <1>5 DEF I!Touch, ProjectInv
    <3> QED BY <3>1 DEF RunFields
  <2> QED BY <1>2, <1>5, <2>1, TouchGoes
<1>6. CASE UNCHANGED I!initVars
  <2>1. project' = project /\ inits' = inits
    BY <1>6 DEF I!initVars
  <2>2. \A p \in Processes : Going(p) => Going(p)'
    <3> SUFFICES ASSUME NEW p \in Processes, Going(p) PROVE Going(p)'
      OBVIOUS
    <3>1. \A a : I!Resolves(a)' <=> I!Resolves(a)
      BY <2>1, CacheSame
    <3>2. \A a, w : I!Sensible(a, w)' <=> I!Sensible(a, w)
      BY <2>1, CacheSame
    <3>3. TheirsKept(inits[p])'
      BY <2>1 DEF Going, TheirsKept
    <3>4. inits[p].at \in Caching => FillsOwn(inits[p], I!Wanted(p))'
      BY <2>1 DEF Going, FillsOwn, I!Wanted
    <3>5. inits[p].ask.verb = "regular" => RegularHas(inits[p])'
      BY <2>1, <3>1 DEF Going, RegularHas
    <3>6. inits[p].ask.verb \in {"regular", "workspace"} => InitHas(inits[p])'
      BY <2>1 DEF Going, InitHas
    <3>7. inits[p].ask.verb = "workspace" => WorkspaceHas(inits[p])'
      BY <2>1 DEF Going, WorkspaceHas
    <3>8. inits[p].ask.verb = "upgrade" => UpgradeHas(inits[p])'
      BY <2>1 DEF Going, UpgradeHas
    <3>9. inits[p].ask.verb = "sync" => SyncHas(inits[p])'
      BY <2>1 DEF Going, SyncHas
    <3> QED BY <2>1, <3>2, <3>3, <3>4, <3>5, <3>6, <3>7, <3>8, <3>9 DEF Going
  <2>3. ProjectInv'
    <3>1. ProjectFields(project)'
      BY <2>1 DEF ProjectInv, ProjectFields, ConfigFields
    <3> QED BY <2>1, <2>2, <3>1 DEF ProjectInv, I!Running
  <2> QED BY <1>2, <2>1, <2>3
<1> QED BY <1>1, <1>3, <1>4, <1>5, <1>6 DEF I!Next, Proceeds

\* What a run that nothing comes between knows when it is over is what it was for.
LEMMA GoingHeals ==
    ASSUME ProjectFields(project), NEW p, Going(p)
    PROVE  /\ inits[p].at = "ok" => I!Delivered(inits[p])
           /\ inits[p].at = "refused" => ~ I!Sensible(inits[p].ask, inits[p].was)
<1> DEFINE r == inits[p]
<1>1. r.at = "refused" => ~ I!Sensible(r.ask, r.was)
  BY DEF Going
<1>2. ASSUME r.at = "ok" PROVE I!Delivered(r)
  <2>1. "ok" \in Onward \cap Saved \cap After \cap Late
    BY DEF Onward, Saved, After, Late
  <2>2. TheirsKept(r) /\ ProjectFields(r.was)
    BY DEF Going
  <2>3. /\ r.was.agents # None => project.agents = r.was.agents
        /\ r.was.wasm # None => project.wasm = r.was.wasm
        /\ project.ignore.own = r.was.ignore.own
    BY <1>2, <2>2 DEF TheirsKept
  <2>4. r.ask.verb \in {"regular", "workspace"} => InitHas(r)
    BY DEF Going
  <2>5. r.ask.verb \in {"regular", "workspace"} =>
            /\ project.config = I!Minted(r.ask) /\ project.wasm # None /\ project.ignore.ours
            /\ project.slot \/ project.agents # None
    BY <1>2, <2>1, <2>4 DEF InitHas
  <2>6. ASSUME r.ask.verb = "regular"
        PROVE  /\ project.dirs[Offers[r.origin].name] = I!Copy(r.origin, Offers[r.origin].files)
               /\ project.stamp = r.origin /\ I!Resolves(I!Adapter(r.ask))
               /\ Offers[r.origin].packs # {} => project.dirs[Codex] = I!CodexOf(r.ask, r.origin)
    BY <1>2, <2>1, <2>6 DEF Going, RegularHas
  <2>7. ASSUME r.ask.verb = "sync", Offers[r.origin].packs # {} PROVE project.dirs[Codex] = I!CodexOf(r.ask, r.origin)
    BY <1>2, <2>7 DEF Going, SyncHas
  <2>8. ASSUME r.ask.verb = "upgrade"
        PROVE  project = [r.was EXCEPT !.config = I!Bumped(@, r.ask), !.agents = project.agents, !.lock = project.lock]
    <3>1. /\ project.dir = r.was.dir /\ project.dirs = r.was.dirs /\ project.stamp = r.was.stamp
          /\ project.wasm = r.was.wasm /\ project.ignore = r.was.ignore /\ project.registry = r.was.registry
          /\ project.config = I!Bumped(r.was.config, r.ask) /\ project.slot = r.was.slot
      BY <1>2, <2>1, <2>2, <2>8 DEF Going, UpgradeHas, TheirsKept
    <3> DEFINE w == r.was
               c == I!Bumped(w.config, r.ask)
               a == project.agents
               l == project.lock
    <3>2. w = [dir |-> w.dir, config |-> w.config, dirs |-> w.dirs, stamp |-> w.stamp, agents |-> w.agents,
               lock |-> w.lock, wasm |-> w.wasm, ignore |-> w.ignore, registry |-> w.registry, slot |-> w.slot]
      BY <2>2 DEF ProjectFields
    <3>3. project = [dir |-> w.dir, config |-> c, dirs |-> w.dirs, stamp |-> w.stamp, agents |-> a,
                     lock |-> l, wasm |-> w.wasm, ignore |-> w.ignore, registry |-> w.registry, slot |-> w.slot]
      BY <3>1 DEF ProjectFields
    <3> HIDE DEF w, c, a, l
    <3>4. [w EXCEPT !.config = c, !.agents = a, !.lock = l]
            = [[[w EXCEPT !.config = c] EXCEPT !.agents = a] EXCEPT !.lock = l]
      OBVIOUS
    <3>5. [w EXCEPT !.config = c] = [dir |-> w.dir, config |-> c, dirs |-> w.dirs,
               stamp |-> w.stamp, agents |-> w.agents, lock |-> w.lock, wasm |-> w.wasm, ignore |-> w.ignore,
               registry |-> w.registry, slot |-> w.slot]
      BY <3>2
    <3>6. [[dir |-> w.dir, config |-> c, dirs |-> w.dirs,
               stamp |-> w.stamp, agents |-> w.agents, lock |-> w.lock, wasm |-> w.wasm, ignore |-> w.ignore,
               registry |-> w.registry, slot |-> w.slot] EXCEPT !.agents = a]
            = [dir |-> w.dir, config |-> c, dirs |-> w.dirs,
               stamp |-> w.stamp, agents |-> a, lock |-> w.lock, wasm |-> w.wasm, ignore |-> w.ignore,
               registry |-> w.registry, slot |-> w.slot]
      OBVIOUS
    <3>7. [[dir |-> w.dir, config |-> c, dirs |-> w.dirs,
               stamp |-> w.stamp, agents |-> a, lock |-> w.lock, wasm |-> w.wasm, ignore |-> w.ignore,
               registry |-> w.registry, slot |-> w.slot] EXCEPT !.lock = l]
            = [dir |-> w.dir, config |-> c, dirs |-> w.dirs,
               stamp |-> w.stamp, agents |-> a, lock |-> l, wasm |-> w.wasm, ignore |-> w.ignore,
               registry |-> w.registry, slot |-> w.slot]
      OBVIOUS
    <3>8. [w EXCEPT !.config = c, !.agents = a, !.lock = l] = project
      BY <3>3, <3>4, <3>5, <3>6, <3>7, Zenon
    <3> QED BY <3>8 DEF w, c, a, l
  <2> HIDE DEF r
  <2> QED BY <2>3, <2>5, <2>6, <2>7, <2>8 DEF I!Delivered
<1> QED BY <1>1, <1>2

LEMMA KeptHeals == ProjectKept => I!InitHeals
BY GoingHeals DEF ProjectKept, ProjectInv, I!InitHeals

LEMMA KeptFirst == I!Init => ProjectKept
<1> SUFFICES ASSUME I!Init PROVE ProjectKept
  OBVIOUS
<1>1. \A p \in Processes : Carries(inits[p])
  BY DEF I!Init, I!Idle, Carries, Caching, Rewriting
<1> QED BY <1>1, InitGoes DEF ProjectKept

(***************************************************************************)
(* A run of init, of init --upgrade or of rules sync that nothing comes    *)
(* between delivers what it was asked for, whatever runs that were killed, *)
(* other runs, edits and a deleted cache left behind, and is refused only  *)
(* for what was asked of it; what is the operator's stays as it was.       *)
(***************************************************************************)
THEOREM RunsHealTheProject ==
    ASSUME MarksAreMarks
    PROVE  PartsSpec => []InitHeals
<1> DEFINE Inv == part = "init" => ProjectKept
<1>1. PartsInit => Inv
  BY InitPartStart, KeptFirst
<1>2. Inv /\ [PartsNext]_allVars => Inv'
  BY InitPartStep, KeptGoes
<1>3. Inv => InitHeals
  BY KeptHeals DEF InitHeals
<1> QED BY <1>1, <1>2, <1>3, PTL DEF PartsSpec

=================================================================================
