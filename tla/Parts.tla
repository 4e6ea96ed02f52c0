---------------------------------- MODULE Parts ----------------------------------
(***************************************************************************)
(* Parts of the system that share no state with one another, explored by   *)
(* one run: a behaviour is a behaviour of one of them, and the variables   *)
(* of the others stay Off. In a behaviour of none, Kernels applies the     *)
(* pure algorithms.                                                        *)
(***************************************************************************)
EXTENDS Naturals, Sequences, FiniteSets

CONSTANTS None, Off, Malformed

\* SourceOps
CONSTANTS Sources, Slices, Bindings, Survey, LeadSets, MaxRounds, Disciplined, Nothing, Invalid

\* WorkspaceSlot
CONSTANTS Main, Plans, Scaffolded, MaxCommits, MaxFaults

\* ToolCache
CONSTANTS Runs, Gcs, Manifests, Bytes, MaxKilled, Torn, Junk

\* ComponentCatalog
CONSTANTS Builders, Prints, Labels, Compositions, Caches, PartLists, Catalogs, MaxEdits

\* AssetExports
CONSTANTS Assets, Setups, MaxPrepares

\* ProjectInit
CONSTANTS Processes, Offers, Taken, Local, Asks, Documents, Projects, Current, MaxKills, MaxTouches, Codex

\* PlanStore
CONSTANTS Actors, NoOne, Hazards, MaxEvents, Names, Verbs, InitPlans, Proposals, Bootstraps

ASSUME WorkspaceSlotAssumption ==
    /\ Len(Plans) \in Nat \ {0} /\ Plans \in Seq({Plans[i] : i \in 1 .. Len(Plans)})
    /\ \A i \in 1 .. Len(Plans) : Plans[i] \notin {Main, None}
    /\ Main # None /\ None # "synced" /\ Scaffolded \subseteq BOOLEAN /\ MaxCommits \in Nat

ASSUME AssetExportsAssumption ==
    /\ Assets \subseteq Nat /\ None \notin Builders /\ None \notin {"own", "gone", "auto", "map"}
    /\ \A x \in Setups :
        /\ x.role \in [Assets -> {"icon", "illustration", "photo", "app-icon"}]
        /\ x.sourced \subseteq Assets /\ x.refs \subseteq Assets

ASSUME ComponentCatalogAssumption ==
    /\ Labels \subseteq Nat /\ IsFiniteSet(Labels) /\ Prints \subseteq Nat \ {0} /\ IsFiniteSet(Prints)
    /\ None \notin Builders /\ None \notin Labels \X ({0} \cup Prints)
    /\ \A d \in SUBSET (Labels \X ({0} \cup Prints)) :
        None \notin [d -> [status : {"confirmed", "rejected"}, print : Prints \cup {None}]]
    /\ \A l \in PartLists : l = None \/ DOMAIN l \subseteq Labels
    /\ \A c \in Catalogs : c = None \/
        /\ DOMAIN c \subseteq Labels \X ({0} \cup Prints)
        /\ c \in [DOMAIN c -> [status : {"confirmed", "rejected"}, print : Prints \cup {None}]]
        /\ \A s \in DOMAIN c : s[2] # 0 => c[s].print = s[2]

ASSUME ProjectInitAssumption ==
    /\ None # Torn /\ Torn # "empty" /\ None # 0 /\ Current \in Nat
    /\ \A o \in DOMAIN Offers : o \notin {None, Torn} /\ Offers[o].name # Codex
    /\ \A a \in Asks : /\ a.verb \in {"regular", "workspace", "upgrade", "sync"}
                       /\ a.verb = "regular" => a.origin \in DOMAIN Offers
    /\ \A x \in Projects :
        /\ x = [dir |-> x.dir, config |-> x.config, dirs |-> x.dirs, stamp |-> x.stamp, agents |-> x.agents,
                lock |-> x.lock, wasm |-> x.wasm, ignore |-> x.ignore, registry |-> x.registry, slot |-> x.slot]
        /\ x.ignore = [own |-> x.ignore.own, ours |-> x.ignore.ours]
        /\ {Offers[o].name : o \in DOMAIN Offers} \cup {Codex} \subseteq DOMAIN x.dirs
        /\ x.dirs = [d \in DOMAIN x.dirs |-> x.dirs[d]]
        /\ x.config \notin {None, Torn} =>
              x.config = [adapter |-> x.config.adapter, version |-> x.config.version,
                          platforms |-> x.config.platforms, tools |-> x.config.tools]

VARIABLES
    part,                                                       \* the part explored
    adapter, lanes, evidence, discovery, job, committed,         \* SourceOps
    origin, repos, slot, central, change, run, fresh, faults,   \* WorkspaceSlot
    decl, dirs, cmd, met,                                       \* ToolCache
    composition, cached, pins, components, builder, edits,      \* ComponentCatalog
    setup, master, pinned, exports, build, cut, prepares, touched, lapses,  \* AssetExports
    project, inits, spent,                                      \* ProjectInit
    plan, holder, command, journal                              \* PlanStore

O == INSTANCE SourceOps
W == INSTANCE WorkspaceSlot
T == INSTANCE ToolCache
N == INSTANCE ComponentCatalog
X == INSTANCE AssetExports WITH pins <- pinned, run <- build, edits <- touched
I == INSTANCE ProjectInit
P == INSTANCE PlanStore WITH run <- command

ASSUME DocumentsAssumption ==
    /\ \A doc \in Documents : I!Fenced(doc)
    /\ \A x \in Projects : I!Fenced(x.agents)

ASSUME SourceOpsAssumption ==
    /\ MaxRounds \in Nat /\ Disciplined \in BOOLEAN /\ None # Nothing /\ Nothing \notin O!Artifact
    /\ \A b \in Bindings : DOMAIN b = Sources      \* plan.yaml binds every source
    /\ \A leads \in LeadSets : leads \in Seq({leads[i] : i \in 1 .. Len(leads)})

ASSUME PlanStoreAssumption ==
    /\ IsFiniteSet(Names) /\ NoOne \notin Actors
    /\ Hazards \subseteq {"unlocked", "orphan", "crash"}
    /\ Verbs \subseteq {"create", "propose", "add", "amend", "remove", "approve",
                        "next", "done", "undo", "archive"}
    /\ Proposals \subseteq [rank : [Names -> Nat], deps : [Names -> SUBSET Names]]
    /\ Bootstraps \subseteq Seq(Names)
    /\ InitPlans \subseteq {p \in P!PlanType : ~ P!MultipleInProgress(p) /\ P!StartedInOrder(p)}

sourceVars == <<adapter, lanes, evidence, discovery, job, committed>>
slotVars == <<origin, repos, slot, central, change, run, fresh, faults>>
cacheVars == <<decl, dirs, cmd, met>>
catalogVars == <<composition, cached, pins, components, builder, edits>>
exportVars == <<setup, master, pinned, exports, build, cut, prepares, touched, lapses>>
initVars == <<project, inits, spent>>
planVars == <<plan, holder, command, journal>>

SourceOff == adapter = Off /\ lanes = Off /\ evidence = Off /\ discovery = Off /\ job = Off /\ committed = Off
SlotOff == origin = Off /\ repos = Off /\ slot = Off /\ central = Off /\ change = Off /\ run = Off /\ fresh = Off /\ faults = Off
CacheOff == decl = Off /\ dirs = Off /\ cmd = Off /\ met = Off
CatalogOff == composition = Off /\ cached = Off /\ pins = Off /\ components = Off /\ builder = Off /\ edits = Off
ExportsOff == setup = Off /\ master = Off /\ pinned = Off /\ exports = Off /\ build = Off /\ cut = Off /\ prepares = Off /\ touched = Off /\ lapses = Off
InitOff == project = Off /\ inits = Off /\ spent = Off
PlanOff == plan = Off /\ holder = Off /\ command = Off /\ journal = Off

PartsInit ==
    \/ part = "none" /\ SourceOff /\ SlotOff /\ CacheOff /\ CatalogOff /\ ExportsOff /\ InitOff /\ PlanOff
    \/ part = "sources" /\ O!Init /\ SlotOff /\ CacheOff /\ CatalogOff /\ ExportsOff /\ InitOff /\ PlanOff
    \/ part = "slot" /\ W!Init /\ SourceOff /\ CacheOff /\ CatalogOff /\ ExportsOff /\ InitOff /\ PlanOff
    \/ part = "cache" /\ T!Init /\ SourceOff /\ SlotOff /\ CatalogOff /\ ExportsOff /\ InitOff /\ PlanOff
    \/ part = "names" /\ N!Init /\ SourceOff /\ SlotOff /\ CacheOff /\ ExportsOff /\ InitOff /\ PlanOff
    \/ part = "exports" /\ X!Init /\ SourceOff /\ SlotOff /\ CacheOff /\ CatalogOff /\ InitOff /\ PlanOff
    \/ part = "init" /\ I!Init /\ SourceOff /\ SlotOff /\ CacheOff /\ CatalogOff /\ ExportsOff /\ PlanOff
    \/ part = "plan" /\ P!Init /\ SourceOff /\ SlotOff /\ CacheOff /\ CatalogOff /\ ExportsOff /\ InitOff

PartsNext ==
    \/ /\ part = "sources" /\ O!Next
       /\ UNCHANGED <<part, slotVars, cacheVars, catalogVars, exportVars, initVars, planVars>>
    \/ /\ part = "slot" /\ W!Next
       /\ UNCHANGED <<part, sourceVars, cacheVars, catalogVars, exportVars, initVars, planVars>>
    \/ /\ part = "cache" /\ T!Next
       /\ UNCHANGED <<part, sourceVars, slotVars, catalogVars, exportVars, initVars, planVars>>
    \/ /\ part = "names" /\ N!Next
       /\ UNCHANGED <<part, sourceVars, slotVars, cacheVars, exportVars, initVars, planVars>>
    \/ /\ part = "exports" /\ X!Next
       /\ UNCHANGED <<part, sourceVars, slotVars, cacheVars, catalogVars, initVars, planVars>>
    \/ /\ part = "init" /\ I!Next
       /\ UNCHANGED <<part, sourceVars, slotVars, cacheVars, catalogVars, exportVars, planVars>>
    \/ /\ part = "plan" /\ P!Next
       /\ UNCHANGED <<part, sourceVars, slotVars, cacheVars, catalogVars, exportVars, initVars>>

allVars == <<part, sourceVars, slotVars, cacheVars, catalogVars, exportVars, initVars, planVars>>

PartsSpec == PartsInit /\ [][PartsNext]_allVars

-----------------------------------------------------------------------------
(***************************************************************************)
(* The properties of the parts; each is stated, and said in words, in the  *)
(* module of its part.                                                     *)
(***************************************************************************)

\* The journal tells the status of every entry, without crashes (PlanStore).
JournalAgrees == part = "plan" => P!JournalAgrees

\* Evidence is what the agent of the source wrote last (SourceOps).
EvidenceIsOwn == part = "sources" => O!EvidenceIsOwn

\* No lead of a source's last survey is lost from discovery.md (SourceOps).
LeadsAreKept == part = "sources" => O!LeadsAreKept

\* Uncommitted work stays on the branch it was made on (WorkspaceSlot).
EditsStay == part = "slot" => W!EditsStay

\* Branches of changes grow from origin's history (WorkspaceSlot).
ForksFromMain == part = "slot" => W!ForksFromMain

\* A synced slot can be prepared (WorkspaceSlot).
SyncedIsPreparable == part = "slot" => W!SyncedIsPreparable

\* A push replaces nothing it has not looked at (WorkspaceSlot).
OnlySeenIsReplaced == [][part = "slot" => W!SeenIsReplaced]_allVars

\* A run loads what its manifest declares (ToolCache).
RunsDeclared == part = "cache" => T!RunsDeclared

\* A tool command that nothing runs beside succeeds (ToolCache).
AloneSucceeds == part = "cache" => T!AloneSucceeds

\* A bind keeps the names there are, and records the ones it is given (ComponentCatalog).
BindsKeepNames == [][part = "names" => N!NamesKept]_allVars

\* What a build is handed is exported in full or pinned by the operator (AssetExports).
ExportsAreWhole == [][part = "exports" => X!HandedWhole]_allVars

\* A run on a project that nothing comes between heals it (ProjectInit).
InitHeals == part = "init" => I!InitHeals

\* A run that writes AGENTS.md keeps the operator's lines in it (ProjectInit).
NotesKept == [][part = "init" => I!NotesKept]_allVars

===================================================================================
