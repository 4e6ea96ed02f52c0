# TLA+ models of the specify CLI

`specify` is a command line tool that keeps a development workflow in files: a
plan of slices, a directory for each slice, baseline specifications that
finished slices are merged into, a catalogue of decisions, a journal, caches of
tools and clones. There is no server. Every command is a process that reads files, decides, and
writes files, and several of them run at a time: an execute session of an agent, an
operator's shell, a second session that should not be there. What can go wrong is what
goes wrong between processes and files, and that is what most of these modules are about;
the rest are the pure algorithms that decide what the files say.

Paths below are relative to the root of the repository. `W/` stands for
`crates/workflow/src/`, `H/` for `src/runtime/commands/`.

## The system

| component | state | operations | what makes it correct | modelled |
|---|---|---|---|---|
| plan (`W/change/plan`, `H/plan`) | `plan.yaml`: lifecycle, entries in order with status and depends-on | create, propose, add, amend, remove, transition, next, archive, status | one entry in progress, dependency order, never stuck, approved work kept | `PlanEntries`, `PlanAtomic`, `PlanStore` |
| plan lock (`W/plan_lock.rs`, `H/plan/lock.rs`) | `.specify/plan.lock`: OS lock and a body naming its holder | the wrapper `plan lock -- <cmd>`, the probe of the gated verbs | one driver, comes free, probe errs on one side only | `PlanLock`, `DriverLock` |
| source operations (`H/source/op.rs`, `H/source`) | scratch lanes, `discovery.md`, evidence files | prepare and finalize of survey and extract | what is staged is what this run produced, no lead is lost | `SourceOps` |
| slice refine and build (`W/slice`, `H/slice`) | the slice directory, `metadata.yaml`, `build/` | create, synthesize, validate, transition, build prepare and finalize, drop | a built slice was built from one synthesis; stops are about this slice | `SliceRefine` |
| synthesis kernel, provenance (`W/synthesis*`, `crates/model`) | none; a response in, artifacts out | project, render, parse back, validate, index | what is written passes validation; stored and recomputed provenance agree | `Synthesis` |
| delta merge (`W/merge/engine.rs`, `validate.rs`, `crates/model/src/spec.rs`) | none; texts in, text out | merge, validate_baseline | does what the sections say, rerun does no harm, order of slices does not matter | `MergeEngine`, `SpecBaseline`, `BaselineDeltas` |
| composition merge (`W/merge/composition*`) | the composition baseline | merge with its gate | no screen is lost silently | `CompositionMerge` |
| slice merge (`W/merge/slice`, `H/slice/merge.rs`) | baselines, slice directory, archive, journal, plan entry | merge run, discard, status | all or nothing, done means merged, claims get settled | `AtomicMerge`, `SliceMerge` (partly) |
| decision catalogue (`W/decisions.rs`) | `.specify/decisions/DEC-NNNN-*.md` | promote | unique numbers, only grows, references closed | `DecisionCatalogue` |
| journal (`W/journal`) | `journal.jsonl`, `journal.dropped` | append_batch, emit_best_effort, read, read_recent | batch is whole, newest match is found | `PlanStore`, `JournalTail` (partly) |
| registry and workspace (`W/registry`, `H/workspace`) | `registry.yaml`, topology lock, git slots, mirrors | add, remove, sync, prepare-branch, push, clone commit | no local work lost, a synced slot can be prepared | `WorkspaceSlot` (remote slots) |
| WASI tools (`crates/tool`) | the user's tool cache, sidecars | fetch, run, gc | the module that runs is the one declared | `ToolCache` (the cache) |
| lint (`crates/standards`) | none | lint | fails exactly when a gating rule is broken and not excused | `Lint` (partly) |
| component catalog (`H/catalog/infer.rs`, `wasi-tools/vectis/src/infer.rs`, `W/design_system.rs`) | `components.yaml`, `parts.yaml` | report, bind | names that were given stand, a group has one name | `ComponentCatalog` |
| asset exports (`W/slice/build/materialize_scope.rs`, `H/slice/build.rs`, `wasi-tools/vectis/src/materialize`) | `assets.yaml`, `assets/exports` | prepare, materialize | what a builder is handed is exported in full or pinned by hand | `AssetExports` |
| init and the agents document (`W/init`, `W/agents`, `W/adapter`, `H/init.rs`, `H/agents`, `H/rules/sync.rs`) | `project.yaml`, `AGENTS.md` and its lock, `registry.yaml`, `.gitignore`, `wasm-pkg.toml`, adapter and rules cache | init, init --workspace, init --upgrade, rules sync | what a killed run left is healed by the next, the operator's files and lines are kept | `ProjectInit` |
| upgrade of the binary, plugins | none | run installers | | no |
| tool manifest, diagnostics, schema, error, validators of the guest tools | none that persists | validate, render | local text checks | no |

How they interact:

* Every verb that writes goes through `yaml_write` / `bytes_write`: a temporary file and
  a rename. A reader never sees half a file, and two writers never mix; but nothing is
  held from the load to the save (`with_state`, `W/config/atomic.rs:67`).
* What keeps two verbs apart is the plan lock. A driver runs under
  `specify plan lock -- <cmd>`. `plan next`, the per-entry transitions and, with a
  plan, `slice merge run` probe the lock and refuse to run if nobody holds it. The
  other verbs do not look at it.
* An agent stands between the two phases of survey, extract and build: prepare writes a
  request, the agent writes files, finalize reads, validates and stages them.
* `slice merge run` writes decisions, then baselines, then the metadata, then moves the
  slice to the archive, logs, and marks the plan entry. Each is a file of its own.
* `plan status` reads the plan, the slice metadata and the newest event of the slice in
  the journal, and tells the driver what to do next.
* A slot is a worktree of a bare mirror; sync makes it, prepare-branch switches it to the
  change's branch, a merge commits into it, push publishes it. Git does the work.
* `slice build --phase prepare` of a Vectis target runs `vectis materialize` for the images the
  slice needs; `catalog infer` runs `vectis infer` for the groups of its screens. Both write
  files that builds of other slices use and that the operator edits.
* The tool cache belongs to the user and is shared by all projects, without a lock.

What is hard: interleaved commands on one file, a lock that is probed and not held by
the verbs themselves, crashes between any two of the writes above, retries on
what a crash left, best-effort journal lines that decide what happens next, a scratch lane
or a cache directory two commands share, a remote that others push to. The list with lines
is under `hazards` in `PROJECT.json`.

## The modules

### Plan

**PlanEntries** has no state. A plan is a record of lifecycle, rank (the place in the list),
status and depends-on of every name. Each verb is an operator `XxxPlans(p, ..)`: the
set of plans it may write, empty when it refuses, with the validation gate
(`Structural`) where the code runs it. `Command`, `Written` and `Emitted` give the
command lines, what each makes of a loaded plan, and its journal events.

**PlanAtomic** applies a command to the file in one step. It is the abstract
specification of the plan.

**PlanStore** is the file as the program keeps it. `Start`, `Probe`, `Load`, `Refuse`,
`Save`, `Emit` are the steps of a command; `copy` is the loaded plan. The order of probe
and load is the code's: `plan next` probes first, the transitions after the load.
`Acquire`, `Release`, `Orphan` move the lock between actors, `Crash` ends a command
anywhere. The constant `Hazards` switches unlocked actors, orphans and crashes on. The module
takes the lock to be what DriverLock says.

**DriverLock** and **PlanLock**: the lock as a holder with probes that answer, and the
lock file system call by system call: open, try_lock, truncate, write and spawn, close;
the probe's open, try_lock, unlock; kills of a wrapper; nested wrappers, which take no
lock because their environment says it is held.

### Slices

**SourceOps**: the lanes of survey and extract. A lane is named by the adapter and the slice,
or by the word survey, and not by the source. `Prepare` empties a lane, `AgentWrites` is the agent, finalize
validates and stages. Finalize reads and writes files a step at a time for a survey, since
`discovery.md` is read, merged and written back. It writes before it logs: a finalize that fails on its journal
event has replaced the file, and the agent may mend the lane and finalize again. `committed` is history: what the last
finalize that got as far as writing was given. `Disciplined` is the skills' rule to run one
operation of a lane, and one survey, at a time.

**SliceRefine**: one slice from the claim of its plan entry to Built. An artifact stands for the
synthesis response it was written from, so that a directory of two responses can be told
from one. `Synthesize` starts a command that writes its files one by one (`WriteFile`) and
ends (`Synthesized`); `Validate`, `Refine`, `Prepare`, `Report` (the builder) and `Finalize`
are the others. `Status` is the phase or the stop that plan status reports. The driver keeps what it
has done in `mind`, and loses it when killed.

**Synthesis**: the kernel of `slice synthesize`: levels of authority, the resolution of
disagreeing claims, the projection into `model.yaml`, the rendering of `spec.md` and its
parser, the findings of `slice validate`, the index of `slice provenance`. Prose is a kind of line.

**MergeEngine** is the delta merge as operators on block lists: the conflicts, the
edited blocks, the removal that is done last, the other path for an empty baseline,
`Coherent` for `validate_baseline`, `Merged` for what may be written.
**SpecBaseline** merges delta after delta into one file; **BaselineDeltas** gives the bounded deltas and
baselines. **CompositionMerge** is the merge of screens and the gate that asks for
`--allow-composition-replace`. **Filters** is what the merge engine, the merge
of leads and `Notes` of ProjectInit do to a list: keep the elements at some places, in their order.

**AtomicMerge** merges a slice into all its files in one step. **SliceMerge** is the commit step
by step, with the driver (`Claim`, `Build`, `Dispatch`), `NextAction` for `plan status`,
and the operator's `Undo`, `Discard`, `CloseByHand`.

**DecisionCatalogue** stages a promotion in memory (numbers, what is new, what is superseded)
and writes it record by record, then the marks. A record names what it
supersedes by number or by slug.

### Around them

**JournalTail**: `read` forward and `read_recent` backward in windows, byte by byte, over
files with blank, torn and foreign lines.

**WorkspaceSlot**: sync, prepare-branch, the commit after a merge and push, a git call a step; the
environment is origin with other people's pushes, an unreachable remote, kills, and the agent who edits
tracked files (`edits`) and makes untracked ones (`news`) in the slot, also while a command runs. prepare-branch looks at
the edits in one step (`PrepareInspect`) and switches in a later one; edits in between are `late`. It never looks at untracked files, but git
may refuse a switch for them. After a failed fetch sync still shares the contracts (`Distribute`) and then fails.
A history is a sequence of commits; of a commit's tree only `project.yaml` and the version of `contracts/` are kept.

**ToolCache**: one version directory of the cache and the directories next to it that a
resolve stages, installs and backs up in; `tool run`, `tool fetch` and `tool gc` step by
step beside each other, with kills and a full disk.

**ComponentCatalog**: report, the skill that names what has no name, and bind in its three steps
(`Project` reads the parts and the bindings, `Load` adds to the catalog it reads, `Save` writes it back).
A group is its fingerprint, a slug is a label or a label with a fingerprint. `behind` is history:
whether the catalog changed since the report.

**AssetExports**: prepare's scope and its test for missing exports (`Prepare`), materialize over the
inventory it has read (`Read`, `Pick`, `Write`, `WritePins`), the gate, kills and failed writes, and
the operator's edits. An export is the files that are there; the files of one kind that differ in density only
are one or two. `cut` is history: exports whose last write did not get through.

**ProjectInit**: the four commands that set a project up, from the directories to `AGENTS.md`.
A directory of the cache is emptied and copied file by file (`Clear`, `Make`, `Open`, `Fill`, `Stamp`); `project.yaml`,
`registry.yaml` and `.gitignore` are written in place, so a kill leaves them torn or empty; `AGENTS.md`,
`context.lock` and `wasm-pkg.toml` are renamed into place. An address stands for what is found there (`Offers`); a
document is its lines, by kind. The operator edits what is theirs, and the cache may be deleted. `was` is history:
what a run found, if nothing has come between since.

**Lint**: rule layers and their resolution, applicability by adapter, language, path and artifact, order
by severity and `Origin`, the hint evaluators for
patterns, links, uniqueness, presence, cardinality and tools, deduplication by
fingerprint, directives, the findings about directives, the exit code.

**Parts** explores SourceOps, WorkspaceSlot, ToolCache, ComponentCatalog, AssetExports, ProjectInit and a
small PlanStore: they share no state, so a behaviour is a behaviour of one of them, chosen at the start, and
the variables of the others stay `Off`. **Kernels** puts beside them what is a function of its input: the algorithms
Synthesis, CompositionMerge, JournalTail and Lint, each applied to every input of a bounded set, and SpecBaseline.
One run explores all of it (`AllSpec`, which implies the `PartsSpec` of the theorems: what Kernels adds leaves the
variables of Parts as they are). The properties are those of the parts, read when their part is the one explored.

`MC*` modules give the constants their values for TLC, `*_proofs` hold the theorems.
Operators marked "Mutant of" are wrong versions of a definition, kept next to it; the
`mutants` list of `PROJECT.json` names the property that catches each.

## What is checked

| run | shows | instance |
|---|---|---|
| PlanAtomic | the driver drains the plan | 3 names, all verbs but undo, from no plan |
| PlanStore_locked | under lock discipline, with crashes, the store implements PlanAtomic, and what was approved stays | 2 names, 2 actors, all verbs, 2 events of a kind, actors symmetric |
| PlanStore_racing | without any discipline: still one entry in progress, dependency order, and a plan that can move | 2 names, 2 actors, create, propose, remove, approve, next, done; an event of a kind |
| PlanLock | one driver at a time, the abstract lock, the lock comes free | 2 sessions, one of them killable |
| SpecBaseline_report | violated: an accepted delta whose report is untrue | 3 baselines, deltas of up to 2 entries a section, 3 ids of which one malformed, a block without id |
| SliceMerge_faults | what counts as merged is in every baseline, through crashes, failed writes and the operator's hand | 2 slices, 2 files, 1 actor |
| SliceMerge_driver | all or nothing to readers; claims are settled | 2 slices, 2 files, 2 actors, no faults |
| SliceMerge_retry | violated: a torn merge cannot be retried | 2 slices, 2 files, 1 actor, crashes |
| DecisionCatalogue | unique numbers, one record each, closed references, only grows | 4 slices, 3 slugs, 2 actors, crashes |
| DecisionCatalogue_rerun | violated: a rerun forgets the marks | the same, 1 actor |
| SliceRefine | a built slice comes from one synthesis, a stop is about this slice, the slice gets built or stops | 2 domains, 2 responses, crashes, failed writes, edits by hand, 2 faults |
| Parts | the properties of the parts below | see below |

The parts, one after the other in one run:

* Synthesis: every bundle of 2 sources with up to 3 claims in up to 2 requirements. Of plain prose, what
  is rendered reads back as written and passes validation; other prose is written and then refused
  (`SynthesisValidates`). And recomputed provenance is
  the stored one (`ProvenanceAgrees`).
* Composition: baselines and deltas of 3 screens in two versions. Without the flag no screen is
  lost or replaced unseen (`CompositionKept`).
* Journal: files of up to 6 bytes, windows of 1 to 3, limits 0 to 3. The backward reader returns
  the end of what the forward reader returns (`ReadersAgree`).
* Lint: files of up to 3 lines and a second one, several rule sets. The exit code is what a
  reading of the rules line by line gives (`LintVerdict`).
* SpecBaseline: deltas of `BaselineDeltas`. A merge is what its sections say
  (`MatchesReference`), a rerun changes nothing (`NeverAppliedTwice`), disjoint deltas commute
  (`OrderIrrelevant`).
* SourceOps: 2 sources of one or two adapters, a slice called survey, a survey that lists its lead twice, 2 rounds.
  Evidence is what the agent of its source wrote for the last finalize that staged it (`EvidenceIsOwn`), and no
  lead of the last survey that was merged is lost (`LeadsAreKept`); either finalize may have failed after that.
* WorkspaceSlot: 2 changes, 2 commits, a fault. Uncommitted edits of tracked files stay on their branch (`EditsStay`), a change starts
  from main (`ForksFromMain`), a synced slot can be prepared (`SyncedIsPreparable`), a push replaces
  only what it has seen (`OnlySeenIsReplaced`).
* ToolCache: 2 resolves and a collection, a kill. What runs is what was declared, if the runs beside it declare the
  same and none of those met a collection (`RunsDeclared`); a command on its own succeeds (`AloneSucceeds`). That
  module and sidecar belong together (`NeverMixed`) is proved.
* ComponentCatalog: 2 builds, 2 groups on up to 2 screens, 2 labels, an edit. A bind whose catalog
  nobody changed since its report keeps the names there are and records those it was given
  (`BindsKeepNames`).
* AssetExports: 2 prepares, at the same time or one after the other, 2 images of one of two
  inventories, an edit, a fault. A builder gets images that are exported in full or pinned by the
  operator (`ExportsAreWhole`).
* ProjectInit: 2 runs, a new project or one of an older binary, 3 addresses of one adapter (with and
  without a rules pack, required platforms and a brief), a kill and an edit. A run that nothing comes
  between delivers what it was asked for, whatever was left behind, keeps the operator's files, and is refused
  only for what was asked (`InitHeals`). A run that writes `AGENTS.md` keeps the lines the
  operator put there while it ran, up to its read of the file (`NotesKept`).
* PlanStore: 2 names, 2 actors, no hazards. The journal tells which entries are started
  (`JournalAgrees`).

### Why the bounds are enough

`Parts` has about 6.2 million states. Two actors show every race of two commands, and every property
here is about a pair: a third adds no new kind of interleaving on one file. Three names are
what a chain, a fork and a cycle with a bystander need; two suffice for one dependency against a
race. `MaxEvents` stops new commands once an event was logged so often; with 2 every
entry is started, undone and started again. Two files are one before and one after a
crash. Two entries a section are what a duplicate needs; two ids, one malformed id and one block
without id are the classes the engine tells apart. Four slices are a chain of
supersedes by slug, by number and across slices. Two responses that share one domain, of which
one has another domain besides, are what a mixture of two syntheses needs; two faults
are a crash and a failure of the retry. A journal of 6 bytes with windows of 1 to 3 has lines longer and shorter
than a window, lines across a border, and a border on a newline. Two changes are the
least with which a slot is taken from one and given to the other. Three processes at the cache are a
winner, a loser and a collector. Two inits are one that leaves something and one that finds it, or two that
replace one directory. Two groups that want one label are what a suffix needs; two prepares are a
run that leaves something and one that finds it, or two that write one file. Actors are symmetric where there is no liveness property.

### Fairness

* `PlanAtomic!FairSpec`: the driver calls `plan next` and closes what it was given
  (weak fairness on each). The execute loop does nothing else. `Drains` assumes besides
  that the operator stops archiving the plan and changing its entries.
* `PlanLock!FairSpec`: wrapper and probe never block, so a started one goes on (weak). The
  command under a wrapper ends (strong, since it may run verbs and nested
  wrappers first); a command that never ends keeps the lock, as intended.
* `SliceMerge!FairSpec`: a merge that was started goes on (weak); the driver builds and merges
  when `plan status` says so (strong, because a standalone step may disable it for a
  moment). Run without faults: after a crash a person decides.
* `SliceRefine!FairSpec`: a running command goes on (weak on its file writes and its end).
  The driver takes the steps the skills name when their input is there: create, restart of a directory
  without metadata, extract, synthesize unless the model is orphaned, validate, refine,
  prepare, report, finalize (strong, because a killed driver starts again and
  because the operator's edits disable a step for a moment). Faults are
  bounded, so they end.

## What is proved

Every safety property of a passing run is stated by a theorem, but for four properties of recursive algorithms
(see the end of this section). TLAPS proves the following for every value of the constants that the named assumptions allow.

*PlanStore_proofs.* The code has no lock of its own around load and save, so an invariant of
the file alone is not inductive: a stale copy may be saved any time later. The
strengthening is that every `copy` of a running command was sound when it was
the file: `Sound(plan)` and `Sound(run[a].copy)` for all `a`. The verbs preserve `Sound`
of whatever they loaded (one lemma a verb), so each save does.
This gives `TypeCorrect`, `AtMostOneInProgress` (undo not among the verbs) and
`StartedInDependencyOrder` (neither undo nor amend), for any hazards.
`LockedIsAtomic` needs lock discipline (no "unlocked", no "orphan"): then an actor that is
not idle holds the lock, hence at most one is not idle, hence its copy is still the file, and
its save is a step of PlanAtomic; all other steps stutter.
`JournalTellsStatus`, without faults and without `archive`: what the file is ahead of the journal is what the
one command that has saved still has to emit (`JournalInv`), and each verb emits exactly the advance
or the walk back it made (`WrittenOwes`).

`AlwaysAbleToMove`, for all verbs and any hazards: a plan that is not finished has an entry that is
in progress or can be started. The invariant `Startable` says that no entry depends on an unknown
name and that every non-empty set of entries has one that depends on none of the set, which is how
`Cyclic` is written; again every copy has it. So among the entries that are not done one has only
done dependencies; of these, the one with the least rank (by well-founded induction on the
naturals) is what `plan next` takes. Each verb keeps the invariant, most because the validation gate
runs on what they are about to save. `ApprovalSticks`, within lock sessions: PlanAtomic keeps
approved plans and entries (`AtomicKeeps`), so by `LockedIsAtomic` the store does. Without the lock a
stale save may take an approval back.

*PlanLock_proofs.* `OwnerKnown` is close to inductive: the lock is a wrapper's exactly
between its try_lock and its close, a probe's exactly while it has "taken" it. `OneDriver`
adds that a spawned command has a wrapper in its last state unless that wrapper is killable.
`LockImplementsDriverLock` maps lock and probe to holder and answer; a "held" answer is
justified by the lock's owner, a wrapper or another probe that is still asking.

*SliceMerge_proofs.* `MergeIsAtomic`: when every merge has the plan (`Planned`) and there
are no crashes or failed writes, the commit implements AtomicMerge. The mapping `Seen` shows a
file that a merge has yet to write as the merge is going to write it, so that the slice goes in
at the step that gets past the decisions. The invariants are the shapes of a running merge
(`Shape`), that one merge runs at a time (`Alone`, from the probe and the lock), and that what
is staged was computed from the baselines as they are (`StagedInv`).
`DoneSlicesLanded` and `ArchivedSlicesLanded` hold with all faults: a slice whose
metadata says merged, whose plan entry is done by a merge, or that lies in the archive as merged has its part in every
baseline. They rest on one fact about the merge engine, that an accepted delta
is in the result and stays there under deltas of other slices. TLC evaluates that fact for the instance
(`FilesAssumption` in MCSliceMerge).

*SliceRefine_proofs.* `RefinedIsWhole`: a slice that became Refined undisturbed holds the files of one
response. The invariant follows a synthesis through its writes (`WriteInv`), what
the driver remembers (`MindInv`), and the build (`BuildInv`). `NoForeignStop`:
`plan status` stops at build-failed only when a build of this very slice failed, or when
a journal line was lost.

*DecisionCatalogue_proofs*, for `Locked`. The invariant says what a promotion under way has yet to
write is what staging computed against the catalogue: its new numbers are above all
numbers on disk and distinct, its pairs of slice and slug are new, its flips are
records on disk but for the mark. From it `RecordsAreUnique` (numbers, and slugs of a slice) and
`CatalogueOnlyGrows`. `ReferencesAreClosed` adds `RefInv`: while no promotion was cut short, references are closed
over what is on disk together with what the promotion under way has yet to write. Staging makes it so
(`StageCloses`; the mark a record gets is the number of the last of those that supersede it,
`MarkNumber`), and each write only moves a record from what is pending to the disk.

*Parts_proofs*, a section a part. An invariant of a part is kept by its steps; in a behaviour of another
part its variables do not count.

* ToolCache. `EntriesAreWhole`: the files of an entry are of one fetch and none is cut off, through
  any interleaving of resolves and collections, kills and full disks. The invariant `OwnFiles` gives each
  staged and install directory to its run: all in it is that run's, and a file in the install directory is
  cut off only if its run is out of the game. So what is renamed to the entry, and what is kept as
  a backup and put back, is of one run, and removal takes files away but mixes none.
  `LoadsAreDeclared`: a run loads what its manifest declares. Its invariant `RunInv` says that every file is
  named for what its fetcher had declared, that what a run has checked stays checked while the runs it met
  declare the same (`Served`), and that an install directory is missing only where a collection was
  (`InstallThere`). Both assume that `Torn` and `None` are no files (`FilesAreReal`).
  `CommandsAloneSucceed`: a command beside which no other was at work does not fail, and a collection that was
  refused alone has met what a run left that was cut off. `AloneInv` says what such a command finds at each of its
  steps: a run what it has staged, installed or moved aside (`RunAlone`), a collection what it has listed
  (`GcAlone`); and that a sidecar cut off stays where it is, since no collection that saw it goes on to remove (`Lost`).
* WorkspaceSlot. `EditsStayWhereMade` needs what a command has established about the slot before
  each of its steps (`SlotOfStep`); a switch then finds no edits but those made since the look, or edits in its way. It
  is about edits of tracked files that were there when prepare-branch looked; untracked files come and go at any time and are carried along. `PushesReplaceWhatTheySaw` follows
  from the same invariant. `BranchesGrowFromMain`: every branch of a change, on origin, in the repositories and
  in what they track of it, and what is about to be pushed, starts with origin's first commit if that has
  `project.yaml`, and has it in each commit (`Forks`). `SyncedSlotsArePreparable`: a sync that ends well
  leaves a clone of a mirror with its refspec, or of the slot's own repository (`Ready`), and its
  work tree has `project.yaml` exactly if the last commit has it, unless a scaffold was cut short (`AsCommitted`).
* AssetExports. `HandedExportsAreWhole`. A run of the tool that is not disturbed has on disk what is not left to write
  (`WritesAdd`), so a slot nobody is writing and none was cut short in holds a whole export or nothing
  (`AllOrNothing`), and a build vouches at each of its steps for the slots it is past
  (`Vouched`): a file found by prepare, one written since, or a pin of the operator's that stands.
* ComponentCatalog. `BindsKeepTheNames`. What a build knows until something changes behind it (`Informed`): the
  prints it was given names for have no entry, a name that it did not get from a part is the one it was
  given, and what it is about to save is the catalog as it is with its own entries added. The labels are
  numbers in the order the program sorts them in, and a start catalog has under each suffix the print
  of that suffix (`ComponentCatalogAssumption`); without that, a suffixed slug may be taken by another group.
* PlanStore. `JournalFollowsStatus` takes `JournalTellsStatus` over to the instance that Parts explores.

*ProjectInit_proofs*, for the same part of Parts. `RunsHealTheProject`: a run that nothing came between
delivers what it was asked for and is refused only for that. Its invariant `ProjectKept` has a record
of the project and of every run, and for a run that nothing came between what it finds at each of its
steps: what is the operator's is as the run met it (`TheirsKept`), the directory being filled holds what is not left to
copy (`FillsOwn`), and a part for each of the four commands. A run that another
runs beside, or that an edit or a kill met, is not counted any more. It assumes that `None`, `Torn` and `Malformed` are none of the things they
stand in for (`MarksAreMarks`), and of the instance that no address has the name of the
rules cache (`ProjectInitAssumption`).

*Kernels_proofs*, for the algorithms that filter a list and what rests on them. `Filters` says what a filter
leaves by places: `Nth(S, k)` is the k-th number of S. That the places of a finite set of numbers are
numbered in order without gaps (`NthIsThere`, `NthOfList`) is shown by cardinality, so no induction over
lists is needed. From it come the lemmas on `Select`: what is in it, its order, a selection of a
selection, and that places that move in order leave the same selection (`SelectHolds`, `SelectMoved`).

* CompositionMerge. `NoScreenIsLost`: a merge that the gate lets through without the flag leaves every screen
  of the baseline that the slice does not name, and merging once more is refused or changes nothing. It is about
  functions from slugs to screens, so no list is in the way. `CompositionAssumption`: `None` is no screen.
* SourceOps, if operations of one lane, and surveys, do not overlap (`Disciplined`). `StagedEvidenceIsOwn`: no two
  operations that share a lane are both at work, so what lies in the lane of a busy one is nothing or what its agent
  wrote (`LanesAreOwn`). It says what is on disk, not what a finalize returned: one that fails on the journal has
  staged its evidence. `NoLeadIsLost`: the copy that a survey merges into is `discovery.md` as it still is
  (`CopiesAreFresh`), and in the merged list the first block of a source and an id is the one the survey has, or, of
  another source, the one there was (`MergeFinds`). A lead list is a list (`SourceOpsAssumption`).
* SpecBaseline. `AppliedIs` puts the result of a merge as a selection of one line: the baseline, edited in place, with
  what is added behind it, less what is removed. Hence which blocks are left (`MergedIs`) and in which order
  those are that the delta does not name. `BaselineInv`, kept by each merge, is that the baseline is coherent
  and that the last delta, if merged once more, changes nothing. `MergesFollowReference`, `OrderOfMergesIsFree` and
  `DeltasApplyOnce` follow, for any ids, texts, baselines and deltas of the given form (`SpecBaselineAssumption`: the mark for
  a block without id is none of the ids, start baselines are coherent).
* ProjectInit. `OperatorsLinesAreKept`: a planned document is the lines before the old block, the new block, and the
  lines behind the old one (`Framed`), so the operator's lines move in order (`NotesMove`). That needs where `Parsed` finds
  the fences (`FencesFound`), that it finds those of what is generated (`GeneratedParses`), and, as the
  invariant, that nothing between the fences of a file is the operator's (`Fenced`): what is planned has that
  again (`PlannedFenced`), what the operator writes has it by `DocumentsAssumption`, since a line counts as
  the operator's by being outside. A run about to write has planned from what it saw (`NotesInv`).
  The theorem takes `None`, the mark of a file that is not there, to be no list (`NoneIsNoList`).

Assumptions on constants are the named `ASSUME`s of the modules; TLC evaluates them in
every run.

Only model-checked:

* liveness (`Drains`, `LockComesFree`, `ClaimsAreSettled`, `Progress`), which is out of the prover's reach;
* what recursive definitions and folds compute, which needs induction over data: the kernel of synthesis and
  provenance (`SynthesisValidates`, `ProvenanceAgrees`), the two readers of the journal (`ReadersAgree`) and lint
  (`LintVerdict`).

## Where code and documents differ

Found while modelling, and shown by a run:

* A delta may remove and add the same id. It is accepted and reported as both, and the
  added requirement is dropped (`W/merge/engine.rs:249-283`). `SpecBaseline_report`.
* A merge that was cut short between two baseline writes is not retryable, against
  `W/merge/slice/write.rs:20-24`. `SliceMerge_retry`.
* A promotion that was cut short is not "safely re-runnable" (`W/decisions.rs:354-357`): the
  superseded records stay unmarked. `DecisionCatalogue_rerun`.

Met on the way; the models do what the code does.

Plan and lock:

* The gated verbs check that somebody holds the lock, not that their own session does, so
  the refusal of a second driver (`W/plan_lock.rs:7-11`) does not reach a verb run beside a driver.
* The probe takes the lock for a moment, and a driver that starts then is told it is
  busy; two probes can take each other for a driver (`W/plan_lock.rs:140-144`).
* The pid in `plan-lock-busy` may be that of an earlier holder or of none.
* `SPECIFY_PLAN_LOCK_HELD` may outlive the lock: the child of a killed wrapper still has it.
* Stamping an approved plan writes the file back, though a comment says there is no disk write
  (`H/plan/lifecycle.rs:230-234`). Beside a running verb it undoes that verb's save.
* `transition <entry> done` appends no event, against "every status / lifecycle move"
  (`H/plan/lifecycle.rs:151-154`).
* Undo goes to states the forward verbs cannot reach: two entries in progress, a done entry that
  depends on a pending one.
* An entry with the plan's own name cannot be closed.

Merges and journal:

* Missing ids are not refused when the baseline is empty (`W/merge/engine.rs:113`), and a
  delta without headers does nothing to a baseline that is not.
* A merge that dies between the archive move and its journal line is reported as `refine`.
* Merges without `plan.yaml` run unlocked: two of them lose an update of a baseline or reuse
  a DEC number.
* The conflict check of a slice (`W/merge/slice.rs:321-397`) looks at modified specs only.
* A whole-document composition with `screens:` null replaces the baseline, and every later delta is
  refused. A malformed baseline is not protected by the gate.
* `read` fails on invalid UTF-8 where `read_recent` decodes what it can. A torn append runs into the next
  line and both are lost, while `append.rs` says that every line lands or none does.

Slices and sources:

* `merge_survey` with the same lead twice grows the inventory (`document.rs:171-179`). Surveys
  that finalize at the same time lose leads. Sources of one adapter share lanes
  (`H/source/op.rs:147`), and a slice named `survey` shares the survey's.
* Extract makes the slice directory before create does. Create then finds a directory without
  metadata, as after a crash of its own, and neither fails usefully nor
  continues; only restart helps.
* Synthesize "persists the staged artifacts atomically" (`synthesize.rs:20`), but a failed
  write or a crash leaves a mixture. `validate` passes when `model.yaml` is missing. The spec of a
  domain that a later synthesis drops stays.
* Build prepare does not remove an old `report.yaml` and does not look at the lifecycle.
* After drop and create, an old failure marker still makes `plan status` say refine-failed; a
  lost completed event leaves build-failed.
* Render and parse "stay symmetric" so that validate round-trips the output
  (`W/slice/synthesis/render.rs:15-19`): only of plain prose. A requirement whose title ends in a status tag, or whose
  body has a requirement header, passes synthesize and fails validate (`SynthesisValidates` states both); a header
  followed by provenance lines may pass as a requirement of its own.
* A finalize of survey or extract that cannot append its journal event returns an error, with `discovery.md` or the
  evidence already replaced (`H/source/op.rs:177-178`). A prepare that fails there has emptied the lane.
* Disagreeing claims of one source are a "divergence" without
  a loser. `slice provenance` computes the resolution anew, though
  `provenance.schema.json:5` says it cannot drift.

Workspace and tools:

* An empty origin that can be reached: the bare clone succeeds and the worktree fails, though
  `sync.rs` (from line 321) means to start a new project there.
* A kill between the clone and the refspec leaves a mirror that sync takes and
  prepare-branch refuses ever after. A kill between scaffold and commit leaves files that nobody commits;
  one just after the directory is made leaves a slot that must be removed by hand.
* In a repository without `.specify/project.yaml` the second sync amends origin's last commit.
* Push replaces what others pushed to the change branch between prepare-branch and push.
* Distributed contracts make the worktree dirty, and the next change cannot be prepared.
* Two first syncs of one url at a time: the loser removes the winner's mirror. Two
  workspaces with a change of the same name share the mirror's refs.
* Edits between prepare's look and its checkout are carried over, and so are untracked files whenever they were made
  (`W/registry/branch/validate.rs:59-63`): uncommitted work of one change may end up on the branch of another. The path that may be dirty is
  named by the change and not by the slice.
* A sidecar torn by a full disk or a kill makes every later `tool gc` of its scope fail
  until it is removed by hand. Collection takes staging directories of resolves under way and may take an entry that
  was just installed. Checkouts of one name share a scope.
  The loser of two installs fails; a retry works.
* With three resolves and a collection a run may load an entry that was replaced before: the
  collection takes the install directory of a run, which then puts the entry it had moved away back over a
  newer one. Two resolves do not show this; it came up when `RunsDeclared` was proved.

Lint:

* A finding on a line that starts with a comment cannot be excused. `--rule` filters the
  evaluation but not the check of directives, so directives for other rules become findings.
  Naming an adapter twice refuses; overlapping roots count synthetic findings twice. Directives
  inside fenced blocks count.

Component catalog:

* "Once the skill names a fingerprint, every later report echoes that slug"
  (`H/catalog/infer.rs:38-41`): not if the label is taken by an entry of another group from an earlier bind. The
  suffix is given only among the names of one bind; the new name is then silently not recorded.
* A part named like an entry of another group makes report give two groups one slug.
* Two builds that bind at a time: the later save drops the earlier one's names, or a group gets two.

Asset exports:

* A materialize that was killed or failed leaves part of an imageset or of the densities, which
  prepare's test takes for complete (`conventional_export_exists`, any file will do), so that the next
  prepare hands it out.
* A broken master of any image in the inventory, needed by the slice or not, makes prepare refuse.
* Photos never make prepare run materialize, since they have density maps and no source, though
  prepare is to materialize what is missing in scope (`H/slice/build.rs`).
* Two runs share the name of the temporary file of `assets.yaml` (`yaml_pins.rs`; the model takes the
  write as one step), and each writes the file
  back as it read it, so that pins the operator made meanwhile are lost.
* A master that changes after its export was pinned is not exported again.
* An illustration on Android has no drawable xml, which is what the test for its export looks
  for; until it is pinned every prepare exports it again.
* The pattern for bare asset names (`materialize_scope.rs:237`) uses look-behind, which the
  `regex` crate rejects, so such mentions never match.

Initialisation:

* `AGENTS.md` is generated only where there is none, so the merge of its fences is reached only if
  the file comes up while init runs; a debug build then fails `debug_assert_eq!(disposition, "create")`
  (`H/init.rs`).
* `init --workspace` refuses the directory it left behind when it was killed, and empties a
  `registry.yaml` that is already there. A run killed while it writes `registry.yaml` leaves one on
  which every later generation of `AGENTS.md` is refused.
* A kill while `project.yaml` or `.gitignore` is written loses what the operator had in it; the next regular
  init writes a new one. A regular init over a project drops the tools it declares, and
  `--upgrade` every field it does not know.
* A regular init that is refused for its pin or its platforms has already replaced the cached adapter, which
  the project that stays as it was now resolves to.
* A source without a rules pack leaves the rules of the previous one in the cache, though
  `codex present: false` is reported; `rules sync` does the same.
* After a kill, `manifest-meta.yaml` and `codex-meta.yaml` may name the source of a tree that is torn or gone, and
  `cache present` is read from them.

## Not modelled, and why

* The upgrade of the binary and the plugins: they run installers and keep nothing.
* In `ProjectInit`: the fetch of an address; `rules sync --source`; the sync of the registry at the end of
  `init --workspace`, which is empty then; what the block of `AGENTS.md` says beyond the adapter.
* Schemas, the tool manifest, diagnostics, error types, rendering: pure validation and text, without
  a decision that later commands build on. Of a text format only what the code branches on is kept.
* The WASI host: what a module may touch is decided by the runtime library.
* The validators of the contract and vectis tools: programs of their own, compiled to WASI, that
  read one document. Rendering of images is a write.
* In `Lint`: the evaluators for schemas, set coverage, constants, fenced
  blocks, field grammar, cross references and the command line contract, and the checks built
  into the tool; each is a reading of one kind of file, and they meet the rest in the
  same place as the evaluators that are there.
* In `SliceMerge`: the opaque copies, the composition gate (which is `CompositionMerge`) and the
  commit in the slot (which is in `WorkspaceSlot`).
* In a plan archive: the plans directory and the brief that move after `plan.yaml`.
* Journals in two places: plan verbs write at the plan's root, status reads at the work root.
* Pruning of archives.

## Plan

1. The evaluators of `Lint` that are left.
2. The plan archive with its directories; pruning.
