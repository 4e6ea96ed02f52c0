------------------------------ MODULE WorkspaceSlot ------------------------------
(***************************************************************************)
(* One remote-backed workspace slot: `workspace sync`, `workspace prepare` *)
(* and `workspace push` against the project's origin, the bare mirror the  *)
(* slot is a worktree of, and the repository a slot gets of its own when   *)
(* the first clone fails. Git is external. A history is the sequence of    *)
(* its commits, linear here; of the tree of a commit the model keeps       *)
(* whether it holds .specify/project.yaml and which version of the shared  *)
(* contracts. Others push to origin at any time, any call may find it      *)
(* unreachable, and the command may be killed between two steps.           *)
(***************************************************************************)
EXTENDS Naturals, FiniteSets, Sequences, SequencesExt, Functions

CONSTANTS
    Main,               \* origin's default branch
    Plans,              \* the branches of the changes planned one after another
    Scaffolded,         \* whether origin's first commit may have, or lack, project.yaml
    None,
    MaxCommits, MaxFaults   \* bounds

VARIABLES
    origin,     \* the history of each branch of origin, << >> if it has none
    repos,      \* the mirror and the repository of a bootstrapped slot
    slot,       \* workspace/<project>
    central,    \* the version of the workspace's contracts/, 0 if it has none
    change,     \* the change of plan.yaml
    run,        \* the command under way: its step, and what it has read
    fresh,      \* the number of the next commit
    faults      \* how many calls failed, and the steps at which a command was killed

slotVars == <<origin, repos, slot, central, change, run, fresh, faults>>

Changes == Range(Plans)
Paths == {"slice", "other"}     \* those of the slice at work, and all others
Branches == {Main} \cup Changes

Commit(n, yaml, contracts) == [n |-> n, yaml |-> yaml, contracts |-> contracts]
Tree(h) == IF h = << >> THEN [yaml |-> FALSE, contracts |-> 0]
           ELSE [yaml |-> Last(h).yaml, contracts |-> Last(h).contracts]

NoRepo == [state |-> "absent", heads |-> [b \in Branches |-> << >>],
           tracking |-> [b \in Branches |-> << >>]]
NoSlot == [kind |-> "none", repo |-> None, head |-> None, at |-> << >>,
           wt |-> Tree(<< >>), edits |-> {}, news |-> FALSE, late |-> {}, madeOn |-> None]
Idle == [step |-> "idle", result |-> None]

Init ==
    /\ \E yaml \in Scaffolded :
        \/ origin = [b \in Branches |-> IF b = Main THEN <<Commit(0, yaml, 0)>> ELSE << >>]
        \/ origin = [b \in Branches |-> << >>]
    /\ repos = [r \in {"mirror", "own"} |-> NoRepo]
    /\ slot = NoSlot
    /\ central = 1
    /\ change = Head(Plans)
    /\ run = Idle /\ fresh = 1
    /\ faults = [offline |-> 0, killed |-> {}]

-----------------------------------------------------------------------------
IsGit == slot.kind = "git"
Repo == repos[slot.repo]
Tip == IF slot.head = None THEN slot.at ELSE Repo.heads[slot.head]

ContractsDirty == slot.wt.contracts # Tree(Tip).contracts /\ Tree(Tip).contracts # 0
Pristine == slot.edits = {} /\ ~ slot.news
Clean == Pristine /\ slot.wt = Tree(Tip)

Step(s) == run.step = s
Goto(s) == run' = [run EXCEPT !.step = s]
\* The model remembers of a command that it was a sync that reported success.
Done(result) == run' = [step |-> "idle", result |-> result]
Begin(step) == run.step = "idle" /\ run' = [step |-> step]

\* A call to origin that fails ends the command.
Budget == faults.offline + Cardinality(faults.killed) < MaxFaults
Offline == Budget /\ faults' = [faults EXCEPT !.offline = @ + 1]
Online == faults' = faults

\* git fetch origin: with the standard refspec it updates the tracking branches, and
\* deletes none; without it, nothing.
Fetched(repo) ==
    IF repo.state = "ready"
    THEN [repo EXCEPT !.tracking = [b \in Branches |->
            IF origin[b] # << >> THEN origin[b] ELSE @[b]]]
    ELSE repo

\* A commit on h, what is checked out or its parent; edits of the paths left, and maybe new
\* files, are not part of it.
Committed(h, tree, left, news) ==
    /\ fresh < MaxCommits /\ fresh' = fresh + 1
    /\ LET new == Append(h, Commit(fresh, tree.yaml, tree.contracts))
       IN  /\ repos' = IF slot.head = None THEN repos
                       ELSE [repos EXCEPT ![slot.repo].heads[slot.head] = new]
           /\ slot' = [slot EXCEPT !.at = IF slot.head = None THEN new ELSE @,
                                   !.edits = @ \cap left, !.late = @ \cap left, !.news = news,
                                   !.madeOn = IF slot.edits \cap left \subseteq slot.late
                                              THEN None ELSE @]

-----------------------------------------------------------------------------
(***************************************************************************)
(* workspace sync.                                                         *)
(***************************************************************************)

\* inspect_at and materialise_git_remote; a slot that is no clone, or has no origin, is
\* reported and left alone.
SyncStart ==
    /\ \/ slot.kind = "none" /\ Begin("mirror")
       \/ IsGit /\ slot.wt.yaml /\ Begin("fetch")
       \/ IsGit /\ ~ slot.wt.yaml /\ Begin("rescaffold")
    /\ UNCHANGED <<origin, repos, slot, central, change, fresh, faults>>

SyncFetch ==
    /\ Step("fetch")
    /\ \/ Online /\ repos' = [repos EXCEPT ![slot.repo] = Fetched(@)] /\ Goto("distribute")
       \/ Offline /\ Goto("share") /\ UNCHANGED repos
    /\ UNCHANGED <<origin, slot, central, change, fresh>>

\* ensure_mirror, up to the clone. A clone that fails makes the slot a greenfield one.
Mirror ==
    /\ Step("mirror")
    /\ \/ /\ repos.mirror.state # "absent"
          /\ \/ Online /\ Goto("worktree")
                       /\ repos' = [repos EXCEPT !.mirror = Fetched(@)]
             \/ Offline /\ Done(None) /\ UNCHANGED repos
       \/ /\ repos.mirror.state = "absent"
          /\ \/ Online /\ Goto("refspec")
                       /\ repos' = [repos EXCEPT !.mirror.state = "bare", !.mirror.heads = origin]
             \/ Offline /\ Goto("mkdir") /\ UNCHANGED repos
    /\ UNCHANGED <<origin, slot, central, change, fresh>>

\* Mutant of ConfigureMirror: the mirror is left as git clone --bare makes it.
ConfigureMirrorSkipped ==
    /\ Step("refspec") /\ Goto("worktree")
    /\ UNCHANGED <<origin, repos, slot, central, change, fresh, faults>>

\* A bare clone has no refspec of its own.
ConfigureMirror ==
    /\ Step("refspec")
    /\ LET ready == [repos.mirror EXCEPT !.state = "ready"]
       IN  \/ Online /\ repos' = [repos EXCEPT !.mirror = Fetched(ready)] /\ Goto("worktree")
           \/ Offline /\ repos' = [repos EXCEPT !.mirror = ready] /\ Done(None)
    /\ UNCHANGED <<origin, slot, central, change, fresh>>

\* Detached at the mirror's HEAD; git refuses a HEAD without a commit.
AddWorktree ==
    /\ Step("worktree")
    /\ LET at == repos.mirror.heads[Main]
       IN  IF at = << >> THEN Done(None) /\ UNCHANGED slot
           ELSE /\ Goto("distribute")
                /\ slot' = [NoSlot EXCEPT !.kind = "git", !.repo = "mirror", !.at = at,
                                          !.wt = Tree(at)]
    /\ UNCHANGED <<origin, repos, central, change, fresh, faults>>

\* bootstrap: mkdir, git init, git remote add.
Bootstrap ==
    /\ \/ Step("mkdir") /\ Goto("init")
          /\ slot' = [NoSlot EXCEPT !.kind = "dir"] /\ UNCHANGED repos
       \/ Step("init") /\ Goto("remote")
          /\ slot' = [slot EXCEPT !.kind = "init", !.repo = "own", !.head = Main]
          /\ repos' = [repos EXCEPT !.own = NoRepo]
       \/ Step("remote") /\ Goto("scaffold")
          /\ slot' = [slot EXCEPT !.kind = "git"]
          /\ repos' = [repos EXCEPT !.own.state = "ready"]
    /\ UNCHANGED <<origin, central, change, fresh, faults>>

\* greenfield_init: the scaffold is written, then everything is added and committed.
Scaffold ==
    /\ \/ Step("scaffold") /\ Goto("commit")
       \/ Step("rescaffold") /\ Goto("amend")
    /\ slot' = [slot EXCEPT !.wt.yaml = TRUE]
    /\ UNCHANGED <<origin, repos, central, change, fresh, faults>>

\* git add takes all there is; a rerun amends the last commit, if there is one.
CommitScaffold ==
    /\ \/ Step("commit") /\ Committed(Tip, slot.wt, {}, FALSE)
       \/ Step("amend") /\ Committed(IF Tip = << >> THEN Tip ELSE Front(Tip), slot.wt, {}, FALSE)
    /\ Goto("distribute")
    /\ UNCHANGED <<origin, central, change, faults>>

\* The workspace's contracts replace those of a scaffolded slot, also when the fetch failed
\* and sync will report that.
Distribute ==
    /\ \/ Step("distribute") /\ Done("synced")
       \/ Step("share") /\ Done(None)
    /\ slot' = IF central # 0 /\ slot.wt.yaml THEN [slot EXCEPT !.wt.contracts = central]
               ELSE slot
    /\ UNCHANGED <<origin, repos, central, change, fresh, faults>>

-----------------------------------------------------------------------------
(***************************************************************************)
(* workspace prepare.                                                      *)
(***************************************************************************)

PrepareFetch ==
    /\ IsGit
    /\ Begin("inspect") /\ Online
    /\ repos' = [repos EXCEPT ![slot.repo] = Fetched(@)]
    /\ UNCHANGED <<origin, slot, central, change, fresh>>

\* One path of a checkout: what is left in the work tree, or nothing if git refuses.
Switched(head, here, target) ==
    IF here = head THEN {target}
    ELSE IF target \in {head, here} THEN {here} ELSE {}

\* checkout of a branch, its history being h; edits and new files are carried along.
CheckoutTo(b, h) ==
    \E yaml \in Switched(Tree(Tip).yaml, slot.wt.yaml, Tree(h).yaml),
       contracts \in Switched(Tree(Tip).contracts, slot.wt.contracts, Tree(h).contracts) :
        /\ slot' = [slot EXCEPT !.head = b, !.at = << >>, !.wt.yaml = yaml,
                                !.wt.contracts = contracts]
        /\ repos' = [repos EXCEPT ![slot.repo].heads[b] = h]

CanCheckout(h) ==
    /\ Switched(Tree(Tip).yaml, slot.wt.yaml, Tree(h).yaml) # {}
    /\ Switched(Tree(Tip).contracts, slot.wt.contracts, Tree(h).contracts) # {}

\* git refuses when the target has another version of an edited file, or has a new one.
MayRefuse(h) == ~ CanCheckout(h) \/ ~ Pristine

TrackedAllowed == "slice" \in slot.edits \/ ContractsDirty

\* Mutant of DirtyOk: allowed work is let through on any branch.
DirtyOkAnywhere == "other" \notin slot.edits

\* No edit is outside the slice's paths, and those inside are on its branch. Files that git
\* does not track yet are not looked at.
DirtyOk == "other" \notin slot.edits /\ (TrackedAllowed => slot.head = change)

\* Mutant of StartPoint: the branch starts at what is checked out.
StartAtHead == IF Repo.heads[change] # << >> THEN Repo.heads[change] ELSE Tip

\* The branch itself, or a new one from origin's default branch.
StartPoint == IF Repo.heads[change] # << >> THEN Repo.heads[change] ELSE Repo.tracking[Main]

Refused == Repo.tracking[Main] = << >> \/ ~ DirtyOk

\* What is looked at before the switch, and may be out of date when it happens.
PrepareInspect ==
    /\ Step("inspect")
    /\ IF Refused THEN Done(None) ELSE Goto("switch")
    /\ UNCHANGED <<origin, repos, slot, central, change, fresh, faults>>

PrepareSwitch ==
    /\ Step("switch")
    /\ IF slot.head = change THEN Goto("forward") /\ UNCHANGED <<slot, repos>>
       ELSE \/ CheckoutTo(change, StartPoint) /\ Goto("forward")
            \/ MayRefuse(StartPoint) /\ Done(None) /\ UNCHANGED <<slot, repos>>
    /\ UNCHANGED <<origin, central, change, fresh, faults>>

\* fast_forward_remote_branch.
PrepareForward ==
    /\ Step("forward")
    /\ LET there == Repo.tracking[change]
       IN  IF there = << >> \/ IsPrefix(there, Tip) THEN Done(None) /\ UNCHANGED <<slot, repos>>
           ELSE IF ~ IsPrefix(Tip, there) THEN Done(None) /\ UNCHANGED <<slot, repos>>
           ELSE \/ CheckoutTo(change, there) /\ Done(None)
                \/ MayRefuse(there) /\ Done(None) /\ UNCHANGED <<slot, repos>>
    /\ UNCHANGED <<origin, central, change, fresh, faults>>

-----------------------------------------------------------------------------
(***************************************************************************)
(* workspace push.                                                         *)
(***************************************************************************)

\* prepare_push, up to ls-remote.
PushRead ==
    /\ IsGit /\ Clean /\ slot.head = change /\ run.step = "idle"
    /\ run' = [step |-> "publish", local |-> Tip, saw |-> origin[change]]
    /\ UNCHANGED <<origin, repos, slot, central, change, fresh, faults>>

\* Mutant of Lease: a plain --force.
LeaseForced == TRUE

\* --force-with-lease=<branch>:<what ls-remote saw>
Lease == origin[change] = run.saw

Publish ==
    /\ Step("publish")
    /\ \/ run.saw = run.local /\ Done(None) /\ UNCHANGED <<origin, repos>>
       \/ /\ run.saw # run.local /\ Lease /\ Done(None)
          /\ origin' = [origin EXCEPT ![change] = run.local]
          /\ repos' = IF Repo.state = "ready"
                      THEN [repos EXCEPT ![slot.repo].tracking[change] = run.local] ELSE repos
       \/ run.saw # run.local /\ ~ Lease /\ Done(None) /\ UNCHANGED <<origin, repos>>
    /\ UNCHANGED <<slot, central, change, fresh, faults>>

-----------------------------------------------------------------------------
(***************************************************************************)
(* The work between the commands, others, and faults.                      *)
(***************************************************************************)

\* Someone edits a file that git tracks, a new one in the index being one, at any time.
Edit ==
    /\ IsGit
    /\ \E p \in Paths \ slot.edits :
        slot' = IF Step("switch") THEN [slot EXCEPT !.edits = @ \cup {p}, !.late = @ \cup {p}]
                ELSE [slot EXCEPT !.edits = @ \cup {p},
                         !.madeOn = IF slot.edits \subseteq slot.late THEN slot.head ELSE @]
    /\ UNCHANGED <<origin, repos, central, change, run, fresh, faults>>

\* Someone makes new files, or removes them or adds them to the index.
NewFile ==
    /\ IsGit /\ slot' = [slot EXCEPT !.news = ~ @]
    /\ UNCHANGED <<origin, repos, central, change, run, fresh, faults>>

\* auto_commit of `slice merge`: the baseline and the archive, whatever is checked out. Other
\* work of the slice may be left.
AutoCommit ==
    /\ IsGit /\ run.step = "idle" /\ ("slice" \in slot.edits \/ slot.news)
    /\ \E left \in {Paths, Paths \ {"slice"}}, news \in {slot.news, FALSE} :
         Committed(Tip, Tree(Tip), left, news)
    /\ UNCHANGED <<origin, central, change, run, faults>>

\* The driver commits the rest.
CommitAll ==
    /\ IsGit /\ run.step = "idle" /\ ~ Clean
    /\ Committed(Tip, slot.wt, {}, FALSE)
    /\ UNCHANGED <<origin, central, change, run, faults>>

\* The slot is not checked in: a fresh checkout of the workspace has none.
Recheckout ==
    /\ run.step = "idle" /\ slot.kind # "none" /\ Pristine
    /\ slot' = NoSlot /\ run' = Idle
    /\ repos' = [repos EXCEPT !.own = NoRepo]
    /\ UNCHANGED <<origin, central, change, fresh, faults>>

\* Someone else pushes, on main or on the branch of the change.
Others ==
    /\ fresh < MaxCommits /\ fresh' = fresh + 1
    /\ \E b \in {Main, change} :
        /\ b # Main => origin[Main] # << >>
        /\ LET h == IF origin[b] = << >> THEN origin[Main] ELSE origin[b]
           IN  origin' = [origin EXCEPT ![b] =
                    Append(h, Commit(fresh, IF h = << >> THEN TRUE ELSE Tree(h).yaml,
                                     Tree(h).contracts))]
    /\ UNCHANGED <<repos, slot, central, change, run, faults>>

NewContracts ==
    /\ central = 1 /\ central' = 2
    /\ UNCHANGED <<origin, repos, slot, change, run, fresh, faults>>

\* The plan is archived and another one made.
NewChange ==
    /\ run.step = "idle" /\ run' = Idle
    /\ \E i \in 1 .. Len(Plans) - 1 : change = Plans[i] /\ change' = Plans[i + 1]
    /\ UNCHANGED <<origin, repos, slot, central, fresh, faults>>

Killed ==
    /\ run.step # "idle" /\ run' = Idle
    /\ Budget /\ faults' = [faults EXCEPT !.killed = @ \cup {run.step}]
    /\ UNCHANGED <<origin, repos, slot, central, change, fresh>>

Next ==
    \/ SyncStart \/ SyncFetch \/ Mirror \/ ConfigureMirror \/ AddWorktree
    \/ Bootstrap \/ Scaffold \/ CommitScaffold \/ Distribute
    \/ PrepareFetch \/ PrepareInspect \/ PrepareSwitch \/ PrepareForward \/ PushRead \/ Publish
    \/ Edit \/ NewFile \/ AutoCommit \/ CommitAll \/ Recheckout
    \/ Others \/ NewContracts \/ NewChange \/ Killed

SlotSpec == Init /\ [][Next]_slotVars

-----------------------------------------------------------------------------
(***************************************************************************)
(* Uncommitted edits of files git tracks stay on the branch they were made *)
(* on: prepare carries none from one change to another, and none to a      *)
(* detached HEAD or away from it. Two things it does carry along: new      *)
(* files git does not track, which it never looks at, and edits made while *)
(* it runs, between its look at the work tree and the switch.              *)
(***************************************************************************)
EditsStay == slot.edits \subseteq slot.late \/ slot.head = slot.madeOn

(***************************************************************************)
(* The branch of a change, in a slot or pushed, grows from the history of  *)
(* origin, also when the slot was first bootstrapped with a history of its *)
(* own because origin could not be reached. Projects without a             *)
(* project.yaml are left out: see the amended commit in the README.        *)
(***************************************************************************)
ForksFromMain ==
    \A b \in Changes : \A h \in {repos[r].heads[b] : r \in DOMAIN repos} \cup {origin[b]} :
        h # << >> /\ Head(origin[Main]).yaml => Head(h) = Head(origin[Main])

(***************************************************************************)
(* When sync reports success, prepare accepts the slot as long as no one   *)
(* has edits or new files in it. The exceptions are all there are: a kill  *)
(* between the clone of the mirror and its refspec, or between the         *)
(* scaffold and its commit, which no later sync repairs; and contracts of  *)
(* another version than the slot has committed.                            *)
(***************************************************************************)
PrepareAccepts ==
    LET repo == Fetched(Repo)
        start == IF repo.heads[change] # << >> THEN repo.heads[change] ELSE repo.tracking[Main]
    IN  /\ repo.tracking[Main] # << >>
        /\ DirtyOk
        /\ slot.head # change => CanCheckout(start)

SyncedIsPreparable ==
    /\ run.step = "idle" /\ run.result = "synced"
    /\ Pristine /\ origin[Main] # << >>
    =>  \/ PrepareAccepts
        \/ {"refspec", "commit", "amend"} \cap faults.killed # {}
        \/ slot.wt.contracts # Tree(Tip).contracts

(***************************************************************************)
(* A push replaces nothing on origin that it has not looked at: a commit   *)
(* that arrives between ls-remote and push is never lost.                  *)
(***************************************************************************)
SeenIsReplaced ==
    \A b \in Branches : IsPrefix(origin[b], origin'[b]) \/ origin[b] = run.saw

OnlySeenIsReplaced == [][SeenIsReplaced]_slotVars

=============================================================================
