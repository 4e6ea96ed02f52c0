------------------------------ MODULE SliceMerge ------------------------------
(***************************************************************************)
(* `specify slice merge run`, step by step: read every baseline the slice  *)
(* touches and merge in memory, promote the decisions, write the baselines *)
(* one file at a time, stamp the metadata, move the slice to the archive,  *)
(* log it, stamp the plan entry. Around it: the driver that claims an      *)
(* entry and follows `plan status`, and the operator who undoes, discards  *)
(* or closes by hand.                                                      *)
(*                                                                         *)
(* Hazards names what may go wrong:                                        *)
(*   "crash"  the merge dies between two steps;                            *)
(*   "io"     a write of it fails: the merge stops, or goes on without the *)
(*            journal line if it was one;                                  *)
(*   "hand"   the operator undoes, discards and closes entries by hand.    *)
(* With a plan the driver's lock leaves room for one merge at a time; a    *)
(* merge without plan.yaml is not locked.                                  *)
(***************************************************************************)
EXTENDS MergeEngine, FiniteSets

CONSTANTS
    Slices, Files, Staged, InitSpecs,   \* as in AtomicMerge
    Actors,     \* who runs merges
    Planned,    \* whether the project has a plan.yaml
    Hazards     \* what goes wrong

ASSUME StagedAssumption ==
    /\ Slices # {} /\ Files \subseteq Nat
    /\ Staged \in [Slices -> [Files -> DeltaSpec]]
    /\ InitSpecs \subseteq [Files -> {s \in Spec : Coherent(s)}]

ASSUME HazardsAssumption ==
    Planned \in BOOLEAN /\ Hazards \subseteq {"crash", "io", "hand"}

VARIABLES
    specs,      \* the baselines
    dir,        \* the status in the metadata of .specify/slices/<slice>, or "none"
    archive,    \* the status in the metadata of the archived slice, or "none"
    entry,      \* the plan entry of each slice
    marker,     \* the newest journal event of a slice that `plan status` goes by
    run         \* the merge each actor is running and how far it got

vars == <<specs, dir, archive, entry, marker, run>>

Baselines == INSTANCE AtomicMerge
Touched(s) == Baselines!Touched(s)

PC == {"idle", "load", "read", "promote", "write", "stamp", "move", "log", "close",
       "succeed", "fail"}
Idle == [pc |-> "idle", slice |-> CHOOSE s \in Slices : TRUE, todo |-> {},
         out |-> [f \in Files |-> EmptySpec], refused |-> FALSE]

Init ==
    /\ specs \in InitSpecs
    /\ dir = [s \in Slices |-> "built"]
    /\ archive = [s \in Slices |-> "none"]
    /\ entry = [s \in Slices |-> "pending"]
    /\ marker = [s \in Slices |-> "neutral"]
    /\ run = [a \in Actors |-> Idle]

Quiet == \A a \in Actors : run[a].pc = "idle"
Running(a, s, pc) == run[a].pc = pc /\ run[a].slice = s
Goto(a, pc) == run' = [run EXCEPT ![a].pc = pc]
First(fs) == CHOOSE f \in fs : \A g \in fs : f <= g

-----------------------------------------------------------------------------
(***************************************************************************)
(* The merge.                                                              *)
(***************************************************************************)

\* Mutant of Start: the lock is not looked at.
StartUnlocked(a, s) ==
    /\ run[a].pc = "idle"
    /\ run' = [run EXCEPT ![a] = [Idle EXCEPT !.pc = "load", !.slice = s]]
    /\ UNCHANGED <<specs, dir, archive, entry, marker>>

\* require_held lets it through only under the driver's lock, if there is a plan.
Start(a, s) ==
    /\ run[a].pc = "idle"
    /\ Planned => Quiet
    /\ run' = [run EXCEPT ![a] = [Idle EXCEPT !.pc = "load", !.slice = s]]
    /\ UNCHANGED <<specs, dir, archive, entry, marker>>

\* The `Built` gate, on the metadata that is saved at the end.
Load(a, s) ==
    /\ Running(a, s, "load")
    /\ run' = [run EXCEPT ![a].pc = IF dir[s] = "built" THEN "read" ELSE "fail",
                          ![a].todo = Touched(s)]
    /\ UNCHANGED <<specs, dir, archive, entry, marker>>

\* Mutant of Read: a refusal is not remembered.
ReadForgetful(a, s) ==
    /\ Running(a, s, "read")
    /\ run[a].todo # {}
    /\ LET f == First(run[a].todo)
           new == Merged(specs[f], Staged[s][f])
       IN  \E t \in new \cup {specs[f]} :
             /\ new # {} => t \in new
             /\ run' = [run EXCEPT ![a].todo = @ \ {f}, ![a].out[f] = t]
    /\ UNCHANGED <<specs, dir, archive, entry, marker>>

\* One baseline is read and merged in memory. Refusals are collected.
Read(a, s) ==
    /\ Running(a, s, "read")
    /\ run[a].todo # {}
    /\ LET f == First(run[a].todo)
           new == Merged(specs[f], Staged[s][f])
       IN  IF new = {} THEN
             run' = [run EXCEPT ![a].todo = @ \ {f}, ![a].refused = TRUE]
           ELSE \E t \in new :
             run' = [run EXCEPT ![a].todo = @ \ {f}, ![a].out[f] = t]
    /\ UNCHANGED <<specs, dir, archive, entry, marker>>

\* Nothing has been written yet.
Planning(a, s) ==
    /\ Running(a, s, "read")
    /\ run[a].todo = {}
    /\ Goto(a, IF run[a].refused THEN "fail" ELSE "promote")
    /\ UNCHANGED <<specs, dir, archive, entry, marker>>

\* decisions::promote. It refuses an orphan `supersedes:`.
Promote(a, s) ==
    /\ Running(a, s, "promote")
    /\ \/ run' = [run EXCEPT ![a].pc = "write", ![a].todo = Touched(s)]
       \/ Goto(a, "fail")
    /\ UNCHANGED <<specs, dir, archive, entry, marker>>

\* write_three_way_baselines, each file by a rename.
Write(a, s) ==
    /\ Running(a, s, "write")
    /\ run[a].todo # {}
    /\ LET f == First(run[a].todo)
       IN  /\ specs' = [specs EXCEPT ![f] = run[a].out[f]]
           /\ run' = [run EXCEPT ![a].todo = @ \ {f}]
    /\ UNCHANGED <<dir, archive, entry, marker>>

\* Mutant of Written: the rest of the baselines is skipped.
WrittenEarly(a, s) ==
    /\ Running(a, s, "write")
    /\ Goto(a, "stamp")
    /\ UNCHANGED <<specs, dir, archive, entry, marker>>

\* The baselines are out. The files of the opaque classes, which no property here
\* looks at, are copied over theirs next.
Written(a, s) ==
    /\ Running(a, s, "write")
    /\ run[a].todo = {}
    /\ Goto(a, "stamp")
    /\ UNCHANGED <<specs, dir, archive, entry, marker>>

\* The metadata loaded at the start is saved as Merged, whatever became of the
\* slice directory since: saving creates it.
SetMerged(a, s) ==
    /\ Running(a, s, "stamp")
    /\ dir' = [dir EXCEPT ![s] = "merged"]
    /\ Goto(a, "move")
    /\ UNCHANGED <<specs, archive, entry, marker>>

\* Fails if the archive has a slice of this name from today.
Move(a, s) ==
    /\ Running(a, s, "move")
    /\ \/ /\ dir[s] # "none"
          /\ archive' = [archive EXCEPT ![s] = dir[s]]
          /\ dir' = [dir EXCEPT ![s] = "none"]
          /\ Goto(a, "log")
       \/ /\ dir[s] = "none" \/ archive[s] # "none"
          /\ Goto(a, "fail")
          /\ UNCHANGED <<dir, archive>>
    /\ UNCHANGED <<specs, entry, marker>>

\* slice.archive.created, best effort.
Log(a, s) ==
    /\ Running(a, s, "log")
    /\ \/ marker' = [marker EXCEPT ![s] = "succeeded"]
       \/ "io" \in Hazards /\ UNCHANGED marker
    /\ Goto(a, IF Planned THEN "close" ELSE "succeed")
    /\ UNCHANGED <<specs, dir, archive, entry>>

\* Mutant of Close: the failure to stamp is swallowed.
CloseSwallowed(a, s) ==
    /\ Running(a, s, "close")
    /\ Goto(a, "succeed")
    /\ UNCHANGED <<specs, dir, archive, entry, marker>>

\* stamp_plan_entry_done.
Close(a, s) ==
    /\ Running(a, s, "close")
    /\ \/ /\ entry[s] = "in-progress"
          /\ entry' = [entry EXCEPT ![s] = "done"]
          /\ Goto(a, "succeed")
       \/ /\ entry[s] # "in-progress" \/ "io" \in Hazards
          /\ Goto(a, "fail")
          /\ UNCHANGED entry
    /\ UNCHANGED <<specs, dir, archive, marker>>

\* The second half of the slice.merge bracket, best effort.
Finish(a, s) ==
    /\ \/ /\ Running(a, s, "succeed")
          /\ marker' = [marker EXCEPT ![s] = "succeeded"]
       \/ /\ Running(a, s, "fail")
          /\ marker' = [marker EXCEPT ![s] = "failed"]
       \/ /\ "io" \in Hazards /\ run[a].slice = s /\ run[a].pc \in {"succeed", "fail"}
          /\ UNCHANGED marker
    /\ run' = [run EXCEPT ![a] = Idle]
    /\ UNCHANGED <<specs, dir, archive, entry>>

\* A decision, a baseline, the metadata or the archive cannot be written.
WriteFails(a, s) ==
    /\ "io" \in Hazards
    /\ run[a].slice = s /\ run[a].pc \in {"promote", "write", "stamp", "move"}
    /\ Goto(a, "fail")
    /\ UNCHANGED <<specs, dir, archive, entry, marker>>

Crash(a) ==
    /\ "crash" \in Hazards
    /\ run[a].pc # "idle"
    /\ run' = [run EXCEPT ![a] = Idle]
    /\ UNCHANGED <<specs, dir, archive, entry, marker>>

MergeStep(a) == \E s \in Slices :
    \/ Load(a, s) \/ Read(a, s) \/ Planning(a, s) \/ Promote(a, s) \/ Write(a, s)
    \/ Written(a, s) \/ SetMerged(a, s) \/ Move(a, s) \/ Log(a, s) \/ Close(a, s)
    \/ Finish(a, s) \/ WriteFails(a, s)

-----------------------------------------------------------------------------
(***************************************************************************)
(* The execute driver and `plan status`.                                   *)
(***************************************************************************)

\* plan_status_body for the active entry s.
NextAction(s) ==
    IF marker[s] = "succeeded" THEN "merge-incomplete"
    ELSE CASE dir[s] = "none" -> "refine"
           [] dir[s] = "built" /\ marker[s] = "failed" -> "merge-conflict"
           [] dir[s] = "built" /\ marker[s] # "failed" -> "merge"
           [] dir[s] = "merged" -> "merge-incomplete"
           [] OTHER -> "slice-dropped"

\* `plan next` claims s; refine and build leave events that say nothing of a merge.
Claim(s) ==
    /\ Planned /\ Quiet
    /\ entry[s] = "pending" /\ \A t \in Slices : entry[t] # "in-progress"
    /\ entry' = [entry EXCEPT ![s] = "in-progress"]
    /\ marker' = [marker EXCEPT ![s] = "neutral"]
    /\ UNCHANGED <<specs, dir, archive, run>>

\* The driver refines and builds the active entry as `plan status` tells it.
Build(s) ==
    /\ Planned /\ Quiet
    /\ entry[s] = "in-progress" /\ NextAction(s) = "refine"
    /\ dir' = [dir EXCEPT ![s] = "built"]
    /\ marker' = [marker EXCEPT ![s] = "neutral"]
    /\ UNCHANGED <<specs, archive, entry, run>>

\* `plan transition --undo`, under the lock.
Undo(s) ==
    /\ Planned /\ Quiet /\ "hand" \in Hazards
    /\ \/ entry[s] = "done" /\ entry' = [entry EXCEPT ![s] = "in-progress"]
       \/ entry[s] = "in-progress" /\ entry' = [entry EXCEPT ![s] = "pending"]
    /\ marker' = [marker EXCEPT ![s] = "neutral"]
    /\ UNCHANGED <<specs, dir, archive, run>>

\* `slice discard`, without a lock: the metadata is saved, then the slice moved,
\* unless the archive has one of this name from today.
Discard(s) ==
    /\ "hand" \in Hazards
    /\ dir[s] = "built"
    /\ \/ /\ archive' = [archive EXCEPT ![s] = "dropped"]
          /\ dir' = [dir EXCEPT ![s] = "none"]
       \/ archive[s] # "none" /\ dir' = [dir EXCEPT ![s] = "dropped"] /\ UNCHANGED archive
    /\ UNCHANGED <<specs, entry, marker, run>>

\* The command `plan status` offers for a merge whose entry is still open.
CloseByHand(s) ==
    /\ Planned /\ Quiet /\ "hand" \in Hazards
    /\ entry[s] = "in-progress" /\ NextAction(s) = "merge-incomplete"
    /\ entry' = [entry EXCEPT ![s] = "done"]
    /\ UNCHANGED <<specs, dir, archive, marker, run>>

Next ==
    \/ \E a \in Actors : (\E s \in Slices : Start(a, s)) \/ MergeStep(a) \/ Crash(a)
    \/ \E s \in Slices : Claim(s) \/ Build(s) \/ Undo(s) \/ Discard(s) \/ CloseByHand(s)

MergeSpec == Init /\ [][Next]_vars

(***************************************************************************)
(* A merge that was started runs on; the driver builds the active entry    *)
(* and starts its merge when `plan status` says so.                        *)
(***************************************************************************)
Dispatch(s) ==
    entry[s] = "in-progress" /\ NextAction(s) = "merge" /\ \E a \in Actors : Start(a, s)

FairSpec ==
    /\ MergeSpec
    /\ \A a \in Actors : WF_vars(MergeStep(a))
    /\ \A s \in Slices : SF_vars(Build(s)) /\ SF_vars(Dispatch(s))

-----------------------------------------------------------------------------
TypeOK ==
    /\ specs \in [Files -> Spec] /\ \A f \in Files : Coherent(specs[f])
    /\ dir \in [Slices -> {"none", "built", "merged", "dropped"}]
    /\ archive \in [Slices -> {"none", "built", "merged", "dropped"}]
    /\ entry \in [Slices -> {"pending", "in-progress", "done"}]
    /\ marker \in [Slices -> {"neutral", "succeeded", "failed"}]
    /\ run \in [Actors -> [pc : PC, slice : Slices, todo : SUBSET Files,
                           out : [Files -> Spec], refused : BOOLEAN]]

(***************************************************************************)
(* What the delta says of a file holds of it.                              *)
(***************************************************************************)
Reflects(spec, d) ==
    /\ \A i \in DOMAIN d.added : Has(spec.blocks, d.added[i].id)
    /\ \A i \in DOMAIN d.modified : \E j \in DOMAIN spec.blocks :
            spec.blocks[j] = d.modified[i]
    /\ \A i \in DOMAIN d.removed : ~ Has(spec.blocks, d.removed[i].id)

InBaseline(s) == \A f \in Touched(s) : Reflects(specs[f], Staged[s][f])

(***************************************************************************)
(* What a merge into one file owes the slices, if bases[f] is what file f  *)
(* may hold: the delta is in, and nothing another slice brought is lost.   *)
(* It is a fact about the staged deltas alone (slices name different       *)
(* requirements, none modifies a file that is empty).                      *)
(***************************************************************************)
FileMergesHold(bases) ==
    \A s \in Slices : \A f \in Touched(s) : \A x \in bases[f] :
        \A y \in Merged(x, Staged[s][f]) :
            /\ y \in bases[f] /\ Reflects(y, Staged[s][f])
            /\ \A t \in Slices : f \in Touched(t) /\ Reflects(x, Staged[t][f])
                                    => Reflects(y, Staged[t][f])

(***************************************************************************)
(* A slice that counts as merged is in the baselines, all of it: its entry *)
(* is done, or its archived metadata says Merged. Crashes, failed writes   *)
(* and retries do not change this, for slices that name different          *)
(* requirements.                                                           *)
(***************************************************************************)
DoneIsMerged == \A s \in Slices : entry[s] = "done" => InBaseline(s)

ArchivedIsMerged == \A s \in Slices : archive[s] = "merged" => InBaseline(s)

(***************************************************************************)
(* Without crashes and failed writes, and one at a time, merges are        *)
(* all-or-nothing: no step of one shows half a slice to whoever reads the  *)
(* baselines once the merge under way has ended.                           *)
(***************************************************************************)
Seen == [f \in Files |->
    IF \E a \in Actors : run[a].pc = "write" /\ f \in run[a].todo
    THEN LET a == CHOOSE b \in Actors : run[b].pc = "write" /\ f \in run[b].todo
         IN  run[a].out[f]
    ELSE specs[f]]

AllOrNothing == INSTANCE AtomicMerge WITH specs <- Seen
ImplementsAtomicMerge == AllOrNothing!AtomicSpec

(***************************************************************************)
(* A driver left alone closes the entry it claimed, or the merge is        *)
(* refused and `plan status` says so.                                      *)
(***************************************************************************)
ClaimsAreSettled == \A s \in Slices :
    entry[s] = "in-progress" ~> entry[s] = "done" \/ NextAction(s) = "merge-conflict"

-----------------------------------------------------------------------------
(***************************************************************************)
(* What comments and documents say and the code does not keep.             *)
(***************************************************************************)

(***************************************************************************)
(* A merge that was cut short between two baseline writes can be retried.  *)
(***************************************************************************)
TornMergeRetries ==
    Quiet => \A s \in Slices :
        dir[s] = "built" /\ archive[s] = "none"
            /\ (\E f \in Touched(s) : Reflects(specs[f], Staged[s][f]))
        => \A f \in Touched(s) : Merged(specs[f], Staged[s][f]) # {}

=============================================================================
