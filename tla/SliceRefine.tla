------------------------------ MODULE SliceRefine ------------------------------
(***************************************************************************)
(* One slice from the claim of its plan entry to Built: `slice create`,    *)
(* `slice synthesize --from`, `slice validate`, `slice transition`, `slice *)
(* build` in its two phases, `slice drop`, and the driver that runs them   *)
(* as `plan status` tells it, one command at a time. The driver keeps in   *)
(* mind how far it is in a phase; when it dies it starts the phase again.  *)
(*                                                                         *)
(* An artifact is represented by the synthesis response it was written     *)
(* from. Hazards: "crash" kills the driver with its command; "io" fails a  *)
(* write or an append; "hand" is the operator, who undoes the claim, drops *)
(* the slice and extracts evidence again. MaxFaults bounds all of them.    *)
(***************************************************************************)
EXTENDS Naturals, Sequences, FiniteSets, SequencesExt

CONSTANTS
    Domains, Claims, Responses,
    Covers,     \* the domains a response has requirements in
    Uses,       \* the evidence claims its requirements anchor
    Lines,      \* the provenance lines a response renders for a domain
    Hazards, MaxFaults,
    None

Prose == {"proposal", "design", "tasks"}
Files == Prose \cup Domains \cup {"model"}

ASSUME SliceRefineAssumption ==
    /\ IsFiniteSet(Domains) /\ Covers \in [Responses -> SUBSET Domains]
    /\ Uses \in [Responses -> SUBSET Claims]
    /\ DOMAIN Lines = Responses \X Domains
    /\ Hazards \subseteq {"crash", "io", "hand"} /\ MaxFaults \in Nat
    /\ None \notin Responses

VARIABLES
    dir,        \* the slice directory: absent, without metadata.yaml, or its status
    files,      \* the artifacts in it
    evidence,   \* the claims of the evidence files in it
    build,      \* build/request.yaml and build/report.yaml in it
    claimed,    \* whether the plan entry is in-progress
    marker,     \* the newest journal event `plan status` goes by
    cmd,        \* the command that runs, and the files it still has to write
    mind,       \* what the driver knows it has done of the phase
    failedHere, \* history: the phases that failed since the slice was created
    lost,       \* history: whether a journal line was lost
    faults

disk == <<dir, files, evidence, build>>
vars == <<dir, files, evidence, build, claimed, marker, cmd, mind, failedHere, lost, faults>>

NoFiles == [f \in Files |-> None]
NoBuild == [request |-> NoFiles, report |-> "none", of |-> NoFiles]
Idle == [op |-> "idle", todo |-> << >>, resp |-> None]
Quiet == cmd = Idle

Init ==
    /\ dir = "none" /\ files = NoFiles /\ evidence = {} /\ build = NoBuild
    /\ claimed = FALSE /\ marker = "neutral"
    /\ cmd = Idle /\ mind = "nothing"
    /\ failedHere = {} /\ lost = FALSE /\ faults = 0

Fault(kind) == kind \in Hazards /\ faults < MaxFaults /\ faults' = faults + 1

\* emit_best_effort: the line is written, or lost and nobody told.
Emit(m) == \/ marker' = m /\ UNCHANGED <<lost, faults>>
           \/ Fault("io") /\ lost' = TRUE /\ UNCHANGED marker

-----------------------------------------------------------------------------
\* Mutant of Status: a failure stops the driver whatever the slice awaits.
StatusOfAnyPhase ==
    IF claimed /\ marker # "neutral" THEN marker
    ELSE CASE dir \in {"none", "bare", "refining"} -> "refine"
           [] dir = "refined" -> "build"
           [] dir = "built" -> "merge"
           [] OTHER -> "slice-dropped"

\* plan_status_body and resolve_entry for the entry of the slice.
Status ==
    LET awaited == CASE dir \in {"none", "bare", "refining"} -> "refine"
                     [] dir = "refined" -> "build"
                     [] dir = "built" -> "merge"
                     [] OTHER -> "slice-dropped"
    IN  CASE claimed /\ marker = "refine-failed" /\ awaited = "refine" -> "refine-failed"
          [] claimed /\ marker = "build-failed" /\ awaited = "build" -> "build-failed"
          [] OTHER -> awaited

StopOf == [refine |-> "refine-failed", build |-> "build-failed"]

\* The driver goes on as told, and tries a failed phase again as the hint says.
Drives(phase) == claimed /\ Quiet /\ Status \in {phase, StopOf[phase]}

-----------------------------------------------------------------------------
\* A new directory has nothing of the old one.
Cleared ==
    /\ files' = NoFiles /\ evidence' = {} /\ build' = NoBuild /\ failedHere' = {}

\* `slice create`: the directory first.
Create ==
    /\ Drives("refine") /\ mind = "nothing" /\ dir = "none"
    /\ dir' = "bare" /\ Cleared
    /\ cmd' = [Idle EXCEPT !.op = "create"]
    /\ UNCHANGED <<claimed, marker, mind, faults, lost>>

\* Mutant of Restart: it takes up a slice only where Continue would.
RestartContinues ==
    /\ Drives("refine") /\ mind = "nothing" /\ dir = "refining"
    /\ dir' = "bare" /\ Cleared
    /\ cmd' = [Idle EXCEPT !.op = "create"]
    /\ UNCHANGED <<claimed, marker, mind, faults, lost>>

\* `--if-exists continue` refuses a directory without metadata; `restart` removes it.
Restart ==
    /\ Drives("refine") /\ mind = "nothing" /\ dir \in {"bare", "refining"}
    /\ dir' = "bare" /\ Cleared
    /\ cmd' = [Idle EXCEPT !.op = "create"]
    /\ UNCHANGED <<claimed, marker, mind, faults, lost>>

\* The metadata is saved second.
SaveMetadata ==
    /\ cmd.op = "create"
    /\ dir' = "refining" /\ cmd' = Idle
    /\ UNCHANGED <<files, evidence, build, claimed, marker, mind, failedHere, faults, lost>>

\* The evidence of a source is staged; its prepare makes the directory.
Extract(cs) ==
    /\ \/ Drives("refine") /\ mind = "nothing" /\ dir = "refining" /\ UNCHANGED faults
       \/ Quiet /\ dir # "dropped" /\ Fault("hand")
    /\ evidence # cs /\ evidence' = cs
    /\ dir' = IF dir = "none" THEN "bare" ELSE dir
    /\ UNCHANGED <<files, build, claimed, marker, cmd, mind, failedHere, lost>>

\* synthesize_from aborts on a claim that anchors no evidence.
Orphaned(r) == Uses[r] \ evidence # {}

Staged(r) ==
    <<"proposal">> \o SetToSeq(Covers[r]) \o <<"design", "tasks", "model">>

\* `slice synthesize --from`: everything is computed before the first write.
Synthesize(r) ==
    /\ Drives("refine") /\ mind \in {"nothing", "synthesized"} /\ dir = "refining"
    /\ mind' = "nothing"
    /\ \/ /\ ~ Orphaned(r)
          /\ cmd' = [op |-> "synthesize", todo |-> Staged(r), resp |-> r]
          /\ UNCHANGED <<marker, failedHere, lost, faults>>
       \/ /\ Orphaned(r)
          /\ Emit("refine-failed") /\ failedHere' = failedHere \cup {"refine-failed"}
          /\ UNCHANGED cmd
    /\ UNCHANGED <<disk, claimed>>

\* One staged file, by a rename.
WriteFile ==
    /\ cmd.op = "synthesize" /\ cmd.todo # << >>
    /\ files' = [files EXCEPT ![Head(cmd.todo)] = cmd.resp]
    /\ cmd' = [cmd EXCEPT !.todo = Tail(@)]
    /\ UNCHANGED <<dir, evidence, build, claimed, marker, mind, failedHere, faults, lost>>

\* A write fails: the files before it stay as they are.
WriteFails ==
    /\ cmd.op = "synthesize" /\ cmd.todo # << >>
    /\ Fault("io")
    /\ marker' = "refine-failed" /\ failedHere' = failedHere \cup {"refine-failed"}
    /\ cmd' = Idle
    /\ UNCHANGED <<disk, claimed, mind, lost>>

\* Mutant of Synthesized: the driver is told of success after the first file.
SynthesizedEarly ==
    /\ cmd.op = "synthesize"
    /\ Emit("neutral")
    /\ cmd' = Idle /\ mind' = "synthesized"
    /\ UNCHANGED <<disk, claimed, failedHere>>

Synthesized ==
    /\ cmd.op = "synthesize" /\ cmd.todo = << >>
    /\ Emit("neutral")
    /\ cmd' = Idle /\ mind' = "synthesized"
    /\ UNCHANGED <<disk, claimed, failedHere>>

\* pre_adapter_gates: model.yaml, if there is one, against the evidence and the
\* spec files of its domains.
Coherent ==
    LET m == files["model"]
    IN  m # None =>
          /\ ~ Orphaned(m)
          /\ \A d \in Covers[m] : files[d] # None /\ Lines[files[d], d] = Lines[m, d]

\* `slice validate`; the journal of its tags is not best effort.
Validate ==
    /\ Drives("refine") /\ mind = "synthesized" /\ dir = "refining"
    /\ \/ Coherent /\ mind' = "validated" /\ UNCHANGED faults
       \/ ~ Coherent /\ mind' = "nothing" /\ UNCHANGED faults
       \/ Coherent /\ Fault("io") /\ mind' = "nothing"
    /\ UNCHANGED <<disk, claimed, marker, cmd, failedHere, lost>>

\* `slice transition <slice> refined`: saved, then logged; the driver may be told of
\* an error after the status moved.
Refine ==
    /\ Drives("refine") /\ mind = "validated" /\ dir = "refining"
    /\ dir' = "refined" /\ mind' = "nothing"
    /\ UNCHANGED <<files, evidence, build, claimed, marker, cmd, failedHere, faults, lost>>

-----------------------------------------------------------------------------
\* `slice build --phase prepare`: the request lists what is there. A report of an
\* earlier build stays.
Prepare ==
    /\ Drives("build") /\ mind = "nothing"
    /\ build' = [build EXCEPT !.request = files]
    /\ mind' = "prepared"
    /\ UNCHANGED <<dir, files, evidence, claimed, marker, cmd, failedHere, faults, lost>>

\* The agent of the build brief writes build/report.yaml, or dies before it does.
Report ==
    /\ Drives("build") /\ mind = "prepared"
    /\ \/ \E verdict \in {"success", "failure"} :
            build' = [build EXCEPT !.report = verdict, !.of = build.request]
       \/ UNCHANGED build
    /\ mind' = "reported"
    /\ UNCHANGED <<dir, files, evidence, claimed, marker, cmd, failedHere, faults, lost>>

\* finalize_report and the bracket around it. Outputs a success names may be missing.
Finalize ==
    /\ Drives("build") /\ mind = "reported"
    /\ mind' = "nothing"
    /\ \/ /\ build.report = "success"
          /\ dir' = "built" /\ Emit("neutral")
          /\ UNCHANGED failedHere
       \/ /\ Emit("build-failed") /\ failedHere' = failedHere \cup {"build-failed"}
          /\ UNCHANGED dir
    /\ UNCHANGED <<files, evidence, build, claimed, cmd>>

-----------------------------------------------------------------------------
\* `plan next` for this entry.
Claim ==
    /\ Quiet /\ ~ claimed
    /\ claimed' = TRUE /\ marker' = "neutral" /\ mind' = "nothing"
    /\ UNCHANGED <<disk, cmd, failedHere, faults, lost>>

\* `plan transition <entry> --undo`.
Undo ==
    /\ Quiet /\ claimed /\ Fault("hand")
    /\ claimed' = FALSE /\ marker' = "neutral" /\ mind' = "nothing"
    /\ UNCHANGED <<disk, cmd, failedHere, lost>>

\* `slice drop`: saved as Dropped and moved to the archive, unless that has a slice
\* of the name from today.
Drop ==
    /\ Quiet /\ dir \in {"refining", "refined", "built"} /\ Fault("hand")
    /\ \/ dir' = "none" /\ Cleared
       \/ dir' = "dropped" /\ UNCHANGED <<files, evidence, build, failedHere>>
    /\ mind' = "nothing"
    /\ UNCHANGED <<claimed, marker, cmd, lost>>

\* The driver dies with the command it runs and forgets where it was.
Crash ==
    /\ cmd # Idle \/ mind # "nothing"
    /\ Fault("crash")
    /\ cmd' = Idle /\ mind' = "nothing"
    /\ UNCHANGED <<disk, claimed, marker, failedHere, lost>>

Drive ==
    \/ Create \/ Restart \/ SaveMetadata \/ (\E cs \in SUBSET Claims : Extract(cs))
    \/ (\E r \in Responses : Synthesize(r)) \/ WriteFile \/ Synthesized \/ Validate \/ Refine
    \/ Prepare \/ Report \/ Finalize

Next == Drive \/ Claim \/ Undo \/ Drop \/ Crash \/ WriteFails

Spec == Init /\ [][Next]_vars

(***************************************************************************)
(* A command that runs goes on. A driver that gets to a point of a phase   *)
(* again and again takes it; the sources yield all their claims, and the   *)
(* agents anchored responses and successful builds, in the end.            *)
(***************************************************************************)
FairSpec ==
    /\ Spec
    /\ WF_vars(SaveMetadata) /\ WF_vars(WriteFile) /\ WF_vars(Synthesized)
    /\ SF_vars(Create) /\ SF_vars(dir = "bare" /\ Restart)
    /\ SF_vars(Extract(Claims))
    /\ \A r \in Responses : SF_vars(~ Orphaned(r) /\ Synthesize(r))
    /\ SF_vars(Validate) /\ SF_vars(Refine)
    /\ SF_vars(Prepare) /\ SF_vars(Report /\ build'.report = "success")
    /\ WF_vars(Finalize) /\ SF_vars(Finalize /\ dir' = "built")

-----------------------------------------------------------------------------
\* All of a response is there.
Whole(fs) == \E r \in Responses :
    \A f \in Prose \cup Covers[r] \cup {"model"} : fs[f] = r

(***************************************************************************)
(* A refined slice has the artifacts of one synthesis, whatever crashed or *)
(* failed on the way; a built one was reported built from just these.      *)
(***************************************************************************)
BuiltFromOneSynthesis ==
    /\ dir \in {"refined", "built"} => Whole(files)
    /\ dir = "built" => build.report = "success" /\ build.of = files

(***************************************************************************)
(* `plan status` stops at build-failed only when a build of this slice     *)
(* failed, and not one of an earlier slice of the name, unless the journal *)
(* lost a line.                                                            *)
(***************************************************************************)
StopsAreCurrent == Status = "build-failed" => "build-failed" \in failedHere \/ lost

(***************************************************************************)
(* A claimed entry gets its slice built: no crash, failed write, lost line *)
(* or stop leaves a state its retries do not get out of, but a dropped     *)
(* slice the archive did not take.                                         *)
(***************************************************************************)
Progress == claimed ~> dir \in {"built", "dropped"} \/ ~ claimed

(***************************************************************************)
(* What a document says and the code does not keep: a synthesis that fails *)
(* leaves the artifacts of the one before.                                 *)
(***************************************************************************)
PriorArtifactsIntact == Quiet => files = NoFiles \/ Whole(files)

=============================================================================
