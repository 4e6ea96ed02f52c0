-------------------------- MODULE SliceRefine_proofs --------------------------
(***************************************************************************)
(* Proofs about SliceRefine, for any domains, claims and responses, every  *)
(* choice of hazards and any number of faults: a refined slice is whole,   *)
(* and a stop that `plan status` reports is one of this slice.             *)
(***************************************************************************)
EXTENDS SliceRefine, FiniteSetTheorems, SequenceTheorems, TLAPS

\* The files a response is staged as.
Needed(r) == Prose \cup Covers[r] \cup {"model"}

Content == [Files -> Responses \cup {None}]

TypeInv ==
    /\ dir \in {"none", "bare", "refining", "refined", "built", "dropped"}
    /\ files \in Content
    /\ build \in [request : Content, report : {"none", "success", "failure"}, of : Content]
    /\ cmd \in [op : {"idle", "create", "synthesize"}, todo : Seq(Files),
                resp : Responses \cup {None}]
    /\ mind \in {"nothing", "synthesized", "validated", "prepared", "reported"}

\* What the driver has in mind is true of the directory, and while a command
\* runs it has nothing in mind.
MindInv ==
    /\ mind # "nothing" => Quiet
    /\ mind \in {"synthesized", "validated"} => dir = "refining" /\ Whole(files)
    /\ mind \in {"prepared", "reported"} => dir = "refined" /\ build.request = files

\* A synthesis under way has written what it needs, or has it still to write.
WriteInv ==
    cmd.op = "synthesize" =>
        /\ cmd.resp \in Responses /\ dir = "refining"
        /\ \A f \in Needed(cmd.resp) :
            files[f] = cmd.resp \/ \E i \in DOMAIN cmd.todo : cmd.todo[i] = f

\* A directory being made, or made anew, has no build in it; a report is of the
\* files that are there.
BuildInv ==
    /\ cmd.op = "create" => dir = "bare"
    /\ build.report = "success" => dir \in {"refined", "built", "dropped"} /\ build.of = files
    /\ dir \in {"refined", "built"} => Whole(files)
    /\ dir = "built" => build.report = "success"

Inv == TypeInv /\ MindInv /\ WriteInv /\ BuildInv

(***************************************************************************)
(* The staged order lists every file of the response.                      *)
(***************************************************************************)
LEMMA SpecOrder ==
    ASSUME NEW S, IsFiniteSet(S)
    PROVE  /\ SetToSeq(S) \in Seq(S)
           /\ \A x \in S : \E i \in DOMAIN SetToSeq(S) : SetToSeq(S)[i] = x
<1> DEFINE n == Cardinality(S)
<1>1. n \in Nat /\ ExistsBijection(1 .. n, S)
  BY FS_CardinalityType
<1>2. PICK g : g \in Bijection(1 .. n, S)
  BY <1>1 DEF ExistsBijection
<1>3. g \in [1 .. n -> S] /\ IsInjective(g)
  BY <1>2 DEF Bijection, Injection, IsInjective
<1> DEFINE f == CHOOSE h \in [1 .. n -> S] : IsInjective(h)
<1>4. f \in [1 .. n -> S] /\ IsInjective(f)
  BY <1>3
<1>5. f = SetToSeq(S)
  BY DEF SetToSeq
<1> HIDE DEF f
<1>6. f \in Injection(1 .. n, S)
  BY <1>4 DEF Injection, IsInjective
<1>7. IsFiniteSet(1 .. n) /\ Cardinality(1 .. n) = n
  BY <1>1, FS_Interval
<1>8. f \in Surjection(1 .. n, S)
  BY <1>6, <1>7, FS_Injection
<1>9. \A x \in S : \E i \in 1 .. n : f[i] = x
  BY <1>8 DEF Surjection
<1> QED BY <1>1, <1>4, <1>5, <1>9

LEMMA StagedHasAll ==
    ASSUME NEW r \in Responses
    PROVE  /\ Staged(r) \in Seq(Files)
           /\ \A f \in Needed(r) : \E i \in DOMAIN Staged(r) : Staged(r)[i] = f
<1> DEFINE s == SetToSeq(Covers[r])
<1>1. Covers[r] \subseteq Domains /\ IsFiniteSet(Covers[r])
  BY SliceRefineAssumption, FS_Subset
<1>2. s \in Seq(Covers[r]) /\ \A x \in Covers[r] : \E i \in DOMAIN s : s[i] = x
  BY <1>1, SpecOrder
<1>3. s \in Seq(Files)
  BY <1>1, <1>2 DEF Files
<1> HIDE DEF s
<1> DEFINE u == <<"proposal">> \o s
           v == <<"design", "tasks", "model">>
<1>4. /\ u \in Seq(Files) /\ Len(u) = Len(s) + 1 /\ u[1] = "proposal"
      /\ \A i \in DOMAIN s : u[i + 1] = s[i]
  BY <1>3 DEF Files, Prose
<1>5. v \in Seq(Files) /\ Len(v) = 3 /\ v[1] = "design" /\ v[2] = "tasks" /\ v[3] = "model"
  BY DEF Files, Prose
<1>6. Staged(r) = u \o v
  BY <1>3, <1>5 DEF Staged, s
<1> HIDE DEF u, v
<1>7. /\ u \o v \in Seq(Files) /\ DOMAIN (u \o v) = 1 .. (Len(u) + 3)
      /\ \A i \in 1 .. Len(u) : (u \o v)[i] = u[i]
      /\ \A i \in 1 .. 3 : (u \o v)[Len(u) + i] = v[i]
  <2>1. /\ u \o v \in Seq(Files) /\ Len(u \o v) = Len(u) + Len(v)
        /\ \A i \in 1 .. Len(u) + Len(v) :
              (u \o v)[i] = IF i <= Len(u) THEN u[i] ELSE v[i - Len(u)]
    BY <1>4, <1>5, ConcatProperties
  <2>2. Len(u) \in Nat /\ Len(u) + Len(v) = Len(u) + 3
    BY <1>4, <1>5
  <2>3. DOMAIN (u \o v) = 1 .. (Len(u) + 3)
    BY <2>1, <2>2
  <2>4. \A i \in 1 .. Len(u) : (u \o v)[i] = u[i]
    BY <2>1, <2>2
  <2>5. \A i \in 1 .. 3 : (u \o v)[Len(u) + i] = v[i]
    BY <2>1, <2>2
  <2> QED BY <2>1, <2>3, <2>4, <2>5
<1>8. Len(s) \in Nat /\ DOMAIN s = 1 .. Len(s)
  BY <1>3
<1> QED
  <2>1. SUFFICES ASSUME NEW f \in Needed(r)
                 PROVE  \E i \in DOMAIN (u \o v) : (u \o v)[i] = f
    BY <1>6, <1>7
  <2>2. CASE f = "proposal"
    <3>1. 1 \in DOMAIN (u \o v) /\ (u \o v)[1] = f
      BY <1>4, <1>7, <1>8, <2>2
    <3> QED BY <3>1
  <2>3. CASE f \in Covers[r]
    <3>1. PICK i \in DOMAIN s : s[i] = f
      BY <1>2, <2>3
    <3>2. i + 1 \in DOMAIN (u \o v) /\ (u \o v)[i + 1] = f
      BY <1>4, <1>7, <1>8, <3>1
    <3> QED BY <3>2
  <2>4. CASE f \in {"design", "tasks", "model"}
    <3>1. PICK j \in 1 .. 3 : v[j] = f
      BY <1>5, <2>4
    <3>2. Len(u) + j \in DOMAIN (u \o v) /\ (u \o v)[Len(u) + j] = f
      BY <1>4, <1>7, <1>8, <3>1
    <3> QED BY <3>2
  <2> QED BY <2>2, <2>3, <2>4 DEF Needed, Prose

(***************************************************************************)
(* What the driver may do in a phase tells what the directory awaits.      *)
(***************************************************************************)
LEMMA DrivesPhase ==
    /\ Drives("refine") => Quiet /\ dir \in {"none", "bare", "refining"}
    /\ Drives("build") => Quiet /\ dir = "refined"
BY DEF Drives, StopOf, Status

LEMMA Nothing ==
    /\ NoFiles \in Content
    /\ NoBuild \in [request : Content, report : {"none", "success", "failure"}, of : Content]
    /\ NoBuild.report = "none"
    /\ Idle \in [op : {"idle", "create", "synthesize"}, todo : Seq(Files),
                 resp : Responses \cup {None}]
    /\ Idle.op = "idle"
BY DEF NoFiles, NoBuild, Idle, Content

(***************************************************************************)
(* The steps, each keeping the invariant.                                  *)
(***************************************************************************)
LEMMA MakeInv ==
    ASSUME Inv, Create \/ Restart \/ SaveMetadata
    PROVE  Inv'
<1>1. CASE Create \/ Restart
  <2>1. /\ dir' = "bare" /\ files' = NoFiles /\ build' = NoBuild /\ mind' = "nothing"
        /\ cmd' = [Idle EXCEPT !.op = "create"]
    BY <1>1 DEF Create, Restart, Cleared
  <2>2. cmd'.op = "create" /\ cmd' \in [op : {"idle", "create", "synthesize"},
                                todo : Seq(Files), resp : Responses \cup {None}]
    BY <2>1, Nothing
  <2> QED BY <2>1, <2>2, Nothing DEF Inv, TypeInv, MindInv, WriteInv, BuildInv
<1>2. CASE SaveMetadata
  <2>1. /\ dir = "bare" /\ dir' = "refining" /\ cmd' = Idle /\ UNCHANGED <<files, build, mind>>
    BY <1>2 DEF SaveMetadata, Inv, BuildInv
  <2> QED BY <1>2, <2>1, Nothing DEF SaveMetadata, Inv, TypeInv, MindInv, WriteInv, BuildInv, Quiet
<1> QED BY <1>1, <1>2

LEMMA ExtractInv ==
    ASSUME Inv, NEW cs \in SUBSET Claims, Extract(cs)
    PROVE  Inv'
<1>1. /\ Quiet /\ UNCHANGED <<files, build, cmd, mind>>
      /\ dir' = IF dir = "none" THEN "bare" ELSE dir
  BY DrivesPhase DEF Extract
<1> QED BY <1>1, Nothing DEF Inv, TypeInv, MindInv, WriteInv, BuildInv, Quiet

LEMMA SynthesizeInv ==
    ASSUME Inv, NEW r \in Responses, Synthesize(r)
    PROVE  Inv'
<1>1. /\ Quiet /\ dir = "refining" /\ mind' = "nothing" /\ UNCHANGED <<dir, files, build>>
      /\ cmd' = cmd \/ cmd' = [op |-> "synthesize", todo |-> Staged(r), resp |-> r]
  BY DrivesPhase DEF Synthesize, disk
<1>2. CASE cmd' = cmd
  BY <1>1, <1>2, Nothing DEF Inv, TypeInv, MindInv, WriteInv, BuildInv, Quiet
<1>3. CASE cmd' = [op |-> "synthesize", todo |-> Staged(r), resp |-> r]
  <2>1. WriteInv'
    BY <1>1, <1>3, StagedHasAll DEF WriteInv
  <2>2. TypeInv'
    BY <1>1, <1>3, StagedHasAll DEF Inv, TypeInv
  <2> QED BY <1>1, <1>3, <2>1, <2>2 DEF Inv, MindInv, BuildInv
<1> QED BY <1>1, <1>2, <1>3

LEMMA WriteFileInv ==
    ASSUME Inv, WriteFile
    PROVE  Inv'
<1> DEFINE h == Head(cmd.todo)
<1>1. /\ cmd.op = "synthesize" /\ cmd.todo # << >> /\ cmd.todo \in Seq(Files)
      /\ cmd.resp \in Responses /\ dir = "refining" /\ mind = "nothing"
  BY Nothing DEF WriteFile, Inv, TypeInv, WriteInv, MindInv, Quiet
<1>2. /\ files' = [files EXCEPT ![h] = cmd.resp] /\ cmd' = [cmd EXCEPT !.todo = Tail(@)]
      /\ UNCHANGED <<dir, build, mind>>
  BY DEF WriteFile
<1>3. h \in Files /\ Tail(cmd.todo) \in Seq(Files) /\ h = cmd.todo[1]
  BY <1>1
<1>4. /\ cmd'.op = "synthesize" /\ cmd'.resp = cmd.resp /\ cmd'.todo = Tail(cmd.todo)
      /\ files' \in Content /\ files'[h] = cmd.resp
      /\ \A f \in Files \ {h} : files'[f] = files[f]
  BY <1>1, <1>2, <1>3 DEF Inv, TypeInv, Content
<1>5. TypeInv'
  BY <1>2, <1>3, <1>4 DEF Inv, TypeInv
<1>6. \A f \in Needed(cmd.resp) :
          files'[f] = cmd.resp \/ \E i \in DOMAIN Tail(cmd.todo) : Tail(cmd.todo)[i] = f
  <2>1. TAKE f \in Needed(cmd.resp)
  <2>2. f \in Files
    BY <1>1, SliceRefineAssumption DEF Needed, Files
  <2>3. CASE files[f] = cmd.resp \/ f = h
    BY <1>4, <2>2, <2>3
  <2>4. CASE f # h /\ \E i \in DOMAIN cmd.todo : cmd.todo[i] = f
    <3>1. PICK i \in DOMAIN cmd.todo : cmd.todo[i] = f
      BY <2>4
    <3>2. i \in 2 .. Len(cmd.todo)
      BY <1>1, <1>3, <2>4, <3>1
    <3>3. i - 1 \in DOMAIN Tail(cmd.todo) /\ Tail(cmd.todo)[i - 1] = f
      BY <1>1, <3>1, <3>2
    <3> QED BY <3>3
  <2> QED BY <1>1, <2>3, <2>4 DEF Inv, WriteInv
<1>7. WriteInv'
  BY <1>1, <1>2, <1>4, <1>6 DEF WriteInv
<1> QED BY <1>1, <1>2, <1>4, <1>5, <1>7 DEF Inv, MindInv, BuildInv

LEMMA WriteEndsInv ==
    ASSUME Inv, WriteFails \/ Synthesized \/ Crash
    PROVE  Inv'
<1>1. CASE WriteFails \/ Crash
  <2>1. cmd' = Idle /\ UNCHANGED <<dir, files, build>> /\ mind' \in {mind, "nothing"}
    BY <1>1 DEF WriteFails, Crash, disk
  <2> QED BY <2>1, Nothing DEF Inv, TypeInv, MindInv, WriteInv, BuildInv, Quiet
<1>2. CASE Synthesized
  <2>1. /\ cmd.op = "synthesize" /\ cmd.todo = << >>
        /\ cmd' = Idle /\ mind' = "synthesized" /\ UNCHANGED <<dir, files, build>>
    BY <1>2 DEF Synthesized, disk
  <2>2. dir = "refining" /\ Whole(files)
    BY <2>1 DEF Inv, WriteInv, Whole, Needed
  <2> QED BY <2>1, <2>2, Nothing DEF Inv, TypeInv, MindInv, WriteInv, BuildInv, Quiet
<1> QED BY <1>1, <1>2

LEMMA RefineInv ==
    ASSUME Inv, Validate \/ Refine
    PROVE  Inv'
<1>1. CASE Validate
  <2>1. /\ mind = "synthesized" /\ mind' \in {"nothing", "validated"}
        /\ UNCHANGED <<dir, files, build, cmd>>
    BY <1>1 DEF Validate, disk
  <2> QED BY <2>1 DEF Inv, TypeInv, MindInv, WriteInv, BuildInv, Quiet
<1>2. CASE Refine
  <2>1. /\ mind = "validated" /\ dir = "refining" /\ mind' = "nothing" /\ dir' = "refined"
        /\ UNCHANGED <<files, build, cmd>>
    BY <1>2 DEF Refine
  <2>2. cmd = Idle
    BY <2>1 DEF Inv, MindInv, Quiet
  <2> QED BY <2>1, <2>2, Nothing DEF Inv, TypeInv, MindInv, WriteInv, BuildInv
<1> QED BY <1>1, <1>2

LEMMA BuildStepInv ==
    ASSUME Inv, Prepare \/ Report \/ Finalize
    PROVE  Inv'
<1>1. Quiet /\ dir = "refined" /\ UNCHANGED <<files, cmd>>
  BY DrivesPhase DEF Prepare, Report, Finalize
<1>2. cmd.op = "idle" /\ Whole(files)
  BY <1>1, Nothing DEF Quiet, Inv, BuildInv
<1>3. CASE Prepare
  <2>1. /\ build' = [build EXCEPT !.request = files] /\ mind' = "prepared" /\ dir' = dir
    BY <1>3 DEF Prepare
  <2>2. /\ build' \in [request : Content, report : {"none", "success", "failure"}, of : Content]
        /\ build'.request = files /\ build'.report = build.report /\ build'.of = build.of
    BY <2>1 DEF Inv, TypeInv
  <2> QED BY <1>1, <1>2, <2>1, <2>2 DEF Inv, TypeInv, MindInv, WriteInv, BuildInv, Quiet
<1>4. CASE Report
  <2>1. /\ mind = "prepared" /\ mind' = "reported" /\ dir' = dir
        /\ \/ build' = build
           \/ \E verdict \in {"success", "failure"} :
                build' = [build EXCEPT !.report = verdict, !.of = build.request]
    BY <1>4 DEF Report
  <2>2. build.request = files
    BY <2>1 DEF Inv, MindInv
  <2>3. /\ build' \in [request : Content, report : {"none", "success", "failure"}, of : Content]
        /\ build'.request = files
        /\ build'.report = "success" => build'.of = files
    BY <1>1, <2>1, <2>2 DEF Inv, TypeInv, BuildInv
  <2> QED BY <1>1, <1>2, <2>1, <2>3 DEF Inv, TypeInv, MindInv, WriteInv, BuildInv, Quiet
<1>5. CASE Finalize
  <2>1. /\ mind' = "nothing" /\ build' = build
        /\ \/ dir' = dir
           \/ build.report = "success" /\ dir' = "built"
    BY <1>5 DEF Finalize
  <2> QED BY <1>1, <1>2, <2>1 DEF Inv, TypeInv, MindInv, WriteInv, BuildInv
<1> QED BY <1>3, <1>4, <1>5

LEMMA OperatorInv ==
    ASSUME Inv, Claim \/ Undo \/ Drop
    PROVE  Inv'
<1>1. CASE Claim \/ Undo
  <2>1. Quiet /\ mind' = "nothing" /\ UNCHANGED <<dir, files, build, cmd>>
    BY <1>1 DEF Claim, Undo, disk
  <2> QED BY <2>1 DEF Inv, TypeInv, MindInv, WriteInv, BuildInv, Quiet
<1>2. CASE Drop
  <2>1. /\ cmd' = Idle /\ mind' = "nothing"
        /\ dir \in {"refining", "refined", "built"}
        /\ \/ dir' = "none" /\ files' = NoFiles /\ build' = NoBuild
           \/ dir' = "dropped" /\ UNCHANGED <<files, build>>
    BY <1>2 DEF Drop, Cleared, Quiet
  <2> QED BY <2>1, Nothing DEF Inv, TypeInv, MindInv, WriteInv, BuildInv
<1> QED BY <1>1, <1>2

LEMMA NextInv ==
    ASSUME Inv, [Next]_vars
    PROVE  Inv'
<1>1. CASE UNCHANGED vars
  BY <1>1 DEF vars, Inv, TypeInv, MindInv, WriteInv, BuildInv, Quiet
<1>2. CASE Drive
  BY <1>2, MakeInv, ExtractInv, SynthesizeInv, WriteFileInv, WriteEndsInv, RefineInv,
     BuildStepInv DEF Drive
<1>3. CASE Claim \/ Undo \/ Drop
  BY <1>3, OperatorInv
<1>4. CASE Crash \/ WriteFails
  BY <1>4, WriteEndsInv
<1> QED BY <1>1, <1>2, <1>3, <1>4 DEF Next

(***************************************************************************)
(* A refined slice has all the artifacts of one synthesis, and a built one *)
(* was reported built from them, whatever failed or crashed on the way and *)
(* however often the operator undid, dropped and extracted again.          *)
(***************************************************************************)
THEOREM RefinedIsWhole == Spec => []BuiltFromOneSynthesis
<1>1. Init => Inv
  BY Nothing DEF Init, Inv, TypeInv, MindInv, WriteInv, BuildInv
<1>2. Inv /\ [Next]_vars => Inv'
  BY NextInv
<1>3. Inv => BuiltFromOneSynthesis
  BY DEF Inv, BuildInv, BuiltFromOneSynthesis
<1> QED BY <1>1, <1>2, <1>3, PTL DEF Spec

-----------------------------------------------------------------------------
(***************************************************************************)
(* What the newest marker may say: once synthesis reported success, and no *)
(* line was lost, nothing of an older slice of the name is the newest any  *)
(* more; and a failed build of a refined slice is one of its own.          *)
(***************************************************************************)
StopInv ==
    /\ mind \in {"synthesized", "validated"} /\ marker = "build-failed" => lost
    /\ dir = "refined" /\ marker = "build-failed" => "build-failed" \in failedHere \/ lost

LEMMA RefineStops ==
    ASSUME Inv, StopInv,
           \/ Create \/ Restart \/ SaveMetadata \/ (\E cs \in SUBSET Claims : Extract(cs))
           \/ (\E r \in Responses : Synthesize(r)) \/ WriteFile \/ Synthesized
           \/ Validate \/ Refine \/ WriteFails
    PROVE  StopInv'
<1>1. CASE Create \/ Restart
  BY <1>1 DEF Create, Restart, StopInv
<1>2. CASE SaveMetadata
  BY <1>2 DEF SaveMetadata, StopInv
<1>3. CASE \E cs \in SUBSET Claims : Extract(cs)
  BY <1>3 DEF Extract, StopInv
<1>4. CASE \E r \in Responses : Synthesize(r)
  <2>1. dir' = "refining" /\ mind' = "nothing"
    BY <1>4 DEF Synthesize, disk
  <2> QED BY <2>1 DEF StopInv
<1>5. CASE WriteFile
  BY <1>5 DEF WriteFile, StopInv
<1>6. CASE Synthesized
  <2>1. dir' = "refining" /\ (marker' = "neutral" \/ lost')
    BY <1>6 DEF Synthesized, disk, Emit, Inv, WriteInv
  <2> QED BY <2>1 DEF StopInv
<1>7. CASE Validate
  BY <1>7 DEF Validate, disk, StopInv
<1>8. CASE Refine
  BY <1>8 DEF Refine, StopInv
<1>9. CASE WriteFails
  BY <1>9 DEF WriteFails, StopInv
<1> QED BY <1>1, <1>2, <1>3, <1>4, <1>5, <1>6, <1>7, <1>8, <1>9

LEMMA BuildStops ==
    ASSUME Inv, StopInv,
           Prepare \/ Report \/ Finalize \/ Claim \/ Undo \/ Drop \/ Crash
    PROVE  StopInv'
<1>1. CASE Prepare \/ Report
  BY <1>1 DEF Prepare, Report, StopInv
<1>2. CASE Finalize
  <2>1. mind' = "nothing"
    BY <1>2 DEF Finalize
  <2>2. ASSUME dir' = "refined", marker' = "build-failed"
        PROVE  "build-failed" \in failedHere' \/ lost'
    <3>1. CASE Emit("build-failed") /\ failedHere' = failedHere \cup {"build-failed"}
      BY <3>1
    <3>2. CASE dir' = "built"
      BY <2>2, <3>2
    <3> QED BY <1>2, <3>1, <3>2 DEF Finalize
  <2> QED BY <2>1, <2>2 DEF StopInv
<1>3. CASE Claim \/ Undo
  BY <1>3 DEF Claim, Undo, StopInv
<1>4. CASE Drop
  BY <1>4 DEF Drop, StopInv
<1>5. CASE Crash
  BY <1>5 DEF Crash, disk, StopInv
<1> QED BY <1>1, <1>2, <1>3, <1>4, <1>5

(***************************************************************************)
(* `plan status` stops at build-failed only when a build of this slice     *)
(* failed, or the journal lost a line, for any number of drops, crashes    *)
(* and undone claims.                                                      *)
(***************************************************************************)
THEOREM NoForeignStop == Spec => []StopsAreCurrent
<1>1. Init => Inv /\ StopInv
  <2>1. Init => Inv
    BY Nothing DEF Init, Inv, TypeInv, MindInv, WriteInv, BuildInv
  <2>2. Init => StopInv
    BY DEF Init, StopInv
  <2> QED BY <2>1, <2>2
<1>2. Inv /\ StopInv /\ [Next]_vars => Inv' /\ StopInv'
  <2> SUFFICES ASSUME Inv, StopInv, [Next]_vars PROVE StopInv'
    BY NextInv
  <2>1. CASE UNCHANGED vars
    BY <2>1 DEF vars, StopInv
  <2>2. CASE Next
    BY <2>2, RefineStops, BuildStops DEF Next, Drive
  <2> QED BY <2>1, <2>2
<1>3. StopInv => StopsAreCurrent
  BY DEF StopInv, StopsAreCurrent, Status
<1> QED BY <1>1, <1>2, <1>3, PTL DEF Spec
=============================================================================
