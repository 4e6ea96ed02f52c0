-------------------------- MODULE SliceMerge_proofs --------------------------
(***************************************************************************)
(* Proofs about SliceMerge under a plan, for any slices, files and number  *)
(* of actors: merges that do not crash implement AtomicMerge; and whatever *)
(* crashes, fails or is done by hand, a slice that counts as merged is in  *)
(* the baselines, provided merges into one file keep what they owe.        *)
(***************************************************************************)
EXTENDS SliceMerge, WellFoundedInduction, TLAPS

Fields == {"pc", "slice", "todo", "out", "refused"}

Shape ==
    /\ DOMAIN specs = Files
    /\ dir \in [Slices -> {"none", "built", "merged", "dropped"}]
    /\ archive \in [Slices -> {"none", "built", "merged", "dropped"}]
    /\ entry \in [Slices -> {"pending", "in-progress", "done"}]
    /\ marker \in [Slices -> {"neutral", "succeeded", "failed"}]
    /\ DOMAIN run = Actors
    /\ \A a \in Actors :
        /\ DOMAIN run[a] = Fields
        /\ DOMAIN run[a].out = Files
        /\ run[a].slice \in Slices /\ run[a].todo \subseteq Files

\* Under a plan one merge runs at a time.
Alone == \A a, b \in Actors : run[a].pc # "idle" /\ run[b].pc # "idle" => a = b

\* What is to be written is the merge of what is in the baseline.
Current(a, f) == run[a].out[f] \in Merged(specs[f], Staged[run[a].slice][f])

StagedInv == \A a \in Actors :
    /\ run[a].pc = "read" /\ ~ run[a].refused
          => \A f \in Touched(run[a].slice) \ run[a].todo : Current(a, f)
    /\ run[a].pc = "promote" => \A f \in Touched(run[a].slice) : Current(a, f)
    /\ run[a].pc = "write" => /\ run[a].todo \subseteq Touched(run[a].slice)
                              /\ \A f \in run[a].todo : Current(a, f)

Inv == Shape /\ Alone /\ StagedInv

LEMMA FirstIsIn ==
    ASSUME NEW fs \in SUBSET Files, fs # {}
    PROVE  First(fs) \in fs
<1>1. fs \subseteq Nat
  BY StagedAssumption
<1>2. PICK k \in fs : \A j \in fs : <<j, k>> \notin OpToRel(<, Nat)
  BY <1>1, WFMin, NatLessThanWellFounded
<1>3. \A i, j \in Nat : i < j => <<i, j>> \in OpToRel(<, Nat)
  BY DEF OpToRel
<1>4. \A j \in fs : ~ (j < k)
  BY <1>1, <1>2, <1>3
<1>5. k \in fs /\ \A j \in fs : k <= j
  BY <1>1, <1>4
<1> QED BY <1>5 DEF First

LEMMA TouchedFiles == \A s \in Slices : Touched(s) \subseteq Files
BY DEF Touched, Baselines!Touched

LEMMA IdleIs ==
    /\ Idle.pc = "idle" /\ Idle.slice \in Slices
    /\ DOMAIN Idle = Fields
    /\ DOMAIN Idle.out = Files /\ Idle.todo = {} /\ ~ Idle.refused
BY StagedAssumption DEF Idle, Fields

\* What an action makes of the run of its actor; the others run as they did.
LEMMA RunOf ==
    ASSUME Shape, NEW a \in Actors, NEW r, run' = [run EXCEPT ![a] = r]
    PROVE  /\ DOMAIN run' = Actors /\ run'[a] = r
           /\ \A b \in Actors : b # a => run'[b] = run[b]
BY DEF Shape

(***************************************************************************)
(* The steps before anything is written.                                   *)
(***************************************************************************)
LEMMA StartInv ==
    ASSUME Planned, Inv, NEW a \in Actors, NEW s \in Slices, Start(a, s)
    PROVE  Inv'
<1> DEFINE r == [Idle EXCEPT !.pc = "load", !.slice = s]
<1>1. /\ run' = [run EXCEPT ![a] = r] /\ \A b \in Actors : run[b].pc = "idle"
      /\ UNCHANGED <<specs, dir, archive, entry, marker>>
  BY DEF Start, Quiet
<1>2. /\ r.pc = "load" /\ r.slice = s /\ r.todo = {} /\ DOMAIN r.out = Files
      /\ DOMAIN r = Fields
  BY IdleIs DEF Fields
<1> HIDE DEF r
<1>3. /\ DOMAIN run' = Actors /\ run'[a] = r /\ \A b \in Actors : b # a => run'[b] = run[b]
  BY <1>1, RunOf DEF Inv
<1>4. Shape'
  BY <1>1, <1>2, <1>3 DEF Inv, Shape
<1>5. Alone'
  BY <1>1, <1>3 DEF Alone
<1>6. StagedInv'
  BY <1>1, <1>2, <1>3 DEF StagedInv
<1> QED BY <1>4, <1>5, <1>6 DEF Inv

\* The merge of a goes on from pc with the rest of its state as given.
Ran(a, pc, todo, out, refused) ==
    /\ DOMAIN run' = Actors /\ \A b \in Actors : b # a => run'[b] = run[b]
    /\ DOMAIN run'[a] = Fields
    /\ run'[a].pc = pc /\ run'[a].slice = run[a].slice /\ run'[a].todo = todo
    /\ run'[a].out = out /\ run'[a].refused = refused

LEMMA GotoRan ==
    ASSUME Shape, NEW a \in Actors, NEW pc, Goto(a, pc)
    PROVE  Ran(a, pc, run[a].todo, run[a].out, run[a].refused)
BY DEF Shape, Goto, Ran, Fields

LEMMA LoadRan ==
    ASSUME Shape, NEW a \in Actors, NEW pc, NEW todo,
           run' = [run EXCEPT ![a].pc = pc, ![a].todo = todo]
    PROVE  Ran(a, pc, todo, run[a].out, run[a].refused)
BY DEF Shape, Ran, Fields

\* Nobody else runs a merge, and nobody starts one.
LEMMA RanAlone ==
    ASSUME Inv, NEW a \in Actors, run[a].pc # "idle",
           NEW pc, NEW todo \in SUBSET Files, NEW out, DOMAIN out = Files, NEW refused,
           Ran(a, pc, todo, out, refused)
    PROVE  /\ Alone' /\ \A b \in Actors : b # a => run'[b].pc = "idle"
           /\ DOMAIN run' = Actors
           /\ \A b \in Actors :
                /\ DOMAIN run'[b] = Fields /\ DOMAIN run'[b].out = Files
                /\ run'[b].slice \in Slices /\ run'[b].todo \subseteq Files
<1>1. \A b \in Actors : b # a => run[b].pc = "idle" /\ run'[b] = run[b]
  BY DEF Inv, Alone, Ran
<1>2. Alone'
  BY <1>1 DEF Alone
<1>3. \A b \in Actors :
        /\ DOMAIN run'[b] = Fields /\ DOMAIN run'[b].out = Files
        /\ run'[b].slice \in Slices /\ run'[b].todo \subseteq Files
  BY <1>1 DEF Inv, Shape, Ran
<1> QED BY <1>1, <1>2, <1>3 DEF Ran

LEMMA LoadInv ==
    ASSUME Inv, NEW a \in Actors, NEW s \in Slices, Load(a, s)
    PROVE  Inv'
<1>1. PICK pc \in {"read", "fail"} : Ran(a, pc, Touched(s), run[a].out, run[a].refused)
  BY LoadRan DEF Load, Inv
<1>2. /\ run[a].pc = "load" /\ run[a].slice = s /\ UNCHANGED <<specs, dir, archive, entry, marker>>
      /\ DOMAIN run[a].out = Files
  BY DEF Load, Running, Inv, Shape
<1>3. Alone' /\ Shape' /\ \A b \in Actors : b # a => run'[b].pc = "idle"
  BY <1>1, <1>2, RanAlone, TouchedFiles DEF Inv, Shape
<1>4. StagedInv'
  BY <1>1, <1>2, <1>3 DEF StagedInv, Ran
<1> QED BY <1>3, <1>4 DEF Inv

LEMMA ReadInv ==
    ASSUME Inv, NEW a \in Actors, NEW s \in Slices, Read(a, s)
    PROVE  Inv'
<1> DEFINE f == First(run[a].todo)
           new == Merged(specs[f], Staged[s][f])
           todo == run[a].todo \ {f}
<1>1. /\ run[a].pc = "read" /\ run[a].slice = s /\ UNCHANGED <<specs, dir, archive, entry, marker>>
      /\ DOMAIN run[a].out = Files /\ todo \subseteq Files /\ DOMAIN run[a] = Fields
      /\ DOMAIN run = Actors /\ run[a].todo # {}
  BY DEF Read, Running, Inv, Shape
<1>2. f \in Files
  BY <1>1, FirstIsIn DEF Inv, Shape
<1>3. CASE run' = [run EXCEPT ![a].todo = todo, ![a].refused = TRUE]
  <2>1. Ran(a, "read", todo, run[a].out, TRUE)
    BY <1>1, <1>3 DEF Ran, Fields
  <2>2. Alone' /\ Shape' /\ \A b \in Actors : b # a => run'[b].pc = "idle"
    BY <1>1, <2>1, RanAlone DEF Inv, Shape
  <2>3. StagedInv'
    BY <2>1, <2>2 DEF StagedInv, Ran
  <2> QED BY <2>2, <2>3 DEF Inv
<1>4. CASE \E t \in new : run' = [run EXCEPT ![a].todo = todo, ![a].out[f] = t]
  <2>1. PICK t \in new : run' = [run EXCEPT ![a].todo = todo, ![a].out[f] = t]
    BY <1>4
  <2> DEFINE out == [run[a].out EXCEPT ![f] = t]
  <2>2. Ran(a, "read", todo, out, run[a].refused)
    BY <1>1, <2>1 DEF Ran, Fields
  <2>3. DOMAIN out = Files /\ out[f] = t /\ \A g \in Files : g # f => out[g] = run[a].out[g]
    BY <1>1, <1>2
  <2> HIDE DEF out
  <2>4. Alone' /\ Shape' /\ \A b \in Actors : b # a => run'[b].pc = "idle"
    BY <1>1, <2>2, <2>3, RanAlone DEF Inv, Shape
  <2>5. ASSUME ~ run[a].refused, NEW g \in Touched(s) \ todo
        PROVE  out[g] \in Merged(specs[g], Staged[s][g])
    <3>1. g \in Files
      BY TouchedFiles
    <3>2. CASE g = f
      BY <2>1, <2>3, <3>2
    <3>3. CASE g # f
      BY <1>1, <2>3, <2>5, <3>1, <3>3 DEF Inv, StagedInv, Current
    <3> QED BY <3>2, <3>3
  <2>6. StagedInv'
    BY <1>1, <2>2, <2>4, <2>5 DEF StagedInv, Ran, Current
  <2> QED BY <2>4, <2>6 DEF Inv
<1> QED BY <1>3, <1>4 DEF Read

\* A step that only moves on, to where nothing is staged or all of it is current.
LEMMA MoveOnInv ==
    ASSUME Inv, NEW a \in Actors, run[a].pc # "idle",
           NEW pc \in PC \ {"idle", "read"}, NEW todo \in SUBSET Files,
           Ran(a, pc, todo, run[a].out, run[a].refused), specs' = specs,
           dir' \in [Slices -> {"none", "built", "merged", "dropped"}],
           archive' \in [Slices -> {"none", "built", "merged", "dropped"}],
           entry' \in [Slices -> {"pending", "in-progress", "done"}],
           marker' \in [Slices -> {"neutral", "succeeded", "failed"}],
           pc \in {"promote", "write"}
              => /\ \A f \in Touched(run[a].slice) : Current(a, f)
                 /\ todo \subseteq Touched(run[a].slice) \/ pc = "promote"
    PROVE  Inv'
<1>1. DOMAIN run[a].out = Files
  BY DEF Inv, Shape
<1>2. Alone' /\ \A b \in Actors : b # a => run'[b].pc = "idle"
  BY <1>1, RanAlone
<1>3. Shape'
  BY <1>1, RanAlone DEF Inv, Shape
<1>4. StagedInv'
  BY <1>2 DEF StagedInv, Ran, Current
<1> QED BY <1>2, <1>3, <1>4 DEF Inv

LEMMA PlanningInv ==
    ASSUME Inv, NEW a \in Actors, NEW s \in Slices, Planning(a, s) \/ Promote(a, s)
    PROVE  Inv'
<1>1. /\ run[a].slice = s /\ run[a].todo \in SUBSET Files
      /\ UNCHANGED <<specs, dir, archive, entry, marker>>
  BY DEF Planning, Promote, Running, Inv, Shape
<1>2. CASE Planning(a, s) /\ run[a].refused
  <2>1. run[a].pc # "idle" /\ Ran(a, "fail", run[a].todo, run[a].out, run[a].refused)
    BY <1>2, GotoRan DEF Planning, Running, Inv
  <2> QED BY <1>1, <2>1, MoveOnInv DEF PC, Inv, Shape
<1>3. CASE Planning(a, s) /\ ~ run[a].refused
  <2>1. run[a].pc = "read" /\ Ran(a, "promote", run[a].todo, run[a].out, run[a].refused)
    BY <1>3, GotoRan DEF Planning, Running, Inv
  <2>2. \A f \in Touched(s) : Current(a, f)
    BY <1>1, <1>3, <2>1 DEF Planning, Inv, StagedInv
  <2> QED BY <1>1, <2>1, <2>2, MoveOnInv DEF PC, Inv, Shape
<1>4. CASE Promote(a, s)
  <2>1. run[a].pc = "promote"
    BY <1>4 DEF Promote, Running
  <2>2. \A f \in Touched(s) : Current(a, f)
    BY <1>1, <2>1 DEF Inv, StagedInv
  <2>3. CASE Goto(a, "fail")
    <3>1. Ran(a, "fail", run[a].todo, run[a].out, run[a].refused)
      BY <2>3, GotoRan DEF Inv
    <3> QED BY <1>1, <2>1, <3>1, MoveOnInv DEF PC, Inv, Shape
  <2>4. CASE run' = [run EXCEPT ![a].pc = "write", ![a].todo = Touched(s)]
    <3>1. Ran(a, "write", Touched(s), run[a].out, run[a].refused)
      BY <2>4, LoadRan DEF Inv
    <3> QED BY <1>1, <2>1, <2>2, <3>1, MoveOnInv, TouchedFiles DEF PC, Inv, Shape
  <2> QED BY <1>4, <2>3, <2>4 DEF Promote
<1> QED BY <1>2, <1>3, <1>4

(***************************************************************************)
(* One baseline: the others are what they were, and so is what is staged   *)
(* for them.                                                               *)
(***************************************************************************)
LEMMA WriteStep ==
    ASSUME Inv, NEW a \in Actors, NEW s \in Slices, Write(a, s)
    PROVE  /\ run[a].pc = "write" /\ run[a].slice = s
           /\ First(run[a].todo) \in run[a].todo
           /\ First(run[a].todo) \in Files
           /\ specs' = [specs EXCEPT ![First(run[a].todo)] = run[a].out[First(run[a].todo)]]
           /\ Ran(a, "write", run[a].todo \ {First(run[a].todo)}, run[a].out, run[a].refused)
           /\ UNCHANGED <<dir, archive, entry, marker>>
<1>1. /\ run[a].pc = "write" /\ run[a].slice = s /\ run[a].todo # {}
      /\ run[a].todo \subseteq Files
      /\ specs' = [specs EXCEPT ![First(run[a].todo)] = run[a].out[First(run[a].todo)]]
      /\ run' = [run EXCEPT ![a].todo = @ \ {First(run[a].todo)}]
      /\ UNCHANGED <<dir, archive, entry, marker>>
  BY DEF Write, Running, Inv, Shape
<1>2. Ran(a, "write", run[a].todo \ {First(run[a].todo)}, run[a].out, run[a].refused)
  BY <1>1 DEF Inv, Shape, Ran, Fields
<1> QED BY <1>1, <1>2, FirstIsIn

LEMMA WriteInv ==
    ASSUME Inv, NEW a \in Actors, NEW s \in Slices, Write(a, s)
    PROVE  Inv'
<1> DEFINE f == First(run[a].todo)
           todo == run[a].todo \ {f}
<1>1. /\ run[a].pc = "write" /\ run[a].slice = s /\ f \in run[a].todo /\ f \in Files
      /\ specs' = [specs EXCEPT ![f] = run[a].out[f]]
      /\ Ran(a, "write", todo, run[a].out, run[a].refused)
      /\ UNCHANGED <<dir, archive, entry, marker>>
  BY WriteStep
<1>2. DOMAIN run[a].out = Files /\ todo \in SUBSET Files /\ DOMAIN specs' = Files
      /\ run[a].todo \subseteq Touched(s)
  BY <1>1 DEF Inv, Shape, StagedInv
<1>3. Alone' /\ \A b \in Actors : b # a => run'[b].pc = "idle"
  BY <1>1, <1>2, RanAlone
<1>4. Shape'
  BY <1>1, <1>2, RanAlone DEF Inv, Shape
<1> HIDE DEF f
<1>5. \A g \in todo : g \in Files /\ specs'[g] = specs[g] /\ Current(a, g)
  BY <1>1, <1>2 DEF Inv, Shape, StagedInv
<1>6. StagedInv'
  BY <1>1, <1>2, <1>3, <1>5 DEF StagedInv, Ran, Current
<1> QED BY <1>3, <1>4, <1>6 DEF Inv

(***************************************************************************)
(* The steps after the last baseline, the ends and the failures.           *)
(***************************************************************************)
LEMMA AfterInv ==
    ASSUME Inv, NEW a \in Actors, NEW s \in Slices,
           \/ Written(a, s) \/ SetMerged(a, s) \/ Move(a, s) \/ Log(a, s) \/ Close(a, s)
           \/ WriteFails(a, s)
    PROVE  Inv'
<1>1. /\ run[a].pc # "idle" /\ run[a].slice = s /\ specs' = specs /\ run[a].todo \in SUBSET Files
      /\ \E pc \in PC \ {"idle", "read", "promote", "write"} : Goto(a, pc)
  BY DEF Written, SetMerged, Move, Log, Close, WriteFails, Running, PC, Inv, Shape
<1>2. PICK pc \in PC \ {"idle", "read", "promote", "write"} :
          Ran(a, pc, run[a].todo, run[a].out, run[a].refused)
  BY <1>1, GotoRan DEF Inv
<1>3. /\ dir' \in [Slices -> {"none", "built", "merged", "dropped"}]
      /\ archive' \in [Slices -> {"none", "built", "merged", "dropped"}]
      /\ entry' \in [Slices -> {"pending", "in-progress", "done"}]
      /\ marker' \in [Slices -> {"neutral", "succeeded", "failed"}]
  BY DEF Written, SetMerged, Move, Log, Close, WriteFails, Inv, Shape
<1> QED BY <1>1, <1>2, <1>3, MoveOnInv

LEMMA EndInv ==
    ASSUME Inv, NEW a \in Actors, NEW s \in Slices, Finish(a, s) \/ Crash(a)
    PROVE  Inv'
<1>1. run' = [run EXCEPT ![a] = Idle] /\ UNCHANGED <<specs, dir, archive, entry>>
  BY DEF Finish, Crash
<1>2. marker' \in [Slices -> {"neutral", "succeeded", "failed"}]
  BY DEF Finish, Crash, Inv, Shape
<1>3. /\ DOMAIN run' = Actors /\ run'[a] = Idle /\ \A b \in Actors : b # a => run'[b] = run[b]
  BY <1>1, RunOf DEF Inv
<1>4. Shape'
  BY <1>1, <1>2, <1>3, IdleIs DEF Inv, Shape
<1>5. Alone'
  BY <1>3, IdleIs DEF Inv, Alone
<1>6. StagedInv'
  BY <1>1, <1>3, IdleIs DEF Inv, StagedInv, Current
<1> QED BY <1>4, <1>5, <1>6 DEF Inv

LEMMA AroundInv ==
    ASSUME Inv, NEW s \in Slices,
           Claim(s) \/ Build(s) \/ Undo(s) \/ Discard(s) \/ CloseByHand(s)
    PROVE  Inv'
<1>1. UNCHANGED <<specs, run>>
  BY DEF Claim, Build, Undo, Discard, CloseByHand
<1>2. /\ dir' \in [Slices -> {"none", "built", "merged", "dropped"}]
      /\ archive' \in [Slices -> {"none", "built", "merged", "dropped"}]
      /\ entry' \in [Slices -> {"pending", "in-progress", "done"}]
      /\ marker' \in [Slices -> {"neutral", "succeeded", "failed"}]
  BY DEF Claim, Build, Undo, Discard, CloseByHand, Inv, Shape
<1> QED BY <1>1, <1>2 DEF Inv, Shape, Alone, StagedInv, Current

LEMMA NextInv ==
    ASSUME Planned, Inv, [Next]_vars
    PROVE  Inv'
<1>1. CASE UNCHANGED vars
  BY <1>1 DEF vars, Inv, Shape, Alone, StagedInv, Current
<1>2. ASSUME NEW a \in Actors, NEW s \in Slices, Start(a, s) PROVE Inv'
  BY <1>2, StartInv
<1>3. ASSUME NEW a \in Actors, MergeStep(a) PROVE Inv'
  BY <1>3, LoadInv, ReadInv, PlanningInv, WriteInv, AfterInv, EndInv DEF MergeStep
<1>4. ASSUME NEW a \in Actors, Crash(a) PROVE Inv'
  <2>1. run[a].slice \in Slices
    BY DEF Inv, Shape
  <2> QED BY <1>4, <2>1, EndInv
<1>5. ASSUME NEW s \in Slices, Claim(s) \/ Build(s) \/ Undo(s) \/ Discard(s) \/ CloseByHand(s)
      PROVE  Inv'
  BY <1>5, AroundInv
<1> QED BY <1>1, <1>2, <1>3, <1>4, <1>5 DEF Next

LEMMA InitInv == Init => Inv
<1> SUFFICES ASSUME Init PROVE Inv
  OBVIOUS
<1>1. DOMAIN specs = Files
  BY StagedAssumption DEF Init
<1>2. Shape
  BY <1>1, IdleIs DEF Init, Shape
<1>3. \A a \in Actors : run[a].pc = "idle"
  BY IdleIs DEF Init
<1> QED BY <1>2, <1>3 DEF Inv, Alone, StagedInv

-----------------------------------------------------------------------------
(***************************************************************************)
(* The refinement. While one merge is under way, what is seen of a file is *)
(* what the merge is about to write to it.                                 *)
(***************************************************************************)
LEMMA SeenIs ==
    ASSUME NEW a \in Actors, \A b \in Actors : b # a => run[b].pc # "write"
    PROVE  Seen = [f \in Files |-> IF run[a].pc = "write" /\ f \in run[a].todo
                                   THEN run[a].out[f] ELSE specs[f]]
<1>1. \A f \in Files : Seen[f] = IF run[a].pc = "write" /\ f \in run[a].todo
                                   THEN run[a].out[f] ELSE specs[f]
  <2>1. TAKE f \in Files
  <2>2. CASE run[a].pc = "write" /\ f \in run[a].todo
    <3>1. (CHOOSE b \in Actors : run[b].pc = "write" /\ f \in run[b].todo) = a
      BY <2>2
    <3> QED BY <2>2, <3>1 DEF Seen
  <2>3. CASE ~ (run[a].pc = "write" /\ f \in run[a].todo)
    BY <2>3 DEF Seen
  <2> QED BY <2>2, <2>3
<1> QED BY <1>1 DEF Seen

LEMMA NextSeenIs ==
    ASSUME NEW a \in Actors, \A b \in Actors : b # a => run'[b].pc # "write"
    PROVE  Seen' = [f \in Files |-> IF run'[a].pc = "write" /\ f \in run'[a].todo
                                    THEN run'[a].out[f] ELSE specs'[f]]
<1>1. \A f \in Files : Seen'[f] = IF run'[a].pc = "write" /\ f \in run'[a].todo
                                   THEN run'[a].out[f] ELSE specs'[f]
  <2>1. TAKE f \in Files
  <2>2. CASE run'[a].pc = "write" /\ f \in run'[a].todo
    <3>1. (CHOOSE b \in Actors : run'[b].pc = "write" /\ f \in run'[b].todo) = a
      BY <2>2
    <3> QED BY <2>2, <3>1 DEF Seen
  <2>3. CASE ~ (run'[a].pc = "write" /\ f \in run'[a].todo)
    BY <2>3 DEF Seen
  <2> QED BY <2>2, <2>3
<1> QED BY <1>1 DEF Seen

(***************************************************************************)
(* The abstract module merges with the same operators.                     *)
(***************************************************************************)
LEMMA SameMerge ==
    /\ \A s \in Slices : AllOrNothing!Touched(s) = Touched(s)
    /\ \A x, d : AllOrNothing!Merged(x, d) = Merged(x, d)
<1>1. \A s \in Slices : AllOrNothing!Touched(s) = Touched(s)
  BY DEF AllOrNothing!Touched, Touched, Baselines!Touched, Baselines!EmptyDelta,
         Baselines!EmptySpec, AllOrNothing!EmptyDelta, AllOrNothing!EmptySpec
<1>2. ASSUME NEW b, NEW d PROVE AllOrNothing!Applied(b, d) = Applied(b, d)
  BY DEF AllOrNothing!Applied, Applied, AllOrNothing!Edited, Edited, AllOrNothing!Has, Has,
         AllOrNothing!Last, Last, AllOrNothing!LastIndex, LastIndex,
         AllOrNothing!Filtered, Filtered, AllOrNothing!Select, Select, AllOrNothing!Nth, Nth,
         AllOrNothing!Rank, Rank, AllOrNothing!Cardinality, Cardinality
<1>3. ASSUME NEW b, NEW d PROVE AllOrNothing!Conflicts(b, d) = Conflicts(b, d)
  BY DEF AllOrNothing!Conflicts, Conflicts, AllOrNothing!Has, Has
<1>4. ASSUME NEW x PROVE AllOrNothing!Coherent(x) = Coherent(x)
  BY DEF AllOrNothing!Coherent, Coherent
<1>5. ASSUME NEW x, NEW d PROVE AllOrNothing!Merge(x, d) = Merge(x, d)
  BY <1>2, <1>3 DEF AllOrNothing!Merge, Merge, AllOrNothing!EmptySpec, EmptySpec
<1> QED BY <1>1, <1>4, <1>5 DEF AllOrNothing!Merged, Merged

(***************************************************************************)
(* Getting past the decisions is the step at which the slice goes in.      *)
(***************************************************************************)
LEMMA PromoteMerges ==
    ASSUME Inv, NEW a \in Actors, NEW s \in Slices, Promote(a, s)
    PROVE  AllOrNothing!Next \/ UNCHANGED Seen
<1>1. /\ run[a].pc = "promote" /\ run[a].slice = s /\ specs' = specs
      /\ DOMAIN run[a].out = Files
  BY DEF Promote, Running, Inv, Shape
<1>2. \A b \in Actors : b # a => run[b].pc = "idle"
  BY <1>1 DEF Inv, Alone
<1>3. Seen = [f \in Files |-> specs[f]]
  BY <1>1, <1>2, SeenIs
<1>4. CASE Goto(a, "fail")
  <2>1. Ran(a, "fail", run[a].todo, run[a].out, run[a].refused)
    BY <1>4, GotoRan DEF Inv
  <2>2. run'[a].pc = "fail" /\ \A b \in Actors : b # a => run'[b].pc # "write"
    BY <1>2, <2>1 DEF Ran
  <2>3. Seen' = [f \in Files |-> specs[f]]
    BY <1>1, <2>2, NextSeenIs
  <2> QED BY <1>3, <2>3
<1>5. CASE run' = [run EXCEPT ![a].pc = "write", ![a].todo = Touched(s)]
  <2>1. Ran(a, "write", Touched(s), run[a].out, run[a].refused)
    BY <1>5, LoadRan DEF Inv
  <2>2. /\ run'[a].pc = "write" /\ run'[a].todo = Touched(s) /\ run'[a].out = run[a].out
        /\ \A b \in Actors : b # a => run'[b].pc # "write"
    BY <1>2, <2>1 DEF Ran
  <2>3. Seen' = [f \in Files |-> IF f \in Touched(s) THEN run[a].out[f] ELSE specs[f]]
    BY <1>1, <2>2, NextSeenIs
  <2>4. \A f \in Touched(s) : run[a].out[f] \in Merged(specs[f], Staged[s][f])
    BY <1>1 DEF Inv, StagedInv, Current
  <2>5. \A f \in Files : AllOrNothing!Result(s, f) =
            IF f \in Touched(s) THEN Merged(specs[f], Staged[s][f]) ELSE {specs[f]}
    BY <1>3, SameMerge DEF AllOrNothing!Result
  <2>6. \A f \in Files : Seen'[f] \in AllOrNothing!Result(s, f)
    BY <2>3, <2>4, <2>5
  <2> HIDE DEF AllOrNothing!Result
  <2>7. Seen' \in [Files -> UNION {AllOrNothing!Result(s, f) : f \in Files}]
    BY <2>3, <2>6
  <2> QED BY <2>6, <2>7 DEF AllOrNothing!Next, AllOrNothing!MergeSlice
<1> QED BY <1>4, <1>5 DEF Promote

(***************************************************************************)
(* Writing one baseline shows nothing new.                                 *)
(***************************************************************************)
LEMMA WriteShowsNothing ==
    ASSUME Inv, NEW a \in Actors, NEW s \in Slices, Write(a, s)
    PROVE  UNCHANGED Seen
<1> DEFINE f == First(run[a].todo)
           todo == run[a].todo \ {f}
<1>1. /\ run[a].pc = "write" /\ f \in run[a].todo /\ f \in Files
      /\ specs' = [specs EXCEPT ![f] = run[a].out[f]]
      /\ Ran(a, "write", todo, run[a].out, run[a].refused)
  BY WriteStep
<1>2. \A b \in Actors : b # a => run[b].pc = "idle" /\ run'[b].pc = "idle"
  BY <1>1 DEF Inv, Alone, Ran
<1>3. Seen = [g \in Files |-> IF g \in run[a].todo THEN run[a].out[g] ELSE specs[g]]
  BY <1>1, <1>2, SeenIs
<1>4. Seen' = [g \in Files |-> IF g \in todo THEN run[a].out[g] ELSE specs'[g]]
  BY <1>1, <1>2, NextSeenIs DEF Ran
<1>5. \A g \in Files : (IF g \in run[a].todo THEN run[a].out[g] ELSE specs[g])
                       = (IF g \in todo THEN run[a].out[g] ELSE specs'[g])
  BY <1>1 DEF Inv, Shape
<1> QED BY <1>3, <1>4, <1>5

(***************************************************************************)
(* No other step of a merge that does not fail at its writes touches a     *)
(* baseline, or has files left to write.                                   *)
(***************************************************************************)
LEMMA OthersShowNothing ==
    ASSUME Inv, NEW a \in Actors, NEW s \in Slices,
           \/ Load(a, s) \/ Read(a, s) \/ Planning(a, s) \/ Written(a, s) \/ SetMerged(a, s)
           \/ Move(a, s) \/ Log(a, s) \/ Close(a, s) \/ Finish(a, s)
    PROVE  UNCHANGED Seen
<1>1. /\ run[a].pc # "idle" /\ specs' = specs
      /\ run[a].pc = "write" => run[a].todo = {}
  BY DEF Load, Read, Planning, Written, SetMerged, Move, Log, Close, Finish, Running
<1>2. run'[a].pc # "write" /\ \A b \in Actors : b # a => run'[b] = run[b]
  <2>1. CASE Load(a, s)
    <3>1. PICK pc \in {"read", "fail"} : Ran(a, pc, Touched(s), run[a].out, run[a].refused)
      BY <2>1, LoadRan DEF Load, Inv
    <3> QED BY <3>1 DEF Ran
  <2>2. CASE Read(a, s)
    BY <2>2 DEF Read, Running, Inv, Shape, Fields
  <2>3. CASE Planning(a, s) \/ Written(a, s) \/ SetMerged(a, s) \/ Move(a, s) \/ Log(a, s)
             \/ Close(a, s)
    <3>1. PICK pc \in PC \ {"write"} : Goto(a, pc)
      BY <2>3 DEF Planning, Written, SetMerged, Move, Log, Close, PC
    <3>2. Ran(a, pc, run[a].todo, run[a].out, run[a].refused)
      BY <3>1, GotoRan DEF Inv
    <3> QED BY <3>1, <3>2 DEF Ran
  <2>4. CASE Finish(a, s)
    BY <2>4, IdleIs DEF Finish, Inv, Shape
  <2> QED BY <2>1, <2>2, <2>3, <2>4
<1>3. \A b \in Actors : b # a => run[b].pc # "write" /\ run'[b].pc # "write"
  BY <1>1, <1>2 DEF Inv, Alone
<1>4. Seen = [g \in Files |-> specs[g]]
  BY <1>1, <1>3, SeenIs
<1>5. Seen' = [g \in Files |-> specs[g]]
  BY <1>1, <1>2, <1>3, NextSeenIs
<1> QED BY <1>4, <1>5

(***************************************************************************)
(* Merges under a plan that nothing cuts short implement AtomicMerge,      *)
(* whatever the operator undoes, discards or closes by hand: a slice goes  *)
(* into all the baselines it touches at once, from the state they were in  *)
(* when the merge read them.                                               *)
(***************************************************************************)
THEOREM MergeIsAtomic ==
    ASSUME Planned, Hazards \subseteq {"hand"}
    PROVE  MergeSpec => ImplementsAtomicMerge
<1>1. Init => Inv
  BY InitInv
<1>2. Inv /\ [Next]_vars => Inv'
  BY NextInv
<1>3. Init => AllOrNothing!Init
  <2>1. SUFFICES ASSUME Init PROVE Seen \in InitSpecs
    BY DEF AllOrNothing!Init
  <2>2. specs \in InitSpecs /\ specs = [f \in Files |-> specs[f]]
    BY <2>1, StagedAssumption DEF Init
  <2>3. Seen = [f \in Files |-> specs[f]]
    BY <2>1, IdleIs DEF Init, Seen
  <2> QED BY <2>2, <2>3
<1>4. Inv /\ [Next]_vars => [AllOrNothing!Next]_Seen
  <2> SUFFICES ASSUME Inv, [Next]_vars PROVE AllOrNothing!Next \/ UNCHANGED Seen
    OBVIOUS
  <2>1. CASE UNCHANGED <<specs, run>>
    BY <2>1 DEF Seen
  <2>2. ASSUME NEW a \in Actors, NEW s \in Slices, Start(a, s) PROVE UNCHANGED Seen
    <3>1. \A b \in Actors : run[b].pc = "idle" /\ run'[b].pc # "write"
      BY <2>2, IdleIs DEF Start, Quiet, Inv, Shape
    <3> QED BY <2>2, <3>1 DEF Start, Seen
  <2>3. ASSUME NEW a \in Actors, MergeStep(a) PROVE AllOrNothing!Next \/ UNCHANGED Seen
    <3>1. PICK s \in Slices :
              \/ Load(a, s) \/ Read(a, s) \/ Planning(a, s) \/ Promote(a, s) \/ Write(a, s)
              \/ Written(a, s) \/ SetMerged(a, s) \/ Move(a, s) \/ Log(a, s) \/ Close(a, s)
              \/ Finish(a, s)
      BY <2>3 DEF MergeStep, WriteFails
    <3> QED BY <3>1, PromoteMerges, WriteShowsNothing, OthersShowNothing
  <2>4. ASSUME NEW s \in Slices,
               Claim(s) \/ Build(s) \/ Undo(s) \/ Discard(s) \/ CloseByHand(s)
        PROVE  UNCHANGED <<specs, run>>
    BY <2>4 DEF Claim, Build, Undo, Discard, CloseByHand
  <2>5. UNCHANGED vars => UNCHANGED <<specs, run>>
    BY DEF vars
  <2> QED BY <2>1, <2>2, <2>3, <2>4, <2>5 DEF Next, Crash
<1> QED BY <1>1, <1>2, <1>3, <1>4, PTL DEF MergeSpec, ImplementsAtomicMerge,
        AllOrNothing!AtomicSpec

-----------------------------------------------------------------------------
(***************************************************************************)
(* What counts as merged is in the baselines. bases[f] is what file f may  *)
(* hold.                                                                   *)
(***************************************************************************)
Landed(s) == \/ entry[s] = "done" \/ archive[s] = "merged"
             \/ marker[s] = "succeeded" \/ dir[s] = "merged"

\* A merge past its writes is in; one at its writes is in the files it wrote.
WrittenInv == \A a \in Actors :
    /\ run[a].pc = "write"
          => \A f \in Touched(run[a].slice) \ run[a].todo :
                Reflects(specs[f], Staged[run[a].slice][f])
    /\ run[a].pc \in {"stamp", "move", "log", "close", "succeed"} => InBaseline(run[a].slice)

LandedInv(bases) ==
    /\ \A f \in Files : specs[f] \in bases[f]
    /\ WrittenInv
    /\ \A s \in Slices : Landed(s) => InBaseline(s)

LEMMA LandedWrite ==
    ASSUME NEW bases, FileMergesHold(bases), Inv, LandedInv(bases),
           NEW a \in Actors, NEW s \in Slices, Write(a, s)
    PROVE  LandedInv(bases)'
<1> DEFINE f == First(run[a].todo)
           todo == run[a].todo \ {f}
<1>1. /\ run[a].pc = "write" /\ run[a].slice = s /\ f \in run[a].todo /\ f \in Files
      /\ specs' = [specs EXCEPT ![f] = run[a].out[f]]
      /\ Ran(a, "write", todo, run[a].out, run[a].refused)
      /\ UNCHANGED <<dir, archive, entry, marker>>
  BY WriteStep
<1>2. f \in Touched(s) /\ run[a].out[f] \in Merged(specs[f], Staged[s][f])
  BY <1>1 DEF Inv, StagedInv, Current
<1>3. specs'[f] = run[a].out[f] /\ \A g \in Files : g # f => specs'[g] = specs[g]
  BY <1>1 DEF Inv, Shape
<1> HIDE DEF f
<1>4. /\ specs'[f] \in bases[f] /\ Reflects(specs'[f], Staged[s][f])
      /\ \A t \in Slices : f \in Touched(t) /\ Reflects(specs[f], Staged[t][f])
                             => Reflects(specs'[f], Staged[t][f])
  BY <1>1, <1>2, <1>3 DEF FileMergesHold, LandedInv
<1>5. \A t \in Slices : InBaseline(t) => InBaseline(t)'
  BY <1>3, <1>4, TouchedFiles DEF InBaseline
<1>6. \A b \in Actors : b # a => run'[b].pc = "idle"
  BY <1>1 DEF Inv, Alone, Ran
<1>7. \A g \in Touched(s) \ todo : Reflects(specs'[g], Staged[s][g])
  BY <1>1, <1>3, <1>4, TouchedFiles DEF LandedInv, WrittenInv
<1>8. WrittenInv'
  BY <1>1, <1>6, <1>7 DEF WrittenInv, Ran
<1>9. \A t \in Slices : Landed(t)' => InBaseline(t)'
  BY <1>1, <1>5 DEF LandedInv, Landed
<1>10. \A g \in Files : specs'[g] \in bases[g]
  BY <1>3, <1>4 DEF LandedInv
<1> QED BY <1>8, <1>9, <1>10 DEF LandedInv

(***************************************************************************)
(* A step that writes no baseline keeps what landed, if the merge it takes *)
(* on and the slices it lets count as merged are in.                       *)
(***************************************************************************)
LEMMA LandedStep ==
    ASSUME NEW bases, LandedInv(bases), UNCHANGED specs, WrittenInv',
           \A s \in Slices : Landed(s)' => InBaseline(s)
    PROVE  LandedInv(bases)'
BY DEF LandedInv, InBaseline

LEMMA WrittenStep ==
    ASSUME NEW bases, Inv, LandedInv(bases), UNCHANGED specs, NEW a \in Actors,
           \A b \in Actors : b # a => run'[b] = run[b],
           run'[a].pc = "write" => run'[a].todo = Touched(run'[a].slice),
           run'[a].pc \in {"stamp", "move", "log", "close", "succeed"} => InBaseline(run'[a].slice)
    PROVE  WrittenInv'
<1>1. ASSUME NEW b \in Actors, b # a, run'[b].pc = "write",
             NEW f \in Touched(run'[b].slice) \ run'[b].todo
      PROVE  Reflects(specs'[f], Staged[run'[b].slice][f])
  BY <1>1 DEF LandedInv, WrittenInv
<1>2. ASSUME NEW b \in Actors, b # a,
             run'[b].pc \in {"stamp", "move", "log", "close", "succeed"}
      PROVE  InBaseline(run[b].slice)'
  BY <1>2 DEF LandedInv, WrittenInv, InBaseline
<1>3. run'[a].pc \in {"stamp", "move", "log", "close", "succeed"} => InBaseline(run[a].slice)'
  BY DEF InBaseline
<1> QED BY <1>1, <1>2, <1>3 DEF WrittenInv

LEMMA LandedBefore ==
    ASSUME NEW bases, Inv, LandedInv(bases), NEW a \in Actors, NEW s \in Slices,
           \/ Start(a, s) \/ Load(a, s) \/ Read(a, s) \/ Planning(a, s) \/ Promote(a, s)
           \/ WriteFails(a, s) \/ Crash(a)
    PROVE  LandedInv(bases)'
<1>1. UNCHANGED <<specs, dir, archive, entry, marker>>
  BY DEF Start, Load, Read, Planning, Promote, WriteFails, Crash
<1>2. /\ \A b \in Actors : b # a => run'[b] = run[b]
      /\ run'[a].pc = "write" => run'[a].todo = Touched(run'[a].slice)
      /\ run'[a].pc \notin {"stamp", "move", "log", "close", "succeed"}
  <2>1. CASE Start(a, s)
    <3> DEFINE r == [Idle EXCEPT !.pc = "load", !.slice = s]
    <3>1. r.pc = "load" /\ run' = [run EXCEPT ![a] = r]
      BY <2>1, IdleIs DEF Start, Fields
    <3> HIDE DEF r
    <3> QED BY <3>1, RunOf DEF Inv
  <2>2. CASE Load(a, s)
    <3>1. PICK pc \in {"read", "fail"} : Ran(a, pc, Touched(s), run[a].out, run[a].refused)
      BY <2>2, LoadRan DEF Load, Inv
    <3> QED BY <3>1 DEF Ran
  <2>3. CASE Read(a, s)
    BY <2>3 DEF Read, Running, Inv, Shape, Fields
  <2>4. CASE Promote(a, s) /\ run' = [run EXCEPT ![a].pc = "write", ![a].todo = Touched(s)]
    <3>1. Ran(a, "write", Touched(s), run[a].out, run[a].refused)
      BY <2>4, LoadRan DEF Inv
    <3> QED BY <2>4, <3>1 DEF Ran, Promote, Running
  <2>5. CASE \E pc \in {"fail", "promote"} : Goto(a, pc)
    <3>1. PICK pc \in {"fail", "promote"} :
              Ran(a, pc, run[a].todo, run[a].out, run[a].refused)
      BY <2>5, GotoRan DEF Inv
    <3> QED BY <3>1 DEF Ran
  <2>6. CASE Crash(a)
    BY <2>6, IdleIs DEF Crash, Inv, Shape
  <2> QED BY <2>1, <2>2, <2>3, <2>4, <2>5, <2>6 DEF Planning, Promote, WriteFails
<1>3. WrittenInv'
  BY <1>1, <1>2, WrittenStep
<1> QED BY <1>1, <1>3, LandedStep DEF LandedInv, Landed

LEMMA LandedAfter ==
    ASSUME NEW bases, Inv, LandedInv(bases), NEW a \in Actors, NEW s \in Slices,
           \/ Written(a, s) \/ SetMerged(a, s) \/ Move(a, s) \/ Log(a, s) \/ Close(a, s)
           \/ Finish(a, s)
    PROVE  LandedInv(bases)'
<1>1. specs' = specs /\ run[a].slice = s
  BY DEF Written, SetMerged, Move, Log, Close, Finish, Running
<1>2. run[a].pc # "fail" /\ ~ (Finish(a, s) /\ marker' = marker) => InBaseline(s)
  BY <1>1 DEF Written, SetMerged, Move, Log, Close, Finish, Running, LandedInv, WrittenInv,
              InBaseline
<1>3. /\ \A b \in Actors : b # a => run'[b] = run[b]
      /\ (run'[a].pc # "write" /\ run'[a].slice = s) \/ run'[a].pc = "idle"
      /\ run'[a].pc \in {"stamp", "move", "log", "close", "succeed"} => ~ Finish(a, s)
  <2>1. CASE Finish(a, s)
    BY <2>1, IdleIs DEF Finish, Inv, Shape
  <2>2. CASE ~ Finish(a, s)
    <3>1. PICK pc \in PC \ {"write"} : Goto(a, pc)
      BY <2>2 DEF Written, SetMerged, Move, Log, Close, PC
    <3>2. Ran(a, pc, run[a].todo, run[a].out, run[a].refused)
      BY <3>1, GotoRan DEF Inv
    <3> QED BY <1>1, <2>2, <3>1, <3>2 DEF Ran
  <2> QED BY <2>1, <2>2
<1>4. run'[a].pc # "idle" => run[a].pc # "fail"
  BY <1>3, IdleIs DEF Written, SetMerged, Move, Log, Close, Finish, Running, Inv, Shape
<1>5. WrittenInv'
  BY <1>1, <1>2, <1>3, <1>4, WrittenStep
<1>6. ASSUME NEW t \in Slices, Landed(t)' PROVE InBaseline(t)
  <2>1. CASE Landed(t)
    BY <2>1 DEF LandedInv
  <2>2. CASE ~ Landed(t)
    <3>1. t = s /\ run[a].pc # "fail" /\ ~ (Finish(a, s) /\ marker' = marker)
      BY <1>6, <2>2 DEF Landed, Written, SetMerged, Move, Log, Close, Finish, Running, Inv, Shape
    <3> QED BY <1>2, <3>1
  <2> QED BY <2>1, <2>2
<1> QED BY <1>1, <1>5, <1>6, LandedStep

LEMMA LandedAround ==
    ASSUME NEW bases, Inv, LandedInv(bases), NEW s \in Slices,
           Claim(s) \/ Build(s) \/ Undo(s) \/ Discard(s) \/ CloseByHand(s)
    PROVE  LandedInv(bases)'
<1>1. UNCHANGED <<specs, run>>
  BY DEF Claim, Build, Undo, Discard, CloseByHand
<1>2. WrittenInv'
  BY <1>1 DEF LandedInv, WrittenInv, InBaseline
<1>3. ASSUME NEW t \in Slices, Landed(t)' PROVE Landed(t)
  <2>1. CASE CloseByHand(s)
    <3>1. Landed(s)
      BY <2>1 DEF CloseByHand, NextAction, Landed
    <3> QED BY <1>3, <2>1, <3>1 DEF CloseByHand, Landed, Inv, Shape
  <2>2. CASE Claim(s) \/ Build(s) \/ Undo(s) \/ Discard(s)
    BY <1>3, <2>2 DEF Claim, Build, Undo, Discard, Landed, Inv, Shape
  <2> QED BY <2>1, <2>2
<1> QED BY <1>1, <1>2, <1>3, LandedStep DEF LandedInv

LEMMA NextLanded ==
    ASSUME NEW bases, FileMergesHold(bases), Inv, LandedInv(bases), [Next]_vars
    PROVE  LandedInv(bases)'
<1>1. CASE UNCHANGED vars
  BY <1>1 DEF vars, LandedInv, WrittenInv, InBaseline, Landed
<1>2. ASSUME NEW a \in Actors, NEW s \in Slices, Start(a, s) PROVE LandedInv(bases)'
  BY <1>2, LandedBefore
<1>3. ASSUME NEW a \in Actors, MergeStep(a) PROVE LandedInv(bases)'
  BY <1>3, LandedBefore, LandedWrite, LandedAfter DEF MergeStep
<1>4. ASSUME NEW a \in Actors, Crash(a) PROVE LandedInv(bases)'
  BY <1>4, StagedAssumption, LandedBefore
<1>5. ASSUME NEW s \in Slices, Claim(s) \/ Build(s) \/ Undo(s) \/ Discard(s) \/ CloseByHand(s)
      PROVE  LandedInv(bases)'
  BY <1>5, LandedAround
<1> QED BY <1>1, <1>2, <1>3, <1>4, <1>5 DEF Next

(***************************************************************************)
(* The facts about one file are enough for the protocol: whatever crashes, *)
(* fails, or is undone, discarded and closed by hand, a slice that counts  *)
(* as merged is in all its baselines.                                      *)
(***************************************************************************)
LEMMA MergedLanded ==
    ASSUME Planned, NEW bases, FileMergesHold(bases),
           \A x \in InitSpecs : \A f \in Files : x[f] \in bases[f]
    PROVE  MergeSpec => [](Inv /\ LandedInv(bases))
<1>1. Init => Inv /\ LandedInv(bases)
  <2> SUFFICES ASSUME Init PROVE LandedInv(bases)
    BY InitInv
  <2>1. \A f \in Files : specs[f] \in bases[f]
    BY DEF Init
  <2>2. WrittenInv
    BY IdleIs DEF Init, WrittenInv
  <2>3. \A s \in Slices : ~ Landed(s)
    BY DEF Init, Landed
  <2> QED BY <2>1, <2>2, <2>3 DEF LandedInv
<1>2. Inv /\ LandedInv(bases) /\ [Next]_vars => Inv' /\ LandedInv(bases)'
  BY NextInv, NextLanded
<1> QED BY <1>1, <1>2, PTL DEF MergeSpec

(***************************************************************************)
(* An entry that is done has its slice in the baselines.                   *)
(***************************************************************************)
THEOREM DoneSlicesLanded ==
    ASSUME Planned, NEW bases, FileMergesHold(bases),
           \A x \in InitSpecs : \A f \in Files : x[f] \in bases[f]
    PROVE  MergeSpec => []DoneIsMerged
<1>1. MergeSpec => [](Inv /\ LandedInv(bases))
  BY MergedLanded
<1>2. Inv /\ LandedInv(bases) => DoneIsMerged
  BY DEF LandedInv, Landed, DoneIsMerged
<1> QED BY <1>1, <1>2, PTL

(***************************************************************************)
(* And so has a slice whose archived metadata says Merged.                 *)
(***************************************************************************)
THEOREM ArchivedSlicesLanded ==
    ASSUME Planned, NEW bases, FileMergesHold(bases),
           \A x \in InitSpecs : \A f \in Files : x[f] \in bases[f]
    PROVE  MergeSpec => []ArchivedIsMerged
<1>1. MergeSpec => [](Inv /\ LandedInv(bases))
  BY MergedLanded
<1>2. Inv /\ LandedInv(bases) => ArchivedIsMerged
  BY DEF LandedInv, Landed, ArchivedIsMerged
<1> QED BY <1>1, <1>2, PTL
=============================================================================
