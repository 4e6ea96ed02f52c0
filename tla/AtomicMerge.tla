----------------------------- MODULE AtomicMerge -----------------------------
(***************************************************************************)
(* What `slice merge` promises of the baselines: a slice goes into all the *)
(* files it touches in one step, or into none.                             *)
(***************************************************************************)
EXTENDS MergeEngine

CONSTANTS
    Slices,     \* slice names
    Files,      \* the baseline spec files, numbered in the order of their paths
    Staged,     \* the delta each slice stages for each file, EmptyDelta for none
    InitSpecs   \* the baselines at the start

VARIABLE specs      \* the baselines

Touched(s) == {f \in Files : Staged[s][f] # EmptyDelta}

\* What merging s may leave in file f.
Result(s, f) == IF f \in Touched(s) THEN Merged(specs[f], Staged[s][f]) ELSE {specs[f]}

Init == specs \in InitSpecs

MergeSlice(s) ==
    \E new \in [Files -> UNION {Result(s, f) : f \in Files}] :
        specs' = new /\ \A f \in Files : new[f] \in Result(s, f)

Next == \E s \in Slices : MergeSlice(s)

AtomicSpec == Init /\ [][Next]_specs

=============================================================================
