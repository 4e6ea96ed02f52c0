---------------------------- MODULE CompositionMerge ----------------------------
(***************************************************************************)
(* The merge of a slice's composition.yaml into the baseline one, with the *)
(* gate before it. A composition is a map of screens, or Malformed: a text *)
(* that has no `screens` mapping. A document of a slice either holds the   *)
(* screens themselves or a delta of added, modified and removed ones.      *)
(***************************************************************************)
EXTENDS Functions, FiniteSets

CONSTANTS None, Malformed

NoScreens == [s \in {} |-> None]

Overlay(f, g) == [s \in DOMAIN f \cup DOMAIN g |-> IF s \in DOMAIN g THEN g[s] ELSE f[s]]

\* The screens a delta starts from; none if the baseline is malformed.
Screens(baseline) ==
    IF baseline = None THEN {NoScreens}
    ELSE IF baseline = Malformed THEN {}
    ELSE {baseline}

\* Mutant of MergeDelta: the additions first.
MergeDeltaAddedFirst(baseline, delta) ==
    {Restrict(Overlay(Overlay(b, delta.added), delta.modified),
              (DOMAIN b \cup DOMAIN delta.added) \ delta.removed) :
        b \in {s \in Screens(baseline) :
                /\ DOMAIN delta.added \cap DOMAIN s = {}
                /\ DOMAIN delta.modified \subseteq DOMAIN s \cup DOMAIN delta.added}}

\* Removed, then added, then modified; one conflict refuses them all.
MergeDelta(baseline, delta) ==
    {Overlay(Overlay(Restrict(b, DOMAIN b \ delta.removed), delta.added), delta.modified) :
        b \in {s \in Screens(baseline) :
                LET kept == DOMAIN s \ delta.removed
                IN  /\ DOMAIN delta.added \cap kept = {}
                    /\ DOMAIN delta.modified \subseteq kept \cup DOMAIN delta.added}}

\* merge: the new baseline, or none if it is refused. A document with both keys is a delta.
Merge(baseline, doc) ==
    CASE doc.delta # None -> MergeDelta(baseline, doc.delta)
      [] doc.delta = None /\ doc.screens # None -> {doc.screens}
      [] OTHER -> {}

IsReplacement(doc) == doc.screens # None /\ doc.delta = None
NonEmpty(baseline) == baseline \notin {None, Malformed} /\ baseline # NoScreens

\* Mutant of Gate: the switch is not looked at.
GateOpen(baseline, doc, allow) == TRUE

\* composition_overwrite_gate.
Gate(baseline, doc, allow) == allow \/ ~ IsReplacement(doc) \/ ~ NonEmpty(baseline)

\* What `slice merge` makes of the baseline.
Promote(baseline, doc, allow) ==
    IF Gate(baseline, doc, allow) THEN Merge(baseline, doc) ELSE {}

=============================================================================
