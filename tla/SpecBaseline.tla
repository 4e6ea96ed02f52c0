----------------------------- MODULE SpecBaseline -----------------------------
(***************************************************************************)
(* One baseline spec.md and the slices merged into it one after another.   *)
(***************************************************************************)
EXTENDS MergeEngine

CONSTANTS
    Deltas,     \* the deltas slices may stage for the file
    DeltaPairs, \* pairs of them, to be merged in either order
    InitSpecs   \* what the file may hold at the start

VARIABLES
    spec,       \* the file
    delta,      \* the delta merged last, EmptyDelta at the start
    report      \* the operations reported for it

vars == <<spec, delta, report>>

Init == spec \in InitSpecs /\ delta = EmptyDelta /\ report = {}

\* A refused merge writes nothing.
MergeDelta(d) ==
    /\ spec' \in Merged(spec, d)
    /\ delta' = d
    /\ report' = Operations(spec, d)

Next == \E d \in Deltas : MergeDelta(d)

BaselineSpec == Init /\ [][Next]_vars

-----------------------------------------------------------------------------
Blocks(s) == {s.blocks[i] : i \in DOMAIN s.blocks}
IdsOf(list) == {list[i].id : i \in DOMAIN list}
Named(d) == IdsOf(d.renamed) \cup IdsOf(d.removed) \cup IdsOf(d.modified) \cup IdsOf(d.added)

TypeOK == spec \in Spec /\ Coherent(spec) /\ delta \in Deltas \cup {EmptyDelta}

(***************************************************************************)
(* The reference: a coherent spec is a map from ids to name and text, and  *)
(* a delta whose sections name different ids updates it. The engine's      *)
(* block list says the same, and keeps the blocks no section names as they *)
(* were, in their order, before the new ones.                              *)
(***************************************************************************)
Disjoint(d) ==
    \A a, b \in {"renamed", "removed", "modified", "added"} :
        a # b => IdsOf(d[a]) \cap IdsOf(d[b]) = {}

Reference(s, d) ==
    {r \in Blocks(s) : r.id \notin Named(d)}
    \cup {Last(d.modified, id) : id \in IdsOf(d.modified)}
    \cup {[r EXCEPT !.name = Last(d.renamed, r.id).name] :
            r \in {b \in Blocks(s) : b.id \in IdsOf(d.renamed)}}
    \cup {d.added[i] : i \in DOMAIN d.added}

Untouched(s, d) == Filtered(s.blocks, LAMBDA r : r.id \notin Named(d))

UpdatesAsMap ==
    LET d == delta'
        kept == Untouched(spec, d)
    IN  d.headers /\ Disjoint(d) /\ spec # EmptySpec =>
          /\ Blocks(spec') = Reference(spec, d)
          /\ Untouched(spec', d) = kept
          /\ d.modified = <<>> /\ d.renamed = <<>>
               => SubSeq(spec'.blocks, 1, Len(kept)) = kept

MatchesReference == [][UpdatesAsMap]_vars

(***************************************************************************)
(* Merging the delta that was just merged is refused or changes nothing:   *)
(* a merge that is run again after it was cut short applies no delta       *)
(* twice, unless it names a requirement in two sections.                   *)
(***************************************************************************)
NeverAppliedTwice == Disjoint(delta) => Merged(spec, delta) \subseteq {spec}

(***************************************************************************)
(* Two slices that name different requirements of a file may be merged in  *)
(* either order: if both orders go through they give the same              *)
(* requirements.                                                           *)
(***************************************************************************)
After(s, d, e) == UNION {Merged(t, e) : t \in Merged(s, d)}

OrderIrrelevant ==
    \A p \in DeltaPairs :
        p[1].headers /\ p[2].headers /\ Named(p[1]) \cap Named(p[2]) = {} =>
            \A t \in After(spec, p[1], p[2]), u \in After(spec, p[2], p[1]) : Blocks(t) = Blocks(u)

(***************************************************************************)
(* The report lists changes that were applied: what it calls added or      *)
(* modified is in the merged spec, what it calls removed is not.           *)
(***************************************************************************)
ReportHolds ==
    \A id \in Ids :
        /\ {<<"added", id>>, <<"modified", id>>} \cap report # {} => Has(spec.blocks, id)
        /\ <<"removed", id>> \in report => ~ Has(spec.blocks, id)

=============================================================================
