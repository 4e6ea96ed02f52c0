----------------------------- MODULE MergeEngine -----------------------------
(***************************************************************************)
(* The delta merge: what `specify slice merge` makes of a baseline spec.md *)
(* and the delta a slice staged for it. Pure operators, no state:          *)
(* SpecBaseline merges delta after delta into one file with them, and      *)
(* SliceMerge commits slices that touch several files.                     *)
(*                                                                         *)
(* A requirement block is its id (NoId for a block without an ID: line),   *)
(* its name and its text. A spec is its blocks in file order and whether   *)
(* prose comes before them. A delta without section headers is a spec of   *)
(* its own; one with headers has four lists of entries.                    *)
(***************************************************************************)
EXTENDS Integers, Sequences, Filters

CONSTANTS
    Ids,        \* requirement ids
    OddIds,     \* those that do not match REQ-NNN
    NoId,       \* the id of a block without one
    ReqNames,   \* requirement names
    Texts,      \* block bodies
    BareTexts   \* those without a scenario

ASSUME IdsAssumption == NoId \notin Ids /\ OddIds \subseteq Ids /\ BareTexts \subseteq Texts

Requirement == [id : Ids \cup {NoId}, name : ReqNames, text : Texts]
Spec == [preamble : BOOLEAN, blocks : Seq(Requirement)]
EmptySpec == [preamble |-> FALSE, blocks |-> <<>>]

DeltaSpec == [headers : BOOLEAN, plain : Spec,
              renamed : Seq([id : Ids, name : ReqNames]),
              removed : Seq(Requirement), modified : Seq(Requirement),
              added : Seq(Requirement)]

EmptyDelta == [headers |-> TRUE, plain |-> EmptySpec, renamed |-> <<>>,
               removed |-> <<>>, modified |-> <<>>, added |-> <<>>]

\* Whether a list has an entry of this id. Blocks without an id are not found.
Has(list, id) == id # NoId /\ \E i \in DOMAIN list : list[i].id = id

\* The place of the last entry of an id, which is the one that counts.
LastIndex(list, id) ==
    CHOOSE i \in DOMAIN list :
        list[i].id = id /\ \A j \in DOMAIN list : list[j].id = id => j <= i

Last(list, id) == list[LastIndex(list, id)]

-----------------------------------------------------------------------------
\* Some entry cannot be applied: its id is not in the baseline or, for ADDED,
\* is there and stays, or was added already.
Conflicts(b, d) ==
    \/ \E list \in {d.renamed, d.removed, d.modified} :
        \E i \in DOMAIN list : ~ Has(b, list[i].id)
    \/ \E i \in DOMAIN d.added :
        \/ Has(b, d.added[i].id) /\ ~ Has(d.removed, d.added[i].id)
        \/ Has(SubSeq(d.added, 1, i - 1), d.added[i].id)

\* Block i after RENAMED and MODIFIED. A modified block replaces the renamed
\* one whole, its name included.
Edited(b, d, i) ==
    LET r == b[i]
    IN  IF r.id = NoId \/ i # LastIndex(b, r.id) THEN r
        ELSE IF Has(d.modified, r.id) THEN Last(d.modified, r.id)
        ELSE IF Has(d.renamed, r.id) THEN [r EXCEPT !.name = Last(d.renamed, r.id).name]
        ELSE r

\* Mutant of Applied: REMOVED blocks are matched by their heading.
AppliedByName(b, d) ==
    LET Stays(r) == \A i \in DOMAIN d.removed : d.removed[i].name # r.name
    IN  Filtered([i \in DOMAIN b |-> Edited(b, d, i)] \o d.added, Stays)

\* Mutant of Applied: ADDED blocks go to the top.
AppliedOnTop(b, d) ==
    LET Stays(r) == ~ Has(d.removed, r.id)
    IN  Filtered(d.added \o [i \in DOMAIN b |-> Edited(b, d, i)], Stays)

\* REMOVED ids are dropped last, from the ADDED blocks as well.
Applied(b, d) ==
    LET Stays(r) == ~ Has(d.removed, r.id)
    IN  Filtered([i \in DOMAIN b |-> Edited(b, d, i)] \o d.added, Stays)

\* The spec `merge` makes, as a set that is empty if it refuses. Into an empty
\* baseline goes the delta as it is or, if it has headers, its ADDED section;
\* the other sections are not looked at. A delta without headers has no section
\* to apply to a baseline that holds something.
Merge(s, d) ==
    IF s = EmptySpec THEN
        {IF d.headers THEN [EmptySpec EXCEPT !.blocks = d.added] ELSE d.plain}
    ELSE IF Conflicts(s.blocks, d) THEN {}
    ELSE {[s EXCEPT !.blocks = Applied(s.blocks, d)]}

\* The operations `merge` reports.
Operations(s, d) ==
    LET Of(kind, list) == {<<kind, list[i].id>> : i \in DOMAIN list}
    IN  IF s = EmptySpec /\ ~ d.headers THEN {<<"created-baseline">>}
        ELSE Of("added", d.added) \cup
             IF s = EmptySpec THEN {}
             ELSE Of("renamed", d.renamed) \cup Of("removed", d.removed)
                    \cup Of("modified", d.modified)

-----------------------------------------------------------------------------
\* validate_baseline finds nothing.
Coherent(s) ==
    /\ \A i \in DOMAIN s.blocks : /\ s.blocks[i].id \in Ids \ OddIds
                                  /\ s.blocks[i].text \notin BareTexts
    /\ \A i, j \in DOMAIN s.blocks :
        i < j => /\ s.blocks[i].id # s.blocks[j].id
                 /\ s.blocks[i].name # s.blocks[j].name

\* merge_delta_spec: what may be written to the baseline.
Merged(s, d) == {t \in Merge(s, d) : Coherent(t)}

=============================================================================
