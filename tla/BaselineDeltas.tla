---------------------------- MODULE BaselineDeltas ----------------------------
(***************************************************************************)
(* The baselines and the deltas TLC merges into them: every delta of at    *)
(* most one rename and one change, and MaxEntries removals and additions,  *)
(* out of the few below; and files without section headers.                *)
(***************************************************************************)
EXTENDS MergeEngine, FiniteSets

CONSTANTS login, audit, odd, none, nameA, nameB, nameC, short, long, bare, MaxEntries

\* Requirements of two ids, one id that is not REQ-NNN, and blocks without id.
Req(id, name, text) == [id |-> id, name |-> name, text |-> text]
Additions == {Req(login, nameA, long), Req(audit, nameB, long), Req(audit, nameA, long),
              Req(odd, nameB, long), Req(none, nameB, long), Req(login, nameB, bare)}
Changes == {Req(login, nameA, short), Req(audit, nameC, short), Req(login, nameB, long)}
Removals == {Req(login, nameA, bare), Req(audit, nameB, bare)}
Renames == {[id |-> login, name |-> nameB], [id |-> audit, name |-> nameA]}

UpTo(n, S) == {s \in UNION {[1 .. k -> S] : k \in 0 .. n} :
                 \A i, j \in DOMAIN s : i < j => s[i] # s[j]}

Sections ==
    {d \in [headers : {TRUE}, plain : {EmptySpec},
            renamed : UpTo(1, Renames), removed : UpTo(MaxEntries, Removals),
            modified : UpTo(1, Changes), added : UpTo(MaxEntries, Additions)] :
        d # EmptyDelta}

Plain ==
    {[EmptyDelta EXCEPT !.headers = FALSE, !.plain = [preamble |-> p, blocks |-> b]] :
        p \in BOOLEAN, b \in UpTo(1, Additions)}

MCDeltas == Sections \cup Plain

\* The requirements a delta names.
Requirements(d) == UNION {{d[s][i].id : i \in DOMAIN d[s]} : s \in {"renamed", "removed", "modified", "added"}}

\* Deltas that rename, remove, modify, add or replace one requirement; and the pairs of
\* one of one requirement and one of another.
DeltasOf(id) ==
    {d \in Sections : /\ Requirements(d) = {id} /\ Len(d.removed) <= 1 /\ Len(d.added) <= 1
                      /\ \A i \in DOMAIN d.added : d.added[i].text # bare
                      /\ Cardinality({s \in {"renamed", "removed", "modified", "added"} :
                                        d[s] # <<>>}) > 1
                            => d.renamed = <<>> /\ d.modified = <<>>}

MCDeltaPairs == DeltasOf(login) \X DeltasOf(audit)

MCInitSpecs ==
    {EmptySpec,
     [preamble |-> TRUE, blocks |-> <<Req(audit, nameB, long), Req(login, nameA, long)>>],
     [preamble |-> FALSE, blocks |-> <<Req(login, nameB, long)>>]}
===============================================================================
