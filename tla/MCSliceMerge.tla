----------------------------- MODULE MCSliceMerge -----------------------------
EXTENDS SliceMerge, TLC

CONSTANTS login, audit, ann, bob, base, signIn, signOut, trail, other, none, text, newText

Req(id, t) == [id |-> id, name |-> id, text |-> t]
Adding(rs) == [EmptyDelta EXCEPT !.added = rs]

\* login goes into two files, one of them new; audit adds to the new file and
\* modifies what the other holds.
MCStaged ==
    [s \in {login, audit} |->
        IF s = login THEN <<Adding(<<Req(signIn, text)>>), Adding(<<Req(signOut, text)>>)>>
        ELSE <<Adding(<<Req(trail, text)>>),
               [EmptyDelta EXCEPT !.modified = <<Req(base, newText)>>]>>]

\* In the second one another requirement has the name audit wants to add, so that
\* one of audit's files is refused and the other is not.
Holding(rs) == [preamble |-> TRUE, blocks |-> rs]
MCInitSpecs ==
    {<<EmptySpec, Holding(<<Req(base, text)>>)>>,
     <<Holding(<<[Req(other, text) EXCEPT !.name = trail]>>), Holding(<<Req(base, text)>>)>>}

\* What the files may hold after any merges, in any order.
Grown(bases) == [f \in Files |->
    bases[f] \cup UNION {Merged(x, Staged[s][f]) : x \in bases[f], s \in Slices}]
MCBases == Grown(Grown(Grown([f \in Files |-> {x[f] : x \in InitSpecs}])))

ASSUME FilesAssumption == Grown(MCBases) = MCBases /\ FileMergesHold(MCBases)
===============================================================================
