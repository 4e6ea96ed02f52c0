---------------------------- MODULE MCPlanAtomic ----------------------------
(***************************************************************************)
(* Instances of PlanAtomic for TLC.                                        *)
(***************************************************************************)
EXTENDS PlanAtomic

CONSTANTS a, b, c

NoDeps == [n \in Names |-> {}]
Ranked(order) == [n \in Names |->
    IF \E i \in DOMAIN order : order[i] = n
    THEN CHOOSE i \in DOMAIN order : order[i] = n ELSE 0]

\* A chain, a fork with its list order against the dependencies, a cycle, and a
\* slice that depends on one the response does not list.
SomeProposals ==
    {[rank |-> Ranked(<<a, b>>), deps |-> [NoDeps EXCEPT ![b] = {a}]],
     [rank |-> Ranked(<<b, c>>), deps |-> [NoDeps EXCEPT ![b] = {c}]],
     [rank |-> Ranked(<<a, b>>), deps |-> [NoDeps EXCEPT ![a] = {b}, ![b] = {a}]],
     [rank |-> Ranked(<<b>>), deps |-> [NoDeps EXCEPT ![b] = {c}]]}
SomeBootstraps == {<< >>, <<c>>}

Absent == {NoPlan}

\* Every sound plan over the names whose entries all wait.
Fresh == {p \in {[lifecycle |-> "approved", rank |-> r,
                  status |-> [n \in Names |-> "pending"], deps |-> d] :
                    r \in {f \in [Names -> 1 .. Cardinality(Names)] :
                            \A m, n \in Names : f[m] = f[n] => m = n},
                    d \in [Names -> SUBSET Names]} : Structural(p)}
=============================================================================
