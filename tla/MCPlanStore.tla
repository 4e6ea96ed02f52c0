----------------------------- MODULE MCPlanStore -----------------------------
(***************************************************************************)
(* Instances of PlanStore for TLC.                                         *)
(***************************************************************************)
EXTENDS PlanStore, TLC

CONSTANTS api, ui    \* slice names
CONSTANTS ann, bob  \* actors

NoDeps == [n \in Names |-> {}]

\* An approved plan: ui, listed first, waits for api.
Waiting(s, t) ==
    [lifecycle |-> "approved", rank |-> [n \in Names |-> IF n = ui THEN 1 ELSE 2],
     status |-> [n \in Names |-> IF n = api THEN s ELSE t],
     deps |-> [NoDeps EXCEPT ![ui] = {api}]]

\* The same before the Gate 1 approval.
Drafted == [Waiting("pending", "pending") EXCEPT !.lifecycle = "pending"]

NothingYet == {NoPlan}
Ready == {Waiting("pending", "pending")}
Draft == {NoPlan, Drafted}
Anything == {NoPlan, Drafted, Waiting("pending", "pending"),
             Waiting("in-progress", "pending"), Waiting("done", "in-progress")}

\* The actors are interchangeable.
Interchangeable == Permutations(Actors)

\* A response that swaps the dependency, and the shell of a fresh project.
Reversed == {[rank |-> [n \in Names |-> IF n = api THEN 1 ELSE 2],
              deps |-> [NoDeps EXCEPT ![api] = {ui}]]}
\* Besides, one with a cycle, which is refused.
Swapped == Reversed \cup
    {[rank |-> [n \in Names |-> IF n = api THEN 1 ELSE 2],
      deps |-> [NoDeps EXCEPT ![api] = {ui}, ![ui] = {api}]]}
NoShell == {<< >>}
=============================================================================
