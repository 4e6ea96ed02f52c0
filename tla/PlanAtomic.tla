------------------------------ MODULE PlanAtomic ------------------------------
(***************************************************************************)
(* What plan.yaml promises: every `plan` command reads and replaces the    *)
(* plan in one step. The commands of the real program load the file, work  *)
(* on the copy and save it (PlanStore), which implements this module only  *)
(* as far as the plan lock keeps them apart.                               *)
(***************************************************************************)
EXTENDS PlanEntries

VARIABLE plan           \* the contents of plan.yaml

Init == plan \in InitPlans

Next == \E c \in Command : plan' \in Written(c, plan)

Spec == Init /\ [][Next]_plan

(***************************************************************************)
(* The execute driver keeps calling `plan next`, and closes the entry it   *)
(* was given once its slice is merged.                                     *)
(***************************************************************************)
Advance == "next" \in Verbs /\ Exists(plan) /\ plan' \in NextPlans(plan)

Close(n) == "done" \in Verbs /\ Exists(plan) /\ plan' \in DonePlans(plan, n)

DriverFairness == WF_plan(Advance) /\ \A n \in Names : WF_plan(Close(n))

FairSpec == Spec /\ DriverFairness

-----------------------------------------------------------------------------
TypeOK == plan \in PlanType

(***************************************************************************)
(* A plan the verbs wrote can always move: with work left and nothing in   *)
(* progress some entry is eligible, so `plan next` never reports `stuck`.  *)
(* It is why every entry-editing verb runs the cycle and reference checks  *)
(* before it saves.                                                        *)
(***************************************************************************)
NeverStuck ==
    ~ Executing(plan) /\ ~ Drained(plan) => NextEligible(plan) # {}

(***************************************************************************)
(* Gate 1 cannot be taken back by any verb but dropping the plan, and the  *)
(* set of entries of an approved plan never loses one.                     *)
(***************************************************************************)
ApprovedIsKept ==
    [][plan.lifecycle = "approved" /\ Exists(plan')
            => /\ plan'.lifecycle = "approved"
               /\ Entries(plan) \subseteq Entries(plan')]_plan

(***************************************************************************)
(* A driver that keeps claiming and closing entries gets through the plan, *)
(* once the operator has stopped archiving it and changing what it lists.  *)
(***************************************************************************)
Drains ==
    <>[]Exists(plan) /\ <>[][Entries(plan') = Entries(plan) /\ plan'.deps = plan.deps]_plan
        => <>[]Drained(plan)

=============================================================================
