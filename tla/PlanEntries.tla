----------------------------- MODULE PlanEntries -----------------------------
(***************************************************************************)
(* The value held in plan.yaml and the verbs of the `plan` family as       *)
(* functions of that value: what each of them makes of the plan it loaded. *)
(* There is no state here. PlanAtomic and PlanStore apply these operators  *)
(* to a shared file.                                                       *)
(*                                                                         *)
(* A plan is a record of                                                   *)
(*   lifecycle  "pending" or "approved" (the Gate 1 stamp), and "none" for *)
(*              a plan.yaml that does not exist;                           *)
(*   rank       the place of every entry in the list, counted from 1 (the  *)
(*              list order is the order of execution), 0 for a name with   *)
(*              no entry;                                                  *)
(*   status     the status of every name, "absent" for one with no entry;  *)
(*   deps       the depends-on set of every name.                          *)
(* Entry fields no verb branches on (sources, project, context, ...) are   *)
(* left out.                                                               *)
(***************************************************************************)
EXTENDS Integers, Sequences, FiniteSets

CONSTANTS
    Names,      \* the slice names entries may carry
    Verbs,      \* the `plan` verbs that are run
    Proposals,  \* the slice lists an agent's `propose --from` response holds
    Bootstraps, \* the bootstrap slices a propose may have to put first
    InitPlans   \* the contents plan.yaml may have at the start

ASSUME NamesAssumption == IsFiniteSet(Names)

ASSUME VerbsAssumption ==
    Verbs \subseteq {"create", "propose", "add", "amend", "remove", "approve",
                     "next", "done", "undo", "archive"}

(***************************************************************************)
(* A proposal ranks the slices it lists, each listed once (slice names     *)
(* collide before the plan is touched otherwise), and names what each      *)
(* depends on. Bootstrap slices are a list of distinct names.              *)
(***************************************************************************)
ASSUME ProposalsAssumption ==
    /\ Proposals \subseteq [rank : [Names -> Nat], deps : [Names -> SUBSET Names]]
    /\ Bootstraps \subseteq Seq(Names)

Lifecycle == {"none", "pending", "approved"}
Status == {"absent", "pending", "in-progress", "done"}

PlanType == [lifecycle : Lifecycle, rank : [Names -> Nat],
             status : [Names -> Status], deps : [Names -> SUBSET Names]]

\* No plan.yaml at the plan root.
NoPlan == [lifecycle |-> "none", rank |-> [n \in Names |-> 0],
           status |-> [n \in Names |-> "absent"],
           deps |-> [n \in Names |-> {}]]

\* Plan::init: an empty plan, stamped at once under --auto-approve.
Init0(stamp) == [NoPlan EXCEPT !.lifecycle = IF stamp THEN "approved" ELSE "pending"]

Exists(p) == p.lifecycle # "none"
Entries(p) == {n \in Names : p.status[n] # "absent"}
MultipleInProgress(p) ==
    \E m, n \in Names : /\ m # n
                        /\ p.status[m] = "in-progress"
                        /\ p.status[n] = "in-progress"

\* Every dependency of an entry that was started is done.
StartedInOrder(p) ==
    \A n \in Names : p.status[n] \in {"in-progress", "done"}
                        => \A d \in p.deps[n] : p.status[d] = "done"

ASSUME InitPlansAssumption ==
    InitPlans \subseteq {p \in PlanType : ~ MultipleInProgress(p) /\ StartedInOrder(p)}

Executing(p) == \E n \in Names : p.status[n] = "in-progress"
Drained(p) == \A n \in Entries(p) : p.status[n] = "done"

-----------------------------------------------------------------------------
(***************************************************************************)
(* Structural validation.                                                  *)
(***************************************************************************)

\* doctor::detect. A strongly connected component of two or more entries, or
\* a self-loop, is a set of entries each of which depends on one of the set.
Cyclic(p) ==
    \E S \in (SUBSET Entries(p)) \ {{}} :
        \A n \in S : \E m \in S : m \in p.deps[n]

UnknownDependsOn(p) == \E n \in Entries(p) : ~ (p.deps[n] \subseteq Entries(p))

\* The blocking findings of Plan::validate.
Blocking(p) == UnknownDependsOn(p) \/ MultipleInProgress(p)

\* Mutant of Structural: cycles are not looked for.
StructuralAcyclicUnchecked(p) == ~ Blocking(p)

\* The gate every entry-editing verb runs on the plan it is about to write.
Structural(p) == ~ Blocking(p) /\ ~ Cyclic(p)

-----------------------------------------------------------------------------
(***************************************************************************)
(* The verbs. Each operator is the set of plans the verb may write: empty  *)
(* when it refuses (the caller then writes nothing at all).                *)
(***************************************************************************)

Restatus(p, n, s) == [p EXCEPT !.status[n] = s]

Eligible(p, n) ==
    /\ p.status[n] = "pending"
    /\ \A d \in p.deps[n] : p.status[d] = "done"

\* Mutant of NextEligible: only the first pending entry is looked at.
NextEligibleHead(p) ==
    IF Executing(p) THEN {}
    ELSE {n \in Names : /\ Eligible(p, n)
                        /\ \A m \in Names : p.status[m] = "pending" => p.rank[n] <= p.rank[m]}

\* The first eligible entry in list order, as a set of at most one name.
NextEligible(p) ==
    IF Executing(p) THEN {}
    ELSE {n \in Names : /\ Eligible(p, n)
                        /\ \A m \in Names : Eligible(p, m) => p.rank[n] <= p.rank[m]}

\* plan_next_body: refuse a broken plan, else claim the next eligible entry.
\* With an active entry, or none eligible, the plan is written back as it is.
NextPlans(p) ==
    IF ~ Structural(p) THEN {}
    ELSE IF NextEligible(p) = {} THEN {p}
    ELSE {Restatus(p, n, "in-progress") : n \in NextEligible(p)}

DonePlans(p, n) ==
    IF p.status[n] = "in-progress" THEN {Restatus(p, n, "done")} ELSE {}

UndoPlans(p, n) ==
    CASE p.status[n] = "done" -> {Restatus(p, n, "in-progress")}
      [] p.status[n] = "in-progress" -> {Restatus(p, n, "pending")}
      [] OTHER -> {}

\* Stamping an approved plan succeeds and writes the plan back.
ApprovePlans(p) == {[p EXCEPT !.lifecycle = "approved"]}

AddPlans(p, n, D) ==
    {q \in {[p EXCEPT !.rank[n] = Cardinality(Entries(p)) + 1,
                      !.status[n] = "pending", !.deps[n] = D]} :
        p.status[n] = "absent" /\ Structural(q)}

AmendPlans(p, n, D) ==
    {q \in {[p EXCEPT !.deps[n] = D]} : p.status[n] # "absent" /\ Structural(q)}

\* Mutant of Replaceable: the lifecycle is not looked at.
ReplaceableApproved(p) == \A n \in Entries(p) : p.status[n] = "pending"

Replaceable(p) ==
    /\ p.lifecycle = "pending"
    /\ \A n \in Entries(p) : p.status[n] = "pending"

RemovePlans(p, n) ==
    {q \in {[p EXCEPT !.rank = [m \in Names |-> IF m = n THEN 0
                                ELSE IF @[m] > @[n] THEN @[m] - 1 ELSE @[m]],
                      !.status[n] = "absent", !.deps[n] = {}]} :
        /\ Replaceable(p)
        /\ p.status[n] # "absent"
        /\ \A m \in Entries(p) \ {n} : n \notin p.deps[m]}

\* propose_from: the entries are replaced by the listed slices.
Proposed(p, r) ==
    [p EXCEPT !.rank = r.rank,
              !.status = [n \in Names |-> IF r.rank[n] > 0 THEN "pending" ELSE "absent"],
              !.deps = [n \in Names |-> IF r.rank[n] > 0 THEN r.deps[n] ELSE {}]]

\* reconcile_platforms: the bootstrap slices of the platform shells that are
\* missing on disk go first, and every slice of the project waits for them.
Bootstrapped(p, boots) ==
    LET first == {boots[i] : i \in DOMAIN boots}
    IN  [p EXCEPT !.rank = [n \in Names |->
                      IF n \in first THEN CHOOSE i \in DOMAIN boots : boots[i] = n
                      ELSE IF @[n] > 0 THEN @[n] + Len(boots) ELSE 0],
                  !.status = [n \in Names |-> IF n \in first THEN "pending" ELSE @[n]],
                  !.deps = [n \in Names |->
                      IF p.status[n] # "absent" THEN @[n] \cup first ELSE @[n]]]

ProposePlans(p, r, boots) ==
    {q \in {Bootstrapped(Proposed(p, r), boots)} :
        /\ Replaceable(p)
        /\ Structural(Proposed(p, r))
        /\ \A i \in DOMAIN boots : r.rank[boots[i]] = 0}

\* Plan::archive moves plan.yaml away, with outstanding work only if forced.
ArchivePlans(p, force) == IF force \/ Drained(p) THEN {NoPlan} ELSE {}

-----------------------------------------------------------------------------
(***************************************************************************)
(* The command lines, and what one of them does to the plan it loaded.     *)
(***************************************************************************)

Command == {c \in [verb : {"next", "approve"}]
                  \cup [verb : {"create"}, stamp : BOOLEAN]
                  \cup [verb : {"archive"}, force : BOOLEAN]
                  \cup [verb : {"done", "undo", "remove"}, name : Names]
                  \cup [verb : {"add", "amend"}, name : Names, deps : SUBSET Names]
                  \cup [verb : {"propose"}, response : Proposals, boots : Bootstraps] :
              c.verb \in Verbs}

\* The plans command c may leave behind when it loaded p, {} when it refuses.
Written(c, p) ==
    IF c.verb = "create" THEN IF Exists(p) THEN {} ELSE {Init0(c.stamp)}
    ELSE IF ~ Exists(p) THEN {}
    ELSE CASE c.verb = "next" -> NextPlans(p)
           [] c.verb = "done" -> DonePlans(p, c.name)
           [] c.verb = "undo" -> UndoPlans(p, c.name)
           [] c.verb = "approve" -> ApprovePlans(p)
           [] c.verb = "add" -> AddPlans(p, c.name, c.deps)
           [] c.verb = "amend" -> AmendPlans(p, c.name, c.deps)
           [] c.verb = "remove" -> RemovePlans(p, c.name)
           [] c.verb = "propose" -> ProposePlans(p, c.response, c.boots)
           [] OTHER -> ArchivePlans(p, c.force)

Event == {<<"approved">>, <<"reconciled">>}
         \cup ({"advanced"} \X Names)
         \cup ({"undone"} \X Names \X {"in-progress", "done"})

\* The events the command appends to the journal once q has replaced p on disk.
\* Closing an entry (`done`) appends none. Those of divergence and authority
\* overrides, which the plan here does not have, are left out.
Emitted(c, p, q) ==
    CASE c.verb = "next" ->
            {<<"advanced", n>> : n \in {m \in Names : p.status[m] # q.status[m]}}
      [] c.verb = "undo" -> {<<"undone", c.name, p.status[c.name]>>}
      [] c.verb = "approve" -> IF p.lifecycle = "pending" THEN {<<"approved">>} ELSE {}
      [] c.verb = "create" -> IF c.stamp THEN {<<"approved">>} ELSE {}
      [] c.verb = "propose" -> {<<"reconciled">>}
      [] OTHER -> {}

=============================================================================
