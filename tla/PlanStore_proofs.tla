--------------------------- MODULE PlanStore_proofs ---------------------------
(***************************************************************************)
(* Proofs about PlanStore: what the verbs preserve of the plan they        *)
(* loaded, for every set of names, every proposal and every bootstrap      *)
(* list; types; and what holds of plan.yaml however commands race, are     *)
(* orphaned and crash.                                                     *)
(***************************************************************************)
EXTENDS PlanStore, FiniteSetTheorems, WellFoundedInduction, TLAPS

-----------------------------------------------------------------------------
\* Sound(p) is what a plan has that no amend and no undo went over.
Sound(p) == ~ MultipleInProgress(p) /\ StartedInOrder(p)

(***************************************************************************)
(* The empty plans are plans, and sound.                                   *)
(***************************************************************************)
LEMMA EmptyPlans ==
    /\ NoPlan \in PlanType /\ Sound(NoPlan)
    /\ \A stamp \in BOOLEAN : Init0(stamp) \in PlanType /\ Sound(Init0(stamp))
BY DEF NoPlan, Init0, PlanType, Lifecycle, Status, Sound, MultipleInProgress,
       StartedInOrder

(***************************************************************************)
(* Changing one status to another leaves a plan.                           *)
(***************************************************************************)
LEMMA RestatusType ==
    ASSUME NEW p \in PlanType, NEW n \in Names, NEW s \in Status
    PROVE  /\ Restatus(p, n, s) \in PlanType
           /\ Restatus(p, n, s).status = [p.status EXCEPT ![n] = s]
           /\ Restatus(p, n, s).deps = p.deps
BY DEF Restatus, PlanType

(***************************************************************************)
(* A new entry goes to the end of the list: its rank is a number because   *)
(* the entries are finitely many.                                          *)
(***************************************************************************)
LEMMA EntriesFinite ==
    ASSUME NEW p PROVE Cardinality(Entries(p)) \in Nat
<1>1. Entries(p) \subseteq Names
  BY DEF Entries
<1>2. IsFiniteSet(Entries(p))
  BY <1>1, FS_Subset, NamesAssumption
<1> QED BY <1>2, FS_CardinalityType

(***************************************************************************)
(* What each list-editing verb writes is a plan.                           *)
(***************************************************************************)
LEMMA AddType ==
    ASSUME NEW p \in PlanType, NEW n \in Names, NEW D \in SUBSET Names,
           NEW q \in AddPlans(p, n, D)
    PROVE  /\ q \in PlanType
           /\ p.status[n] = "absent"
           /\ q.status = [p.status EXCEPT ![n] = "pending"]
           /\ q.deps = [p.deps EXCEPT ![n] = D]
<1>1. /\ p.status[n] = "absent"
      /\ q = [p EXCEPT !.rank[n] = Cardinality(Entries(p)) + 1,
                       !.status[n] = "pending", !.deps[n] = D]
  BY DEF AddPlans
<1>2. Cardinality(Entries(p)) + 1 \in Nat
  BY EntriesFinite
<1> QED BY <1>1, <1>2 DEF PlanType, Status

LEMMA AmendType ==
    ASSUME NEW p \in PlanType, NEW n \in Names, NEW D \in SUBSET Names,
           NEW q \in AmendPlans(p, n, D)
    PROVE  q \in PlanType /\ q.status = p.status
BY DEF AmendPlans, PlanType

LEMMA RemoveType ==
    ASSUME NEW p \in PlanType, NEW n \in Names, NEW q \in RemovePlans(p, n)
    PROVE  /\ q \in PlanType
           /\ \A m \in Names : q.status[m] \in {"absent", "pending"}
<1> DEFINE rank == [m \in Names |-> IF m = n THEN 0
                        ELSE IF p.rank[m] > p.rank[n] THEN p.rank[m] - 1 ELSE p.rank[m]]
<1>1. q = [p EXCEPT !.rank = rank, !.status[n] = "absent", !.deps[n] = {}]
  BY DEF RemovePlans
<1>2. rank \in [Names -> Nat]
  BY DEF PlanType
<1>3. q \in PlanType
  BY <1>1, <1>2 DEF PlanType, Status
<1>4. \A m \in Names : p.status[m] \in {"absent", "pending"}
  BY DEF RemovePlans, Replaceable, Entries
<1>5. \A m \in Names : q.status[m] \in {"absent", "pending"}
  BY <1>1, <1>4 DEF PlanType
<1> QED BY <1>3, <1>5

LEMMA ProposedType ==
    ASSUME NEW p \in PlanType, NEW r \in Proposals
    PROVE  /\ Proposed(p, r) \in PlanType
           /\ \A m \in Names : Proposed(p, r).status[m] \in {"absent", "pending"}
<1>1. r.rank \in [Names -> Nat] /\ r.deps \in [Names -> SUBSET Names]
  BY ProposalsAssumption
<1>2. [n \in Names |-> IF r.rank[n] > 0 THEN "pending" ELSE "absent"] \in [Names -> Status]
  BY DEF Status
<1>3. [n \in Names |-> IF r.rank[n] > 0 THEN r.deps[n] ELSE {}] \in [Names -> SUBSET Names]
  BY <1>1
<1> QED BY <1>1, <1>2, <1>3 DEF Proposed, PlanType

LEMMA BootstrappedType ==
    ASSUME NEW p \in PlanType, NEW boots \in Bootstraps,
           \A m \in Names : p.status[m] \in {"absent", "pending"}
    PROVE  /\ Bootstrapped(p, boots) \in PlanType
           /\ \A m \in Names : Bootstrapped(p, boots).status[m] \in {"absent", "pending"}
<1> DEFINE first == {boots[i] : i \in DOMAIN boots}
           rank == [n \in Names |->
                      IF n \in first THEN CHOOSE i \in DOMAIN boots : boots[i] = n
                      ELSE IF p.rank[n] > 0 THEN p.rank[n] + Len(boots) ELSE 0]
           status == [n \in Names |-> IF n \in first THEN "pending" ELSE p.status[n]]
           deps == [n \in Names |->
                      IF p.status[n] # "absent" THEN p.deps[n] \cup first ELSE p.deps[n]]
<1>1. boots \in Seq(Names)
  BY ProposalsAssumption
<1>2. Len(boots) \in Nat /\ DOMAIN boots = 1 .. Len(boots) /\ first \subseteq Names
  BY <1>1
<1>3. \A n \in first : (CHOOSE i \in DOMAIN boots : boots[i] = n) \in Nat
  BY <1>2
<1>4. rank \in [Names -> Nat]
  BY <1>2, <1>3 DEF PlanType
<1>5. status \in [Names -> Status] /\ \A m \in Names : status[m] \in {"absent", "pending"}
  BY DEF PlanType, Status
<1>6. deps \in [Names -> SUBSET Names]
  BY <1>2 DEF PlanType
<1>7. Bootstrapped(p, boots) = [p EXCEPT !.rank = rank, !.status = status, !.deps = deps]
  BY DEF Bootstrapped, PlanType
<1> HIDE DEF rank, status, deps
<1> QED BY <1>4, <1>5, <1>6, <1>7 DEF PlanType

(***************************************************************************)
(* A pending entry that is claimed while nothing is in progress, and an    *)
(* entry in progress that is closed, leave a sound plan sound.             *)
(***************************************************************************)
LEMMA NextSound ==
    ASSUME NEW p \in PlanType, NEW q \in NextPlans(p)
    PROVE  /\ q \in PlanType
           /\ ~ MultipleInProgress(p) => ~ MultipleInProgress(q)
           /\ Sound(p) => Sound(q)
<1>1. CASE q = p
  BY <1>1
<1>2. CASE \E n \in NextEligible(p) : q = Restatus(p, n, "in-progress")
  <2>1. PICK n \in NextEligible(p) : q = Restatus(p, n, "in-progress")
    BY <1>2
  <2>2. /\ n \in Names /\ p.status[n] = "pending"
        /\ \A d \in p.deps[n] : p.status[d] = "done"
        /\ \A m \in Names : p.status[m] # "in-progress"
    BY DEF NextEligible, Eligible, Executing
  <2>3. q \in PlanType /\ q.status = [p.status EXCEPT ![n] = "in-progress"]
        /\ q.deps = p.deps
    BY <2>1, <2>2, RestatusType DEF Status
  <2>4. ~ MultipleInProgress(q)
    BY <2>2, <2>3 DEF MultipleInProgress, PlanType
  <2>5. Sound(p) => StartedInOrder(q)
    BY <2>2, <2>3 DEF Sound, StartedInOrder, PlanType
  <2> QED BY <2>3, <2>4, <2>5 DEF Sound
<1> QED BY <1>1, <1>2 DEF NextPlans

LEMMA DoneSound ==
    ASSUME NEW p \in PlanType, NEW n \in Names, NEW q \in DonePlans(p, n)
    PROVE  /\ q \in PlanType
           /\ ~ MultipleInProgress(p) => ~ MultipleInProgress(q)
           /\ Sound(p) => Sound(q)
<1>1. p.status[n] = "in-progress" /\ q = Restatus(p, n, "done")
  BY DEF DonePlans
<1>2. q \in PlanType /\ q.status = [p.status EXCEPT ![n] = "done"] /\ q.deps = p.deps
  BY <1>1, RestatusType DEF Status
<1>3. ~ MultipleInProgress(p) => ~ MultipleInProgress(q)
  BY <1>2 DEF MultipleInProgress, PlanType
<1>4. Sound(p) => StartedInOrder(q)
  BY <1>1, <1>2 DEF Sound, StartedInOrder, PlanType
<1> QED BY <1>2, <1>3, <1>4 DEF Sound

(***************************************************************************)
(* A new pending entry disturbs nobody: no entry was waiting for its name  *)
(* and was started all the same.                                           *)
(***************************************************************************)
LEMMA AddSound ==
    ASSUME NEW p \in PlanType, NEW n \in Names, NEW D \in SUBSET Names,
           NEW q \in AddPlans(p, n, D)
    PROVE  /\ q \in PlanType
           /\ ~ MultipleInProgress(p) => ~ MultipleInProgress(q)
           /\ Sound(p) => Sound(q)
<1>1. /\ q \in PlanType /\ p.status[n] = "absent"
      /\ q.status = [p.status EXCEPT ![n] = "pending"]
      /\ q.deps = [p.deps EXCEPT ![n] = D]
  BY AddType
<1>2. ~ MultipleInProgress(p) => ~ MultipleInProgress(q)
  BY <1>1 DEF MultipleInProgress, PlanType
<1>3. Sound(p) => StartedInOrder(q)
  BY <1>1 DEF Sound, StartedInOrder, PlanType
<1> QED BY <1>1, <1>2, <1>3 DEF Sound

(***************************************************************************)
(* A plan nothing was started in is sound.                                 *)
(***************************************************************************)
LEMMA WaitingSound ==
    ASSUME NEW q, \A m \in Names : q.status[m] \in {"absent", "pending"}
    PROVE  Sound(q)
BY DEF Sound, MultipleInProgress, StartedInOrder

LEMMA ProposeSound ==
    ASSUME NEW p \in PlanType, NEW r \in Proposals, NEW boots \in Bootstraps,
           NEW q \in ProposePlans(p, r, boots)
    PROVE  q \in PlanType /\ Sound(q)
<1>1. q = Bootstrapped(Proposed(p, r), boots)
  BY DEF ProposePlans
<1> QED BY <1>1, ProposedType, BootstrappedType, WaitingSound

-----------------------------------------------------------------------------
(***************************************************************************)
(* The options of a command line are what the verb takes.                  *)
(***************************************************************************)
LEMMA CommandOptions ==
    ASSUME NEW c \in Command
    PROVE  /\ c.verb \in Verbs
           /\ c.verb = "create" => c.stamp \in BOOLEAN
           /\ c.verb \in {"done", "undo", "remove", "add", "amend"} => c.name \in Names
           /\ c.verb \in {"add", "amend"} => c.deps \in SUBSET Names
           /\ c.verb = "propose" => c.response \in Proposals /\ c.boots \in Bootstraps
BY DEF Command

(***************************************************************************)
(* Whatever a command writes is a plan. It has at most one entry in        *)
(* progress if the plan it loaded had, undo excepted, and is sound if that *)
(* plan was, undo and amend excepted.                                      *)
(***************************************************************************)
LEMMA WrittenSound ==
    ASSUME NEW p \in PlanType, NEW c \in Command, NEW q \in Written(c, p)
    PROVE  /\ q \in PlanType
           /\ c.verb # "undo" /\ ~ MultipleInProgress(p) => ~ MultipleInProgress(q)
           /\ c.verb \notin {"undo", "amend"} /\ Sound(p) => Sound(q)
<1> USE CommandOptions
<1>0. c.verb \in {"create", "propose", "add", "amend", "remove", "approve",
                  "next", "done", "undo", "archive"}
  BY VerbsAssumption
<1>1. CASE c.verb = "create"
  BY <1>1, EmptyPlans DEF Written, Sound
<1>2. CASE c.verb = "next"
  BY <1>2, NextSound DEF Written
<1>3. CASE c.verb = "done"
  BY <1>3, DoneSound DEF Written
<1>4. CASE c.verb = "undo"
  <2>1. q \in UndoPlans(p, c.name)
    BY <1>4 DEF Written
  <2>2. q = Restatus(p, c.name, "in-progress") \/ q = Restatus(p, c.name, "pending")
    BY <2>1 DEF UndoPlans
  <2>3. c.name \in Names
    BY <1>4
  <2>4. q \in PlanType
    BY <2>2, <2>3, RestatusType DEF Status
  <2> QED BY <1>4, <2>4
<1>5. CASE c.verb = "approve"
  <2>1. q = [p EXCEPT !.lifecycle = "approved"]
    BY <1>5 DEF Written, ApprovePlans
  <2>2. q \in PlanType /\ q.status = p.status /\ q.deps = p.deps
    BY <2>1 DEF PlanType, Lifecycle
  <2> QED BY <2>2 DEF Sound, MultipleInProgress, StartedInOrder
<1>6. CASE c.verb = "add"
  BY <1>6, AddSound DEF Written
<1>7. CASE c.verb = "amend"
  <2>1. q \in PlanType /\ q.status = p.status
    BY <1>7, AmendType DEF Written
  <2> QED BY <1>7, <2>1 DEF MultipleInProgress
<1>8. CASE c.verb = "remove"
  BY <1>8, RemoveType, WaitingSound DEF Written, Sound
<1>9. CASE c.verb = "propose"
  BY <1>9, ProposeSound DEF Written, Sound
<1>10. CASE c.verb = "archive"
  BY <1>10, EmptyPlans DEF Written, ArchivePlans, Sound
<1> QED BY <1>1, <1>2, <1>3, <1>4, <1>5, <1>6, <1>7, <1>8, <1>9, <1>10, <1>0

(***************************************************************************)
(* The events of a command are events.                                     *)
(***************************************************************************)
LEMMA EmittedType ==
    ASSUME NEW p \in PlanType, NEW c \in Command, NEW q \in Written(c, p)
    PROVE  Emitted(c, p, q) \subseteq Event
<1> USE CommandOptions
<1>1. CASE c.verb = "undo"
  <2>1. p.status[c.name] \in {"in-progress", "done"}
    BY <1>1 DEF Written, UndoPlans, PlanType
  <2> QED BY <1>1, <2>1 DEF Emitted, Event
<1>2. CASE c.verb = "next"
  BY <1>2 DEF Emitted, Event
<1>3. CASE c.verb \notin {"undo", "next"}
  BY <1>3 DEF Emitted, Event
<1> QED BY <1>1, <1>2, <1>3

-----------------------------------------------------------------------------
\* What the cycle and reference checks of the editing verbs keep of every plan.
Startable(p) == ~ Cyclic(p) /\ ~ UnknownDependsOn(p)

(***************************************************************************)
(* The checks look only at which entries there are and what they wait for. *)
(***************************************************************************)
LEMMA SameGraph ==
    ASSUME NEW p, NEW q, Entries(q) = Entries(p), q.deps = p.deps, Startable(p)
    PROVE  Startable(q)
BY DEF Startable, Cyclic, UnknownDependsOn

LEMMA EmptyStartable ==
    ASSUME NEW p, Entries(p) = {} PROVE Startable(p)
BY DEF Startable, Cyclic, UnknownDependsOn

LEMMA StructuralStartable ==
    ASSUME NEW p, Structural(p) PROVE Startable(p)
BY DEF Structural, Blocking, Startable

(***************************************************************************)
(* A change of status from one that is not `absent` to another moves no    *)
(* entry.                                                                  *)
(***************************************************************************)
LEMMA RestatusStartable ==
    ASSUME NEW p \in PlanType, NEW n \in Names,
           NEW s \in {"pending", "in-progress", "done"},
           p.status[n] # "absent"
    PROVE  /\ Entries(Restatus(p, n, s)) = Entries(p)
           /\ Restatus(p, n, s).lifecycle = p.lifecycle
           /\ Startable(p) => Startable(Restatus(p, n, s))
<1> DEFINE q == Restatus(p, n, s)
<1>0. s \in Status
  BY DEF Status
<1>1. q.status = [p.status EXCEPT ![n] = s] /\ q.deps = p.deps
  BY <1>0, RestatusType
<1>2. Entries(q) = Entries(p)
  BY <1>1 DEF Entries, PlanType
<1>3. q.lifecycle = p.lifecycle
  BY DEF Restatus, PlanType
<1>4. Startable(p) => Startable(q)
  BY <1>1, <1>2, SameGraph
<1> QED BY <1>2, <1>3, <1>4

(***************************************************************************)
(* An entry nobody depends on can be removed: a cycle of what is left was  *)
(* one before.                                                             *)
(***************************************************************************)
LEMMA RemoveStartable ==
    ASSUME NEW p \in PlanType, Startable(p), NEW n \in Names,
           NEW q \in RemovePlans(p, n)
    PROVE  Startable(q)
<1>1. /\ q.status = [p.status EXCEPT ![n] = "absent"]
      /\ q.deps = [p.deps EXCEPT ![n] = {}]
      /\ \A m \in Entries(p) \ {n} : n \notin p.deps[m]
  BY DEF RemovePlans, PlanType
<1>2. Entries(q) = Entries(p) \ {n}
  BY <1>1 DEF Entries, PlanType
<1>3. \A m \in Entries(q) : q.deps[m] = p.deps[m] /\ n \notin q.deps[m]
  BY <1>1, <1>2 DEF Entries, PlanType
<1>4. ~ UnknownDependsOn(q)
  BY <1>2, <1>3 DEF Startable, UnknownDependsOn
<1>5. ~ Cyclic(q)
  BY <1>2, <1>3 DEF Startable, Cyclic
<1> QED BY <1>4, <1>5 DEF Startable

(***************************************************************************)
(* Slices put first depend on nothing, so they are on no cycle, and a      *)
(* cycle that avoids them is one of the listed slices.                     *)
(***************************************************************************)
LEMMA ProposeStartable ==
    ASSUME NEW p \in PlanType, NEW r \in Proposals, NEW boots \in Bootstraps,
           NEW q \in ProposePlans(p, r, boots)
    PROVE  Startable(q)
<1> DEFINE s == Proposed(p, r)
           first == {boots[i] : i \in DOMAIN boots}
<1>1. /\ q = Bootstrapped(s, boots)
      /\ Structural(s)
      /\ \A n \in first : r.rank[n] = 0
  BY DEF ProposePlans
<1>2. s \in PlanType
  BY ProposedType
<1>3. Startable(s)
  BY <1>1, StructuralStartable
<1>4. boots \in Seq(Names)
  BY ProposalsAssumption
<1>5. first \subseteq Names
  BY <1>4
<1>6. \A n \in first : s.status[n] = "absent" /\ s.deps[n] = {}
  BY <1>1, <1>5 DEF Proposed, PlanType
<1>7. /\ q.status = [n \in Names |-> IF n \in first THEN "pending" ELSE s.status[n]]
      /\ q.deps = [n \in Names |-> IF s.status[n] # "absent" THEN s.deps[n] \cup first
                                   ELSE s.deps[n]]
  BY <1>1, <1>2 DEF Bootstrapped, PlanType
<1> HIDE DEF s, first
<1>8. Entries(q) = Entries(s) \cup first
  BY <1>2, <1>5, <1>7 DEF Entries, PlanType
<1>9. \A n \in first : n \notin Entries(s) /\ q.deps[n] = {}
  BY <1>5, <1>6, <1>7 DEF Entries
<1>10. \A n \in Entries(s) : q.deps[n] = s.deps[n] \cup first
  BY <1>7 DEF Entries
<1>11. ~ UnknownDependsOn(q)
  BY <1>3, <1>8, <1>9, <1>10 DEF Startable, UnknownDependsOn
<1>12. ~ Cyclic(q)
  <2>1. SUFFICES ASSUME NEW S \in SUBSET Entries(q), S # {},
                        \A n \in S : \E m \in S : m \in q.deps[n]
                 PROVE  FALSE
    BY DEF Cyclic
  <2>2. S \cap first = {}
    BY <1>9, <2>1
  <2>3. S \subseteq Entries(s)
    BY <1>8, <2>1, <2>2
  <2>4. \A n \in S : \E m \in S : m \in s.deps[n]
    BY <1>10, <2>1, <2>2, <2>3
  <2> QED BY <1>3, <2>1, <2>3, <2>4 DEF Startable, Cyclic
<1> QED BY <1>11, <1>12 DEF Startable

(***************************************************************************)
(* Whatever a command writes can be worked through, and an approved plan   *)
(* it replaces keeps its stamp and its entries, unless it is archived.     *)
(***************************************************************************)
Kept(p, q) == p.lifecycle = "approved" /\ Exists(q)
                  => q.lifecycle = "approved" /\ Entries(p) \subseteq Entries(q)

LEMMA WrittenStartable ==
    ASSUME NEW p \in PlanType, NEW c \in Command, NEW q \in Written(c, p)
    PROVE  /\ Startable(p) => Startable(q)
           /\ Kept(p, q)
<1> USE CommandOptions
<1>0. c.verb \in {"create", "propose", "add", "amend", "remove", "approve",
                  "next", "done", "undo", "archive"}
  BY VerbsAssumption
<1>1. CASE c.verb = "create"
  <2>1. q = Init0(c.stamp) /\ p.lifecycle = "none"
    BY <1>1 DEF Written, Exists
  <2>2. Entries(q) = {}
    BY <2>1 DEF Init0, NoPlan, Entries
  <2> QED BY <2>1, <2>2, EmptyStartable DEF Kept
<1>2. CASE c.verb = "next"
  <2>1. q = p \/ \E n \in NextEligible(p) : q = Restatus(p, n, "in-progress")
    BY <1>2 DEF Written, NextPlans
  <2>2. \A n \in NextEligible(p) : n \in Names /\ p.status[n] # "absent"
    BY DEF NextEligible, Eligible
  <2> QED BY <2>1, <2>2, RestatusStartable DEF Kept
<1>3. CASE c.verb = "done"
  <2>1. p.status[c.name] # "absent" /\ q = Restatus(p, c.name, "done")
    BY <1>3 DEF Written, DonePlans
  <2> QED BY <1>3, <2>1, RestatusStartable DEF Kept
<1>4. CASE c.verb = "undo"
  <2>1. /\ p.status[c.name] # "absent"
        /\ \/ q = Restatus(p, c.name, "in-progress")
           \/ q = Restatus(p, c.name, "pending")
    BY <1>4 DEF Written, UndoPlans
  <2> QED BY <1>4, <2>1, RestatusStartable DEF Kept
<1>5. CASE c.verb = "approve"
  <2>1. q.lifecycle = "approved" /\ q.status = p.status /\ q.deps = p.deps
    BY <1>5 DEF Written, ApprovePlans, PlanType
  <2>2. Entries(q) = Entries(p)
    BY <2>1 DEF Entries
  <2> QED BY <2>1, <2>2, SameGraph DEF Kept
<1>6. CASE c.verb = "add"
  <2>1. q \in AddPlans(p, c.name, c.deps) /\ c.name \in Names /\ c.deps \in SUBSET Names
    BY <1>6 DEF Written
  <2>2. q.status = [p.status EXCEPT ![c.name] = "pending"]
    BY <2>1 DEF AddPlans, PlanType
  <2>5. Structural(q)
    BY <2>1 DEF AddPlans
  <2>3. q.lifecycle = p.lifecycle
    BY <2>1 DEF AddPlans, PlanType
  <2>4. Entries(p) \subseteq Entries(q)
    BY <2>2 DEF Entries, PlanType
  <2> QED BY <2>5, <2>3, <2>4, StructuralStartable DEF Kept
<1>7. CASE c.verb = "amend"
  <2>1. q \in AmendPlans(p, c.name, c.deps)
    BY <1>7 DEF Written
  <2>2. Structural(q) /\ q.status = p.status /\ q.lifecycle = p.lifecycle
    BY <2>1 DEF AmendPlans, PlanType
  <2>3. Entries(p) = Entries(q)
    BY <2>2 DEF Entries
  <2> QED BY <2>2, <2>3, StructuralStartable DEF Kept
<1>8. CASE c.verb = "remove"
  <2>1. q \in RemovePlans(p, c.name) /\ c.name \in Names
    BY <1>8 DEF Written
  <2>2. p.lifecycle # "approved"
    BY <2>1 DEF RemovePlans, Replaceable
  <2> QED BY <2>1, <2>2, RemoveStartable DEF Kept
<1>9. CASE c.verb = "propose"
  <2>1. /\ q \in ProposePlans(p, c.response, c.boots)
        /\ c.response \in Proposals /\ c.boots \in Bootstraps
    BY <1>9 DEF Written
  <2>2. p.lifecycle # "approved"
    BY <2>1 DEF ProposePlans, Replaceable
  <2> QED BY <2>1, <2>2, ProposeStartable DEF Kept
<1>10. CASE c.verb = "archive"
  <2>1. q = NoPlan
    BY <1>10 DEF Written, ArchivePlans
  <2>2. Entries(q) = {} /\ ~ Exists(q)
    BY <2>1 DEF NoPlan, Entries, Exists
  <2> QED BY <2>2, EmptyStartable DEF Kept
<1> QED BY <1>0, <1>1, <1>2, <1>3, <1>4, <1>5, <1>6, <1>7, <1>8, <1>9, <1>10

-----------------------------------------------------------------------------
(***************************************************************************)
(* With work left and nothing in progress, every entry that is not done is *)
(* pending. If none of them were eligible each would wait for another of   *)
(* them, and they would be a cycle. Of the eligible ones some has the      *)
(* least rank: that is the one `plan next` claims.                         *)
(***************************************************************************)
LEMMA StartableMoves ==
    ASSUME NEW p \in PlanType, Startable(p), ~ Executing(p), ~ Drained(p)
    PROVE  NextEligible(p) # {}
<1> DEFINE Open == {n \in Entries(p) : p.status[n] # "done"}
           Ready == {n \in Names : Eligible(p, n)}
<1>1. \A n \in Names : p.status[n] \in {"absent", "pending", "done"}
  BY DEF Executing, PlanType, Status
<1>2. Open # {} /\ Open \subseteq Entries(p)
  BY DEF Drained
<1>3. PICK n \in Open : \A m \in Open : m \notin p.deps[n]
  BY <1>2 DEF Startable, Cyclic
<1>4. n \in Names /\ p.status[n] = "pending"
  BY <1>1, <1>3 DEF Entries
<1>5. p.deps[n] \subseteq Entries(p)
  BY <1>3 DEF Startable, UnknownDependsOn
<1>6. n \in Ready
  BY <1>3, <1>4, <1>5 DEF Eligible
<1> DEFINE Ranks == {p.rank[m] : m \in Ready}
<1>7. Ranks \subseteq Nat /\ Ranks # {}
  BY <1>6 DEF PlanType
<1> HIDE DEF Ranks
<1>8. PICK k \in Ranks : \A j \in Ranks : <<j, k>> \notin OpToRel(<, Nat)
  BY <1>7, WFMin, NatLessThanWellFounded
<1>9. \A j \in Ranks : ~ (j < k)
  <2>1. \A i, j \in Nat : i < j => <<i, j>> \in OpToRel(<, Nat)
    BY DEF OpToRel
  <2> QED BY <1>7, <1>8, <2>1
<1>10. PICK m \in Ready : p.rank[m] = k
  BY DEF Ranks
<1>11. \A o \in Names : Eligible(p, o) => p.rank[m] <= p.rank[o]
  BY <1>7, <1>9, <1>10 DEF Ranks
<1>12. m \in NextEligible(p)
  BY <1>10, <1>11 DEF NextEligible
<1> QED BY <1>12

-----------------------------------------------------------------------------
RunType == [pc : PC, op : Command \cup {NoCommand}, copy : PlanType, events : SUBSET Event]

\* A command that runs is a command, and the types hold.
Typed == TypeOK /\ \A a \in Actors : run[a].pc # "idle" => run[a].op \in Command

LEMMA IdleType == Idle \in RunType
BY EmptyPlans DEF Idle, PC, RunType

LEMMA InitTyped == Init => Typed
<1> SUFFICES ASSUME Init PROVE Typed
  OBVIOUS
<1>1. plan \in PlanType
  BY InitPlansAssumption DEF Init
<1>2. run \in [Actors -> RunType] /\ \A a \in Actors : run[a].pc = "idle"
  BY IdleType DEF Init, Idle
<1> QED BY <1>1, <1>2 DEF Init, Typed, TypeOK, RunType

(***************************************************************************)
(* The plan a save writes is what the verb makes of the copy: it is a      *)
(* plan, and its events are events.                                        *)
(***************************************************************************)
LEMMA SaveWrites ==
    ASSUME Typed, NEW a \in Actors, Save(a)
    PROVE  \E q \in Written(run[a].op, run[a].copy) :
              /\ run[a].op \in Command /\ run[a].copy \in PlanType
              /\ plan' = q /\ q \in PlanType
              /\ \/ run' = [run EXCEPT ![a] = Idle]
                 \/ \E E \in SUBSET Event :
                      run' = [run EXCEPT ![a].pc = "emit", ![a].events = E]
<1>1. run[a].op \in Command /\ run[a].copy \in PlanType
  BY DEF Save, Typed, TypeOK
<1>2. PICK q \in Written(run[a].op, run[a].copy) :
        /\ plan' = q
        /\ IF Emitted(run[a].op, run[a].copy, q) = {} THEN Finish(a)
           ELSE run' = [run EXCEPT ![a].pc = "emit",
                                   ![a].events = Emitted(run[a].op, run[a].copy, q)]
  BY DEF Save
<1>3. q \in PlanType /\ Emitted(run[a].op, run[a].copy, q) \in SUBSET Event
  BY <1>1, WrittenSound, EmittedType
<1> QED BY <1>1, <1>2, <1>3 DEF Finish

LEMMA NextTyped == Typed /\ [Next]_vars => Typed'
<1> SUFFICES ASSUME Typed, [Next]_vars PROVE Typed'
  OBVIOUS
<1> USE IdleType DEF RunType
<1>1. CASE UNCHANGED vars
  BY <1>1 DEF vars, Typed, TypeOK
<1>2. ASSUME NEW a \in Actors, Acquire(a) \/ Release(a) \/ Orphan(a) PROVE Typed'
  BY <1>2 DEF Acquire, Release, Orphan, Typed, TypeOK
<1>3. ASSUME NEW a \in Actors, NEW c \in Command, Start(a, c) PROVE Typed'
  <2>1. [Idle EXCEPT !.pc = IF c.verb = "next" /\ Exists(plan) THEN "probe" ELSE "load",
                     !.op = c] \in RunType
    BY DEF PC
  <2> QED BY <1>3, <2>1 DEF Start, Typed, TypeOK
<1>4. ASSUME NEW a \in Actors, Probe(a) PROVE Typed'
  <2>1. run' = [run EXCEPT ![a] = Idle] \/ \E pc \in {"load", "save"} :
           run' = [run EXCEPT ![a].pc = pc]
    BY <1>4 DEF Probe, Finish, Goto
  <2>2. run[a].pc = "probe" /\ UNCHANGED <<plan, holder, journal>>
    BY <1>4 DEF Probe
  <2> QED BY <2>1, <2>2 DEF Typed, TypeOK, PC, Idle
<1>5. ASSUME NEW a \in Actors, Load(a) PROVE Typed'
  BY <1>5 DEF Load, Typed, TypeOK, PC
<1>6. ASSUME NEW a \in Actors, Refuse(a) \/ Crash(a) PROVE Typed'
  BY <1>6 DEF Refuse, Crash, Finish, Typed, TypeOK, Idle
<1>7. ASSUME NEW a \in Actors, Save(a) PROVE Typed'
  <2>1. PICK q \in Written(run[a].op, run[a].copy) :
              /\ run[a].op \in Command /\ run[a].copy \in PlanType
              /\ plan' = q /\ q \in PlanType
              /\ \/ run' = [run EXCEPT ![a] = Idle]
                 \/ \E E \in SUBSET Event :
                      run' = [run EXCEPT ![a].pc = "emit", ![a].events = E]
    BY <1>7, SaveWrites
  <2>2. UNCHANGED <<holder, journal>>
    BY <1>7 DEF Save
  <2> QED BY <2>1, <2>2 DEF Typed, TypeOK, PC, Idle
<1>8. ASSUME NEW a \in Actors, Emit(a) PROVE Typed'
  BY <1>8 DEF Emit, Finish, Typed, TypeOK, Idle
<1> QED BY <1>1, <1>2, <1>3, <1>4, <1>5, <1>6, <1>7, <1>8 DEF Next

(***************************************************************************)
(* Every variable keeps its type: whatever plan a verb makes of whatever   *)
(* plan it loaded is a plan, and its events are events.                    *)
(***************************************************************************)
THEOREM TypeCorrect == Spec => []TypeOK
<1>1. Typed => TypeOK
  BY DEF Typed
<1> QED BY InitTyped, NextTyped, <1>1, PTL DEF Spec

-----------------------------------------------------------------------------
(***************************************************************************)
(* Where plans come from: a step leaves plan.yaml alone or writes what a   *)
(* verb makes of a command's copy, and a copy is what it was, the file or  *)
(* the blank of an idle actor.                                             *)
(***************************************************************************)
LEMMA Provenance ==
    ASSUME Typed, [Next]_vars
    PROVE  /\ \/ plan' = plan
              \/ \E a \in Actors : /\ run[a].op \in Command
                                   /\ plan' \in Written(run[a].op, run[a].copy)
           /\ \A b \in Actors : run'[b].copy \in {run[b].copy, plan, NoPlan}
<1> USE DEF Idle
<1> DEFINE Copies == \A b \in Actors : run'[b].copy \in {run[b].copy, plan, NoPlan}
<1>0. run \in [Actors -> RunType]
  BY DEF Typed, TypeOK, RunType
<1>1. CASE UNCHANGED vars
  BY <1>1 DEF vars
<1>2. ASSUME NEW a \in Actors, Acquire(a) \/ Release(a) \/ Orphan(a)
      PROVE  plan' = plan /\ Copies
  BY <1>2 DEF Acquire, Release, Orphan
<1>3. ASSUME NEW a \in Actors, NEW c \in Command, Start(a, c) PROVE plan' = plan /\ Copies
  BY <1>3, <1>0 DEF Start
<1>4. ASSUME NEW a \in Actors, Probe(a) PROVE plan' = plan /\ Copies
  BY <1>4, <1>0 DEF Probe, Finish, Goto, RunType
<1>5. ASSUME NEW a \in Actors, Load(a) PROVE plan' = plan /\ Copies
  BY <1>5, <1>0 DEF Load, RunType
<1>6. ASSUME NEW a \in Actors, Refuse(a) \/ Crash(a) \/ Emit(a) PROVE plan' = plan /\ Copies
  BY <1>6, <1>0 DEF Refuse, Crash, Emit, Finish
<1>7. ASSUME NEW a \in Actors, Save(a)
      PROVE  run[a].op \in Command /\ plan' \in Written(run[a].op, run[a].copy) /\ Copies
  <2>1. PICK q \in Written(run[a].op, run[a].copy) :
              /\ run[a].op \in Command /\ run[a].copy \in PlanType
              /\ plan' = q /\ q \in PlanType
              /\ \/ run' = [run EXCEPT ![a] = Idle]
                 \/ \E E \in SUBSET Event :
                      run' = [run EXCEPT ![a].pc = "emit", ![a].events = E]
    BY <1>7, SaveWrites
  <2>2. Copies
    BY <2>1, <1>0 DEF RunType
  <2> QED BY <2>1, <2>2
<1> QED BY <1>1, <1>2, <1>3, <1>4, <1>5, <1>6, <1>7 DEF Next

\* The inductive form: the copies are as good as the file.
OneInv == Typed /\ OneInProgress /\ \A a \in Actors : ~ MultipleInProgress(run[a].copy)

SoundInv == Typed /\ Sound(plan) /\ \A a \in Actors : Sound(run[a].copy)

(***************************************************************************)
(* With any number of actors, locked or not, orphaned or crashing: without *)
(* the undo verb plan.yaml never has two entries in progress. A save may   *)
(* overwrite any later content, so the claim has to be carried by every    *)
(* copy in flight.                                                         *)
(***************************************************************************)
THEOREM AtMostOneInProgress ==
    ASSUME "undo" \notin Verbs
    PROVE  Spec => []OneInProgress
<1>1. Init => OneInv
  BY InitTyped, InitPlansAssumption, EmptyPlans
     DEF Init, OneInv, OneInProgress, Idle, Sound
<1>2. OneInv /\ [Next]_vars => OneInv'
  <2> SUFFICES ASSUME OneInv, [Next]_vars PROVE OneInv'
    OBVIOUS
  <2>1. Typed'
    BY NextTyped DEF OneInv
  <2>2. ~ MultipleInProgress(plan')
    <3>1. CASE plan' = plan
      BY <3>1 DEF OneInv, OneInProgress
    <3>2. ASSUME NEW a \in Actors, run[a].op \in Command,
                 plan' \in Written(run[a].op, run[a].copy)
          PROVE  ~ MultipleInProgress(plan')
      <4>1. run[a].copy \in PlanType /\ ~ MultipleInProgress(run[a].copy)
        BY DEF OneInv, Typed, TypeOK
      <4>2. run[a].op.verb # "undo"
        BY <3>2, CommandOptions
      <4> QED BY <3>2, <4>1, <4>2, WrittenSound
    <3> QED BY <3>1, <3>2, Provenance DEF OneInv
  <2>3. \A a \in Actors : ~ MultipleInProgress(run'[a].copy)
    BY Provenance, EmptyPlans DEF OneInv, OneInProgress, Sound
  <2> QED BY <2>1, <2>2, <2>3 DEF OneInv, OneInProgress
<1>3. OneInv => OneInProgress
  BY DEF OneInv
<1> QED BY <1>1, <1>2, <1>3, PTL DEF Spec

(***************************************************************************)
(* Without amend and undo, no entry in plan.yaml was ever started before   *)
(* its dependencies, though commands race on stale copies.                 *)
(***************************************************************************)
THEOREM StartedInDependencyOrder ==
    ASSUME Verbs \cap {"undo", "amend"} = {}
    PROVE  Spec => []StartedAfterDeps
<1>1. Init => SoundInv
  BY InitTyped, InitPlansAssumption, EmptyPlans DEF Init, SoundInv, Idle, Sound
<1>2. SoundInv /\ [Next]_vars => SoundInv'
  <2> SUFFICES ASSUME SoundInv, [Next]_vars PROVE SoundInv'
    OBVIOUS
  <2>1. Typed'
    BY NextTyped DEF SoundInv
  <2>2. Sound(plan')
    <3>1. CASE plan' = plan
      BY <3>1 DEF SoundInv
    <3>2. ASSUME NEW a \in Actors, run[a].op \in Command,
                 plan' \in Written(run[a].op, run[a].copy)
          PROVE  Sound(plan')
      <4>1. run[a].copy \in PlanType /\ Sound(run[a].copy)
        BY DEF SoundInv, Typed, TypeOK
      <4>2. run[a].op.verb \notin {"undo", "amend"}
        BY <3>2, CommandOptions
      <4> QED BY <3>2, <4>1, <4>2, WrittenSound
    <3> QED BY <3>1, <3>2, Provenance DEF SoundInv
  <2>3. \A a \in Actors : Sound(run'[a].copy)
    BY Provenance, EmptyPlans DEF SoundInv
  <2> QED BY <2>1, <2>2, <2>3 DEF SoundInv
<1>3. SoundInv => StartedAfterDeps
  BY DEF SoundInv, StartedAfterDeps, Sound
<1> QED BY <1>1, <1>2, <1>3, PTL DEF Spec

-----------------------------------------------------------------------------
(***************************************************************************)
(* The lock session: who runs a command holds the lock, and between the    *)
(* load and the save the copy is the file.                                 *)
(***************************************************************************)
LockInv ==
    /\ Typed
    /\ \A a \in Actors :
        /\ run[a].pc # "idle" => holder = a
        /\ (run[a].pc = "save" \/ (run[a].pc = "probe" /\ run[a].op.verb # "next"))
                => run[a].copy = plan

LEMMA LockedStep ==
    ASSUME Hazards \subseteq {"crash"}, LockInv, [Next]_vars
    PROVE  LockInv'
<1> USE DEF LockInv
<1>0. run \in [Actors -> RunType] /\ Typed'
  BY NextTyped DEF Typed, TypeOK, RunType
<1>1. CASE UNCHANGED vars
  BY <1>1, <1>0 DEF vars
<1>2. ASSUME NEW a \in Actors, Acquire(a) PROVE LockInv'
  BY <1>2, <1>0, NoOneAssumption DEF Acquire
<1>3. ASSUME NEW a \in Actors, Release(a) PROVE LockInv'
  BY <1>3, <1>0 DEF Release
<1>4. ASSUME NEW a \in Actors, NEW c \in Command, Start(a, c) PROVE LockInv'
  BY <1>4, <1>0 DEF Start, Idle
<1>5. ASSUME NEW a \in Actors, Probe(a) PROVE LockInv'
  BY <1>5, <1>0 DEF Probe, Finish, Goto, RunType, Idle
<1>6. ASSUME NEW a \in Actors, Load(a) PROVE LockInv'
  BY <1>6, <1>0 DEF Load, RunType, Gated
<1>7. ASSUME NEW a \in Actors, Refuse(a) PROVE LockInv'
  BY <1>7, <1>0 DEF Refuse, Finish, Idle
<1>8. ASSUME NEW a \in Actors, Save(a) PROVE LockInv'
  <2>1. PICK q \in Written(run[a].op, run[a].copy) :
              /\ run[a].op \in Command /\ run[a].copy \in PlanType
              /\ plan' = q /\ q \in PlanType
              /\ \/ run' = [run EXCEPT ![a] = Idle]
                 \/ \E E \in SUBSET Event :
                      run' = [run EXCEPT ![a].pc = "emit", ![a].events = E]
    BY <1>8, SaveWrites
  <2>2. /\ holder = a /\ holder' = holder
        /\ \A b \in Actors \ {a} : run[b].pc = "idle"
    BY <1>8 DEF Save
  <2> QED BY <2>1, <2>2, <1>0 DEF RunType, Idle
<1>9. ASSUME NEW a \in Actors, Emit(a) \/ Crash(a) PROVE LockInv'
  BY <1>9, <1>0 DEF Emit, Crash, Finish, Idle
<1> QED BY <1>1, <1>2, <1>3, <1>4, <1>5, <1>6, <1>7, <1>8, <1>9
        DEF Next, Orphan

(***************************************************************************)
(* The atomic module applies the same operators.                           *)
(***************************************************************************)
LEMMA SameOperators ==
    /\ Atomic!Command = Command
    /\ \A c \in Command, p \in PlanType : Atomic!Written(c, p) = Written(c, p)
<1>1. Atomic!Command = Command
  BY DEF Atomic!Command, Command
<1>2. ASSUME NEW c \in Command, NEW p \in PlanType
      PROVE  Atomic!Written(c, p) = Written(c, p)
  <2>1. Atomic!Exists(p) = Exists(p) /\ Atomic!Entries(p) = Entries(p)
    BY DEF Atomic!Exists, Exists, Atomic!Entries, Entries
  <2> QED BY <2>1 DEF Atomic!Written, Written,
        Atomic!Init0, Init0, Atomic!NoPlan, NoPlan, Atomic!Structural, Structural,
        Atomic!Blocking, Blocking, Atomic!UnknownDependsOn, UnknownDependsOn,
        Atomic!MultipleInProgress, MultipleInProgress, Atomic!Cyclic, Cyclic,
        Atomic!Entries, Entries, Atomic!Exists, Exists,
        Atomic!NextPlans, NextPlans, Atomic!NextEligible, NextEligible,
        Atomic!Executing, Executing, Atomic!Eligible, Eligible,
        Atomic!Restatus, Restatus, Atomic!DonePlans, DonePlans,
        Atomic!UndoPlans, UndoPlans, Atomic!ApprovePlans, ApprovePlans,
        Atomic!AddPlans, AddPlans, Atomic!AmendPlans, AmendPlans,
        Atomic!RemovePlans, RemovePlans, Atomic!Replaceable, Replaceable,
        Atomic!ProposePlans, ProposePlans, Atomic!Proposed, Proposed,
        Atomic!Bootstrapped, Bootstrapped, Atomic!ArchivePlans, ArchivePlans,
        Atomic!Drained, Drained
<1> QED BY <1>1, <1>2

(***************************************************************************)
(* While every actor runs its commands inside its own lock session, a save *)
(* is one step of PlanAtomic and every other step of the store leaves its  *)
(* plan alone: commands that die half-way included, lock wrappers that die *)
(* excluded.                                                               *)
(***************************************************************************)
THEOREM LockedIsAtomic ==
    ASSUME Hazards \subseteq {"crash"}
    PROVE  Spec => ImplementsAtomic
<1>1. Init => LockInv
  BY InitTyped DEF Init, LockInv, Idle
<1>2. LockInv /\ [Next]_vars => LockInv'
  BY LockedStep
<1>3. Init => Atomic!Init
  BY DEF Init, Atomic!Init
<1>4. LockInv /\ [Next]_vars => [Atomic!Next]_plan
  <2> SUFFICES ASSUME LockInv, [Next]_vars, plan' # plan PROVE Atomic!Next
    OBVIOUS
  <2>1. PICK a \in Actors : Save(a)
    BY DEF Next, vars, Acquire, Release, Orphan, Start, Probe, Load, Refuse, Emit, Crash
  <2>2. PICK q \in Written(run[a].op, run[a].copy) : run[a].op \in Command /\ plan' = q
    BY <2>1, SaveWrites DEF LockInv
  <2>3. run[a].copy = plan /\ plan \in PlanType
    BY <2>1 DEF Save, LockInv, Typed, TypeOK
  <2> QED BY <2>2, <2>3, SameOperators DEF Atomic!Next
<1> QED BY <1>1, <1>2, <1>3, <1>4, PTL DEF Spec, ImplementsAtomic, Atomic!Spec

-----------------------------------------------------------------------------
(***************************************************************************)
(* The journal. What a command owes it while it has saved and not yet      *)
(* emitted is what the file is ahead of it.                                *)
(***************************************************************************)
Begun(p, n) == p.status[n] \in {"in-progress", "done"}
BegunOnce(p, n) == IF Begun(p, n) THEN 1 ELSE 0

NoneBegun(p) == \A n \in Names : ~ Begun(p, n)

Advance(n) == <<"advanced", n>>
Retreat(n) == <<"undone", n, "in-progress">>

\* What the events E add for an entry.
Owed(E, n) == (IF Advance(n) \in E THEN 1 ELSE 0) - (IF Retreat(n) \in E THEN 1 ELSE 0)

LEMMA EventsDiffer ==
    /\ \A m, n : Advance(m) # Retreat(n) /\ (Advance(m) = Advance(n) => m = n)
    /\ \A n : \A e \in {<<"approved">>, <<"reconciled">>} : Advance(n) # e /\ Retreat(n) # e
    /\ \A m, n, s : /\ <<"undone", m, s>> = Retreat(n) <=> m = n /\ s = "in-progress"
                    /\ <<"undone", m, s>> # Advance(n)
    /\ \A n \in Names : Advance(n) \in Event /\ Retreat(n) \in Event
BY DEF Advance, Retreat, Event

\* The events of a verb say which entries it began or walked back to pending.
LEMMA WrittenOwes ==
    ASSUME NEW c \in Command, c.verb # "archive", NEW p \in PlanType,
           Exists(p) \/ NoneBegun(p), NEW q \in Written(c, p), NEW n \in Names
    PROVE  BegunOnce(q, n) = BegunOnce(p, n) + Owed(Emitted(c, p, q), n)
<1> USE CommandOptions
<1>0. c.verb \in {"create", "propose", "add", "amend", "remove", "approve",
                  "next", "done", "undo"}
  BY VerbsAssumption
<1>1. ASSUME Emitted(c, p, q) \subseteq {<<"approved">>, <<"reconciled">>},
             Begun(q, n) <=> Begun(p, n)
      PROVE  BegunOnce(q, n) = BegunOnce(p, n) + Owed(Emitted(c, p, q), n)
  <2>1. Advance(n) \notin Emitted(c, p, q) /\ Retreat(n) \notin Emitted(c, p, q)
    BY <1>1, EventsDiffer
  <2> QED BY <1>1, <2>1 DEF BegunOnce, Owed
<1>2. CASE c.verb = "next"
  <2>1. Emitted(c, p, q) = {Advance(m) : m \in {k \in Names : p.status[k] # q.status[k]}}
    BY <1>2 DEF Emitted, Advance
  <2>2. Retreat(n) \notin Emitted(c, p, q)
    BY <2>1, EventsDiffer
  <2>3. Advance(n) \in Emitted(c, p, q) <=> p.status[n] # q.status[n]
    BY <2>1, EventsDiffer
  <2>4. q \in NextPlans(p)
    BY <1>2 DEF Written
  <2>5. CASE q = p
    BY <2>2, <2>3, <2>5 DEF BegunOnce, Owed
  <2>6. CASE \E m \in NextEligible(p) : q = Restatus(p, m, "in-progress")
    <3>1. PICK m \in NextEligible(p) : q = Restatus(p, m, "in-progress")
      BY <2>6
    <3>2. m \in Names /\ p.status[m] = "pending"
      BY DEF NextEligible, Eligible
    <3>3. q.status = [p.status EXCEPT ![m] = "in-progress"]
      BY <3>1, <3>2, RestatusType DEF Status
    <3>4. CASE n = m
      <4>1. p.status[n] = "pending" /\ q.status[n] = "in-progress"
        BY <3>2, <3>3, <3>4 DEF PlanType
      <4> QED BY <2>2, <2>3, <4>1 DEF BegunOnce, Begun, Owed
    <3>5. CASE n # m
      BY <2>2, <2>3, <3>3, <3>5 DEF BegunOnce, Begun, Owed
    <3> QED BY <3>4, <3>5
  <2> QED BY <2>4, <2>5, <2>6 DEF NextPlans
<1>3. CASE c.verb = "done"
  <2>1. p.status[c.name] = "in-progress" /\ q = Restatus(p, c.name, "done")
    BY <1>3 DEF Written, DonePlans
  <2>2. q.status = [p.status EXCEPT ![c.name] = "done"]
    BY <1>3, <2>1, RestatusType DEF Status
  <2>3. Begun(q, n) <=> Begun(p, n)
    BY <2>1, <2>2 DEF Begun, PlanType
  <2> QED BY <1>1, <1>3, <2>3 DEF Emitted
<1>4. CASE c.verb = "undo"
  <2> DEFINE m == c.name
  <2>1. Emitted(c, p, q) = {<<"undone", m, p.status[m]>>} /\ m \in Names
    BY <1>4 DEF Emitted
  <2>2. q \in UndoPlans(p, m)
    BY <1>4 DEF Written
  <2> HIDE DEF m
  <2>3. \/ p.status[m] = "done" /\ q = Restatus(p, m, "in-progress")
        \/ p.status[m] = "in-progress" /\ q = Restatus(p, m, "pending")
    BY <2>1, <2>2 DEF UndoPlans
  <2>4. CASE p.status[m] = "done" /\ q = Restatus(p, m, "in-progress")
    <3>1. q.status = [p.status EXCEPT ![m] = "in-progress"]
      BY <2>1, <2>4, RestatusType DEF Status
    <3>2. Begun(q, n) <=> Begun(p, n)
      BY <2>4, <3>1 DEF Begun, PlanType
    <3>3. Advance(n) \notin Emitted(c, p, q) /\ Retreat(n) \notin Emitted(c, p, q)
      BY <2>1, <2>4, EventsDiffer
    <3> QED BY <3>2, <3>3 DEF BegunOnce, Owed
  <2>5. CASE p.status[m] = "in-progress" /\ q = Restatus(p, m, "pending")
    <3>1. q.status = [p.status EXCEPT ![m] = "pending"]
      BY <2>1, <2>5, RestatusType DEF Status
    <3>2. Advance(n) \notin Emitted(c, p, q) /\ (Retreat(n) \in Emitted(c, p, q) <=> n = m)
      BY <2>1, <2>5, EventsDiffer
    <3>3. n = m => Begun(p, n) /\ ~ Begun(q, n)
      BY <2>1, <2>5, <3>1 DEF Begun, PlanType
    <3>4. n # m => (Begun(q, n) <=> Begun(p, n))
      BY <3>1 DEF Begun, PlanType
    <3> QED BY <3>2, <3>3, <3>4 DEF BegunOnce, Owed
  <2> QED BY <2>3, <2>4, <2>5
<1>5. CASE c.verb = "approve"
  <2>1. q = [p EXCEPT !.lifecycle = "approved"]
    BY <1>5 DEF Written, ApprovePlans
  <2>2. q.status = p.status
    BY <2>1 DEF PlanType
  <2> QED BY <1>1, <1>5, <2>2 DEF Emitted, Begun
<1>6. CASE c.verb = "add"
  <2>1. p.status[c.name] = "absent" /\ q.status = [p.status EXCEPT ![c.name] = "pending"]
    <3>1. q \in AddPlans(p, c.name, c.deps) /\ c.name \in Names /\ c.deps \in SUBSET Names
      BY <1>6 DEF Written
    <3>2. p.status[c.name] = "absent"
      BY <3>1 DEF AddPlans
    <3>3. q.status = [p.status EXCEPT ![c.name] = "pending"]
      BY <3>1 DEF AddPlans, PlanType
    <3> QED BY <3>2, <3>3
  <2>2. n = c.name => q.status[n] = "pending"
    BY <1>6, <2>1 DEF PlanType
  <2>3. n # c.name => q.status[n] = p.status[n]
    BY <2>1
  <2>4. Begun(q, n) <=> Begun(p, n)
    BY <2>1, <2>2, <2>3 DEF Begun
  <2> QED BY <1>1, <1>6, <2>4 DEF Emitted
<1>7. CASE c.verb = "amend"
  <2>1. q.status = p.status
    BY <1>7, AmendType DEF Written
  <2> QED BY <1>1, <1>7, <2>1 DEF Emitted, Begun
<1>8. CASE c.verb \in {"remove", "propose"}
  <2>1. Replaceable(p)
    BY <1>8 DEF Written, RemovePlans, ProposePlans
  <2>2. ~ Begun(p, n)
    BY <2>1 DEF Replaceable, Entries, Begun
  <2>3. ~ Begun(q, n)
    <3>1. CASE c.verb = "remove"
      BY <3>1, RemoveType DEF Written, Begun
    <3>2. CASE c.verb = "propose"
      <4>1. q = Bootstrapped(Proposed(p, c.response), c.boots)
        BY <3>2 DEF Written, ProposePlans
      <4> QED BY <3>2, <4>1, ProposedType, BootstrappedType DEF Begun
    <3> QED BY <1>8, <3>1, <3>2
  <2> QED BY <1>1, <1>8, <2>2, <2>3 DEF Emitted
<1>9. CASE c.verb = "create"
  <2>1. ~ Exists(p) /\ q = Init0(c.stamp)
    BY <1>9 DEF Written
  <2>2. ~ Begun(q, n)
    BY <2>1 DEF Init0, NoPlan, Begun
  <2>3. ~ Begun(p, n)
    BY <2>1 DEF NoneBegun
  <2> QED BY <1>1, <1>9, <2>2, <2>3 DEF Emitted
<1> QED BY <1>0, <1>2, <1>3, <1>4, <1>5, <1>6, <1>7, <1>8, <1>9

\* No verb but archive takes the plan away.
LEMMA WrittenExists ==
    ASSUME NEW c \in Command, c.verb # "archive", NEW p \in PlanType, NEW q \in Written(c, p)
    PROVE  Exists(q)
<1> USE CommandOptions
<1>0. c.verb \in {"create", "propose", "add", "amend", "remove", "approve",
                  "next", "done", "undo"}
  BY VerbsAssumption
<1>1. CASE c.verb = "create"
  BY <1>1 DEF Written, Init0, NoPlan, Exists
<1>2. CASE c.verb # "create"
  <2>1. Exists(p)
    BY <1>2 DEF Written
  <2>2. q.lifecycle \in {p.lifecycle, "approved"}
    <3>1. CASE c.verb \in {"next", "done", "undo"}
      <4>1. q = p \/ \E n, s : q = Restatus(p, n, s)
        BY <3>1 DEF Written, NextPlans, DonePlans, UndoPlans
      <4> QED BY <4>1 DEF Restatus, PlanType
    <3>2. CASE c.verb = "approve"
      BY <3>2 DEF Written, ApprovePlans, PlanType
    <3>3. CASE c.verb = "add"
      BY <3>3 DEF Written, AddPlans, PlanType
    <3>4. CASE c.verb = "amend"
      BY <3>4 DEF Written, AmendPlans, PlanType
    <3>5. CASE c.verb = "remove"
      BY <3>5 DEF Written, RemovePlans, PlanType
    <3>6. CASE c.verb = "propose"
      BY <3>6 DEF Written, ProposePlans, Bootstrapped, Proposed, PlanType
    <3> QED BY <1>0, <1>2, <3>1, <3>2, <3>3, <3>4, <3>5, <3>6
  <2> QED BY <2>1, <2>2 DEF Exists
<1> QED BY <1>1, <1>2

Ledger(n) == journal[Advance(n)] - journal[Retreat(n)]

JournalInv ==
    /\ Exists(plan) \/ NoneBegun(plan)
    /\ \A n \in Names :
        /\ (\A a \in Actors : run[a].pc # "emit") => BegunOnce(plan, n) = Ledger(n)
        /\ \A a \in Actors : run[a].pc = "emit" =>
                BegunOnce(plan, n) = Ledger(n) + Owed(run[a].events, n)

\* Steps that neither write nor begin or end to emit.
LEMMA LedgerKept ==
    ASSUME JournalInv, plan' = plan, journal' = journal,
           \A a \in Actors : (run[a].pc # "emit" /\ run'[a].pc # "emit") \/ run'[a] = run[a]
    PROVE  JournalInv'
BY DEF JournalInv, Ledger

LEMMA SaveLedger ==
    ASSUME Hazards = {}, "archive" \notin Verbs, LockInv, JournalInv, NEW a \in Actors, Save(a)
    PROVE  JournalInv'
<1>1. /\ run[a].op \in Command /\ run[a].op.verb # "archive" /\ run[a].copy = plan
      /\ plan \in PlanType /\ run \in [Actors -> RunType]
      /\ \A b \in Actors : b # a => run[b].pc = "idle"
  BY CommandOptions DEF Save, LockInv, Typed, TypeOK, RunType
<1> DEFINE E(q) == Emitted(run[a].op, run[a].copy, q)
<1>2. PICK q \in Written(run[a].op, plan) :
        /\ plan' = q
        /\ IF E(q) = {} THEN run' = [run EXCEPT ![a] = Idle]
           ELSE run' = [run EXCEPT ![a].pc = "emit", ![a].events = E(q)]
  BY <1>1 DEF Save, Finish
<1>3. journal' = journal /\ \A b \in Actors : run[b].pc # "emit"
  BY <1>1 DEF Save
<1>4. Exists(plan')
  BY <1>1, <1>2, WrittenExists
<1>5. \A n \in Names : BegunOnce(q, n) = BegunOnce(plan, n) + Owed(E(q), n)
  BY <1>1, <1>2, WrittenOwes DEF JournalInv
<1>6. \A n \in Names : BegunOnce(plan, n) = Ledger(n)
  BY <1>3 DEF JournalInv
<1> HIDE DEF E
<1>7. CASE E(q) = {}
  <2>1. \A b \in Actors : run'[b].pc # "emit"
    BY <1>1, <1>2, <1>3, <1>7 DEF Idle
  <2>2. \A n \in Names : Owed(E(q), n) = 0 /\ BegunOnce(plan, n) \in Int
    BY <1>7 DEF Owed, BegunOnce
  <2>3. \A n \in Names : BegunOnce(q, n) = Ledger(n)
    BY <1>5, <1>6, <2>2
  <2> QED BY <1>2, <1>3, <1>4, <2>1, <2>3 DEF JournalInv, Ledger
<1>8. CASE E(q) # {}
  <2>1. /\ run'[a].pc = "emit" /\ run'[a].events = E(q)
        /\ \A b \in Actors : run'[b].pc = "emit" => b = a
    BY <1>1, <1>2, <1>8 DEF RunType
  <2>2. \A n \in Names : BegunOnce(q, n) = Ledger(n) + Owed(E(q), n)
    BY <1>5, <1>6
  <2> QED BY <1>2, <1>3, <1>4, <2>1, <2>2 DEF JournalInv, Ledger
<1> QED BY <1>7, <1>8

LEMMA EmitLedger ==
    ASSUME Hazards = {}, LockInv, JournalInv, NEW a \in Actors, Emit(a)
    PROVE  JournalInv'
<1>1. /\ run[a].pc = "emit" /\ plan' = plan
      /\ journal' = [e \in Event |-> IF e \in run[a].events THEN journal[e] + 1 ELSE journal[e]]
      /\ run' = [run EXCEPT ![a] = Idle]
  BY DEF Emit, Finish
<1>2. run \in [Actors -> RunType] /\ journal \in [Event -> Nat]
  BY DEF LockInv, Typed, TypeOK, RunType
<1>3. \A b \in Actors : run'[b].pc # "emit"
  BY <1>1, <1>2 DEF LockInv, Idle
<1>4. ASSUME NEW n \in Names PROVE Ledger(n)' = Ledger(n) + Owed(run[a].events, n)
  <2>1. Advance(n) \in Event /\ Retreat(n) \in Event
    BY EventsDiffer
  <2> QED BY <1>1, <1>2, <2>1 DEF Ledger, Owed
<1>5. \A n \in Names : BegunOnce(plan, n) = Ledger(n) + Owed(run[a].events, n)
  BY <1>1 DEF JournalInv
<1> QED BY <1>1, <1>3, <1>4, <1>5 DEF JournalInv

LEMMA JournalStep ==
    ASSUME Hazards = {}, "archive" \notin Verbs, LockInv, JournalInv, [Next]_vars
    PROVE  JournalInv'
<1>1. run \in [Actors -> RunType]
  BY DEF LockInv, Typed, TypeOK, RunType
<1>2. CASE UNCHANGED vars
  BY <1>2, LedgerKept DEF vars
<1>3. ASSUME NEW a \in Actors, Acquire(a) \/ Release(a) PROVE JournalInv'
  BY <1>3, LedgerKept DEF Acquire, Release
<1>4. ASSUME NEW a \in Actors, NEW c \in Command, Start(a, c) PROVE JournalInv'
  BY <1>1, <1>4, LedgerKept DEF Start, Idle
<1>5. ASSUME NEW a \in Actors, Probe(a) PROVE JournalInv'
  BY <1>1, <1>5, LedgerKept DEF Probe, Goto, Finish, Idle, RunType
<1>6. ASSUME NEW a \in Actors, Load(a) PROVE JournalInv'
  BY <1>1, <1>6, LedgerKept DEF Load, RunType
<1>7. ASSUME NEW a \in Actors, Refuse(a) PROVE JournalInv'
  BY <1>1, <1>7, LedgerKept DEF Refuse, Finish, Idle
<1>8. ASSUME NEW a \in Actors, Save(a) PROVE JournalInv'
  BY <1>8, SaveLedger
<1>9. ASSUME NEW a \in Actors, Emit(a) PROVE JournalInv'
  BY <1>9, EmitLedger
<1> QED BY <1>2, <1>3, <1>4, <1>5, <1>6, <1>7, <1>8, <1>9 DEF Next, Orphan, Crash

LEMMA JournalInit ==
    ASSUME \A p \in InitPlans : NoneBegun(p), Init
    PROVE  LockInv /\ JournalInv
<1>1. \A n \in Names : Ledger(n) = 0
  BY EventsDiffer DEF Init, Ledger
<1>2. JournalInv
  BY <1>1 DEF Init, Idle, JournalInv, NoneBegun, BegunOnce
<1> QED BY <1>2, InitTyped DEF Init, LockInv, Idle

(***************************************************************************)
(* Without crashes and orphans and within lock sessions, an entry was      *)
(* started iff its advances outnumber its walks back to pending by one,    *)
(* for any verbs but archive, which leaves the journal of a plan behind.   *)
(***************************************************************************)
THEOREM JournalTellsStatus ==
    ASSUME Hazards = {}, "archive" \notin Verbs, \A p \in InitPlans : NoneBegun(p)
    PROVE  Spec => []JournalAgrees
<1>1. Init => LockInv /\ JournalInv
  BY JournalInit
<1>2. LockInv /\ JournalInv /\ [Next]_vars => (LockInv /\ JournalInv)'
  BY LockedStep, JournalStep
<1>3. JournalInv => JournalAgrees
  BY DEF JournalInv, JournalAgrees, Ledger, Advance, Retreat, BegunOnce, Begun
<1> QED BY <1>1, <1>2, <1>3, PTL DEF Spec

-----------------------------------------------------------------------------
(***************************************************************************)
(* What PlanAtomic promises of the plan. Its operators are the store's.    *)
(***************************************************************************)
LEMMA SameQuestions ==
    ASSUME NEW p \in PlanType
    PROVE  /\ Atomic!Executing(p) = Executing(p)
           /\ Atomic!Drained(p) = Drained(p)
           /\ Atomic!NextEligible(p) = NextEligible(p)
           /\ Atomic!Entries(p) = Entries(p)
           /\ Atomic!Exists(p) = Exists(p)
<1>1. Atomic!Entries(p) = Entries(p)
  BY DEF Atomic!Entries, Entries
<1>2. Atomic!Executing(p) = Executing(p)
  BY DEF Atomic!Executing, Executing
<1>3. \A n \in Names : Atomic!Eligible(p, n) = Eligible(p, n)
  BY DEF Atomic!Eligible, Eligible
<1>4. Atomic!NextEligible(p) = NextEligible(p)
  BY <1>2, <1>3 DEF Atomic!NextEligible, NextEligible
<1>5. Atomic!Drained(p) = Drained(p) /\ Atomic!Exists(p) = Exists(p)
  BY <1>1 DEF Atomic!Drained, Drained, Atomic!Exists, Exists
<1> QED BY <1>1, <1>2, <1>4, <1>5

(***************************************************************************)
(* `plan next` never reports `stuck` of a plan the verbs wrote, if the     *)
(* plan the project started from had no cycle and no dangling dependency:  *)
(* not even if commands race without the lock, are orphaned or crash. Like *)
(* the claim, what can move has to be carried by every copy in flight.     *)
(***************************************************************************)
THEOREM AlwaysAbleToMove ==
    ASSUME \A p \in InitPlans : Startable(p)
    PROVE  Spec => []NeverStuck
<1> DEFINE Inv == Typed /\ Startable(plan) /\ \A a \in Actors : Startable(run[a].copy)
<1>0. Startable(NoPlan)
  BY EmptyStartable DEF NoPlan, Entries
<1>1. Init => Inv
  BY <1>0, InitTyped DEF Init, Idle
<1>2. Inv /\ [Next]_vars => Inv'
  <2> SUFFICES ASSUME Inv, [Next]_vars PROVE Inv'
    OBVIOUS
  <2>1. Typed'
    BY NextTyped
  <2>2. \A a \in Actors : run[a].copy \in PlanType
    BY DEF Typed, TypeOK
  <2>3. Startable(plan)'
    BY <2>2, Provenance, WrittenStartable
  <2>4. \A a \in Actors : Startable(run'[a].copy)
    BY <1>0, Provenance
  <2> QED BY <2>1, <2>3, <2>4
<1>3. Inv => NeverStuck
  BY SameQuestions, StartableMoves DEF Typed, TypeOK, NeverStuck, Atomic!NeverStuck
<1> QED BY <1>1, <1>2, <1>3, PTL DEF Spec

\* The promise of PlanAtomic.
LEMMA AtomicKeeps == Atomic!Spec => ApprovedIsKept
<1>1. Atomic!Init => plan \in PlanType
  BY InitPlansAssumption DEF Atomic!Init
<1>2. plan \in PlanType /\ [Atomic!Next]_plan => plan' \in PlanType /\ [Kept(plan, plan')]_plan
  <2> SUFFICES ASSUME plan \in PlanType, Atomic!Next
               PROVE  plan' \in PlanType /\ Kept(plan, plan')
    OBVIOUS
  <2>1. PICK c \in Command : plan' \in Written(c, plan)
    BY SameOperators DEF Atomic!Next
  <2> QED BY <2>1, WrittenSound, WrittenStartable
<1>3. plan \in PlanType /\ [Atomic!Next]_plan => (plan \in PlanType)'
  BY <1>2
<1>4. plan \in PlanType /\ [Atomic!Next]_plan
        => [plan.lifecycle = "approved" /\ Atomic!Exists(plan')
              => /\ plan'.lifecycle = "approved"
                 /\ Atomic!Entries(plan) \subseteq Atomic!Entries(plan')]_plan
  BY <1>2, SameQuestions DEF Kept
<1> QED BY <1>1, <1>3, <1>4, PTL DEF Atomic!Spec, ApprovedIsKept, Atomic!ApprovedIsKept

(***************************************************************************)
(* Within lock sessions no verb but archive takes Gate 1 back, and none    *)
(* removes an entry of an approved plan, crashes or not.                   *)
(***************************************************************************)
THEOREM ApprovalSticks ==
    ASSUME Hazards \subseteq {"crash"}
    PROVE  Spec => ApprovedIsKept
BY LockedIsAtomic, AtomicKeeps DEF ImplementsAtomic

=============================================================================
