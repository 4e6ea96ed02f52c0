------------------------------ MODULE PlanStore ------------------------------
(***************************************************************************)
(* plan.yaml as the CLI keeps it. A command is a process: it loads the     *)
(* file, works on its copy, replaces the file whole (temporary file and    *)
(* rename, so the load and the save are each one step) and then appends    *)
(* its events to the journal. Nothing is held from the load to the save.   *)
(* What keeps two commands apart is the plan lock: a driver runs its       *)
(* commands under `specify plan lock -- <cmd>`, and the verbs of the       *)
(* execute loop probe the lock and refuse to run while nobody holds it.    *)
(*                                                                         *)
(* Each actor (an operator's shell, an execute session) runs one command   *)
(* at a time. Hazards names what may go wrong around the commands:         *)
(*   "unlocked"  an actor runs commands without holding the lock;          *)
(*   "orphan"    the lock wrapper dies, which frees the lock, while the    *)
(*               command it started runs on;                               *)
(*   "crash"     a command dies between two of its steps.                  *)
(* The lock is an abstract holder here; PlanLock opens it up.              *)
(***************************************************************************)
EXTENDS PlanEntries

CONSTANTS
    Actors,     \* who runs commands
    NoOne,      \* the plan lock is free
    Hazards,    \* what goes wrong
    MaxEvents   \* commands start only while no event was logged this often

ASSUME HazardsAssumption == Hazards \subseteq {"unlocked", "orphan", "crash"}

ASSUME NoOneAssumption == NoOne \notin Actors

VARIABLES
    plan,       \* the contents of plan.yaml
    holder,     \* the actor whose lock wrapper holds the plan lock
    run,        \* the command each actor is running and how far it got
    journal     \* how often each event is in journal.jsonl

vars == <<plan, holder, run, journal>>

PC == {"idle", "probe", "load", "save", "emit"}
NoCommand == [verb |-> "none"]
Idle == [pc |-> "idle", op |-> NoCommand, copy |-> NoPlan, events |-> {}]

\* The verbs that refuse an unlocked driver.
Gated == {"next", "done", "undo"}

Init ==
    /\ plan \in InitPlans
    /\ holder = NoOne
    /\ run = [a \in Actors |-> Idle]
    /\ journal = [e \in Event |-> 0]

Finish(a) == run' = [run EXCEPT ![a] = Idle]
Goto(a, pc) == run' = [run EXCEPT ![a].pc = pc]

-----------------------------------------------------------------------------
(***************************************************************************)
(* The lock wrapper.                                                       *)
(***************************************************************************)

Acquire(a) ==
    /\ holder = NoOne
    /\ run[a].pc = "idle"
    /\ holder' = a
    /\ UNCHANGED <<plan, run, journal>>

\* Mutant of Release: the wrapper does not wait for its child.
ReleaseEarly(a) == holder = a /\ holder' = NoOne /\ UNCHANGED <<plan, run, journal>>

\* The wrapper returns once its child has.
Release(a) ==
    /\ holder = a
    /\ run[a].pc = "idle"
    /\ holder' = NoOne
    /\ UNCHANGED <<plan, run, journal>>

Orphan(a) ==
    /\ "orphan" \in Hazards
    /\ holder = a
    /\ run[a].pc # "idle"
    /\ holder' = NoOne
    /\ UNCHANGED <<plan, run, journal>>

-----------------------------------------------------------------------------
(***************************************************************************)
(* A command, step by step.                                                *)
(***************************************************************************)

\* `plan next` probes before it loads, if there is a plan at all.
Start(a, c) ==
    /\ run[a].pc = "idle"
    /\ "unlocked" \in Hazards \/ holder = a
    /\ \A e \in Event : journal[e] < MaxEvents
    /\ run' = [run EXCEPT ![a] = [Idle EXCEPT
                 !.pc = IF c.verb = "next" /\ Exists(plan) THEN "probe" ELSE "load",
                 !.op = c]]
    /\ UNCHANGED <<plan, holder, journal>>

\* require_held tries to take the lock for a moment: it succeeds, and the verb
\* refuses, only while nobody has it. What it takes for a driver may be another
\* probe (PlanLock).
Probe(a) ==
    /\ run[a].pc = "probe"
    /\ \/ /\ holder # NoOne \/ \E b \in Actors \ {a} : run[b].pc = "probe"
          /\ Goto(a, IF run[a].op.verb = "next" THEN "load" ELSE "save")
       \/ holder = NoOne /\ Finish(a)
    /\ UNCHANGED <<plan, holder, journal>>

\* The per-entry transitions probe once they have loaded.
Load(a) ==
    /\ run[a].pc = "load"
    /\ run' = [run EXCEPT
                 ![a].copy = plan,
                 ![a].pc = IF run[a].op.verb \in Gated \ {"next"} /\ Exists(plan)
                           THEN "probe" ELSE "save"]
    /\ UNCHANGED <<plan, holder, journal>>

\* The verb refuses. An archive also gives up when plan.yaml is gone by now, or
\* when the archive already holds a plan of this name from today.
Refuse(a) ==
    /\ run[a].pc = "save"
    /\ \/ Written(run[a].op, run[a].copy) = {}
       \/ run[a].op.verb = "archive"
    /\ Finish(a)
    /\ UNCHANGED <<plan, holder, journal>>

\* Mutant of Save: only the statuses the verb changed are put into the file.
SaveEntryOnly(a) ==
    /\ run[a].pc = "save"
    /\ run[a].op.verb = "archive" => Exists(plan)
    /\ \E q \in Written(run[a].op, run[a].copy) :
        plan' = [q EXCEPT !.status = [n \in Names |->
                   IF q.status[n] # run[a].copy.status[n] THEN q.status[n]
                   ELSE plan.status[n]]]
    /\ Finish(a)
    /\ UNCHANGED <<holder, journal>>

\* The copy, changed by the verb, replaces whatever the file holds by now.
Save(a) ==
    /\ run[a].pc = "save"
    /\ run[a].op.verb = "archive" => Exists(plan)
    /\ \E q \in Written(run[a].op, run[a].copy) :
        LET events == Emitted(run[a].op, run[a].copy, q)
        IN  /\ plan' = q
            /\ IF events = {} THEN Finish(a)
               ELSE run' = [run EXCEPT ![a].pc = "emit", ![a].events = events]
    /\ UNCHANGED <<holder, journal>>

\* journal::append_batch: one append for all the events of the command.
Emit(a) ==
    /\ run[a].pc = "emit"
    /\ journal' = [e \in Event |->
                     IF e \in run[a].events THEN journal[e] + 1 ELSE journal[e]]
    /\ Finish(a)
    /\ UNCHANGED <<plan, holder>>

Crash(a) ==
    /\ "crash" \in Hazards
    /\ run[a].pc # "idle"
    /\ Finish(a)
    /\ UNCHANGED <<plan, holder, journal>>

Next ==
    \E a \in Actors :
        \/ Acquire(a)
        \/ Release(a)
        \/ Orphan(a)
        \/ \E c \in Command : Start(a, c)
        \/ Probe(a)
        \/ Load(a)
        \/ Refuse(a)
        \/ Save(a)
        \/ Emit(a)
        \/ Crash(a)

Spec == Init /\ [][Next]_vars

-----------------------------------------------------------------------------
(***************************************************************************)
(* Types.                                                                  *)
(***************************************************************************)
TypeOK ==
    /\ plan \in PlanType
    /\ holder \in Actors \cup {NoOne}
    /\ run \in [Actors -> [pc : PC, op : Command \cup {NoCommand},
                           copy : PlanType, events : SUBSET Event]]
    /\ journal \in [Event -> Nat]

(***************************************************************************)
(* However commands race, orphan and crash, the file never holds two       *)
(* entries in progress: every save writes what one verb makes of one       *)
(* earlier content, and no verb but undo makes two of one.                 *)
(***************************************************************************)
OneInProgress == ~ MultipleInProgress(plan)

(***************************************************************************)
(* Nor does it hold an entry that was started before its dependencies,     *)
(* even though the copy a command works on may be stale: stale copies were *)
(* sound when they were the file. (amend and undo are left out of Verbs.)  *)
(***************************************************************************)
StartedAfterDeps == StartedInOrder(plan)

(***************************************************************************)
(* While every actor keeps to its lock session, the load, change and save  *)
(* of a command look like one step: the store implements PlanAtomic.       *)
(***************************************************************************)
Atomic == INSTANCE PlanAtomic
ImplementsAtomic == Atomic!Spec

\* So the approval of a plan and its approved entries are kept (PlanAtomic).
ApprovedIsKept == Atomic!ApprovedIsKept

\* That a plan can always move does not even need the lock: a save may bring back an
\* old plan, but only what its verb made of one that could move.
NeverStuck == Atomic!NeverStuck

(***************************************************************************)
(* Under the same discipline, without crashes, the journal tells the       *)
(* status of every entry: an entry was started iff its advances outnumber  *)
(* by one its walks back to pending. A command that has saved and not yet  *)
(* emitted is excepted.                                                    *)
(***************************************************************************)
JournalAgrees ==
    (\A a \in Actors : run[a].pc # "emit") =>
        \A n \in Names :
            journal[<<"advanced", n>>] - journal[<<"undone", n, "in-progress">>] =
                IF plan.status[n] \in {"in-progress", "done"} THEN 1 ELSE 0

=============================================================================
