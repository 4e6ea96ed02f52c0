------------------------------- MODULE PlanLock -------------------------------
(***************************************************************************)
(* The advisory lock on .specify/plan.lock, system call by system call:    *)
(* the `specify plan lock -- <cmd>` wrapper, which holds it while its      *)
(* child runs, and the probe of require_held, which takes it for a moment  *)
(* to see whether it can.                                                  *)
(***************************************************************************)
EXTENDS FiniteSets

CONSTANTS
    Sessions,   \* shells that run wrappers and verbs
    NoOne,      \* no session
    Killable    \* those whose wrapper may be killed while its child lives on

ASSUME SessionsAssumption == NoOne \notin Sessions /\ Killable \subseteq Sessions

VARIABLES
    file,       \* plan.lock exists
    lock,       \* which descriptor holds the OS lock on it
    body,       \* the session whose pid the file names, NoOne if it names none
    wrapper,    \* how far the outermost `plan lock` of each session got
    child,      \* the command a session's wrapper spawned is running
    nested,     \* that command is running a `plan lock` of its own
    probe,      \* how far the latest probe of each session got
    blamed      \* the holder named by the latest plan-lock-busy of a session

vars == <<file, lock, body, wrapper, child, nested, probe, blamed>>

Free == <<"free">>
ByWrapper(s) == <<"wrapper", s>>
ByProbe(s) == <<"probe", s>>

Init ==
    /\ file = FALSE /\ lock = Free /\ body = NoOne
    /\ wrapper = [s \in Sessions |-> "out"]
    /\ child = [s \in Sessions |-> FALSE]
    /\ nested = [s \in Sessions |-> FALSE]
    /\ probe = [s \in Sessions |-> "none"]
    /\ blamed = [s \in Sessions |-> NoOne]

Wrapper(s, from, to) == wrapper[s] = from /\ wrapper' = [wrapper EXCEPT ![s] = to]
Probe(s, from, to) == probe[s] = from /\ probe' = [probe EXCEPT ![s] = to]

-----------------------------------------------------------------------------
(***************************************************************************)
(* plan_lock::acquire and the wrapper around it.                           *)
(***************************************************************************)

\* Opens the lockfile, creating it if need be. A shell with a command running
\* starts no second wrapper but from inside it (Reenter).
Open(s) ==
    /\ ~ child[s]
    /\ Wrapper(s, "out", "opened")
    /\ file' = TRUE
    /\ UNCHANGED <<lock, body, child, nested, probe, blamed>>

TryLock(s) ==
    /\ lock = Free
    /\ Wrapper(s, "opened", "locked")
    /\ lock' = ByWrapper(s)
    /\ UNCHANGED <<file, body, child, nested, probe, blamed>>

WouldBlock(s) ==
    /\ lock # Free
    /\ Wrapper(s, "opened", "busy")
    /\ UNCHANGED <<file, lock, body, child, nested, probe, blamed>>

\* holder_pid: whatever pid the body holds goes into plan-lock-busy.
Busy(s) ==
    /\ Wrapper(s, "busy", "out")
    /\ blamed' = [blamed EXCEPT ![s] = body]
    /\ UNCHANGED <<file, lock, body, child, nested, probe>>

\* write_body: cut the old body off, then write the new one. The child is spawned
\* unless that fails.
Truncate(s) ==
    /\ Wrapper(s, "locked", "truncated")
    /\ body' = NoOne
    /\ UNCHANGED <<file, lock, child, nested, probe, blamed>>

WriteAndSpawn(s) ==
    /\ Wrapper(s, "truncated", "running")
    /\ body' = s
    /\ \E spawned \in BOOLEAN : child' = [child EXCEPT ![s] = spawned]
    /\ UNCHANGED <<file, lock, nested, probe, blamed>>

\* Mutant of Close: the guard is dropped as soon as the child is spawned.
CloseEarly(s) ==
    /\ Wrapper(s, "running", "out")
    /\ lock' = Free
    /\ UNCHANGED <<file, body, child, nested, probe, blamed>>

\* The child has exited (or the body could not be written): dropping the guard
\* closes the descriptor.
Close(s) ==
    /\ ~ child[s]
    /\ \E pc \in {"truncated", "running"} : Wrapper(s, pc, "out")
    /\ lock' = Free
    /\ UNCHANGED <<file, body, child, nested, probe, blamed>>

\* The wrapper dies. The system closes its descriptor (std opens files
\* close-on-exec, so the child has no copy of it) and the child runs on.
Kill(s) ==
    /\ s \in Killable
    /\ \E pc \in {"opened", "busy", "locked", "truncated", "running"} : Wrapper(s, pc, "out")
    /\ lock' = IF lock = ByWrapper(s) THEN Free ELSE lock
    /\ UNCHANGED <<file, body, child, nested, probe, blamed>>

-----------------------------------------------------------------------------
(***************************************************************************)
(* The command under the wrapper. Everything it runs has                   *)
(* SPECIFY_PLAN_LOCK_HELD=1 in its environment. It does one thing at a     *)
(* time: a verb of it has its answer before it goes on.                    *)
(***************************************************************************)
Answered(s) == probe[s] \in {"none", "held", "unheld"}


\* A nested `plan lock` takes no lock.
Reenter(s) ==
    /\ child[s] /\ ~ nested[s] /\ Answered(s)
    /\ nested' = [nested EXCEPT ![s] = TRUE]
    /\ UNCHANGED <<file, lock, body, wrapper, child, probe, blamed>>

Leave(s) ==
    /\ nested[s] /\ Answered(s)
    /\ nested' = [nested EXCEPT ![s] = FALSE]
    /\ UNCHANGED <<file, lock, body, wrapper, child, probe, blamed>>

Exit(s) ==
    /\ child[s] /\ ~ nested[s] /\ Answered(s)
    /\ child' = [child EXCEPT ![s] = FALSE]
    /\ UNCHANGED <<file, lock, body, wrapper, nested, probe, blamed>>

-----------------------------------------------------------------------------
(***************************************************************************)
(* plan_lock::probe. The verb runs in the session's command or, for an     *)
(* operator who wraps nothing, on its own.                                 *)
(***************************************************************************)

Ask(s) ==
    /\ \E from \in {"none", "held", "unheld"} : Probe(s, from, "asked")
    /\ UNCHANGED <<file, lock, body, wrapper, child, nested, blamed>>

\* Without a lockfile nobody ever drove.
ProbeOpen(s) ==
    /\ Probe(s, "asked", IF file THEN "opened" ELSE "unheld")
    /\ UNCHANGED <<file, lock, body, wrapper, child, nested, blamed>>

ProbeTakes(s) ==
    /\ lock = Free
    /\ Probe(s, "opened", "taken")
    /\ lock' = ByProbe(s)
    /\ UNCHANGED <<file, body, wrapper, child, nested, blamed>>

\* Mutant of ProbeBlocks: an error of try_lock counts as held.
ProbeBlocksAnyway(s) ==
    /\ Probe(s, "opened", "held")
    /\ UNCHANGED <<file, lock, body, wrapper, child, nested, blamed>>

ProbeBlocks(s) ==
    /\ lock # Free
    /\ Probe(s, "opened", "held")
    /\ UNCHANGED <<file, lock, body, wrapper, child, nested, blamed>>

\* Mutant of ProbeUnlocks: the probe keeps what it took.
ProbeKeeps(s) ==
    /\ Probe(s, "taken", "unheld")
    /\ UNCHANGED <<file, lock, body, wrapper, child, nested, blamed>>

ProbeUnlocks(s) ==
    /\ Probe(s, "taken", "unheld")
    /\ lock' = Free
    /\ UNCHANGED <<file, body, wrapper, child, nested, blamed>>

-----------------------------------------------------------------------------
Driver(s) ==
    \/ TryLock(s) \/ WouldBlock(s) \/ Busy(s) \/ Truncate(s) \/ WriteAndSpawn(s) \/ Close(s)
Verb(s) == ProbeOpen(s) \/ ProbeTakes(s) \/ ProbeBlocks(s) \/ ProbeUnlocks(s)

Next == \E s \in Sessions :
    Open(s) \/ Driver(s) \/ Kill(s) \/ Reenter(s) \/ Leave(s) \/ Exit(s) \/ Ask(s) \/ Verb(s)

Spec == Init /\ [][Next]_vars

(***************************************************************************)
(* Processes that were started run to their end. The wrapper and the probe *)
(* never block; the command a driver runs terminates, though it may first  *)
(* run any number of verbs and nested wrappers.                            *)
(***************************************************************************)
FairSpec ==
    Spec /\ \A s \in Sessions : /\ WF_vars(Driver(s)) /\ WF_vars(Verb(s))
                               /\ SF_vars(Leave(s)) /\ SF_vars(Exit(s))

-----------------------------------------------------------------------------
TypeOK ==
    /\ file \in BOOLEAN /\ body \in Sessions \cup {NoOne}
    /\ lock \in {Free} \cup ({"wrapper", "probe"} \X Sessions)
    /\ wrapper \in [Sessions -> {"out", "opened", "busy", "locked", "truncated", "running"}]
    /\ child \in [Sessions -> BOOLEAN]
    /\ nested \in [Sessions -> BOOLEAN]
    /\ probe \in [Sessions -> {"none", "asked", "opened", "taken", "held", "unheld"}]
    /\ blamed \in [Sessions -> Sessions \cup {NoOne}]

(***************************************************************************)
(* A driver's command runs under the lock from its first step to its last, *)
(* so no other runs beside it, however many wrappers, nested wrappers and  *)
(* probes race for the lock. The command of a killed wrapper is another    *)
(* matter: it runs on while the next driver gets the lock.                 *)
(***************************************************************************)
SoleDriver == \A s \in Sessions \ Killable : child[s] => lock = ByWrapper(s)

(***************************************************************************)
(* Who has the lock knows it: a wrapper between its try_lock and its end,  *)
(* or a probe that is about to give it back. Nobody else believes to have  *)
(* it, and nobody who died still has it.                                   *)
(***************************************************************************)
LockOwned == \A s \in Sessions :
    /\ lock = ByWrapper(s) <=> wrapper[s] \in {"locked", "truncated", "running"}
    /\ lock = ByProbe(s) <=> probe[s] = "taken"

(***************************************************************************)
(* The lock, seen as a holder and answers, is the one PlanStore relies on. *)
(***************************************************************************)
Holder == IF \E s \in Sessions : lock = ByWrapper(s)
          THEN CHOOSE s \in Sessions : lock = ByWrapper(s) ELSE NoOne
Answer == [s \in Sessions |-> IF probe[s] \in {"asked", "opened", "taken"} THEN "asking"
                              ELSE probe[s]]

Abstract == INSTANCE DriverLock WITH holder <- Holder, answer <- Answer
ImplementsDriverLock == Abstract!Spec

(***************************************************************************)
(* Nobody keeps the lock for ever, killed wrappers and probes included,    *)
(* and a wrapper that re-enters its own session does not wait for itself.  *)
(***************************************************************************)
LockComesFree == \A s \in Sessions :
    lock \in {ByWrapper(s), ByProbe(s)} ~> lock \notin {ByWrapper(s), ByProbe(s)}

=============================================================================
