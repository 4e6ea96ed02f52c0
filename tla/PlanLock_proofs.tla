---------------------------- MODULE PlanLock_proofs ----------------------------
(***************************************************************************)
(* Proofs about PlanLock, for any number of sessions.                      *)
(***************************************************************************)
EXTENDS PlanLock, TLAPS

\* Whoever opened the lockfile left one there.
FileThere == \A s \in Sessions :
    wrapper[s] # "out" \/ probe[s] \in {"opened", "taken"} => file

\* What is inductive together.
Inv == TypeOK /\ LockOwned /\ FileThere

LEMMA LockNames ==
    /\ \A s \in Sessions : ByWrapper(s) # Free /\ ByProbe(s) # Free
    /\ \A s, t \in Sessions : ByWrapper(s) # ByProbe(t)
    /\ \A s, t \in Sessions : ByWrapper(s) = ByWrapper(t) => s = t
    /\ \A s, t \in Sessions : ByProbe(s) = ByProbe(t) => s = t
BY DEF ByWrapper, ByProbe, Free

LEMMA InitInv == Init => Inv
BY LockNames DEF Init, Inv, TypeOK, LockOwned, FileThere

LEMMA NextInv == Inv /\ [Next]_vars => Inv'
<1> SUFFICES ASSUME Inv, [Next]_vars PROVE Inv'
  OBVIOUS
<1> USE LockNames, SessionsAssumption DEF Inv, FileThere
<1>1. CASE UNCHANGED vars
  BY <1>1 DEF vars, TypeOK, LockOwned
<1>2. ASSUME NEW s \in Sessions, Open(s) PROVE Inv'
  BY <1>2 DEF Open, Wrapper, TypeOK, LockOwned
<1>3. ASSUME NEW s \in Sessions, TryLock(s) PROVE Inv'
  <2>1. TypeOK'
    BY <1>3 DEF TryLock, Wrapper, TypeOK, ByWrapper
  <2>2. LockOwned'
    BY <1>3 DEF TryLock, Wrapper, TypeOK, LockOwned
  <2>3. FileThere'
    BY <1>3 DEF TryLock, Wrapper, TypeOK
  <2> QED BY <2>1, <2>2, <2>3
<1>4. ASSUME NEW s \in Sessions, WouldBlock(s) PROVE Inv'
  BY <1>4 DEF WouldBlock, Wrapper, TypeOK, LockOwned
<1>5. ASSUME NEW s \in Sessions, Busy(s) PROVE Inv'
  BY <1>5 DEF Busy, Wrapper, TypeOK, LockOwned
<1>6. ASSUME NEW s \in Sessions, Truncate(s) PROVE Inv'
  BY <1>6 DEF Truncate, Wrapper, TypeOK, LockOwned
<1>7. ASSUME NEW s \in Sessions, WriteAndSpawn(s) PROVE Inv'
  BY <1>7 DEF WriteAndSpawn, Wrapper, TypeOK, LockOwned
<1>8. ASSUME NEW s \in Sessions, Close(s) PROVE Inv'
  <2>1. TypeOK'
    BY <1>8 DEF Close, Wrapper, TypeOK
  <2>2. LockOwned'
    BY <1>8 DEF Close, Wrapper, TypeOK, LockOwned
  <2>3. FileThere'
    BY <1>8 DEF Close, Wrapper, TypeOK
  <2> QED BY <2>1, <2>2, <2>3
<1>9. ASSUME NEW s \in Sessions, Kill(s) PROVE Inv'
  <2>1. TypeOK'
    BY <1>9 DEF Kill, Wrapper, TypeOK
  <2>2. LockOwned'
    BY <1>9 DEF Kill, Wrapper, TypeOK, LockOwned
  <2>3. FileThere'
    BY <1>9 DEF Kill, Wrapper, TypeOK
  <2> QED BY <2>1, <2>2, <2>3
<1>10. ASSUME NEW s \in Sessions, Reenter(s) \/ Leave(s) \/ Exit(s) PROVE Inv'
  BY <1>10 DEF Reenter, Leave, Exit, TypeOK, LockOwned
<1>11. ASSUME NEW s \in Sessions, Ask(s) PROVE Inv'
  BY <1>11 DEF Ask, Probe, TypeOK, LockOwned
<1>12. ASSUME NEW s \in Sessions, ProbeOpen(s) PROVE Inv'
  BY <1>12 DEF ProbeOpen, Probe, TypeOK, LockOwned
<1>13. ASSUME NEW s \in Sessions, ProbeTakes(s) PROVE Inv'
  <2>1. TypeOK'
    BY <1>13 DEF ProbeTakes, Probe, TypeOK, ByProbe
  <2>2. LockOwned'
    BY <1>13 DEF ProbeTakes, Probe, TypeOK, LockOwned
  <2>3. FileThere'
    BY <1>13 DEF ProbeTakes, Probe, TypeOK
  <2> QED BY <2>1, <2>2, <2>3
<1>14. ASSUME NEW s \in Sessions, ProbeBlocks(s) PROVE Inv'
  BY <1>14 DEF ProbeBlocks, Probe, TypeOK, LockOwned
<1>15. ASSUME NEW s \in Sessions, ProbeUnlocks(s) PROVE Inv'
  BY <1>15 DEF ProbeUnlocks, Probe, TypeOK, LockOwned
<1> QED BY <1>1, <1>2, <1>3, <1>4, <1>5, <1>6, <1>7, <1>8, <1>9, <1>10, <1>11,
           <1>12, <1>13, <1>14, <1>15 DEF Next, Driver, Verb

(***************************************************************************)
(* The lock is where the program counters say it is.                       *)
(***************************************************************************)
THEOREM OwnerKnown == Spec => []LockOwned
<1>1. Inv => LockOwned
  BY DEF Inv
<1> QED BY InitInv, NextInv, <1>1, PTL DEF Spec

\* The command of a wrapper that cannot be killed only runs while the wrapper does.
Parented == \A s \in Sessions \ Killable : child[s] => wrapper[s] = "running"

(***************************************************************************)
(* With any number of sessions, nested wrappers, probes and killed         *)
(* wrappers, a command whose own wrapper lives is alone under the lock.    *)
(***************************************************************************)
THEOREM OneDriver == Spec => []SoleDriver
<1>1. Init => Parented
  BY DEF Init, Parented
<1>2. Inv /\ Parented /\ [Next]_vars => Parented'
  <2> SUFFICES ASSUME Inv, Parented, [Next]_vars PROVE Parented'
    OBVIOUS
  <2> USE DEF Parented, Inv, TypeOK
  <2>1. CASE UNCHANGED vars
    BY <2>1 DEF vars
  <2>2. ASSUME NEW s \in Sessions,
               Open(s) \/ TryLock(s) \/ WouldBlock(s) \/ Busy(s) \/ Truncate(s) \/ Close(s)
        PROVE  Parented'
    BY <2>2 DEF Open, TryLock, WouldBlock, Busy, Truncate, Close, Wrapper
  <2>3. ASSUME NEW s \in Sessions, WriteAndSpawn(s) PROVE Parented'
    BY <2>3 DEF WriteAndSpawn, Wrapper
  <2>4. ASSUME NEW s \in Sessions, Reenter(s) \/ Leave(s) \/ Exit(s) PROVE Parented'
    BY <2>4 DEF Reenter, Leave, Exit
  <2>5. ASSUME NEW s \in Sessions, Ask(s) \/ Verb(s) PROVE Parented'
    BY <2>5 DEF Ask, Verb, ProbeOpen, ProbeTakes, ProbeBlocks, ProbeUnlocks, Probe
  <2>6. ASSUME NEW s \in Sessions, Kill(s) PROVE Parented'
    BY <2>6 DEF Kill, Wrapper
  <2> QED BY <2>1, <2>2, <2>3, <2>4, <2>5, <2>6 DEF Next, Driver
<1>3. Inv /\ Parented => SoleDriver
  BY DEF Inv, LockOwned, Parented, SoleDriver
<1> QED BY InitInv, NextInv, <1>1, <1>2, <1>3, PTL DEF Spec

-----------------------------------------------------------------------------
LEMMA HolderIs ==
    /\ \A s \in Sessions : lock = ByWrapper(s) => Holder = s
    /\ (\A s \in Sessions : lock # ByWrapper(s)) => Holder = NoOne
BY LockNames DEF Holder

LEMMA NextHolderIs ==
    /\ \A s \in Sessions : lock' = ByWrapper(s) => Holder' = s
    /\ (\A s \in Sessions : lock' # ByWrapper(s)) => Holder' = NoOne
BY LockNames DEF Holder

LEMMA AnswerChanges ==
    ASSUME NEW s \in Sessions, probe \in [Sessions -> {"none", "asked", "opened", "taken", "held", "unheld"}],
           NEW pc, probe' = [probe EXCEPT ![s] = pc]
    PROVE  Answer' = [Answer EXCEPT ![s] =
                        IF pc \in {"asked", "opened", "taken"} THEN "asking" ELSE pc]
BY DEF Answer

(***************************************************************************)
(* The lock the system calls make is the lock PlanStore is written for:    *)
(* a wrapper's try_lock is the acquisition, its close or its death the     *)
(* release, and a probe answers "unheld" only while nobody holds it.       *)
(***************************************************************************)
THEOREM LockImplementsDriverLock == Spec => ImplementsDriverLock
<1>1. Init => Abstract!Init
  BY HolderIs, LockNames DEF Init, Abstract!Init, Answer
<1>2. Inv /\ [Next]_vars => [Abstract!Next]_<<Holder, Answer>>
  <2> SUFFICES ASSUME Inv, [Next]_vars
               PROVE  Abstract!Next \/ (Holder' = Holder /\ Answer' = Answer)
    OBVIOUS
  <2> USE LockNames
  <2>1. lock' = lock => Holder' = Holder
    BY DEF Holder
  <2>2. probe' = probe => Answer' = Answer
    BY DEF Answer
  <2>3. probe \in [Sessions -> {"none", "asked", "opened", "taken", "held", "unheld"}]
    BY DEF Inv, TypeOK
  <2>4. CASE UNCHANGED vars
    BY <2>1, <2>2, <2>4 DEF vars
  <2>5. ASSUME NEW s \in Sessions,
               \/ Open(s) \/ WouldBlock(s) \/ Busy(s) \/ Truncate(s) \/ WriteAndSpawn(s)
               \/ Reenter(s) \/ Leave(s) \/ Exit(s)
        PROVE  Holder' = Holder /\ Answer' = Answer
    BY <2>1, <2>2, <2>5 DEF Open, WouldBlock, Busy, Truncate, WriteAndSpawn, Reenter, Leave, Exit
  <2>6. ASSUME NEW s \in Sessions, TryLock(s) PROVE Abstract!Acquire(s)
    <3>1. Holder = NoOne /\ Holder' = s
      BY <2>6, HolderIs, NextHolderIs DEF TryLock
    <3> QED BY <3>1, <2>2, <2>6 DEF TryLock, Abstract!Acquire
  <2>7. ASSUME NEW s \in Sessions, Close(s) PROVE Abstract!Release(s)
    <3>1. lock = ByWrapper(s)
      BY <2>7 DEF Close, Wrapper, Inv, LockOwned
    <3>2. Holder = s /\ Holder' = NoOne
      BY <2>7, <3>1, HolderIs, NextHolderIs DEF Close
    <3> QED BY <3>2, <2>2, <2>7 DEF Close, Abstract!Release
  <2>8. ASSUME NEW s \in Sessions, Kill(s)
        PROVE  Abstract!Release(s) \/ (Holder' = Holder /\ Answer' = Answer)
    <3>1. CASE lock = ByWrapper(s)
      <4>1. Holder = s /\ Holder' = NoOne
        BY <2>8, <3>1, HolderIs, NextHolderIs DEF Kill
      <4> QED BY <4>1, <2>2, <2>8 DEF Kill, Abstract!Release
    <3>2. CASE lock # ByWrapper(s)
      BY <3>2, <2>1, <2>2, <2>8 DEF Kill
    <3> QED BY <3>1, <3>2
  <2>9. ASSUME NEW s \in Sessions, Ask(s) PROVE Abstract!Ask(s)
    <3>1. Answer[s] # "asking" /\ probe' = [probe EXCEPT ![s] = "asked"]
      BY <2>9 DEF Ask, Probe, Answer
    <3>2. Answer' = [Answer EXCEPT ![s] = "asking"]
      BY <3>1, <2>3, AnswerChanges
    <3> QED BY <3>1, <3>2, <2>1, <2>9 DEF Ask, Abstract!Ask
  <2>10. ASSUME NEW s \in Sessions, ProbeOpen(s)
         PROVE  Abstract!AnswerUnheld(s) \/ (Holder' = Holder /\ Answer' = Answer)
    <3>1. CASE file
      <4>1. Answer' = Answer
        BY <2>10, <3>1, <2>3 DEF ProbeOpen, Probe, Answer
      <4> QED BY <4>1, <2>1, <2>10 DEF ProbeOpen
    <3>2. CASE ~ file
      <4>1. Holder = NoOne
        BY <3>2, HolderIs DEF Inv, LockOwned, FileThere
      <4>2. Answer[s] = "asking" /\ Answer' = [Answer EXCEPT ![s] = "unheld"]
        BY <2>10, <3>2, <2>3, AnswerChanges DEF ProbeOpen, Probe, Answer
      <4> QED BY <4>1, <4>2, <2>1, <2>10 DEF ProbeOpen, Abstract!AnswerUnheld
    <3> QED BY <3>1, <3>2
  <2>11. ASSUME NEW s \in Sessions, ProbeTakes(s) PROVE Holder' = Holder /\ Answer' = Answer
    <3>1. Holder = NoOne /\ Holder' = NoOne
      BY <2>11, HolderIs, NextHolderIs DEF ProbeTakes
    <3>2. Answer' = Answer
      BY <2>11, <2>3 DEF ProbeTakes, Probe, Answer
    <3> QED BY <3>1, <3>2
  <2>12. ASSUME NEW s \in Sessions, ProbeBlocks(s) PROVE Abstract!AnswerHeld(s)
    <3>1. Answer[s] = "asking" /\ Answer' = [Answer EXCEPT ![s] = "held"]
      BY <2>12, <2>3, AnswerChanges DEF ProbeBlocks, Probe, Answer
    <3>2. Holder # NoOne \/ \E t \in Sessions \ {s} : Answer[t] = "asking"
      <4>1. CASE \E t \in Sessions : lock = ByWrapper(t)
        BY <4>1, HolderIs, SessionsAssumption
      <4>2. CASE \E t \in Sessions : lock = ByProbe(t)
        BY <4>2, <2>12 DEF Inv, LockOwned, ProbeBlocks, Probe, Answer
      <4>3. (\E t \in Sessions : lock = ByWrapper(t)) \/ (\E t \in Sessions : lock = ByProbe(t))
        BY <2>12 DEF ProbeBlocks, Inv, TypeOK, ByWrapper, ByProbe
      <4> QED BY <4>1, <4>2, <4>3
    <3> QED BY <3>1, <3>2, <2>1, <2>12 DEF ProbeBlocks, Abstract!AnswerHeld
  <2>13. ASSUME NEW s \in Sessions, ProbeUnlocks(s) PROVE Abstract!AnswerUnheld(s)
    <3>1. lock = ByProbe(s)
      BY <2>13 DEF ProbeUnlocks, Probe, Inv, LockOwned
    <3>2. Holder = NoOne /\ Holder' = NoOne
      BY <2>13, <3>1, HolderIs, NextHolderIs DEF ProbeUnlocks
    <3>3. Answer[s] = "asking" /\ Answer' = [Answer EXCEPT ![s] = "unheld"]
      BY <2>13, <2>3, AnswerChanges DEF ProbeUnlocks, Probe, Answer
    <3> QED BY <3>2, <3>3 DEF Abstract!AnswerUnheld
  <2> QED BY <2>4, <2>5, <2>6, <2>7, <2>8, <2>9, <2>10, <2>11, <2>12, <2>13
          DEF Next, Driver, Verb, Abstract!Next
<1> QED BY InitInv, NextInv, <1>1, <1>2, PTL DEF Spec, ImplementsDriverLock, Abstract!Spec
=============================================================================
