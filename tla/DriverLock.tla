------------------------------ MODULE DriverLock ------------------------------
(***************************************************************************)
(* What the plan lock promises to the commands around it, as PlanStore     *)
(* uses it: one holder at a time, and a probe whose "unheld" is true. Its  *)
(* "held" may be a mistake, but only while another probe is under way.     *)
(***************************************************************************)
CONSTANTS
    Sessions,   \* who drives and who probes
    NoOne       \* nobody holds the lock

VARIABLES
    holder,     \* the session that holds the lock
    answer      \* how far the latest probe of each session got

Init == holder = NoOne /\ answer = [s \in Sessions |-> "none"]

Acquire(s) == holder = NoOne /\ holder' = s /\ UNCHANGED answer

\* The holder is done, or dies.
Release(s) == holder = s /\ holder' = NoOne /\ UNCHANGED answer

Ask(s) ==
    /\ answer[s] # "asking"
    /\ answer' = [answer EXCEPT ![s] = "asking"]
    /\ UNCHANGED holder

AnswerHeld(s) ==
    /\ answer[s] = "asking"
    /\ holder # NoOne \/ \E t \in Sessions \ {s} : answer[t] = "asking"
    /\ answer' = [answer EXCEPT ![s] = "held"]
    /\ UNCHANGED holder

AnswerUnheld(s) ==
    /\ answer[s] = "asking"
    /\ holder = NoOne
    /\ answer' = [answer EXCEPT ![s] = "unheld"]
    /\ UNCHANGED holder

Next == \E s \in Sessions : \/ Acquire(s) \/ Release(s) \/ Ask(s)
                            \/ AnswerHeld(s) \/ AnswerUnheld(s)

Spec == Init /\ [][Next]_<<holder, answer>>
=============================================================================
