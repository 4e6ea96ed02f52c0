------------------------------- MODULE SourceOps -------------------------------
(***************************************************************************)
(* `specify source survey` and `specify source extract`. Each runs in two  *)
(* phases around an agent: prepare empties a scratch lane and hands it to  *)
(* the agent; the agent writes leads.md or evidence.yaml into it; finalize *)
(* reads the file, validates it and stages it, as the evidence of a slice  *)
(* or into the lead inventory of discovery.md.                             *)
(*                                                                         *)
(* A lane is named by the adapter and by the slice, or by the word survey. *)
(* It is not named by the source: sources of one adapter share lanes.      *)
(***************************************************************************)
EXTENDS Sequences, Naturals, FiniteSets, SequencesExt, Filters

CONSTANTS
    Sources, Slices,
    Bindings,       \* the adapters plan.yaml may bind the sources to
    Survey,         \* the segment of the survey lane; a slice may have this name
    LeadSets,       \* the sequences of lead ids a leads.md may hold
    MaxRounds,      \* how often an operation is prepared, or goes on after a finalize
    Disciplined,    \* whether callers run one operation of a lane, and one survey, at a time
    None, Nothing, Invalid

Surveys == [kind : {"survey"}, source : Sources, segment : {Survey}]
Extracts == [kind : {"extract"}, source : Sources, segment : Slices]
Ops == Surveys \cup Extracts
Artifact == [by : Ops, round : 1..MaxRounds, body : LeadSets \cup {Invalid}]

VARIABLES
    adapter,    \* the adapter plan.yaml binds each source to
    lanes,      \* .specify/scratch/<adapter>/<segment>: leads.md and evidence.yaml
    evidence,   \* evidence/<source>.yaml of each slice
    discovery,  \* the lead inventory of discovery.md
    job,        \* the operation each agent is busy with
    committed   \* history: what the agent wrote in the last round whose finalize got as far
                \* as writing the file, which is not yet to return 0

vars == <<adapter, lanes, evidence, discovery, job, committed>>

Lane(o) == <<adapter[o.source], o.segment>>
EmptyLane == [survey |-> None, extract |-> None]
IdleJob == [pc |-> "idle", round |-> 0, wrote |-> Nothing, read |-> Nothing, copy |-> << >>]

Init ==
    /\ adapter \in Bindings
    /\ lanes = [l \in Range(adapter) \X (Slices \cup {Survey}) |-> EmptyLane]
    /\ evidence = [o \in Extracts |-> None]
    /\ discovery = << >>
    /\ job = [o \in Ops |-> IdleJob]
    /\ committed = [o \in Ops |-> None]

\* Two operations callers should not run side by side.
Interfere(o, p) == o # p /\ (Lane(o) = Lane(p) \/ {o, p} \subseteq Surveys)
Alone(o) == \A p \in Ops : Interfere(o, p) => job[p].pc = "idle"

-----------------------------------------------------------------------------
\* Mutant of Prepare: the lane is handed over as it is.
PrepareKeeps(o) ==
    /\ job[o].pc = "idle" /\ job[o].round < MaxRounds
    /\ Disciplined => Alone(o)
    /\ job' = [job EXCEPT ![o] = [IdleJob EXCEPT !.pc = "handed", !.round = job[o].round + 1]]
    /\ UNCHANGED <<adapter, lanes, evidence, discovery, committed>>

\* The lane is removed with all that is in it and created again. If the journal
\* cannot be appended to, the phase fails after that.
Prepare(o) ==
    /\ job[o].pc = "idle" /\ job[o].round < MaxRounds
    /\ Disciplined => Alone(o)
    /\ lanes' = [lanes EXCEPT ![Lane(o)] = EmptyLane]
    /\ \E pc \in {"handed", "idle"} :
         job' = [job EXCEPT ![o] = [IdleJob EXCEPT !.pc = pc, !.round = job[o].round + 1]]
    /\ UNCHANGED <<adapter, evidence, discovery, committed>>

\* The agent leaves its file in the lane, or nothing.
AgentWrites(o) ==
    /\ job[o].pc = "handed"
    /\ \/ \E b \in LeadSets \cup {Invalid} :
            LET art == [by |-> o, round |-> job[o].round, body |-> b]
            IN  /\ lanes' = [lanes EXCEPT ![Lane(o)][o.kind] = art]
                /\ job' = [job EXCEPT ![o].pc = "written", ![o].wrote = art]
       \/ job' = [job EXCEPT ![o].pc = "written"] /\ UNCHANGED lanes
    /\ UNCHANGED <<adapter, evidence, discovery, committed>>

\* read_artifact.
Staged(o) == lanes[Lane(o)][o.kind]

\* The schema check before a file becomes visible.
Valid(o) == Staged(o) # None /\ Staged(o).body # Invalid

\* finalize is over, whatever it returns. It leaves the lane as it is, so instead of
\* preparing it anew the agent may mend what stands there and finalize once more.
Return(o) ==
    \/ job' = [job EXCEPT ![o] = [IdleJob EXCEPT !.round = job[o].round]]
    \/ /\ job[o].round < MaxRounds
       /\ job' = [job EXCEPT ![o].pc = "handed", ![o].round = @ + 1, ![o].read = Nothing, ![o].copy = << >>]

\* finalize fails before it writes: no file in the lane, one the schema rejects, or one that
\* cannot be read or written.
Refuse(o) ==
    /\ job[o].pc \in {"written", "merge"}
    /\ Return(o)
    /\ UNCHANGED <<adapter, lanes, evidence, discovery, committed>>

\* What is committed stays, also when the journal cannot be appended to and finalize fails.
Commit(o) == committed' = [committed EXCEPT ![o] = job[o].wrote]

\* finalize of an extract: the file goes to evidence/<source>.yaml.
CommitEvidence(o) ==
    /\ o.kind = "extract" /\ job[o].pc = "written"
    /\ Valid(o)
    /\ evidence' = [evidence EXCEPT ![o] = Staged(o)]
    /\ Commit(o)
    /\ Return(o)
    /\ UNCHANGED <<adapter, lanes, discovery>>

\* finalize of a survey reads the leads and discovery.md.
LoadDiscovery(o) ==
    /\ o.kind = "survey" /\ job[o].pc = "written"
    /\ Valid(o)
    /\ job' = [job EXCEPT ![o].pc = "merge", ![o].read = Staged(o), ![o].copy = discovery]
    /\ UNCHANGED <<adapter, lanes, evidence, discovery, committed>>

\* The leads of an artifact, attributed to the surveyed source.
Leads(source, art) ==
    [i \in DOMAIN art.body |-> [source |-> source, lead |-> art.body[i], round |-> art.round]]

\* Mutant of MergeSurvey: leads are told apart by their id alone.
MergeSurveyById(prior, source, new) ==
    LET At(s, id) == SelectInSeq(s, LAMBDA l : l.lead = id)
        Replaced(i) == At(prior, prior[i].lead) = i /\ At(new, prior[i].lead) # 0
        Used(j) == At(new, new[j].lead) = j /\ At(prior, new[j].lead) # 0
        Left == {j \in DOMAIN new : ~ Used(j)}
    IN  [i \in DOMAIN prior |-> IF Replaced(i) THEN new[At(new, prior[i].lead)] ELSE prior[i]]
            \o Select(new, Left)

\* Discovery::merge_survey. The first lead of an id replaces the first block of the
\* source with that id where it stands; every other new lead goes to the end.
MergeSurvey(prior, source, new) ==
    LET Block(id) == SelectInSeq(prior, LAMBDA l : l.source = source /\ l.lead = id)
        Slot(id) == SelectInSeq(new, LAMBDA l : l.lead = id)
        Replaced(i) == Block(prior[i].lead) = i /\ Slot(prior[i].lead) # 0
        Used(j) == Slot(new[j].lead) = j /\ Block(new[j].lead) # 0
        Left == {j \in DOMAIN new : ~ Used(j)}
    IN  [i \in DOMAIN prior |-> IF Replaced(i) THEN new[Slot(prior[i].lead)] ELSE prior[i]]
            \o Select(new, Left)

\* discovery.md is written back as it was loaded, with the leads merged in.
SaveDiscovery(o) ==
    /\ job[o].pc = "merge"
    /\ discovery' = MergeSurvey(job[o].copy, o.source, Leads(o.source, job[o].read))
    /\ Commit(o)
    /\ Return(o)
    /\ UNCHANGED <<adapter, lanes, evidence>>

Next ==
    \E o \in Ops :
        \/ Prepare(o) \/ AgentWrites(o) \/ Refuse(o)
        \/ CommitEvidence(o) \/ LoadDiscovery(o) \/ SaveDiscovery(o)

Spec == Init /\ [][Next]_vars

-----------------------------------------------------------------------------
(***************************************************************************)
(* The evidence of a source in a slice is what the agent of that source    *)
(* wrote for that slice in the last round whose finalize committed. That   *)
(* finalize need not have returned 0: one that fails on the journal event  *)
(* has replaced the evidence before. Nothing else replaces it, and no      *)
(* other agent's file is ever staged in its place. It holds for callers    *)
(* who do not run two operations of one lane side by side.                 *)
(***************************************************************************)
EvidenceIsOwn == \A o \in Extracts : committed[o] # None => evidence[o] = committed[o]

(***************************************************************************)
(* Every lead of the last survey of every source whose finalize committed  *)
(* is in the inventory, and it is the one a lookup finds: surveys of other *)
(* sources and older rounds do not displace it. A survey that fails before *)
(* it writes leaves the leads of the round before; one that fails on the   *)
(* journal event has merged its own, although it returns an error.         *)
(***************************************************************************)
LeadsAreKept == \A o \in Surveys :
    committed[o] # None =>
        /\ committed[o] # Nothing
        /\ LET new == Leads(o.source, committed[o])
           IN  \A i \in DOMAIN new :
                 LET j == SelectInSeq(discovery, LAMBDA l :
                                l.source = o.source /\ l.lead = new[i].lead)
                 IN  j # 0 /\ discovery[j] = new[i]

=============================================================================
