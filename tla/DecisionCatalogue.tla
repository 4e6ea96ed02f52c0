-------------------------- MODULE DecisionCatalogue --------------------------
(***************************************************************************)
(* .specify/decisions: `slice merge` promotes the Decision Records a slice *)
(* authored into the catalogue, gives each the next DEC-NNNN and marks the *)
(* records it supersedes. Promotion reads the catalogue, works out what to *)
(* write and writes it one file at a time. It runs again, from the start,  *)
(* when a merge that was cut short is retried.                             *)
(***************************************************************************)
EXTENDS Integers, Sequences, FiniteSets

CONSTANTS
    Slices,     \* slice names
    Slugs,      \* record slugs
    Authored,   \* the records of each slice, in the order of their slugs
    Actors,     \* who merges
    Locked,     \* merges are kept apart by the plan lock
    Crashes     \* a merge may die

\* A record names what it supersedes by slug or, through DEC-NNNN, by number.
\* `slice validate` refuses a slice that has two records of one slug.
ASSUME AuthoredAssumption ==
    /\ Authored \in [Slices -> Seq([slug : Slugs, supersedes : SUBSET (Slugs \cup Nat)])]
    /\ \A s \in Slices : \A i, j \in DOMAIN Authored[s] :
        Authored[s][i].slug = Authored[s][j].slug => i = j
    /\ Slices # {} /\ (\A g \in Slugs : g \notin Nat) /\ Locked \in BOOLEAN /\ Crashes \in BOOLEAN

VARIABLES
    catalogue,  \* the records on disk
    run,        \* the promotion each actor is in
    promoted,   \* the slices whose promotion has returned
    crashed     \* whether a promotion was cut short

vars == <<catalogue, run, promoted, crashed>>

\* by is the number of the record that superseded this one, 0 while it stands.
Record == [num : Nat \ {0}, slug : Slugs, slice : Slices, by : Nat]

\* writes and flips are what is left to write, the lowest number first.
Idle == [active |-> FALSE, slice |-> CHOOSE s \in Slices : TRUE, writes |-> {}, flips |-> {}]

Init ==
    /\ catalogue = {}
    /\ run = [a \in Actors |-> Idle]
    /\ promoted = {}
    /\ crashed = FALSE

-----------------------------------------------------------------------------
(***************************************************************************)
(* Staging, in memory.                                                     *)
(***************************************************************************)
LastNumber == IF catalogue = {} THEN 0
              ELSE (CHOOSE c \in catalogue : \A d \in catalogue : d.num <= c.num).num

\* Mutant of Fresh: records are not looked up.
FreshAll(s) == DOMAIN Authored[s]

\* What earlier runs of the same merge have not promoted yet, by place.
Fresh(s) ==
    {i \in DOMAIN Authored[s] :
        \A c \in catalogue : c.slice # s \/ c.slug # Authored[s][i].slug}

\* A slug means an earlier sibling, or else the newest record that has it.
Siblings(s, i, t) == {j \in Fresh(s) : j < i /\ Authored[s][j].slug = t}

Resident(t) ==
    IF t \in Nat THEN {c \in catalogue : c.num = t}
    ELSE {c \in catalogue : c.slug = t /\ \A d \in catalogue : d.slug = t => d.num <= c.num}

Orphan(s) == \E i \in Fresh(s) : \E t \in Authored[s][i].supersedes :
    Siblings(s, i, t) = {} /\ Resident(t) = {}

\* The fresh records that supersede sibling j, or record c.
OverSibling(s, j) ==
    {i \in Fresh(s) : \E t \in Authored[s][i].supersedes : j \in Siblings(s, i, t)}
OverResident(s, c) ==
    {i \in Fresh(s) : \E t \in Authored[s][i].supersedes :
        Siblings(s, i, t) = {} /\ c \in Resident(t)}

Number(s, i) == LastNumber + Cardinality({j \in Fresh(s) : j <= i})

\* Mutant of Mark: the mark is the first number of the batch.
MarkBatch(s, over) == IF over = {} THEN 0 ELSE LastNumber + 1

\* The number of the last of the records at over, which are those that supersede
\* one and the same record.
Mark(s, over) ==
    IF over = {} THEN 0
    ELSE LastNumber + Cardinality({j \in Fresh(s) : \E i \in over : j <= i})

NewRecords(s) ==
    {[num |-> Number(s, i), slug |-> Authored[s][i].slug, slice |-> s,
      by |-> Mark(s, OverSibling(s, i))] : i \in Fresh(s)}

\* Mutant of FlippedRecords: only the first superseded record is marked.
FlippedRecordsOne(s) ==
    LET hit == {c \in catalogue : OverResident(s, c) # {}}
    IN  {[c EXCEPT !.by = Mark(s, OverResident(s, c))] :
            c \in {d \in hit : \A e \in hit : d.num <= e.num}}

FlippedRecords(s) ==
    {[c EXCEPT !.by = Mark(s, OverResident(s, c))] :
        c \in {d \in catalogue : OverResident(s, d) # {}}}

-----------------------------------------------------------------------------
(***************************************************************************)
(* The steps. An orphan aborts before anything is written.                 *)
(***************************************************************************)

Stage(a, s) ==
    /\ ~ run[a].active
    /\ Locked => \A b \in Actors : ~ run[b].active
    /\ ~ Orphan(s)
    /\ run' = [run EXCEPT ![a] = [active |-> TRUE, slice |-> s, writes |-> NewRecords(s),
                                  flips |-> FlippedRecords(s)]]
    /\ UNCHANGED <<catalogue, promoted, crashed>>

\* Mutant of Put: a file is named after the slug alone.
PutBySlug(r) == {c \in catalogue : c.slug # r.slug} \cup {r}

\* A file is named after the number and the slug of its record.
Put(r) == {c \in catalogue : c.num # r.num \/ c.slug # r.slug} \cup {r}

Lowest(rs, r) == r \in rs /\ \A q \in rs : r.num <= q.num

WriteNew(a) ==
    /\ run[a].active
    /\ \E r \in run[a].writes :
        /\ Lowest(run[a].writes, r)
        /\ catalogue' = Put(r)
        /\ run' = [run EXCEPT ![a].writes = @ \ {r}]
    /\ UNCHANGED <<promoted, crashed>>

\* Superseded records are written back as they were read, but for the mark.
Flip(a) ==
    /\ run[a].active /\ run[a].writes = {}
    /\ \E r \in run[a].flips :
        /\ Lowest(run[a].flips, r)
        /\ catalogue' = Put(r)
        /\ run' = [run EXCEPT ![a].flips = @ \ {r}]
    /\ UNCHANGED <<promoted, crashed>>

Return(a) ==
    /\ run[a].active /\ run[a].writes = {} /\ run[a].flips = {}
    /\ promoted' = promoted \cup {run[a].slice}
    /\ run' = [run EXCEPT ![a] = Idle]
    /\ UNCHANGED <<catalogue, crashed>>

\* The merge dies, or a file cannot be written.
Crash(a) ==
    /\ Crashes
    /\ run[a].active
    /\ run' = [run EXCEPT ![a] = Idle]
    /\ crashed' = TRUE
    /\ UNCHANGED <<catalogue, promoted>>

Next == \E a \in Actors :
    (\E s \in Slices : Stage(a, s)) \/ WriteNew(a) \/ Flip(a) \/ Return(a) \/ Crash(a)

Spec == Init /\ [][Next]_vars

-----------------------------------------------------------------------------
TypeOK ==
    /\ catalogue \subseteq Record
    /\ run \in [Actors -> [active : BOOLEAN, slice : Slices, writes : SUBSET Record,
                           flips : SUBSET Record]]
    /\ promoted \subseteq Slices /\ crashed \in BOOLEAN

(***************************************************************************)
(* A DEC-NNNN names one record, and a slice has one record of each slug,   *)
(* however often its merge died half way and was run again.                *)
(***************************************************************************)
OneNumberEach == \A c, d \in catalogue : c.num = d.num => c = d

OneRecordEach == \A c, d \in catalogue : c.slice = d.slice /\ c.slug = d.slug => c = d

\* The two together: a number and a slice's slug name one record each (promote).
Unique == OneNumberEach /\ OneRecordEach

(***************************************************************************)
(* The catalogue only grows: what a record says stays, its mark apart, and *)
(* a superseded record never stands again. (The mark itself may change.)   *)
(***************************************************************************)
OnlyGrows ==
    [][\A c \in catalogue : \E d \in catalogue' :
        /\ <<d.num, d.slug, d.slice>> = <<c.num, c.slug, c.slice>>
        /\ c.by # 0 => d.by # 0]_vars

(***************************************************************************)
(* What a promoted record supersedes is marked, and the mark on a record   *)
(* whose slice is through names a record that supersedes it.               *)
(***************************************************************************)
Means(t, c) == t \in {c.num, c.slug}

Supersedes(d, c) ==
    \E i \in DOMAIN Authored[d.slice] :
        /\ Authored[d.slice][i].slug = d.slug
        /\ \E t \in Authored[d.slice][i].supersedes : Means(t, c)

Quiet == \A a \in Actors : ~ run[a].active

SupersededIsMarked ==
    Quiet => \A d \in catalogue : d.slice \in promoted =>
        \A i \in DOMAIN Authored[d.slice] : Authored[d.slice][i].slug = d.slug =>
            \A t \in Authored[d.slice][i].supersedes :
                \E c \in catalogue : Means(t, c) /\ c.by # 0

MarksAreRight ==
    Quiet => \A c \in catalogue : c.by # 0 /\ c.slice \in promoted =>
        \E d \in catalogue : d.num = c.by /\ Supersedes(d, c)

(***************************************************************************)
(* Promotions none of which was cut short leave no reference open.         *)
(***************************************************************************)
ReferencesClosed == ~ crashed => SupersededIsMarked /\ MarksAreRight

=============================================================================
