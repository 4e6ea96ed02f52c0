------------------------ MODULE DecisionCatalogue_proofs ------------------------
(***************************************************************************)
(* Proofs about DecisionCatalogue, for any records, slices and number of   *)
(* merges, of merges that the plan lock keeps apart.                       *)
(***************************************************************************)
EXTENDS DecisionCatalogue, FiniteSetTheorems, WellFoundedInduction, TLAPS

\* The catalogue has a last number, whatever is in it.
HasLast == catalogue # {} => \E c \in catalogue : \A d \in catalogue : d.num <= c.num

\* The lock lets one promotion run at a time.
Alone == \A a, b \in Actors : run[a].active /\ run[b].active => a = b

\* What the promotion of a is about to write takes numbers and slugs nobody has,
\* and what it is about to mark is there.
Pending(a) ==
    /\ \A r \in run[a].writes : \A c \in catalogue :
        /\ c.num < r.num
        /\ c.slice # r.slice \/ c.slug # r.slug
    /\ \A q, r \in run[a].writes :
        /\ q.num = r.num => q = r
        /\ q.slice = r.slice /\ q.slug = r.slug => q = r
    /\ \A r \in run[a].flips : r.by # 0 /\ \E c \in catalogue :
        c.num = r.num /\ c.slug = r.slug /\ c.slice = r.slice

\* What is inductive together.
Inv == TypeOK /\ HasLast /\ Alone /\ Unique /\ \A a \in Actors : run[a].active => Pending(a)

-----------------------------------------------------------------------------
(***************************************************************************)
(* Numbers.                                                                *)
(***************************************************************************)

LEMMA LastNumberBounds ==
    ASSUME TypeOK, HasLast
    PROVE  LastNumber \in Nat /\ \A c \in catalogue : c.num <= LastNumber
<1>1. CASE catalogue = {}
  BY <1>1 DEF LastNumber
<1>2. CASE catalogue # {}
  <2>1. PICK c \in catalogue : \A d \in catalogue : d.num <= c.num
    BY <1>2 DEF HasLast
  <2> DEFINE m == CHOOSE e \in catalogue : \A d \in catalogue : d.num <= e.num
  <2>2. m \in catalogue /\ \A d \in catalogue : d.num <= m.num
    BY <2>1
  <2>3. LastNumber = m.num
    BY <1>2 DEF LastNumber
  <2> QED BY <2>2, <2>3 DEF TypeOK, Record
<1> QED BY <1>1, <1>2

LEMMA FreshPlaces ==
    ASSUME NEW s \in Slices
    PROVE  /\ IsFiniteSet(Fresh(s))
           /\ Fresh(s) \subseteq DOMAIN Authored[s]
           /\ DOMAIN Authored[s] \subseteq Nat
           /\ \A i \in DOMAIN Authored[s] : Authored[s][i].slug \in Slugs
<1>1. Authored[s] \in Seq([slug : Slugs, supersedes : SUBSET (Slugs \cup Nat)])
  BY AuthoredAssumption
<1>2. DOMAIN Authored[s] = 1 .. Len(Authored[s]) /\ Len(Authored[s]) \in Nat
  BY <1>1
<1>3. IsFiniteSet(1 .. Len(Authored[s]))
  BY <1>2, FS_Interval
<1>4. Fresh(s) \subseteq DOMAIN Authored[s]
  BY DEF Fresh
<1>5. ASSUME NEW i \in DOMAIN Authored[s] PROVE Authored[s][i].slug \in Slugs
  <2> DEFINE Authorable == [slug : Slugs, supersedes : SUBSET (Slugs \cup Nat)]
  <2>1. Authored[s] \in Seq(Authorable)
    BY <1>1
  <2>2. Authored[s][i] \in Authorable
    <3> HIDE DEF Authorable
    <3> QED BY <1>2, <2>1
  <2> QED BY <2>2
<1> QED BY <1>2, <1>3, <1>4, <1>5, FS_Subset

\* Places of fresh records are counted off from the last number.
LEMMA NumbersRise ==
    ASSUME TypeOK, HasLast, NEW s \in Slices, NEW i \in Fresh(s)
    PROVE  /\ Number(s, i) \in Nat /\ LastNumber < Number(s, i)
           /\ \A j \in Fresh(s) : i < j => Number(s, i) < Number(s, j)
<1> DEFINE Upto(k) == {j \in Fresh(s) : j <= k}
<1>1. IsFiniteSet(Fresh(s)) /\ Fresh(s) \subseteq Nat
  BY FreshPlaces
<1>2. \A k : IsFiniteSet(Upto(k)) /\ Cardinality(Upto(k)) \in Nat
  BY <1>1, FS_Subset, FS_CardinalityType
<1>3. i \in Upto(i)
  BY <1>1
<1>4. Cardinality(Upto(i)) # 0
  BY <1>2, <1>3, FS_EmptySet
<1>5. ASSUME NEW j \in Fresh(s), i < j PROVE Cardinality(Upto(i)) < Cardinality(Upto(j))
  <2>1. Upto(i) \subseteq Upto(j) /\ j \in Upto(j) /\ j \notin Upto(i)
    BY <1>1, <1>5
  <2>2. Upto(i) # Upto(j)
    BY <2>1
  <2>3. /\ Cardinality(Upto(i)) <= Cardinality(Upto(j))
        /\ Cardinality(Upto(i)) = Cardinality(Upto(j)) => Upto(i) = Upto(j)
    BY <1>2, <2>1, FS_Subset
  <2> QED BY <1>2, <2>2, <2>3
<1>6. LastNumber \in Nat
  BY LastNumberBounds
<1>7. \A k : Number(s, k) = LastNumber + Cardinality(Upto(k))
  BY DEF Number
<1> HIDE DEF Upto
<1> QED BY <1>2, <1>4, <1>5, <1>6, <1>7

LEMMA MarkType ==
    ASSUME TypeOK, HasLast, NEW s \in Slices, NEW over, over \subseteq Fresh(s)
    PROVE  Mark(s, over) \in Nat /\ (over # {} => Mark(s, over) # 0)
<1> DEFINE Hit == {j \in Fresh(s) : \E i \in over : j <= i}
<1>1. IsFiniteSet(Fresh(s)) /\ Fresh(s) \subseteq Nat
  BY FreshPlaces
<1>2. IsFiniteSet(Hit) /\ Cardinality(Hit) \in Nat
  BY <1>1, FS_Subset, FS_CardinalityType
<1>3. over # {} => Hit # {}
  BY <1>1
<1>4. over # {} => Cardinality(Hit) # 0
  BY <1>2, <1>3, FS_EmptySet
<1>5. LastNumber \in Nat
  BY LastNumberBounds
<1>6. Mark(s, over) = IF over = {} THEN 0 ELSE LastNumber + Cardinality(Hit)
  BY DEF Mark
<1> HIDE DEF Hit
<1> QED BY <1>2, <1>4, <1>5, <1>6

-----------------------------------------------------------------------------
(***************************************************************************)
(* Steps.                                                                  *)
(***************************************************************************)

LEMMA NewRecordsAreNew ==
    ASSUME Inv, NEW s \in Slices
    PROVE  /\ NewRecords(s) \subseteq Record
           /\ \A r \in NewRecords(s) : \A c \in catalogue :
                /\ c.num < r.num
                /\ c.slice # r.slice \/ c.slug # r.slug
           /\ \A q, r \in NewRecords(s) :
                /\ q.num = r.num => q = r
                /\ q.slice = r.slice /\ q.slug = r.slug => q = r
<1> USE DEF Inv
<1> DEFINE New(i) == [num |-> Number(s, i), slug |-> Authored[s][i].slug, slice |-> s,
                      by |-> Mark(s, OverSibling(s, i))]
<1>1. NewRecords(s) = {New(i) : i \in Fresh(s)}
  BY DEF NewRecords
<1>2. Fresh(s) \subseteq DOMAIN Authored[s] /\ Fresh(s) \subseteq Nat
  BY FreshPlaces
<1>3. \A i \in Fresh(s) : Mark(s, OverSibling(s, i)) \in Nat
  BY MarkType DEF OverSibling
<1>4. \A i \in Fresh(s) : Number(s, i) \in Nat /\ LastNumber < Number(s, i)
  BY NumbersRise
<1>5. LastNumber \in Nat /\ \A c \in catalogue : c.num \in Nat /\ c.num <= LastNumber
  BY LastNumberBounds DEF TypeOK, Record
<1>6. \A i \in Fresh(s) : New(i) \in Record
  BY <1>2, <1>3, <1>4, <1>5, FreshPlaces DEF Record
<1>7. ASSUME NEW i \in Fresh(s), NEW c \in catalogue
      PROVE  c.num < Number(s, i) /\ (c.slice # s \/ c.slug # Authored[s][i].slug)
  BY <1>4, <1>5 DEF Fresh
<1>8. ASSUME NEW i \in Fresh(s), NEW j \in Fresh(s),
             Number(s, i) = Number(s, j) \/ Authored[s][i].slug = Authored[s][j].slug
      PROVE  i = j
  <2>1. CASE Number(s, i) = Number(s, j)
    <3>1. i \in Nat /\ j \in Nat /\ Number(s, i) \in Nat /\ Number(s, j) \in Nat
      BY <1>2, <1>4
    <3>2. ~ (i < j) /\ ~ (j < i)
      BY <2>1, <3>1, NumbersRise
    <3> QED BY <3>1, <3>2
  <2>2. CASE Authored[s][i].slug = Authored[s][j].slug
    BY <1>2, <2>2, AuthoredAssumption
  <2> QED BY <1>8, <2>1, <2>2
<1> HIDE DEF Inv
<1>9. \A i \in Fresh(s) : New(i).num = Number(s, i) /\ New(i).slug = Authored[s][i].slug
                           /\ New(i).slice = s
  OBVIOUS
<1> HIDE DEF New
<1> QED BY <1>1, <1>6, <1>7, <1>8, <1>9

LEMMA FlippedRecordsAreThere ==
    ASSUME Inv, NEW s \in Slices
    PROVE  /\ FlippedRecords(s) \subseteq Record
           /\ \A r \in FlippedRecords(s) : r.by # 0 /\ \E c \in catalogue :
                c.num = r.num /\ c.slug = r.slug /\ c.slice = r.slice
<1>1. ASSUME NEW c \in catalogue, OverResident(s, c) # {}
      PROVE  Mark(s, OverResident(s, c)) \in Nat \ {0}
  BY <1>1, MarkType DEF Inv, OverResident
<1> QED BY <1>1 DEF FlippedRecords, Inv, TypeOK, Record

RunType == [active : BOOLEAN, slice : Slices, writes : SUBSET Record,
            flips : SUBSET Record]

LEMMA IdleType == Idle \in RunType /\ ~ Idle.active
BY AuthoredAssumption DEF Idle, RunType

LEMMA InitInv == Init => Inv
<1> SUFFICES ASSUME Init PROVE Inv
  OBVIOUS
<1>1. TypeOK /\ \A a \in Actors : ~ run[a].active
  BY IdleType DEF Init, TypeOK, RunType
<1>2. HasLast /\ Unique
  BY DEF Init, HasLast, Unique, OneNumberEach, OneRecordEach
<1> QED BY <1>1, <1>2 DEF Inv, Alone

LEMMA StageInv ==
    ASSUME Locked, Inv, NEW a \in Actors, NEW s \in Slices, Stage(a, s)
    PROVE  Inv'
<1>1. /\ catalogue' = catalogue /\ promoted' = promoted /\ crashed' = crashed
      /\ run' = [run EXCEPT ![a] = [active |-> TRUE, slice |-> s, writes |-> NewRecords(s),
                                    flips |-> FlippedRecords(s)]]
      /\ \A b \in Actors : ~ run[b].active
  BY DEF Stage
<1>2. TypeOK'
  BY <1>1, NewRecordsAreNew, FlippedRecordsAreThere DEF Inv, TypeOK
<1>3. run'[a].writes = NewRecords(s) /\ run'[a].flips = FlippedRecords(s)
  BY <1>1 DEF Inv, TypeOK
<1>4. Pending(a)'
  BY <1>1, <1>3, NewRecordsAreNew, FlippedRecordsAreThere DEF Pending
<1>5. \A b \in Actors : run'[b].active => b = a
  BY <1>1 DEF Inv, TypeOK
<1> QED BY <1>1, <1>2, <1>4, <1>5
        DEF Inv, HasLast, Alone, Unique, OneNumberEach, OneRecordEach

LEMMA WriteNewInv ==
    ASSUME Inv, NEW a \in Actors, WriteNew(a)
    PROVE  Inv'
<1>1. PICK r \in run[a].writes :
        /\ Lowest(run[a].writes, r)
        /\ catalogue' = Put(r)
        /\ run' = [run EXCEPT ![a].writes = @ \ {r}]
        /\ UNCHANGED <<promoted, crashed>>
  BY DEF WriteNew
<1>2. run[a].active /\ Pending(a) /\ r \in Record /\ catalogue \subseteq Record
  BY <1>1 DEF WriteNew, Inv, TypeOK
<1>3. catalogue' = catalogue \cup {r}
  BY <1>1, <1>2 DEF Put, Pending, Record
<1>4. TypeOK'
  BY <1>1, <1>2, <1>3 DEF Inv, TypeOK
<1>5. HasLast'
  BY <1>2, <1>3 DEF HasLast, Pending, Record
<1>6. Unique'
  BY <1>2, <1>3 DEF Inv, Unique, OneNumberEach, OneRecordEach, Pending, Record
<1>7. /\ run'[a].writes = run[a].writes \ {r} /\ run'[a].flips = run[a].flips
      /\ \A b \in Actors : run'[b].active = run[b].active
  BY <1>1 DEF Inv, TypeOK
<1>8. Pending(a)'
  <2>1. \A q \in run[a].writes \ {r} : q \in Record /\ r.num < q.num
    BY <1>1, <1>2 DEF Lowest, Pending, Record, Inv, TypeOK
  <2>2. \A q \in run[a].writes \ {r} : q.slice # r.slice \/ q.slug # r.slug
    BY <1>1, <1>2 DEF Pending
  <2> QED BY <1>2, <1>3, <1>7, <2>1, <2>2 DEF Pending
<1>9. \A b \in Actors : run'[b].active => b = a
  BY <1>2, <1>7 DEF Inv, Alone
<1> QED BY <1>4, <1>5, <1>6, <1>8, <1>9 DEF Inv, Alone

LEMMA FlipInv ==
    ASSUME Inv, NEW a \in Actors, Flip(a)
    PROVE  /\ Inv'
           /\ \A c \in catalogue : \E d \in catalogue' :
                /\ <<d.num, d.slug, d.slice>> = <<c.num, c.slug, c.slice>>
                /\ c.by # 0 => d.by # 0
<1>1. PICK r \in run[a].flips :
        /\ run[a].writes = {}
        /\ catalogue' = Put(r)
        /\ run' = [run EXCEPT ![a].flips = @ \ {r}]
        /\ UNCHANGED <<promoted, crashed>>
  BY DEF Flip
<1>2. run[a].active /\ Pending(a) /\ r \in Record /\ catalogue \subseteq Record
  BY <1>1 DEF Flip, Inv, TypeOK
<1>3. PICK c \in catalogue : c.num = r.num /\ c.slug = r.slug /\ c.slice = r.slice
  BY <1>2 DEF Pending
<1>4. catalogue' = (catalogue \ {c}) \cup {r}
  BY <1>1, <1>2, <1>3 DEF Put, Inv, Unique, OneNumberEach
<1>5. TypeOK'
  BY <1>1, <1>2, <1>4 DEF Inv, TypeOK
<1>6. HasLast'
  <2>1. PICK l \in catalogue : \A d \in catalogue : d.num <= l.num
    BY <1>3 DEF Inv, HasLast
  <2>2. CASE l = c
    BY <1>2, <1>3, <1>4, <2>1, <2>2 DEF HasLast, Record
  <2>3. CASE l # c
    BY <1>2, <1>3, <1>4, <2>1, <2>3 DEF HasLast, Record
  <2> QED BY <2>2, <2>3
<1>7. Unique'
  BY <1>3, <1>4 DEF Inv, Unique, OneNumberEach, OneRecordEach
<1>8. /\ run'[a].writes = run[a].writes /\ run'[a].flips = run[a].flips \ {r}
      /\ \A b \in Actors : run'[b].active = run[b].active
  BY <1>1 DEF Inv, TypeOK
<1>9. Pending(a)'
  BY <1>1, <1>2, <1>3, <1>4, <1>8 DEF Pending
<1>10. \A b \in Actors : run'[b].active => b = a
  BY <1>2, <1>8 DEF Inv, Alone
<1>11. Inv'
  BY <1>5, <1>6, <1>7, <1>9, <1>10 DEF Inv, Alone
<1>12. ASSUME NEW d \in catalogue
       PROVE  \E e \in catalogue' : /\ <<e.num, e.slug, e.slice>> = <<d.num, d.slug, d.slice>>
                                    /\ d.by # 0 => e.by # 0
  <2>1. CASE d = c
    BY <1>2, <1>3, <1>4, <2>1 DEF Pending
  <2>2. CASE d # c
    BY <1>4, <2>2
  <2> QED BY <2>1, <2>2
<1> QED BY <1>11, <1>12

LEMMA EndInv ==
    ASSUME Inv, NEW a \in Actors, Return(a) \/ Crash(a)
    PROVE  Inv' /\ catalogue' = catalogue
<1>1. /\ catalogue' = catalogue /\ run' = [run EXCEPT ![a] = Idle]
      /\ promoted' \in {promoted, promoted \cup {run[a].slice}} /\ crashed' \in {crashed, TRUE}
  BY DEF Return, Crash
<1>2. TypeOK'
  BY <1>1, IdleType DEF Inv, TypeOK, RunType
<1>3. \A b \in Actors : run'[b].active => run'[b] = run[b] /\ run[b].active
  BY <1>1, IdleType DEF Inv, TypeOK
<1>4. Alone' /\ \A b \in Actors : run'[b].active => Pending(b)'
  BY <1>1, <1>3 DEF Inv, Alone, Pending
<1> QED BY <1>1, <1>2, <1>4 DEF Inv, HasLast, Unique, OneNumberEach, OneRecordEach

LEMMA NextInv ==
    ASSUME Locked, Inv, [Next]_vars
    PROVE  Inv'
<1>1. CASE UNCHANGED vars
  BY <1>1 DEF vars, Inv, TypeOK, HasLast, Alone, Unique, OneNumberEach, OneRecordEach, Pending
<1>2. ASSUME NEW a \in Actors, NEW s \in Slices, Stage(a, s) PROVE Inv'
  BY <1>2, StageInv
<1>3. ASSUME NEW a \in Actors, WriteNew(a) PROVE Inv'
  BY <1>3, WriteNewInv
<1>4. ASSUME NEW a \in Actors, Flip(a) PROVE Inv'
  BY <1>4, FlipInv
<1>5. ASSUME NEW a \in Actors, Return(a) \/ Crash(a) PROVE Inv'
  BY <1>5, EndInv
<1> QED BY <1>1, <1>2, <1>3, <1>4, <1>5 DEF Next

(***************************************************************************)
(* While the plan lock keeps merges apart, a DEC-NNNN names one record and *)
(* a slice has one record of each slug, however often a promotion dies     *)
(* between two of its writes and is run again: a rerun recognises what the *)
(* runs before it wrote.                                                   *)
(***************************************************************************)
THEOREM RecordsAreUnique ==
    ASSUME Locked
    PROVE  Spec => []Unique
<1>1. Init => Inv
  BY InitInv
<1>2. Inv /\ [Next]_vars => Inv'
  BY NextInv
<1>3. Inv => Unique
  BY DEF Inv
<1> QED BY <1>1, <1>2, <1>3, PTL DEF Spec

(***************************************************************************)
(* Under the same lock no record is ever lost or stands again once it was  *)
(* superseded, whether or not the promotion that writes it gets through.   *)
(***************************************************************************)
THEOREM CatalogueOnlyGrows ==
    ASSUME Locked
    PROVE  Spec => OnlyGrows
<1> DEFINE Grows == \A c \in catalogue : \E d \in catalogue' :
                        /\ <<d.num, d.slug, d.slice>> = <<c.num, c.slug, c.slice>>
                        /\ c.by # 0 => d.by # 0
<1>1. Init => Inv
  BY InitInv
<1>2. Inv /\ [Next]_vars => Inv'
  BY NextInv
<1>3. Inv /\ [Next]_vars => [Grows]_vars
  <2> SUFFICES ASSUME Inv, Next PROVE Grows
    OBVIOUS
  <2>1. ASSUME NEW a \in Actors, NEW s \in Slices, Stage(a, s) PROVE Grows
    BY <2>1 DEF Stage
  <2>2. ASSUME NEW a \in Actors, WriteNew(a) PROVE Grows
    <3>1. PICK r \in run[a].writes : catalogue' = Put(r)
      BY <2>2 DEF WriteNew
    <3>2. Pending(a) /\ catalogue \subseteq Record /\ r \in Record
      BY <2>2, <3>1 DEF WriteNew, Inv, TypeOK
    <3>3. catalogue \subseteq catalogue'
      BY <3>1, <3>2 DEF Put, Pending, Record
    <3> QED BY <3>3
  <2>3. ASSUME NEW a \in Actors, Flip(a) PROVE Grows
    BY <2>3, FlipInv
  <2>4. ASSUME NEW a \in Actors, Return(a) \/ Crash(a) PROVE Grows
    BY <2>4, EndInv
  <2> QED BY <2>1, <2>2, <2>3, <2>4 DEF Next
<1>4. Spec => [][Grows]_vars
  BY <1>1, <1>2, <1>3, PTL DEF Spec
<1> QED BY <1>4 DEF OnlyGrows

-----------------------------------------------------------------------------
(***************************************************************************)
(* References. Between its staging and its return a promotion keeps them   *)
(* closed over what is on disk and what it has still to write.             *)
(***************************************************************************)

\* The records ds find what they supersede marked in cs.
Answered(ds, cs) ==
    \A d \in ds : \A i \in DOMAIN Authored[d.slice] : Authored[d.slice][i].slug = d.slug =>
        \A t \in Authored[d.slice][i].supersedes : \E c \in cs : Means(t, c) /\ c.by # 0

\* The marks in cs name records of ds that supersede.
Backed(ds, cs) == \A c \in cs : c.by # 0 => \E d \in ds : d.num = c.by /\ Supersedes(d, c)

Closed(ds, cs) == Answered(ds, cs) /\ Backed(ds, cs)

\* The records there will be when the promotion of a is through, and their states.
Promoted(a) == catalogue \cup run[a].writes
States(a) == catalogue \cup run[a].writes \cup run[a].flips

RefInv ==
    ~ crashed =>
        /\ \A a \in Actors : run[a].active => Closed(Promoted(a), States(a))
        /\ Quiet => Closed(catalogue, catalogue)

\* The same record, its mark apart.
Same(c, d) == c.num = d.num /\ c.slug = d.slug /\ c.slice = d.slice

LEMMA ClosedStays ==
    ASSUME NEW ds, NEW cs, NEW es, NEW bs, Closed(ds, cs),
           \A e \in es : \E d \in ds : Same(d, e),
           \A d \in ds : \E e \in es : Same(d, e),
           \A c \in cs : c.by # 0 => \E b \in bs : Same(c, b) /\ b.by # 0,
           bs \subseteq cs
    PROVE  Closed(es, bs)
<1>1. Answered(es, bs)
  <2> SUFFICES ASSUME NEW e \in es, NEW i \in DOMAIN Authored[e.slice],
                      Authored[e.slice][i].slug = e.slug,
                      NEW t \in Authored[e.slice][i].supersedes
               PROVE  \E b \in bs : Means(t, b) /\ b.by # 0
    BY DEF Answered
  <2>1. PICK d \in ds : Same(d, e)
    OBVIOUS
  <2>2. /\ i \in DOMAIN Authored[d.slice] /\ Authored[d.slice][i].slug = d.slug
        /\ t \in Authored[d.slice][i].supersedes
    <3>1. d.slice = e.slice /\ d.slug = e.slug
      BY <2>1 DEF Same
    <3> QED BY <3>1
  <2>3. \E c \in cs : Means(t, c) /\ c.by # 0
    <3>1. Answered(ds, cs)
      BY DEF Closed
    <3> QED BY <2>1, <2>2, <3>1 DEF Answered
  <2>4. PICK c \in cs : Means(t, c) /\ c.by # 0
    BY <2>3
  <2>5. PICK b \in bs : Same(c, b) /\ b.by # 0
    BY <2>4
  <2> QED BY <2>4, <2>5 DEF Means, Same
<1>2. Backed(es, bs)
  <2> SUFFICES ASSUME NEW b \in bs, b.by # 0
               PROVE  \E e \in es : e.num = b.by /\ Supersedes(e, b)
    BY DEF Backed
  <2>1. PICK d \in ds : d.num = b.by /\ Supersedes(d, b)
    BY DEF Closed, Backed
  <2>2. PICK e \in es : Same(d, e)
    OBVIOUS
  <2> QED BY <2>1, <2>2 DEF Supersedes, Same
<1> QED BY <1>1, <1>2 DEF Closed

\* The mark that the records at over leave is the number of one of them.
LEMMA MarkNumber ==
    ASSUME NEW s \in Slices, NEW over, over \subseteq Fresh(s), over # {}
    PROVE  \E m \in over : Mark(s, over) = Number(s, m)
<1> DEFINE n == Len(Authored[s])
           Back == {k \in Nat : k <= n /\ n - k \in over}
<1>1. n \in Nat /\ DOMAIN Authored[s] = 1 .. n
  <2>1. Authored[s] \in Seq([slug : Slugs, supersedes : SUBSET (Slugs \cup Nat)])
    BY AuthoredAssumption
  <2> QED BY <2>1
<1>2. over \subseteq 1 .. n
  BY <1>1, FreshPlaces
<1>3. \A i \in over : n - i \in Back
  <2> HIDE DEF n
  <2> QED BY <1>1, <1>2
<1>4. Back # {} /\ Back \subseteq Nat
  BY <1>3
<1>5. PICK k \in Back : \A j \in Back : <<j, k>> \notin OpToRel(<, Nat)
  BY <1>4, WFMin, NatLessThanWellFounded
<1>6. \A i, j \in Nat : i < j => <<i, j>> \in OpToRel(<, Nat)
  BY DEF OpToRel
<1>7. \A j \in Back : k <= j
  <2>1. ASSUME NEW j \in Back PROVE ~ (j < k)
    <3> HIDE DEF Back
    <3> QED BY <1>4, <1>5, <1>6, <2>1
  <2>2. \A j \in Back : j \in Nat /\ k \in Nat
    BY <1>4
  <2> HIDE DEF Back
  <2> QED BY <2>1, <2>2
<1>8. n - k \in over /\ \A i \in over : i <= n - k
  <2> HIDE DEF n
  <2>1. k \in Nat /\ k <= n /\ n - k \in over
    BY <1>5
  <2>2. ASSUME NEW i \in over PROVE i <= n - k
    <3>1. i \in Nat /\ k <= n - i
      <4> HIDE DEF Back
      <4> QED BY <1>1, <1>2, <1>3, <1>7
    <3> HIDE DEF Back
    <3> QED BY <1>1, <2>1, <3>1
  <2> QED BY <2>1, <2>2
<1> DEFINE m == n - k
<1>9. Fresh(s) \subseteq Nat /\ over \subseteq Nat /\ m \in over /\ \A i \in over : i <= m
  BY <1>8, FreshPlaces
<1> HIDE DEF m
<1>10. {j \in Fresh(s) : \E i \in over : j <= i} = {j \in Fresh(s) : j <= m}
  BY <1>9
<1> QED BY <1>9, <1>10 DEF Mark, Number

\* What a promotion stages closes the references of its records.
LEMMA StageCloses ==
    ASSUME Inv, Closed(catalogue, catalogue), NEW s \in Slices, ~ Orphan(s)
    PROVE  Closed(catalogue \cup NewRecords(s),
                  catalogue \cup NewRecords(s) \cup FlippedRecords(s))
<1> DEFINE New(i) == [num |-> Number(s, i), slug |-> Authored[s][i].slug, slice |-> s,
                      by |-> Mark(s, OverSibling(s, i))]
           Old(c) == [c EXCEPT !.by = Mark(s, OverResident(s, c))]
           ds == catalogue \cup NewRecords(s)
           cs == catalogue \cup NewRecords(s) \cup FlippedRecords(s)
<1>1. NewRecords(s) = {New(i) : i \in Fresh(s)}
  BY DEF NewRecords
<1>2. FlippedRecords(s) = {Old(c) : c \in {d \in catalogue : OverResident(s, d) # {}}}
  BY DEF FlippedRecords
<1>3. /\ \A i : /\ New(i).num = Number(s, i) /\ New(i).slug = Authored[s][i].slug
               /\ New(i).slice = s /\ New(i).by = Mark(s, OverSibling(s, i))
      /\ \A c \in catalogue : /\ Same(c, Old(c))
                              /\ Old(c).by = Mark(s, OverResident(s, c))
  BY DEF Inv, TypeOK, Record, Same
<1>4. \A i : OverSibling(s, i) \subseteq Fresh(s)
  BY DEF OverSibling
<1>5. \A c : OverResident(s, c) \subseteq Fresh(s)
  BY DEF OverResident
<1>6. Fresh(s) \subseteq DOMAIN Authored[s]
  BY DEF Fresh
<1> HIDE DEF New, Old
<1>7. ASSUME NEW d \in ds, NEW i \in DOMAIN Authored[d.slice],
             Authored[d.slice][i].slug = d.slug, NEW t \in Authored[d.slice][i].supersedes
      PROVE  \E c \in cs : Means(t, c) /\ c.by # 0
  <2>1. CASE d \in catalogue
    <3>1. \E c \in catalogue : Means(t, c) /\ c.by # 0
      BY <1>7, <2>1 DEF Closed, Answered
    <3> QED BY <3>1
  <2>2. CASE d \in NewRecords(s)
    <3>1. PICK k \in Fresh(s) : d = New(k)
      BY <1>1, <2>2
    <3>2. d.slice = s /\ d.slug = Authored[s][k].slug
      BY <1>3, <3>1
    <3>3. i = k
      BY <1>6, <1>7, <3>2, AuthoredAssumption
    <3>4. t \in Authored[s][k].supersedes
      BY <1>7, <3>2, <3>3
    <3>5. CASE Siblings(s, k, t) # {}
      <4>1. PICK j \in Siblings(s, k, t) : TRUE
        BY <3>5
      <4>2. j \in Fresh(s) /\ Authored[s][j].slug = t
        BY DEF Siblings
      <4>3. OverSibling(s, j) # {}
        BY <3>4 DEF OverSibling
      <4>4. New(j) \in cs /\ New(j).slug = t /\ New(j).by # 0
        BY <1>1, <1>3, <1>4, <4>2, <4>3, MarkType DEF Inv
      <4> QED BY <4>4 DEF Means
    <3>6. CASE Siblings(s, k, t) = {}
      <4>1. PICK c \in Resident(t) : TRUE
        BY <3>4, <3>6 DEF Orphan
      <4>2. c \in catalogue /\ (c.num = t \/ c.slug = t)
        BY DEF Resident
      <4>3. OverResident(s, c) # {}
        BY <3>4, <3>6, <4>1 DEF OverResident
      <4>4. Old(c) \in cs /\ Old(c).by # 0
        BY <1>2, <1>3, <1>5, <4>2, <4>3, MarkType DEF Inv
      <4> QED BY <1>3, <4>2, <4>4 DEF Means, Same
    <3> QED BY <3>5, <3>6
  <2> QED BY <2>1, <2>2
<1>8. ASSUME NEW c \in cs, c.by # 0
      PROVE  \E d \in ds : d.num = c.by /\ Supersedes(d, c)
  <2>1. CASE c \in catalogue
    <3>1. \E d \in catalogue : d.num = c.by /\ Supersedes(d, c)
      BY <1>8, <2>1 DEF Closed, Backed
    <3> QED BY <3>1
  <2>2. CASE c \in NewRecords(s)
    <3>1. PICK j \in Fresh(s) : c = New(j)
      BY <1>1, <2>2
    <3>2. c.slug = Authored[s][j].slug /\ c.by = Mark(s, OverSibling(s, j))
      BY <1>3, <3>1
    <3>3. OverSibling(s, j) # {}
      BY <1>8, <3>2 DEF Mark
    <3>4. PICK m \in OverSibling(s, j) : c.by = Number(s, m)
      BY <1>4, <3>2, <3>3, MarkNumber
    <3>5. PICK t \in Authored[s][m].supersedes : Authored[s][j].slug = t
      BY DEF OverSibling, Siblings
    <3>6. New(m) \in ds /\ New(m).num = c.by /\ m \in DOMAIN Authored[s]
      BY <1>1, <1>3, <1>4, <1>6, <3>4
    <3>7. Supersedes(New(m), c)
      BY <1>3, <3>2, <3>5, <3>6 DEF Supersedes, Means
    <3> QED BY <3>6, <3>7
  <2>3. CASE c \in FlippedRecords(s)
    <3>1. PICK o \in catalogue : OverResident(s, o) # {} /\ c = Old(o)
      BY <1>2, <2>3
    <3>2. Same(o, c) /\ c.by = Mark(s, OverResident(s, o))
      BY <1>3, <3>1
    <3>3. PICK m \in OverResident(s, o) : c.by = Number(s, m)
      BY <1>5, <3>1, <3>2, MarkNumber
    <3>4. PICK t \in Authored[s][m].supersedes : o \in Resident(t)
      BY DEF OverResident
    <3>5. o.num = t \/ o.slug = t
      BY <3>4 DEF Resident
    <3>6. New(m) \in ds /\ New(m).num = c.by /\ m \in DOMAIN Authored[s]
      BY <1>1, <1>3, <1>5, <1>6, <3>3
    <3>7. Supersedes(New(m), c)
      BY <1>3, <3>2, <3>4, <3>5, <3>6 DEF Supersedes, Means, Same
    <3> QED BY <3>6, <3>7
  <2> QED BY <2>1, <2>2, <2>3
<1> HIDE DEF ds, cs
<1>9. Closed(ds, cs)
  BY <1>7, <1>8 DEF Closed, Answered, Backed
<1> QED BY <1>9 DEF ds, cs

LEMMA StageRefs ==
    ASSUME Locked, Inv, RefInv, NEW a \in Actors, NEW s \in Slices, Stage(a, s)
    PROVE  RefInv'
<1>1. /\ catalogue' = catalogue /\ crashed' = crashed /\ ~ Orphan(s)
      /\ run' = [run EXCEPT ![a] = [active |-> TRUE, slice |-> s, writes |-> NewRecords(s),
                                    flips |-> FlippedRecords(s)]]
      /\ \A b \in Actors : ~ run[b].active
  BY DEF Stage
<1>2. /\ run'[a].active /\ run'[a].writes = NewRecords(s) /\ run'[a].flips = FlippedRecords(s)
      /\ \A b \in Actors : run'[b].active => b = a
  BY <1>1 DEF Inv, TypeOK
<1>3. SUFFICES ASSUME ~ crashed PROVE Closed(Promoted(a), States(a))'
  BY <1>1, <1>2 DEF RefInv, Quiet
<1>4. Closed(catalogue, catalogue)
  BY <1>1, <1>3 DEF RefInv, Quiet
<1>5. Closed(catalogue \cup NewRecords(s), catalogue \cup NewRecords(s) \cup FlippedRecords(s))
  BY <1>1, <1>4, StageCloses
<1>6. /\ Promoted(a)' = catalogue \cup NewRecords(s)
      /\ States(a)' = catalogue \cup NewRecords(s) \cup FlippedRecords(s)
  BY <1>1, <1>2 DEF Promoted, States
<1> QED BY <1>5, <1>6 DEF Closed, Answered, Backed

LEMMA WriteNewRefs ==
    ASSUME Inv, RefInv, NEW a \in Actors, WriteNew(a)
    PROVE  RefInv'
<1>1. PICK r \in run[a].writes :
        /\ catalogue' = Put(r)
        /\ run' = [run EXCEPT ![a].writes = @ \ {r}]
        /\ crashed' = crashed
  BY DEF WriteNew
<1>2. run[a].active /\ Pending(a) /\ r \in Record /\ catalogue \subseteq Record
  BY <1>1 DEF WriteNew, Inv, TypeOK
<1>3. catalogue' = catalogue \cup {r}
  BY <1>1, <1>2 DEF Put, Pending, Record
<1>4. /\ run'[a].writes = run[a].writes \ {r} /\ run'[a].flips = run[a].flips
      /\ \A b \in Actors : run'[b].active = run[b].active
  BY <1>1 DEF Inv, TypeOK
<1>5. \A b \in Actors : run'[b].active => b = a
  BY <1>2, <1>4 DEF Inv, Alone
<1>6. Promoted(a)' = Promoted(a) /\ States(a)' = States(a)
  BY <1>3, <1>4 DEF Promoted, States
<1>7. ~ crashed => Closed(Promoted(a), States(a))
  BY <1>2 DEF RefInv
<1>8. ~ Quiet'
  BY <1>2, <1>4 DEF Quiet
<1> QED BY <1>1, <1>5, <1>6, <1>7, <1>8 DEF RefInv, Closed, Answered, Backed

LEMMA FlipRefs ==
    ASSUME Inv, RefInv, NEW a \in Actors, Flip(a)
    PROVE  RefInv'
<1>1. PICK r \in run[a].flips :
        /\ run[a].writes = {}
        /\ catalogue' = Put(r)
        /\ run' = [run EXCEPT ![a].flips = @ \ {r}]
        /\ crashed' = crashed
  BY DEF Flip
<1>2. run[a].active /\ Pending(a)
  BY DEF Flip, Inv
<1>3. r.by # 0 /\ \E c \in catalogue : Same(c, r)
  BY <1>2 DEF Pending, Same
<1>4. PICK c \in catalogue : Same(c, r)
  BY <1>3
<1>5. catalogue' = (catalogue \ {c}) \cup {r}
  BY <1>1, <1>4 DEF Put, Same, Inv, Unique, OneNumberEach
<1>6. /\ run'[a].writes = {} /\ run'[a].flips = run[a].flips \ {r}
      /\ \A b \in Actors : run'[b].active = run[b].active
  BY <1>1 DEF Inv, TypeOK
<1>7. \A b \in Actors : run'[b].active => b = a
  BY <1>2, <1>6 DEF Inv, Alone
<1>8. ~ Quiet'
  BY <1>2, <1>6 DEF Quiet
<1>9. SUFFICES ASSUME ~ crashed PROVE Closed(Promoted(a), States(a))'
  BY <1>1, <1>7, <1>8 DEF RefInv
<1> DEFINE es == (catalogue \ {c}) \cup {r}
           bs == (catalogue \ {c}) \cup run[a].flips
<1>10. Closed(catalogue, catalogue \cup run[a].flips)
  BY <1>1, <1>2, <1>9 DEF RefInv, Promoted, States
<1>11. /\ \A e \in es : \E d \in catalogue : Same(d, e)
       /\ \A d \in catalogue : \E e \in es : Same(d, e)
  BY <1>4 DEF Same
<1>12. \A b \in catalogue \cup run[a].flips : b.by # 0 =>
         \E d \in bs : Same(b, d) /\ d.by # 0
  BY <1>1, <1>3, <1>4 DEF Same
<1>13. bs \subseteq catalogue \cup run[a].flips
  OBVIOUS
<1>14. Promoted(a)' = es /\ States(a)' = bs
  BY <1>1, <1>5, <1>6 DEF Promoted, States
<1> HIDE DEF es, bs
<1>15. Closed(es, bs)
  BY <1>10, <1>11, <1>12, <1>13, ClosedStays
<1> QED BY <1>14, <1>15 DEF Closed, Answered, Backed

LEMMA EndRefs ==
    ASSUME Inv, RefInv, NEW a \in Actors, Return(a) \/ Crash(a)
    PROVE  RefInv'
<1>1. CASE Crash(a)
  BY <1>1 DEF Crash, RefInv
<1>2. CASE Return(a)
  <2>1. /\ run[a].active /\ run[a].writes = {} /\ run[a].flips = {}
        /\ catalogue' = catalogue /\ crashed' = crashed /\ run' = [run EXCEPT ![a] = Idle]
    BY <1>2 DEF Return
  <2>2. \A b \in Actors : ~ run'[b].active
    BY <2>1, IdleType DEF Inv, TypeOK, Alone
  <2>3. ~ crashed => Closed(catalogue, catalogue)
    BY <2>1 DEF RefInv, Promoted, States
  <2> QED BY <2>1, <2>2, <2>3 DEF RefInv, Closed, Answered, Backed
<1> QED BY <1>1, <1>2

(***************************************************************************)
(* As long as no promotion was cut short, what a record supersedes is      *)
(* there and marked, and every mark names a record that supersedes what it *)
(* marks, whether the two came with one slice or with two.                 *)
(***************************************************************************)
THEOREM ReferencesAreClosed ==
    ASSUME Locked
    PROVE  Spec => []ReferencesClosed
<1>1. Init => Inv /\ RefInv
  <2> SUFFICES ASSUME Init PROVE RefInv
    BY InitInv
  <2>1. catalogue = {} /\ \A a \in Actors : ~ run[a].active
    BY IdleType DEF Init
  <2> QED BY <2>1 DEF RefInv, Closed, Answered, Backed
<1>2. Inv /\ RefInv /\ [Next]_vars => (Inv /\ RefInv)'
  <2> SUFFICES ASSUME Inv, RefInv, [Next]_vars PROVE RefInv'
    BY NextInv
  <2>1. CASE UNCHANGED vars
    BY <2>1 DEF vars, RefInv, Quiet, Closed, Answered, Backed, Promoted, States
  <2>2. ASSUME NEW a \in Actors, NEW s \in Slices, Stage(a, s) PROVE RefInv'
    BY <2>2, StageRefs
  <2>3. ASSUME NEW a \in Actors, WriteNew(a) PROVE RefInv'
    BY <2>3, WriteNewRefs
  <2>4. ASSUME NEW a \in Actors, Flip(a) PROVE RefInv'
    BY <2>4, FlipRefs
  <2>5. ASSUME NEW a \in Actors, Return(a) \/ Crash(a) PROVE RefInv'
    BY <2>5, EndRefs
  <2> QED BY <2>1, <2>2, <2>3, <2>4, <2>5 DEF Next
<1>3. RefInv => ReferencesClosed
  <2> SUFFICES ASSUME ~ crashed, Quiet, Closed(catalogue, catalogue)
               PROVE  SupersededIsMarked /\ MarksAreRight
    BY DEF RefInv, ReferencesClosed, SupersededIsMarked, MarksAreRight
  <2>1. SupersededIsMarked
    BY DEF Closed, Answered, SupersededIsMarked
  <2>2. MarksAreRight
    BY DEF Closed, Backed, MarksAreRight
  <2> QED BY <2>1, <2>2
<1> QED BY <1>1, <1>2, <1>3, PTL DEF Spec

=================================================================================
