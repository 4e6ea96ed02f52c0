---------------------------- MODULE ComponentCatalog ----------------------------
(***************************************************************************)
(* components.yaml, the names of the groups that several screens share.    *)
(* `catalog infer --phase report` lists the groups and the names they      *)
(* have; the build skill names those that have none; `--phase bind`        *)
(* records its names and those of parts.yaml. Builds of several slices do  *)
(* so side by side, without a lock, while the operator edits the catalog   *)
(* and the parts. A dry run of bind, which saves nothing, is a report.     *)
(***************************************************************************)
EXTENDS Naturals, FiniteSets

CONSTANTS
    Builders,       \* builds, each with one report and one bind
    Prints,         \* fingerprints of groups, numbers in the order of their digits
    Labels,         \* what the skill and the operator call them, in alphabetical order
    Compositions,   \* the groups of the composition baseline, pairs of a screen and a print
    Caches,         \* the groups of the candidate cache
    PartLists,      \* the parts the operator may write
    Catalogs,       \* components.yaml at the start
    MaxEdits,       \* bound on what the operator and merges do
    None

VARIABLES
    composition,    \* the composition baseline, or None
    cached,         \* the candidate cache
    pins,           \* parts.yaml: the print of each part, or None
    components,     \* components.yaml: status and print of each slug, or None
    builder,        \* the state of each build
    edits

catalogVars == <<composition, cached, pins, components, builder, edits>>

\* The bare label, or the label with a print as its suffix.
Bare(n) == <<n, 0>>
Suffixed(n, p) == <<n, p>>

Idle == [pc |-> "idle", names |-> None, desired |-> << >>, staged |-> << >>, behind |-> FALSE]

Init ==
    /\ composition \in Compositions /\ cached \in Caches
    /\ pins \in PartLists
    /\ components \in Catalogs
    /\ builder = [b \in Builders |-> Idle]
    /\ edits = 0

-----------------------------------------------------------------------------
Occurrences == composition \cup cached
Spans(p) == {o[1] : o \in {q \in Occurrences : q[2] = p}}
Observed == {p \in Prints : Spans(p) # {}}

\* Of the parts that normalise to one skeleton the first binds the print.
PinsOf(p) == IF pins = None THEN {} ELSE {n \in DOMAIN pins : pins[n] = p}
IsPinned(p) == p \in Observed /\ PinsOf(p) # {}
Pin(p) == CHOOSE n \in PinsOf(p) : \A m \in PinsOf(p) : n <= m

\* A pinned print needs one screen, another one the number asked for. No baseline, no clusters.
Clusters(min) ==
    IF composition = None THEN {}
    ELSE {p \in Observed : IsPinned(p) \/ Cardinality(Spans(p)) >= min}

Entries == IF components = None THEN << >> ELSE components

Of(entries, p) == {s \in DOMAIN entries : entries[s].print = p}
LastOf(slugs) ==
    IF slugs = {} THEN None
    ELSE CHOOSE s \in slugs : \A r \in slugs : r[1] < s[1] \/ (r[1] = s[1] /\ r[2] <= s[2])

\* Mutant of Index: entries the operator has rejected are no names.
IndexConfirmed(entries, p) == LastOf({s \in Of(entries, p) : entries[s].status = "confirmed"})

\* fingerprint_index: of two entries of a print the last one stays in the map.
Index(entries, p) == LastOf(Of(entries, p))

\* bound-slug of a cluster
Echo(p) == IF IsPinned(p) THEN Bare(Pin(p)) ELSE Index(Entries, p)

\* report, and the bindings the skill writes for clusters that have no name: some, none,
\* or no file at all.
Report(b) ==
    /\ builder[b] = Idle
    /\ \E min \in 1 .. 2 :
         LET nameless == {p \in Clusters(min) : Echo(p) = None}
         IN  \E names \in {None} \cup UNION {[some -> Labels] : some \in SUBSET nameless} :
                builder' = [builder EXCEPT ![b].pc = "named", ![b].names = names]
    /\ UNCHANGED <<composition, cached, pins, components, edits>>

-----------------------------------------------------------------------------
Want(n, pinned) == [label |-> n, pinned |-> pinned]

\* combine_desired: a name for a pinned print is dropped.
Combined(names) ==
    LET projected == IF composition = None THEN {} ELSE {p \in Observed : IsPinned(p)}
        named == IF names = None THEN {} ELSE DOMAIN names
    IN  [p \in projected \cup named |->
            IF p \in projected THEN Want(Pin(p), TRUE) ELSE Want(names[p], FALSE)]

Project(b) ==
    /\ builder[b].pc = "named"
    /\ IF builder[b].names = None /\ pins = None
       THEN builder' = [builder EXCEPT ![b].pc = "refused"]
       ELSE builder' = [builder EXCEPT ![b].pc = "load", ![b].desired = Combined(builder[b].names)]
    /\ UNCHANGED <<composition, cached, pins, components, edits>>

\* resolve_slugs: among the prints of a label the pinned one, or else the first, takes it
\* bare.
Resolved(desired, p) ==
    LET n == desired[p].label
        group == {q \in DOMAIN desired : desired[q].label = n}
        Before(q, r) == desired[q].pinned \/ (~ desired[r].pinned /\ q <= r)
    IN  IF \A q \in group : Before(p, q) THEN Bare(n) ELSE Suffixed(n, p)

\* upsert_bound: an entry that is there is left as it is.
Bound(entries, desired) ==
    LET slug == [p \in DOMAIN desired |-> Resolved(desired, p)]
    IN  [s \in DOMAIN entries \cup {slug[p] : p \in DOMAIN desired} |->
            IF s \in DOMAIN entries THEN entries[s]
            ELSE [status |-> "confirmed", print |-> CHOOSE p \in DOMAIN desired : slug[p] = s]]

Load(b) ==
    /\ builder[b].pc = "load"
    /\ builder' = [builder EXCEPT ![b].pc = "save", ![b].staged = Bound(Entries, builder[b].desired)]
    /\ UNCHANGED <<composition, cached, pins, components, edits>>

\* History: the builds that have reported miss a change of the catalog from here on.
Behind(builds, c) ==
    [a \in Builders |->
        IF a # c /\ builds[a].pc \in {"named", "load", "save"} THEN [builds[a] EXCEPT !.behind = TRUE]
        ELSE builds[a]]

\* The whole file; a catalog of nothing is not written.
Save(b) ==
    /\ builder[b].pc = "save"
    /\ components' = IF DOMAIN builder[b].staged = {} THEN components ELSE builder[b].staged
    /\ LET done == [builder EXCEPT ![b].pc = "saved"]
       IN  builder' = IF components' = components THEN done ELSE Behind(done, b)
    /\ UNCHANGED <<composition, cached, pins, edits>>

-----------------------------------------------------------------------------
Edit == edits < MaxEdits /\ edits' = edits + 1

\* The operator rejects an entry, renames one, or writes parts.
Curate ==
    /\ Edit
    /\ \E s \in DOMAIN Entries :
        \/ components' = [components EXCEPT ![s].status = "rejected"]
        \/ \E n \in Labels :
             /\ Bare(n) \notin DOMAIN Entries
             /\ components' = [r \in (DOMAIN Entries \ {s}) \cup {Bare(n)} |->
                                IF r = Bare(n) THEN Entries[s] ELSE Entries[r]]
    /\ builder' = Behind(builder, None)
    /\ UNCHANGED <<composition, cached, pins>>

WriteParts ==
    /\ Edit
    /\ pins' \in PartLists
    /\ UNCHANGED <<composition, cached, components, builder>>

\* A slice is merged, or a screenshot is taken.
Evolve ==
    /\ Edit
    /\ composition' \in Compositions /\ cached' \in Caches
    /\ UNCHANGED <<pins, components, builder>>

Next ==
    \/ \E b \in Builders : Report(b) \/ Project(b) \/ Load(b) \/ Save(b)
    \/ Curate \/ WriteParts \/ Evolve

CatalogSpec == Init /\ [][Next]_catalogVars

-----------------------------------------------------------------------------
(***************************************************************************)
(* A bind whose catalog nobody has changed since its report keeps every    *)
(* entry. A print that no part names keeps the entry it has, confirmed or  *)
(* rejected, and gets no second one; one that the skill has named has that *)
(* name from then on, unless the catalog gives it to another group.        *)
(***************************************************************************)
NamesKept ==
    \A b \in Builders :
        builder[b].pc = "save" /\ builder'[b].pc = "saved" /\ ~ builder[b].behind =>
            LET names == builder[b].names
                desired == builder[b].desired
                now == IF components' = None THEN << >> ELSE components'
            IN  /\ \A s \in DOMAIN Entries : s \in DOMAIN now /\ now[s] = Entries[s]
                /\ \A p \in Prints : (p \in DOMAIN desired => ~ desired[p].pinned) =>
                    /\ Of(Entries, p) # {} => Of(now, p) = Of(Entries, p)
                    /\ p \in DOMAIN desired /\ Bare(names[p]) \notin DOMAIN Entries =>
                          \E s \in Of(now, p) : s[1] = names[p] /\ s = Index(now, p)

BindsKeepNames == [][NamesKept]_catalogVars

===================================================================================
