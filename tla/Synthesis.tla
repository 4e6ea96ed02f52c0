------------------------------- MODULE Synthesis -------------------------------
(***************************************************************************)
(* The kernel of `slice synthesize --from` and what reads its output back: *)
(* the resolution of disagreeing claims by authority, the projection of    *)
(* the kernel-owned fields of model.yaml, the rendering of spec.md, its    *)
(* parser, the provenance rules and the comparison of both that `slice     *)
(* validate` makes, and the index `slice provenance` prints.               *)
(*                                                                         *)
(* A draft requirement has a title, the tag the title happens to end in,   *)
(* a domain, claims, an agreement verdict and the lines of its body. A     *)
(* claim has a source, an id and a kind. A line of spec.md is a record of  *)
(* its kind and value; its text is left out.                               *)
(***************************************************************************)
EXTENDS Naturals, Sequences, SequencesExt, FiniteSetsExt

CONSTANT None

ClassRank == [behaviour |-> 0, documentation |-> 1, intent |-> 2]
Override == 3

\* An override of the claim's kind beats every class; a source without a class is
\* taken for behaviour.
EffectiveLevel(claim, authority, overrides) ==
    IF overrides[claim.kind] = claim.source THEN Override
    ELSE IF authority[claim.source] = None THEN ClassRank.behaviour
    ELSE ClassRank[authority[claim.source]]

Uniform(claims, status, resolution) ==
    [status |-> status, resolution |-> resolution, winners |-> [i \in DOMAIN claims |-> None]]

\* A single source at the top level wins, with all its claims of that level.
ResolveDisagreement(claims, authority, overrides) ==
    LET level == [i \in DOMAIN claims |-> EffectiveLevel(claims[i], authority, overrides)]
        top == Max({level[i] : i \in DOMAIN claims})
        winning == {claims[i].source : i \in {j \in DOMAIN claims : level[j] = top}}
    IN  IF Cardinality(winning) = 1
        THEN [status |-> "divergence",
              resolution |-> IF top = Override THEN "per-slice-override" ELSE "authority-resolved",
              winners |-> [i \in DOMAIN claims |-> level[i] = top]]
        ELSE Uniform(claims, "conflict", "tied-conflict")

Resolve(claims, authority, overrides, agreement) ==
    CASE Len(claims) = 0 -> Uniform(claims, "unknown", "unknown-no-evidence")
      [] Len(claims) = 1 -> Uniform(claims, "agreed", "single-source")
      [] Len(claims) > 1 /\ agreement = "disagreed" ->
            ResolveDisagreement(claims, authority, overrides)
      [] OTHER -> Uniform(claims, "agreed", "single-value-agreement")

-----------------------------------------------------------------------------
(***************************************************************************)
(* The projection.                                                         *)
(***************************************************************************)

SourceLevel(s, claims, authority, overrides) ==
    Max({EffectiveLevel(claims[i], authority, overrides) :
            i \in {j \in DOMAIN claims : claims[j].source = s}})

\* Mutant of RenderedSources: the sources in the order of their claims.
SourcesInOrder(claims, authority, overrides) ==
    FoldLeft(LAMBDA acc, c : IF Contains(acc, c.source) THEN acc ELSE Append(acc, c.source),
             << >>, claims)

\* The sources in the order of their first claims, stably sorted by falling level.
RenderedSources(claims, authority, overrides) ==
    LET order == FoldLeft(LAMBDA acc, c : IF Contains(acc, c.source) THEN acc
                                          ELSE Append(acc, c.source), << >>, claims)
        At(l) == SelectSeq(order, LAMBDA s : SourceLevel(s, claims, authority, overrides) = l)
    IN  At(3) \o At(2) \o At(1) \o At(0)

\* check_claim_anchors: an orphan, or a kind other than the evidence has.
Anchored(draft, evidence) ==
    \A i \in DOMAIN draft.requirements :
        Range(draft.requirements[i].claims) \subseteq evidence

\* check_cross_refs, after the ids are given out.
CrossRefs(draft) == draft.satisfies \subseteq DOMAIN draft.requirements

\* REQ-<i> for the i-th requirement; what the agent put into these fields is dropped.
Projected(draft, authority, overrides) ==
    [draft EXCEPT !.requirements = [i \in DOMAIN @ |->
        LET r == @[i]
            res == Resolve(r.claims, authority, overrides, r.agreement)
        IN  r @@ [id |-> i, status |-> res.status, winners |-> res.winners,
                  sources |-> RenderedSources(r.claims, authority, overrides)]]]

\* project: the model, or nothing if a check refuses it.
Project(draft, evidence, authority, overrides) ==
    IF Anchored(draft, evidence) /\ CrossRefs(draft)
    THEN {Projected(draft, authority, overrides)} ELSE {}

-----------------------------------------------------------------------------
(***************************************************************************)
(* spec.md: rendering and parsing.                                         *)
(***************************************************************************)

Line(kind, value) == [kind |-> kind, value |-> value]
Blank == Line("blank", None)

Domain(r) == IF r.domain = None THEN "default" ELSE r.domain

\* A status other than agreed is appended to the title as a tag.
RenderBlock(r) ==
    <<Line("heading", r.tag \o (IF r.status = "agreed" THEN << >> ELSE <<r.status>>)),
      Line("ID", r.id), Line("Sources", r.sources), Line("Status", r.status), Blank>> \o r.body

\* render_spec_files: a file for each domain, its requirements in their order.
RenderSpecFiles(model) ==
    LET Of(d) == SelectSeq(model.requirements, LAMBDA r : Domain(r) = d)
    IN  [d \in {Domain(model.requirements[i]) : i \in DOMAIN model.requirements} |->
            FlattenSeq([i \in DOMAIN Of(d) |->
                RenderBlock(Of(d)[i]) \o (IF i < Len(Of(d)) THEN <<Blank>> ELSE << >>)])]

NoBlock == [open |-> FALSE]
NewBlock(line) ==
    [open |-> TRUE, done |-> FALSE, tag |-> line.value, ID |-> None, Sources |-> None,
     Status |-> None]

\* Mutant of ReadLine: a blank line does not end the metadata.
ReadLineThrough(p, line) ==
    CASE line.kind = "heading" ->
            [p EXCEPT !.requirements = IF p.block.open THEN Append(@, p.block) ELSE @,
                      !.block = NewBlock(line)]
      [] line.kind \in {"ID", "Sources", "Status"} /\ p.block.open ->
            [p EXCEPT !.duplicate = @ \/ p.block[line.kind] # None,
                      !.block[line.kind] = line.value]
      [] OTHER -> p

\* One line of parse_spec_md. Metadata end at the first other line, or at a blank
\* one once some were seen.
ReadLine(p, line) ==
    LET seen == p.block.ID # None \/ p.block.Sources # None \/ p.block.Status # None
    IN  CASE line.kind = "heading" ->
                [p EXCEPT !.requirements = IF p.block.open THEN Append(@, p.block) ELSE @,
                          !.block = NewBlock(line)]
          [] line.kind # "heading" /\ (~ p.block.open \/ p.block.done) -> p
          [] line.kind = "blank" /\ p.block.open /\ ~ p.block.done ->
                [p EXCEPT !.block.done = seen]
          [] line.kind = "text" /\ p.block.open /\ ~ p.block.done ->
                [p EXCEPT !.block.done = TRUE]
          [] line.kind \in {"ID", "Sources", "Status"} /\ p.block.open /\ ~ p.block.done ->
                [p EXCEPT !.duplicate = @ \/ p.block[line.kind] # None,
                          !.block[line.kind] = line.value]

ParseSpec(lines) ==
    LET p == FoldLeft(ReadLine,
                      [requirements |-> << >>, block |-> NoBlock, duplicate |-> FALSE], lines)
    IN  [duplicate |-> p.duplicate,
         requirements |-> IF p.block.open THEN Append(p.requirements, p.block)
                          ELSE p.requirements]

\* split_heading_tag: the last tag of the heading.
HeadingTag(r) == IF r.tag = << >> THEN None ELSE Last(r.tag)

-----------------------------------------------------------------------------
(***************************************************************************)
(* `slice validate` on the rendered files.                                 *)
(***************************************************************************)

\* provenance::validate for one requirement, keys being the sources of the plan entry.
RequirementFindings(r, keys) ==
    (IF r.ID = None THEN {"id-missing"} ELSE {})
    \cup (IF r.Sources = None THEN {"sources-missing"}
          ELSE IF r.Sources = << >>
               THEN (IF r.Status # "unknown" THEN {"sources-empty"} ELSE {})
          ELSE IF keys # {} /\ ~ Range(r.Sources) \subseteq keys
               THEN {"source-undefined"} ELSE {})
    \cup (IF r.Status = None THEN {"status-missing"}
          ELSE IF r.Status # (IF HeadingTag(r) = None THEN "agreed" ELSE HeadingTag(r))
               THEN {"tag-status-mismatch"} ELSE {})

Unannotated(spec) == \A i \in DOMAIN spec.requirements :
    spec.requirements[i].Sources = None /\ spec.requirements[i].Status = None

ProvenanceFindings(lines, keys) ==
    LET spec == ParseSpec(lines)
    IN  IF Unannotated(spec) THEN {}
        ELSE (IF spec.duplicate THEN {"duplicate"} ELSE {})
             \cup UNION {RequirementFindings(spec.requirements[i], keys) :
                            i \in DOMAIN spec.requirements}

\* provenance_stale_findings: the first requirement of the id in the file of its domain.
Stale(model, specs) ==
    \E i \in DOMAIN model.requirements :
        LET r == model.requirements[i]
            parsed == ParseSpec(specs[Domain(r)]).requirements
            j == SelectInSeq(parsed, LAMBDA q : q.ID = r.id)
        IN  \/ Domain(r) \notin DOMAIN specs
            \/ j = 0
            \/ parsed[j].Sources # r.sources
            \/ parsed[j].Status # r.status

\* source_orphan_findings and claim_kind_mismatch_findings.
ModelOrphans(model, evidence) == ~ Anchored(model, evidence)

Findings(model, specs, evidence, keys) ==
    UNION {ProvenanceFindings(specs[d], keys) : d \in DOMAIN specs}
    \cup (IF Stale(model, specs) THEN {"stale"} ELSE {})
    \cup (IF ModelOrphans(model, evidence) THEN {"orphan"} ELSE {})

\* to_provenance_index: the resolution is computed again, the status is the stored one.
Index(model, authority, overrides) ==
    [i \in DOMAIN model.requirements |->
        LET r == model.requirements[i]
            wins == SelectInSeq(r.winners, LAMBDA w : w = TRUE)
        IN  [status |-> r.status,
             resolution |-> Resolve(r.claims, authority, overrides, r.agreement).resolution,
             winner |-> IF wins = 0 THEN None ELSE r.claims[wins].source]]

=============================================================================
