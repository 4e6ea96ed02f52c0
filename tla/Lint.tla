---------------------------------- MODULE Lint ----------------------------------
(***************************************************************************)
(* `specify lint`: the rules of the layers are resolved and narrowed to    *)
(* those that apply, their hints are evaluated over the facts of the tree, *)
(* findings of one fingerprint become one, the specify-ignore directives   *)
(* in the files settle findings and are judged themselves, and what is     *)
(* still open decides the exit code.                                       *)
(*                                                                         *)
(* A tree is a function from paths to files; paths and rule ids are        *)
(* numbers, as both are ordered. A line starts with a comment, with code,  *)
(* or is blank; it has the columns a pattern matches at, maybe a link and  *)
(* maybe a directive.                                                      *)
(***************************************************************************)
EXTENDS Naturals, Sequences, SequencesExt, FiniteSetsExt

CONSTANTS None

Unjustified == 22          \* UNI-022
Orphaned == 23             \* UNI-023
ToolUndeclared == 90       \* tool.undeclared
ToolFailed == 91           \* tool.invocation-failed
ToolFound == 92            \* what a tool reports, under an id of its own
Blocking == {1, 2}         \* critical and important, of severities 1 .. 4

-----------------------------------------------------------------------------
\* The rules of an adapter: the project's own, else the cached, else those under --rules-root.
Overlay(dirs, explicit) ==
    IF dirs.own # None THEN dirs.own
    ELSE IF dirs.cached # None THEN dirs.cached
    ELSE IF explicit /\ dirs.bundled # None THEN dirs.bundled
    ELSE << >>

\* Where the shared and the core rules are: --rules-root, else the project, else the cache.
RulesRoot(roots) ==
    IF roots.explicit # None THEN roots.explicit
    ELSE IF roots.own # None THEN roots.own
    ELSE roots.cached

\* The layers, in the order in which the rules of one severity are run.
Origin == [target |-> 1, source |-> 2, shared |-> 3, core |-> 4]

\* Every rule file with the layer it comes from; the layers in the order they are read.
Entries(in) ==
    LET from(origin, rules) == [i \in DOMAIN rules |-> [rule |-> rules[i], origin |-> origin]]
        root == RulesRoot(in.roots)
        overlay(adapter) == Overlay(in.overlays[adapter], in.roots.explicit # None)
    IN  from(Origin.shared, root.shared) \o from(Origin.core, root.core)
          \o FlattenSeq([i \in DOMAIN in.sources |-> from(Origin.source, overlay(in.sources[i]))])
          \o from(Origin.target, overlay(in.target))

Duplicated(entries) ==
    \E i, j \in DOMAIN entries : i # j /\ entries[i].rule.id = entries[j].rule.id

\* What a rule asks for meets what the caller names; a caller who names nothing meets no demand.
Meets(wanted, given) == wanted = None \/ wanted \cap given # {}

Applies(entry, in) ==
    /\ entry.origin = Origin.core => in.includeCore
    /\ ~entry.rule.deprecated
    /\ Meets(entry.rule.adapters, Range(in.sources) \cup {in.target})
    /\ Meets(entry.rule.languages, in.languages)
    /\ Meets(entry.rule.paths, in.paths)
    /\ entry.rule.artifacts = None          \* callers have no way to name any

\* Mutant of Sorted: by id alone.
SortedById(entries) == SetToSortSeq(entries, LAMBDA a, b : a.rule.id < b.rule.id)

\* The rules in the order they are run: the most severe first.
Sorted(entries) ==
    SetToSortSeq(entries, LAMBDA a, b :
        \/ a.rule.severity < b.rule.severity
        \/ a.rule.severity = b.rule.severity /\ a.origin < b.origin
        \/ a.rule.severity = b.rule.severity /\ a.origin = b.origin /\ a.rule.id < b.rule.id)

Resolved(in) ==
    LET sorted == Sorted({e \in Range(Entries(in)) : Applies(e, in)})
    IN  [i \in DOMAIN sorted |-> sorted[i].rule]

-----------------------------------------------------------------------------
\* Directives.

\* The line a directive speaks of: its own when code stands before it, else the next line of code.
Target(lines, at) ==
    IF lines[at].lead = "code" THEN at
    ELSE Min({i \in DOMAIN lines : i > at /\ lines[i].lead = "code"} \cup {Len(lines) + 1})

Directives(files) ==
    UNION {{[path |-> p, line |-> i, rule |-> files[p].lines[i].directive.rule,
             reason |-> files[p].lines[i].directive.reason,
             target |-> Target(files[p].lines, i)] :
              i \in {j \in DOMAIN files[p].lines : files[p].lines[j].directive # None}} :
           p \in {q \in DOMAIN files : files[q].kind = "source"}}

-----------------------------------------------------------------------------
\* Findings. Line 0 and column 0 stand for none; path 0 for no location at all.

Finding(id, severity, path, line, column, evidence) ==
    [rule |-> id, severity |-> severity, path |-> path, line |-> line, column |-> column,
     evidence |-> evidence, kind |-> "violation", status |-> "open"]

Fingerprint(finding) ==
    <<finding.rule, finding.path, finding.line, finding.column, finding.evidence>>

\* The files a rule looks at: what its patterns include, all when none does, less what they exclude.
Candidates(rule, files) ==
    LET includes == {g \in rule.globs : ~g.out}
        included == IF includes = {} THEN DOMAIN files ELSE UNION {g.paths : g \in includes}
    IN  (included \cap DOMAIN files) \ UNION {g.paths : g \in rule.globs \ includes}

Matches(rule, hint, files, candidates) ==
    UNION {UNION {{Finding(rule.id, rule.severity, p, i, c, <<"text">>) :
                      c \in files[p].lines[i].hits} : i \in DOMAIN files[p].lines} :
           p \in {q \in candidates : files[q].kind # "binary"}}

BrokenLinks(rule, hint, files, candidates) ==
    {Finding(rule.id, rule.severity, l[1], l[2], 0, <<"link", files[l[1]].lines[l[2]].link>>) :
        l \in {m \in UNION {{p} \X DOMAIN files[p].lines : p \in candidates} :
                  LET link == files[m[1]].lines[m[2]].link
                  IN  link # None /\ link \notin DOMAIN files}}

\* One finding for a name several candidates have, at the first of them.
Duplicates(rule, hint, files, candidates) ==
    LET named(n) == {p \in candidates : files[p].name = n}
    IN  {Finding(rule.id, rule.severity, Min(named(n)), 1, 0, <<"names", n, named(n)>>) :
            n \in {m \in {files[p].name : p \in candidates} \ {None} : Cardinality(named(m)) > 1}}

Overlong(rule, hint, files, candidates) ==
    {Finding(rule.id, rule.severity, p, 1, 0, <<"lines", Len(files[p].lines)>>) :
        p \in {q \in candidates : Len(files[q].lines) > hint.value}}

\* A file that must be there is looked for in the whole tree.
Missing(rule, hint, files, candidates) ==
    {Finding(rule.id, rule.severity, hint.value, 0, 0, <<"missing">>) : p \in {hint.value} \ DOMAIN files}

\* A declared tool is run on every candidate. What it finds has the tool's severities; that it
\* failed and found nothing has the rule's.
Tool(rule, hint, files, candidates) ==
    IF hint.value = "undeclared"
    THEN {Finding(ToolUndeclared, 2, 0, 0, 0, <<"tool", hint.value>>)}
    ELSE {Finding(ToolFailed, rule.severity, p, 0, 0, <<"stderr">>) :
             p \in {q \in candidates : files[q].tool.fails /\ files[q].tool.found = {}}}
           \cup UNION {{Finding(ToolFound, s, p, 1, 0, <<"severity", s>>) : s \in files[p].tool.found} : p \in candidates}

Evaluated(rule, hint, files, candidates) ==
    CASE hint.kind = "reference-resolves" -> BrokenLinks(rule, hint, files, candidates)
      [] hint.kind = "unique" -> Duplicates(rule, hint, files, candidates)
      [] hint.kind = "cardinality" -> Overlong(rule, hint, files, candidates)
      [] hint.kind = "presence" -> Missing(rule, hint, files, candidates)
      [] hint.kind = "regex" -> Matches(rule, hint, files, candidates)
      [] hint.kind = "tool" -> Tool(rule, hint, files, candidates)

\* A rule left to a model asks for a review; the others report what their hints find.
RuleFindings(rule, files) ==
    IF rule.review
    THEN {[Finding(rule.id, rule.severity, 0, 0, 0, <<"trigger">>) EXCEPT !.kind = "review"]}
    ELSE UNION {Evaluated(rule, h, files, Candidates(rule, files)) : h \in rule.hints}

Evaluate(rules, filter, files) ==
    FlattenSeq([i \in DOMAIN rules |->
        IF filter # {} /\ rules[i].id \notin filter THEN << >>
        ELSE SetToSeq(RuleFindings(rules[i], files))])

\* The first finding of every fingerprint stays.
Deduplicated(findings) ==
    {findings[i] : i \in {j \in DOMAIN findings :
        ~\E k \in 1 .. (j - 1) : Fingerprint(findings[k]) = Fingerprint(findings[j])}}

-----------------------------------------------------------------------------
Speaks(directive, finding) ==
    directive.rule = finding.rule /\ directive.path = finding.path /\ directive.target = finding.line

\* The first directive that speaks of a finding settles it.
Settled(finding, directives) ==
    LET speaking == {d \in directives : Speaks(d, finding)}
        first == CHOOSE d \in speaking : \A e \in speaking : d.line <= e.line
    IN  IF speaking = {} THEN finding
        ELSE [finding EXCEPT !.status =
                 IF first.reason = "false-positive" THEN "false-positive" ELSE "ignored"]

\* Findings about the directives themselves, when the rules that ask for them are resolved.
Judged(rules, findings, directives) ==
    LET about(id, some) ==
            UNION {{Finding(id, r.severity, d.path, d.line, 0, <<"directive", d.rule>>) : d \in some} :
                   r \in {q \in Range(rules) : q.id = id}}
    IN  about(Unjustified, {d \in directives : d.reason \in {None, "short"}})
          \cup about(Orphaned, {d \in directives : ~\E f \in findings : Speaks(d, f)})

Blocks(finding) ==
    finding.kind = "violation" /\ finding.severity \in Blocking /\ finding.status = "open"

\* The report of a run; none without rules or when a rule id is taken twice.
Lint(in) ==
    IF RulesRoot(in.roots) = None \/ Duplicated(Entries(in)) THEN {}
    ELSE LET rules == Resolved(in)
             directives == Directives(in.files)
             findings == Deduplicated(Evaluate(rules, in.filter, in.files))
         IN  {{Settled(f, directives) : f \in findings} \cup Judged(rules, findings, directives)}

=============================================================================
