--------------------------------- MODULE MCParts ---------------------------------
(***************************************************************************)
(* The instance of Parts and Kernels for TLC.                              *)
(***************************************************************************)
EXTENDS Kernels, TLC

CONSTANTS code, docs, criterion, example, home, detail, cart            \* Kernels
CONSTANTS login, audit, odd, none, nameA, nameB, nameC, short, long, bare, MaxEntries  \* SpecBaseline
CONSTANTS scan, read, survey, signIn                                    \* SourceOps
CONSTANTS main, changeX, changeY                                                    \* WorkspaceSlot
CONSTANTS good, ann, bob, gc                                            \* ToolCache, PlanStore
CONSTANTS omnia                                                         \* ProjectInit
CONSTANTS api, ui                                                       \* PlanStore

-----------------------------------------------------------------------------
\* Synthesis: two sources, three claims, one requirement of any shape and a second.
MCEvidence == {[source |-> s, id |-> 1, kind |-> criterion] : s \in {code, docs}}
                \cup {[source |-> code, id |-> 2, kind |-> example]}
Text == S!Line("text", None)
Bodies == {<< >>, <<Text>>, <<S!Line("Status", "agreed"), S!Blank, S!Line("Sources", << >>)>>,
           <<Text, S!Line("heading", << >>), Text>>}
MCRequirements ==
    [tag : {<< >>, <<"conflict">>}, domain : {None, "auth"},
     claims : SeqOf(MCEvidence, 2), agreement : {"agreed", "disagreed"}, body : Bodies]
MCSecond == {r \in MCRequirements : r.domain = None /\ r.body = <<Text>> /\ Len(r.claims) = 1
                                    /\ r.agreement = "agreed" /\ r.tag = << >>}
MCDrafts == {[requirements |-> rs, satisfies |-> {1}] :
                rs \in {<<r>> : r \in MCRequirements}
                        \cup {<<r, q>> : r \in MCRequirements, q \in MCSecond}
                        \cup {<< >>}}
MCSynthesisInputs ==
    [draft : MCDrafts, evidence : {MCEvidence},
     authority : {[s \in {code, docs} |-> IF s = docs THEN "documentation" ELSE a] :
                    a \in {None, "documentation", "intent"}},
     overrides : {[k \in {criterion, example} |-> IF k = criterion THEN s ELSE None] :
                    s \in {None, code, docs}}]

\* Composition: three screens, in an old and a new form.
Maps(screens) == UNION {[some -> {"old", "new"}] : some \in SUBSET screens}
ScreenDeltas ==
    [added : Maps({home, detail}), modified : Maps({home, detail}),
     removed : SUBSET {home, cart}]
MCDocuments ==
    [screens : {None, Malformed} \cup Maps({home}), delta : {None} \cup ScreenDeltas]
MCCompositionInputs ==
    [baseline : {None, Malformed} \cup {m \in Maps({home, detail, cart}) : Range(m) \subseteq {"old"}},
     doc : MCDocuments]

\* Journal: files of up to seven bytes; "a" and "ab" are events, "b" is no event.
MCEventLines == <<"a">> :> "merged" @@ <<"a", "b">> :> "built"
MCJournalInputs ==
    [file : SeqOf({NL, "a", "b"}, 6), window : 1 .. 3, limit : 0 .. 3,
     kept : {{"merged"}, {"merged", "built"}}]

\* Lint: a file of up to three lines and a second one, under seven sets of rules.
Rule(id, severity, hints) ==
    [id |-> id, severity |-> severity, deprecated |-> FALSE, adapters |-> None, languages |-> None,
     artifacts |-> None, paths |-> None, review |-> FALSE, globs |-> {}, hints |-> hints]
Hint(kind, value) == [kind |-> kind, value |-> value]
Pattern == Hint("regex", None)
Links == Hint("reference-resolves", None)
Judges(severity) == <<Rule(L!Unjustified, severity, {}), Rule(L!Orphaned, severity, {})>>
Layers(shared, core) == [shared |-> shared, core |-> core]
NoRoots == [explicit |-> None, own |-> None, cached |-> None]
NoOverlay == [own |-> None, cached |-> None, bundled |-> None]
Asked(roots) ==
    [roots |-> roots, overlays |-> [a \in {code, docs} |-> NoOverlay], sources |-> <<code>>,
     target |-> docs, languages |-> {}, paths |-> {}, includeCore |-> TRUE, filter |-> {}]
Own(rules) == Asked([NoRoots EXCEPT !.own = Layers(rules, << >>)])
MCAsked ==
    {Own(<<Rule(1, 1, {Pattern}), Rule(2, 3, {Links})>> \o Judges(2)),
     Own(<<Rule(1, 3, {Pattern}), Rule(2, 2, {Links})>> \o Judges(4)),
     [Own(<<Rule(1, 1, {Pattern}), Rule(2, 2, {Links})>> \o Judges(2)) EXCEPT !.filter = {2}],
     \* an excluded and a required file, names, lengths; a rule for a reviewer
     Own(<<[Rule(1, 2, {Pattern, Hint("cardinality", 2)}) EXCEPT
              !.globs = {[out |-> FALSE, paths |-> {1, 2}], [out |-> TRUE, paths |-> {2}]}],
           Rule(2, 3, {Hint("unique", None), Hint("presence", 2)}),
           [Rule(3, 1, {}) EXCEPT !.review = TRUE]>>),
     \* rules of an overlay, for languages and paths that are and are not asked for; one is
     \* for artifacts, one is deprecated
     [Asked([NoRoots EXCEPT !.explicit = Layers(<<Rule(2, 2, {Hint("presence", 2)})>>,
                                                <<Rule(L!Orphaned, 2, {})>>)])
        EXCEPT !.overlays[code].bundled = <<[Rule(1, 1, {Pattern}) EXCEPT !.languages = {"rust"}]>>,
               !.overlays[docs].own =
                    <<[Rule(3, 1, {Links}) EXCEPT !.deprecated = TRUE],
                      [Rule(4, 1, {Links}) EXCEPT !.artifacts = {"spec"}],
                      [Rule(5, 1, {Links}) EXCEPT !.paths = {3}],
                      [Rule(6, 2, {Links}) EXCEPT !.paths = {2}, !.languages = {"rust"}]>>,
               !.languages = {"rust"}, !.paths = {1, 2}]}
\* Two rules that name one tool, and one that names a tool no one declares.
MCToolRules ==
    {Own(<<Rule(1, s, {Hint("tool", "check")}), Rule(2, t, {Hint("tool", "check")})>> \o Judges(3)) :
        s, t \in 1 .. 4}
      \cup {Own(<<Rule(1, 4, {Hint("tool", "undeclared")})>>),
            [Own(<<Rule(1, 1, {Pattern})>>) EXCEPT \* a source named twice: its rules clash
               !.sources = <<code, code>>, !.overlays[code].cached = <<Rule(2, 1, {})>>],
            Asked(NoRoots)}
Directive(rule, reason) == [rule |-> rule, reason |-> reason]
LintLine(lead, hits, link, directive) == [lead |-> lead, hits |-> hits, link |-> link, directive |-> directive]
LintLines ==
    {LintLine("blank", {}, None, None),
     LintLine("code", {1}, None, None), LintLine("code", {1, 2}, None, Directive(1, "long")),
     LintLine("code", {}, 3, None), LintLine("code", {1}, 3, Directive(2, "short")),
     LintLine("comment", {}, None, Directive(1, "false-positive")),
     LintLine("comment", {}, None, Directive(2, None)),
     LintLine("comment", {1}, None, Directive(1, "long"))}
Quiet == [fails |-> FALSE, found |-> {}]
LintFile(kind, name, lines, tool) == [kind |-> kind, name |-> name, lines |-> lines, tool |-> tool]
Hit == LintLine("code", {1}, None, None)
Trees(texts, tools) ==
    LET one == {LintFile("source", "a", t, o) : t \in texts, o \in tools}
        two == {None, LintFile("source", "a", <<Hit>>, Quiet), LintFile("data", "b", <<Hit>>, Quiet)}
    IN  {IF g = None THEN 1 :> f ELSE 1 :> f @@ 2 :> g : f \in one, g \in two}
InTree(asked, files) ==
    [roots |-> asked.roots, overlays |-> asked.overlays, sources |-> asked.sources,
     target |-> asked.target, languages |-> asked.languages, paths |-> asked.paths,
     includeCore |-> asked.includeCore, filter |-> asked.filter, files |-> files]
MCLintInputs ==
    {InTree(a, f) : a \in MCAsked, f \in Trees(SeqOf(LintLines, 3), {Quiet})}
      \cup {InTree(a, f) : a \in MCToolRules,
                           f \in Trees(SeqOf(LintLines, 1), [fails : BOOLEAN, found : {{}, {1}, {3}}])}

-----------------------------------------------------------------------------
\* SpecBaseline: those of BaselineDeltas.
BD == INSTANCE BaselineDeltas
MCDeltas == BD!MCDeltas
MCDeltaPairs == BD!MCDeltaPairs
MCInitSpecs == BD!MCInitSpecs

\* SourceOps: one lead, listed twice; one adapter for both sources, or one each.
MCLeadSets == {<<signIn, signIn>>}
MCBindings == {[s \in Sources |-> scan], [s \in Sources |-> IF s = docs THEN scan ELSE read]}

\* WorkspaceSlot
MCPlans == <<changeX, changeY>>

\* ToolCache: a pinned and an unpinned declaration of one source; declarations of two.
Declares(source, pin) == [source |-> source, pin |-> pin]
MCManifests ==
    {[c \in {ann, bob, gc} |-> IF c = bob THEN Declares(s, None) ELSE Declares(changeX, p)] :
        s \in {changeX, changeY}, p \in {None, good}}

\* ComponentCatalog: two groups on up to two screens; the second may be known from a
\* screenshot only. A part for the first, or two for the second. An entry written by hand.
MCCompositions ==
    LET first == {<<1, 1>>, <<2, 1>>}
    IN  {None, first, first \cup {<<1, 2>>}, first \cup {<<1, 2>>, <<2, 2>>}}
MCCaches == {{}, {<<2, 2>>}}
MCPartLists == {None, 2 :> 1, 1 :> 2 @@ 2 :> 2}
MCCatalogs == {None, <<1, 0>> :> [status |-> "confirmed", print |-> None]}

\* AssetExports: an app icon the shell lacks and an icon; a photo and an illustration that a
\* slice describes in files of its own.
Setup(role, sourced, refs, local, missing) ==
    [role |-> role, sourced |-> sourced, refs |-> refs, local |-> local, missing |-> missing]
MCSetups == {Setup(<<"app-icon", "icon">>, {1, 2}, {2}, FALSE, {"ios"}),
             Setup(<<"photo", "illustration">>, {2}, {1, 2}, TRUE, {})}

\* ProjectInit: three addresses of one adapter: with and without required platforms, a rules
\* pack, a brief; a new project, and one that an older binary made.
Offer(version, platforms, files, packs) ==
    [name |-> omnia, sound |-> TRUE, version |-> version, floor |-> 1, platforms |-> platforms,
     files |-> files, packs |-> packs]
MCOffers ==
    <<Offer(1, None, {"manifest", "brief"}, {"universal"}),
      Offer(2, [required |-> TRUE, allowed |-> {"core", "ios"}], {"manifest"}, {"universal", "core"}),
      Offer(1, None, {"manifest"}, {})>>
MCLocal == omnia :> None
Ask(verb, at, pin, platforms, core) ==
    [verb |-> verb, origin |-> at, pin |-> pin, platforms |-> platforms, core |-> core]
MCAsks ==
    {Ask("regular", 2, 2, {"core"}, TRUE), Ask("regular", 3, None, None, FALSE),
     Ask("workspace", 1, None, None, FALSE), Ask("upgrade", 1, None, {"core"}, FALSE),
     Ask("upgrade", 1, None, None, FALSE), Ask("sync", 1, None, None, FALSE)}
DocLine(kind, value) == [kind |-> kind, value |-> value]
Note(n) == DocLine("note", n)
MCForms ==
    {None, <<Note(1)>>,
     <<Note(1), DocLine("open", None), DocLine("meta", "fingerprint"), DocLine("-->", None),
       DocLine("body", None), DocLine("close", None), Note(2)>>}
NewProject ==
    [dir |-> FALSE, config |-> None, dirs |-> [d \in {omnia, Codex} |-> None], stamp |-> None,
     agents |-> None, lock |-> None, wasm |-> None, ignore |-> [own |-> 0, ours |-> FALSE],
     registry |-> None, slot |-> FALSE]
OldConfig == [adapter |-> [origin |-> 1, pin |-> None], version |-> 1, platforms |-> {}, tools |-> 0]
MCProjects ==
    {NewProject,
     [NewProject EXCEPT !.dir = TRUE, !.config = OldConfig, !.wasm = 0,
                        !.dirs[omnia] = "manifest" :> 1 @@ "brief" :> 1]}

\* PlanStore: no plan, or a draft in which ui, listed first, waits for api; and a
\* response that swaps the dependency.
ListedFirst(name) == [n \in Names |-> IF n = name THEN 1 ELSE 2]
WaitsFor(name, dep) == [n \in Names |-> IF n = name THEN {dep} ELSE {}]
PlanOf(lifecycle, rank, status, deps) ==
    [lifecycle |-> lifecycle, rank |-> rank, status |-> [n \in Names |-> status], deps |-> deps]
Draft == {PlanOf("none", [n \in Names |-> 0], "absent", [n \in Names |-> {}]),
          PlanOf("pending", ListedFirst(ui), "pending", WaitsFor(ui, api))}
Reversed == {[rank |-> ListedFirst(api), deps |-> WaitsFor(api, ui)]}
NoShell == {<< >>}
===================================================================================
