-------------------------------- MODULE Kernels --------------------------------
(***************************************************************************)
(* The pure algorithms, each applied to every input of a bounded set       *)
(* beside the parts of Parts. A behaviour that is of no part picks an      *)
(* algorithm and an input of it; the properties say what the results have  *)
(* to do with the input and with one another. Or it merges deltas into one *)
(* baseline (SpecBaseline).                                                *)
(***************************************************************************)
EXTENDS Parts, SequencesExt, FiniteSetsExt

CONSTANTS
    NL,
    SynthesisInputs,    \* records of a draft, the evidence, its authority, the overrides
    CompositionInputs,  \* records of a baseline, a document and the switch
    JournalInputs,      \* records of a file, a window, a limit and the events kept
    LintInputs,         \* records of the rules, what is asked for, and a tree
    EventLines          \* the lines that are events, each with its event

\* SpecBaseline
CONSTANTS Ids, OddIds, NoId, ReqNames, Texts, BareTexts, Deltas, DeltaPairs, InitSpecs

VARIABLES
    kase,                   \* the algorithm and its input
    spec, delta, report     \* SpecBaseline

EventOf(line) == IF line \in DOMAIN EventLines THEN <<EventLines[line]>> ELSE << >>

S == INSTANCE Synthesis
C == INSTANCE CompositionMerge
J == INSTANCE JournalTail
L == INSTANCE Lint
B == INSTANCE SpecBaseline

\* A document without a delta holds screens, or nothing that reads as screens.
ASSUME CompositionAssumption ==
    \A in \in CompositionInputs :
        /\ None \notin C!Promote(in.baseline, in.doc, FALSE)
        /\ in.doc.delta = None /\ in.doc.screens \notin {None, Malformed} =>
              in.doc.screens = [s \in DOMAIN in.doc.screens |-> in.doc.screens[s]]

\* A delta without section headers has no sections.
ASSUME SpecBaselineAssumption ==
    /\ NoId \notin Ids /\ OddIds \subseteq Ids /\ BareTexts \subseteq Texts
    /\ InitSpecs \subseteq {s \in B!Spec : B!Coherent(s)}
    /\ Deltas \subseteq B!DeltaSpec /\ DeltaPairs \subseteq B!DeltaSpec \X B!DeltaSpec
    /\ \A d \in Deltas : ~ d.headers =>
        d.renamed = << >> /\ d.removed = << >> /\ d.modified = << >> /\ d.added = << >>

Init == kase = [kind |-> "none"]

Synthesize == \E i \in SynthesisInputs : kase' = [kind |-> "synthesis", in |-> i]

Compose == \E i \in CompositionInputs : kase' = [kind |-> "composition", in |-> i]

ShowJournal == \E i \in JournalInputs : kase' = [kind |-> "journal", in |-> i]

RunLint == \E i \in LintInputs : kase' = [kind |-> "lint", in |-> i]

Next == kase.kind = "none" /\ (Synthesize \/ Compose \/ ShowJournal \/ RunLint)

-----------------------------------------------------------------------------
baselineVars == <<spec, delta, report>>

KernelsOff == kase = [kind |-> "off"]
BaselineOff == spec = Off /\ delta = Off /\ report = Off

AllInit ==
    /\ PartsInit
    /\ \/ part # "none" /\ KernelsOff /\ BaselineOff
       \/ part = "none" /\ Init /\ BaselineOff
       \/ part = "none" /\ B!Init /\ KernelsOff

AllNext ==
    \/ PartsNext /\ UNCHANGED <<kase, baselineVars>>
    \/ Next /\ UNCHANGED <<allVars, baselineVars>>
    \/ spec # Off /\ B!Next /\ UNCHANGED <<allVars, kase>>

\* To the variables of Parts, what the algorithms do is a stutter: AllSpec implies PartsSpec.
AllSpec == AllInit /\ [][AllNext]_<<allVars, kase, baselineVars>>

-----------------------------------------------------------------------------
\* A delta merged again is refused or changes nothing (SpecBaseline).
NeverAppliedTwice == spec # Off => B!NeverAppliedTwice

\* Deltas that name different requirements merge in either order (SpecBaseline).
OrderIrrelevant == spec # Off => B!OrderIrrelevant

\* The engine's block list follows a map from ids to requirements (SpecBaseline).
MatchesReference == [][spec # Off => B!UpdatesAsMap]_<<allVars, kase, baselineVars>>

-----------------------------------------------------------------------------
\* Nothing in the agent's prose reads as a heading or as its tag.
PlainProse(model) ==
    \A i \in DOMAIN model.requirements :
        LET r == model.requirements[i]
        IN  /\ r.status = "agreed" => r.tag = << >>
            /\ \A j \in DOMAIN r.body : r.body[j].kind # "heading"

\* No heading in the agent's prose has provenance lines after it.
BareHeadings(model) ==
    \A i \in DOMAIN model.requirements : LET body == model.requirements[i].body IN
        \A j, k \in DOMAIN body :
            body[j].kind = "heading" /\ j < k => body[k].kind \notin {"ID", "Sources", "Status"}

\* The parser reads each requirement back, with its provenance lines and nothing else.
ReadsBack(model, specs) ==
    \A d \in DOMAIN specs :
        LET of == SelectSeq(model.requirements, LAMBDA r : S!Domain(r) = d)
            back == S!ParseSpec(specs[d])
        IN  /\ ~ back.duplicate /\ Len(back.requirements) = Len(of)
            /\ \A i \in DOMAIN of :
                 LET r == back.requirements[i]
                 IN  r.ID = of[i].id /\ r.Sources = of[i].sources /\ r.Status = of[i].status

(***************************************************************************)
(* Of plain prose, what `slice synthesize` writes reads back as it was     *)
(* written and passes `slice validate`. Other prose does not: synthesize   *)
(* writes it and validate then refuses the slice, although render.rs:15-19 *)
(* has every output validate. Headings in the prose that bring provenance  *)
(* lines of their own are left out: they may pass as a requirement the     *)
(* model does not have.                                                    *)
(***************************************************************************)
SynthesisValidates ==
    kase.kind = "synthesis" =>
        LET in == kase.in
            keys == {c.source : c \in in.evidence}
        IN  \A model \in S!Project(in.draft, in.evidence, in.authority, in.overrides) :
              LET specs == S!RenderSpecFiles(model)
                  findings == S!Findings(model, specs, in.evidence, keys)
              IN  /\ PlainProse(model) => ReadsBack(model, specs) /\ findings = {}
                  /\ ~ PlainProse(model) /\ BareHeadings(model) => findings # {}

(***************************************************************************)
(* The status of a requirement, the winners among its claims, the order of *)
(* its sources and the index of `slice provenance`, each computed by       *)
(* itself, tell the same story; the order of the claims has no part in it. *)
(***************************************************************************)
ProvenanceAgrees ==
    kase.kind = "synthesis" =>
        LET in == kase.in
        IN  \A model \in S!Project(in.draft, in.evidence, in.authority, in.overrides) :
              \A i \in DOMAIN model.requirements :
                LET r == model.requirements[i]
                    x == S!Index(model, in.authority, in.overrides)[i]
                IN  /\ r.status = "divergence" <=>
                            x.resolution \in {"authority-resolved", "per-slice-override"}
                    /\ r.status = "divergence" =>
                            x.winner = Head(r.sources)
                    /\ r.status = "conflict" <=> x.resolution = "tied-conflict"
                    /\ r.status = "unknown" <=> r.sources = << >>
                    /\ S!Resolve(Reverse(r.claims), in.authority, in.overrides,
                                 r.agreement).status = r.status

-----------------------------------------------------------------------------
(***************************************************************************)
(* A merge without --allow-composition-replace loses or changes no screen  *)
(* the slice does not name, has every screen the slice brings as the slice *)
(* has it, and when it is cut short and run again is refused or changes    *)
(* nothing.                                                                *)
(***************************************************************************)
CompositionKept ==
    kase.kind = "composition" =>
        LET in == kase.in
            old == IF in.baseline \in {None, Malformed} THEN C!NoScreens ELSE in.baseline
            new == IF in.doc.delta # None
                   THEN C!Overlay(in.doc.delta.added, in.doc.delta.modified)
                   ELSE in.doc.screens
            gone == IF in.doc.delta # None THEN in.doc.delta.removed \ DOMAIN new ELSE {}
        IN  \A merged \in C!Promote(in.baseline, in.doc, FALSE) : merged # Malformed =>
                /\ merged = C!Overlay([s \in DOMAIN old \ gone |-> old[s]], new)
                /\ C!Promote(merged, in.doc, FALSE) \subseteq {merged}

(***************************************************************************)
(* `journal show --limit n` and plan status, which read the journal        *)
(* backward, see the last n of the events a forward reading sees, wherever *)
(* the windows fall, and whatever lines are blank, torn or not understood. *)
(***************************************************************************)
ReadersAgree ==
    kase.kind = "journal" =>
        LET in == kase.in
            all == J!Read(in.file, in.kept)
        IN  J!ReadRecent(in.file, in.window, in.limit, in.kept) =
                SubSeq(all, Len(all) - Min({in.limit, Len(all)}) + 1, Len(all))

-----------------------------------------------------------------------------
(***************************************************************************)
(* `specify lint` fails exactly when a rule that gates is broken somewhere *)
(* no directive excuses: a directive excuses the line of code it stands    *)
(* behind or before, for the rule it names and no other, and gates itself  *)
(* when it gives no reason or excuses nothing. That a tool failed gates    *)
(* when any rule that gates asked for it.                                  *)
(***************************************************************************)
LintVerdict ==
    kase.kind = "lint" =>
        LET in == kase.in
            files == in.files
            applied == Range(L!Resolved(in))
            asked == {r \in applied : (in.filter = {} \/ r.id \in in.filter) /\ ~r.review}
            gating(rules) == {r \in rules : r.severity \in L!Blocking}
            broken == [r \in asked |-> L!RuleFindings(r, files)]
            IsCode(p, i) == files[p].lines[i].lead = "code"
            HasDirective(p, i) == files[p].kind = "source" /\ files[p].lines[i].directive # None
            \* the directive in line i of file p excuses rule id in line j
            Excuses(p, i, j, id) ==
                /\ HasDirective(p, i) /\ files[p].lines[i].directive.rule = id
                /\ j \in DOMAIN files[p].lines /\ IsCode(p, j)
                /\ IsCode(p, i) => i = j
                /\ i <= j /\ \A k \in (i + 1) .. (j - 1) : ~IsCode(p, k)
            Open(f) == f.path \notin DOMAIN files \/ ~\E i \in DOMAIN files[f.path].lines : Excuses(f.path, i, f.line, f.rule)
            Idle(p, i) == ~\E r \in asked : \E f \in broken[r] :
                                f.path = p /\ Excuses(p, i, f.line, f.rule)
            Gates(id) == \E r \in gating(applied) : r.id = id
        IN  \A found \in L!Lint(in) :
                (\E f \in found : L!Blocks(f)) <=>
                    \/ \E r \in asked : \E f \in broken[r] : f.severity \in L!Blocking /\ Open(f)
                    \/ \E p \in DOMAIN files : \E i \in DOMAIN files[p].lines :
                          /\ HasDirective(p, i)
                          /\ \/ Gates(L!Unjustified) /\ files[p].lines[i].directive.reason \in {None, "short"}
                             \/ Gates(L!Orphaned) /\ Idle(p, i)

=============================================================================
