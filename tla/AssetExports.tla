------------------------------ MODULE AssetExports ------------------------------
(***************************************************************************)
(* `slice build --phase prepare` of a Vectis target hands a slice to its   *)
(* builder only when the images the slice refers to are exported. It looks *)
(* at the pins of assets.yaml and at the export directories; if something  *)
(* is missing it runs `vectis materialize assets` over the whole           *)
(* inventory, which writes the exports file by file and the pins last.     *)
(* Builds of several slices do so side by side, runs may be killed or fail *)
(* to write, and the operator edits pins, masters and exports meanwhile.   *)
(***************************************************************************)
EXTENDS Naturals, Sequences, SequencesExt

CONSTANTS
    Builders,       \* builds side by side, of slices with the same references, or of one slice
    Assets,         \* numbers, in the order of the ids
    Setups,         \* inventories: role, assets with a source, references, slice-local or
                    \* not, platforms with neither a shell nor a launcher icon of their own
    MaxPrepares, MaxEdits, MaxFaults,   \* bounds
    None

VARIABLES
    setup,
    master,         \* the source file of each asset: good, broken or missing
    pins,           \* sources.<platform> of assets.yaml: None, "auto", "own", "gone" or "map"
    exports,        \* the artifacts that are there
    run,            \* the state of each build
    cut,            \* history: the slots whose last write was cut short
    prepares, edits, lapses

exportVars == <<setup, master, pins, exports, run, cut, prepares, edits, lapses>>

Platforms == {"ios", "android"}
Slots == Assets \X Platforms

\* export_layout, in the order of the writes; densities but the last are one artifact, as
\* are the launcher's files but the first. The directory of an app icon is made first.
Layout(role, p) ==
    CASE role = "icon" -> IF p = "ios" THEN <<"pdf", "contents">> ELSE <<"xml">>
      [] role = "illustration" -> IF p = "ios" THEN <<"2x", "3x", "contents">> ELSE <<"mdpi", "xxxhdpi">>
      [] role = "app-icon" -> IF p = "ios" THEN <<"dir", "png", "contents">> ELSE <<"dir", "launcher", "icons">>
      [] role = "photo" -> IF p = "ios" THEN <<"3x", "contents">> ELSE <<"xxxhdpi">>

PinOf(role, p) ==
    CASE role = "icon" -> IF p = "ios" THEN "pdf" ELSE "xml"
      [] role = "illustration" -> IF p = "ios" THEN "3x" ELSE "xxxhdpi"
      [] role = "app-icon" -> "dir"
      [] role = "photo" -> None

Role(s) == setup.role[s[1]]
Whole(s) == ToSet(Layout(Role(s), s[2])) \subseteq exports[s]

Idle == [pc |-> "idle", doc |-> << >>, todo |-> {}, at |-> None, left |-> << >>,
         wrote |-> {}, failed |-> FALSE, wanted |-> {}, disturbed |-> {}]

Init ==
    /\ setup \in Setups
    /\ master = [a \in Assets |-> "good"]
    /\ pins = [s \in Slots |-> IF setup.role[s[1]] = "photo" THEN "map" ELSE None]
    /\ exports = [s \in Slots |-> {}]
    /\ run = [b \in Builders |-> Idle]
    /\ cut = {} /\ prepares = 0 /\ edits = 0 /\ lapses = 0

-----------------------------------------------------------------------------
\* Mutant of Active: a pin is active if it is there.
ActiveByKey(doc, s) == doc[s] \in {"own", "gone", "auto"}

\* platform_pin_active, active_platform_pin: the path exists. A density map is no path.
Active(doc, s) == doc[s] = "own" \/ (doc[s] = "auto" /\ PinOf(Role(s), s[2]) \in exports[s])

\* conventional_export_exists, app_icon_export_exists. Of a vector Android has an xml.
Exported(s) ==
    IF Role(s) = "app-icon"
    THEN IF s[2] = "ios" THEN {"contents", "png"} \subseteq exports[s] ELSE "launcher" \in exports[s]
    ELSE IF s[2] = "ios" \/ Role(s) = "photo" THEN exports[s] # {} ELSE "xml" \in exports[s]

\* A master of another extension is not modelled.
Satisfied(s) == Active(pins, s) \/ (s[1] \in setup.sourced /\ master[s[1]] # "missing")

UnmetIcons ==
    {a \in Assets : setup.role[a] = "app-icon" /\ \E p \in setup.missing : ~ Satisfied(<<a, p>>)}

Unpinned == {a \in setup.sourced : \E p \in Platforms : ~ Active(pins, <<a, p>>)}

Scope == setup.refs \cup (IF setup.local THEN Unpinned ELSE {}) \cup UnmetIcons

NeedsMaterialize(a) ==
    /\ setup.role[a] = "app-icon" \/ a \in setup.sourced
    /\ \E p \in Platforms : ~ Active(pins, <<a, p>>) /\ ~ Exported(<<a, p>>)

Prepare(b) ==
    /\ run[b].pc \in {"idle", "refused", "handed"}
    /\ prepares < MaxPrepares /\ prepares' = prepares + 1
    /\ run' = [run EXCEPT ![b] = [Idle EXCEPT
                    !.pc = IF \E a \in Scope : NeedsMaterialize(a) THEN "read" ELSE "gate",
                    !.wanted = {s \in Slots : s[1] \in Scope \cap setup.sourced}]]
    /\ UNCHANGED <<setup, master, pins, exports, cut, edits, lapses>>

-----------------------------------------------------------------------------
\* The tool reads assets.yaml once. What it has no master or density map for it passes over.
Read(b) ==
    /\ run[b].pc = "read"
    /\ run' = [run EXCEPT ![b].pc = "pick", ![b].doc = pins,
                          ![b].todo = {s \in Slots : s[1] \in setup.sourced \/ pins[s] = "map"}]
    /\ UNCHANGED <<setup, master, pins, exports, cut, prepares, edits, lapses>>

\* Icons, illustrations, photos, app icons; by id; in the order of the platforms asked for.
Pass(s) == CASE Role(s) = "icon" -> 1 [] Role(s) = "illustration" -> 2
             [] Role(s) = "photo" -> 3 [] Role(s) = "app-icon" -> 4
Order(s) == <<Pass(s), s[1], IF s[2] = "ios" THEN 1 ELSE 2>>
First(slots) ==
    CHOOSE s \in slots : \A t \in slots \ {s} :
        \E i \in 1 .. 3 : Order(s)[i] < Order(t)[i] /\ \A j \in 1 .. i - 1 : Order(s)[j] = Order(t)[j]

\* A master that cannot be read or parsed is an error for each of its platforms; the files
\* of a photo are copied unread.
Pick(b) ==
    /\ run[b].pc = "pick" /\ run[b].todo # {}
    /\ LET s == First(run[b].todo)
           readable == Role(s) = "photo" \/ master[s[1]] = "good"
       IN  run' = [run EXCEPT
                ![b].todo = {t \in @ : t # s /\ (readable \/ t[1] # s[1])},
                ![b].failed = @ \/ ~ readable,
                ![b].pc = IF readable /\ ~ Active(run[b].doc, s) THEN "write" ELSE "pick",
                ![b].at = IF readable /\ ~ Active(run[b].doc, s) THEN s ELSE None,
                ![b].left = IF readable /\ ~ Active(run[b].doc, s) THEN Layout(Role(s), s[2])
                            ELSE << >>]
    /\ UNCHANGED <<setup, master, pins, exports, cut, prepares, edits, lapses>>

Write(b) ==
    /\ run[b].pc = "write"
    /\ LET s == run[b].at
           last == Len(run[b].left) = 1
       IN  /\ exports' = [exports EXCEPT ![s] = @ \cup {Head(run[b].left)}]
           /\ run' = IF last
                     THEN [run EXCEPT ![b].pc = "pick", ![b].at = None, ![b].left = << >>,
                                      ![b].wrote = @ \cup {s}]
                     ELSE [run EXCEPT ![b].left = Tail(@)]
           /\ cut' = IF last /\ s \notin run[b].disturbed THEN cut \ {s} ELSE cut
    /\ UNCHANGED <<setup, master, pins, prepares, edits, lapses>>

Lapse == lapses < MaxFaults /\ lapses' = lapses + 1

\* The slot is an error of the run, which goes on with the next one.
WriteFails(b) ==
    /\ run[b].pc = "write" /\ Lapse
    /\ cut' = cut \cup {run[b].at}
    /\ run' = [run EXCEPT ![b].pc = "pick", ![b].at = None, ![b].left = << >>, ![b].failed = TRUE]
    /\ UNCHANGED <<setup, master, pins, exports, prepares, edits>>

\* Pins of the slots that were written, where there was none; the document as it was read.
AutoPinned(b) ==
    [s \in Slots |-> IF s \in run[b].wrote /\ run[b].doc[s] = None THEN "auto" ELSE run[b].doc[s]]

\* History: the slots of other builds that a change behind their back concerns.
Disturb(builds, c, slots) ==
    [b \in Builders |->
        IF b # c /\ builds[b].pc \notin {"idle", "refused", "handed"}
        THEN [builds[b] EXCEPT !.disturbed = @ \cup slots] ELSE builds[b]]

\* Nothing written that a pin may name: the file is left alone. An error of any asset of
\* the inventory fails the run, and with it prepare.
WritePins(b) ==
    /\ run[b].pc = "pick" /\ run[b].todo = {}
    /\ pins' = IF \E s \in run[b].wrote : PinOf(Role(s), s[2]) # None THEN AutoPinned(b) ELSE pins
    /\ run' = Disturb([run EXCEPT ![b].pc = IF run[b].failed THEN "refused" ELSE "gate"], b,
                      {s \in Slots : pins[s] = "own" /\ pins'[s] # "own"})
    /\ UNCHANGED <<setup, master, exports, cut, prepares, edits, lapses>>

\* The gate reads the inventory of the project, whichever one the tool has worked on.
Gate(b) ==
    /\ run[b].pc = "gate"
    /\ \E pass \in BOOLEAN :
        /\ ~ setup.local => (pass <=>
              \A p \in setup.missing : \E a \in Assets : setup.role[a] = "app-icon" /\ Satisfied(<<a, p>>))
        /\ run' = [run EXCEPT ![b].pc = IF pass THEN "handed" ELSE "refused"]
    /\ UNCHANGED <<setup, master, pins, exports, cut, prepares, edits, lapses>>

Killed(b) ==
    /\ run[b].pc \in {"read", "pick", "write"} /\ Lapse
    /\ cut' = cut \cup (IF run[b].pc = "write" THEN {run[b].at} ELSE {})
    /\ run' = [run EXCEPT ![b] = [Idle EXCEPT !.pc = "refused"]]
    /\ UNCHANGED <<setup, master, pins, exports, prepares, edits>>

-----------------------------------------------------------------------------
Writing == {run[b].at : b \in {c \in Builders : run[c].pc = "write"}}

\* The operator pins a file of their own, or deletes it; exports are cleaned; a master changes.
Edit ==
    /\ edits < MaxEdits /\ edits' = edits + 1
    /\ \E s \in Slots :
        /\ \/ /\ pins[s] # "map" /\ \E pin \in {"own", "gone"} : pins' = [pins EXCEPT ![s] = pin]
              /\ UNCHANGED <<master, exports, cut>>
           \/ /\ exports' = [exports EXCEPT ![s] = {}]
              /\ cut' = cut \cup (Writing \cap {s})
              /\ UNCHANGED <<master, pins>>
           \/ /\ \E state \in {"good", "broken", "missing"} : master' = [master EXCEPT ![s[1]] = state]
              /\ UNCHANGED <<pins, exports, cut>>
        /\ run' = Disturb(run, None, {s})
    /\ UNCHANGED <<setup, prepares, lapses>>

Next ==
    \/ \E b \in Builders :
        Prepare(b) \/ Read(b) \/ Pick(b) \/ Write(b) \/ WriteFails(b) \/ WritePins(b) \/ Gate(b) \/ Killed(b)
    \/ Edit

ExportSpec == Init /\ [][Next]_exportVars

-----------------------------------------------------------------------------
(***************************************************************************)
(* A slice that is handed to its builder has, of every image it refers to  *)
(* and that has a source, a pin of the operator's or the whole export for  *)
(* each platform, whatever was pinned, exported and cleaned before. Left   *)
(* out are slots whose last write was cut short, that another run writes   *)
(* just then, or that changed since prepare looked.                        *)
(***************************************************************************)
HandedWhole ==
    \A b \in Builders : run[b].pc = "gate" /\ run'[b].pc = "handed" =>
        \A s \in run[b].wanted \ (cut \cup Writing \cup run[b].disturbed) :
            pins[s] = "own" \/ Whole(s)

ExportsAreWhole == [][HandedWhole]_exportVars

===================================================================================
