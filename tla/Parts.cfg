SPECIFICATION AllSpec
CONSTANTS
    None = None
    Off = Off
    Malformed = Malformed
    NL = NL
    code = code
    docs = docs
    criterion = criterion
    example = example
    home = home
    detail = detail
    cart = cart
    SynthesisInputs <- MCSynthesisInputs
    CompositionInputs <- MCCompositionInputs
    JournalInputs <- MCJournalInputs
    EventLines <- MCEventLines
    LintInputs <- MCLintInputs
    login = login
    audit = audit
    odd = odd
    none = none
    nameA = nameA
    nameB = nameB
    nameC = nameC
    short = short
    long = long
    bare = bare
    MaxEntries = 2
    Ids = {login, audit, odd}
    OddIds = {odd}
    NoId = none
    ReqNames = {nameA, nameB, nameC}
    Texts = {short, long, bare}
    BareTexts = {bare}
    Deltas <- MCDeltas
    DeltaPairs <- MCDeltaPairs
    InitSpecs <- MCInitSpecs
    scan = scan
    read = read
    survey = survey
    signIn = signIn
    Sources = {docs, code}
    Bindings <- MCBindings
    Slices = {survey}
    Survey = survey
    LeadSets <- MCLeadSets
    MaxRounds = 2
    Disciplined = TRUE
    Nothing = Nothing
    Invalid = Invalid
    main = main
    changeX = changeX
    changeY = changeY
    Main = main
    Plans <- MCPlans
    Scaffolded = {TRUE, FALSE}
    MaxCommits = 2
    MaxFaults = 1
    Torn = Torn
    Junk = Junk
    good = good
    ann = ann
    bob = bob
    gc = gc
    Runs = {ann, bob}
    Gcs = {gc}
    Bytes = {good}
    MaxKilled = 1
    Manifests <- MCManifests
    Builders = {1, 2}
    Prints = {1, 2}
    Labels = {1, 2}
    Compositions <- MCCompositions
    Caches <- MCCaches
    PartLists <- MCPartLists
    Catalogs <- MCCatalogs
    MaxEdits = 1
    Assets = {1, 2}
    Setups <- MCSetups
    MaxPrepares = 2
    Codex = Codex
    omnia = omnia
    Processes = {ann, bob}
    Offers <- MCOffers
    Taken = {}
    Local <- MCLocal
    Asks <- MCAsks
    Documents <- MCForms
    Projects <- MCProjects
    Current = 2
    MaxKills = 1
    MaxTouches = 1
    api = api
    ui = ui
    Names = {api, ui}
    Actors = {ann, bob}
    NoOne = NoOne
    Hazards = {}
    Verbs = {"create", "add", "approve", "next", "done", "undo"}
    InitPlans <- Draft
    Proposals <- Reversed
    Bootstraps <- NoShell
    MaxEvents = 2
CHECK_DEADLOCK FALSE
INVARIANTS
    SynthesisValidates
    ProvenanceAgrees
    CompositionKept
    ReadersAgree
    LintVerdict
    JournalAgrees
    NeverAppliedTwice
    OrderIrrelevant
    EvidenceIsOwn
    LeadsAreKept
    EditsStay
    ForksFromMain
    SyncedIsPreparable
    RunsDeclared
    AloneSucceeds
    InitHeals
PROPERTIES
    MatchesReference
    OnlySeenIsReplaced
    BindsKeepNames
    ExportsAreWhole
    NotesKept
