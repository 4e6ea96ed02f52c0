SPECIFICATION MergeSpec
CONSTANTS
    login = login
    audit = audit
    ann = ann
    bob = bob
    base = base
    signIn = signIn
    signOut = signOut
    trail = trail
    other = other
    none = none
    text = text
    newText = newText
    Ids = {base, signIn, signOut, trail, other}
    OddIds = {}
    NoId = none
    ReqNames = {base, signIn, signOut, trail}
    Texts = {text, newText}
    BareTexts = {}
    Slices = {login, audit}
    Files = {1, 2}
    Staged <- MCStaged
    InitSpecs <- MCInitSpecs
    Actors = {ann}
    Planned = TRUE
    Hazards = {"crash", "io", "hand"}
CHECK_DEADLOCK FALSE
INVARIANTS DoneIsMerged ArchivedIsMerged
