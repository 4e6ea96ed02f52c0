SPECIFICATION BaselineSpec
CONSTANTS
    login = login
    audit = audit
    odd = odd
    none = none
    nameA = nameA
    nameB = nameB
    nameC = nameC
    short = short
    long = long
    bare = bare
    MaxEntries = 2
    Ids = {login, audit, odd}
    OddIds = {odd}
    NoId = none
    ReqNames = {nameA, nameB, nameC}
    Texts = {short, long, bare}
    BareTexts = {bare}
    Deltas <- MCDeltas
    DeltaPairs <- MCDeltaPairs
    InitSpecs <- MCInitSpecs
CHECK_DEADLOCK FALSE
INVARIANT ReportHolds
