SPECIFICATION FairSpec
CONSTANTS
    auth = auth
    audit = audit
    claim = claim
    first = first
    second = second
    Domains = {auth, audit}
    Claims = {claim}
    Responses = {first, second}
    Covers <- MCCovers
    Uses <- MCUses
    Lines <- MCLines
    Hazards = {"crash", "io", "hand"}
    MaxFaults = 2
    None = None
CHECK_DEADLOCK FALSE
INVARIANTS
    BuiltFromOneSynthesis
    StopsAreCurrent
PROPERTY Progress
