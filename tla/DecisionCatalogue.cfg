SPECIFICATION Spec
CONSTANTS
    login = login
    audit = audit
    tokens = tokens
    retire = retire
    ann = ann
    bob = bob
    cache = cache
    store = store
    wire = wire
    Slices = {login, audit, tokens, retire}
    Slugs = {cache, store, wire}
    Authored <- MCAuthored
    Actors = {ann, bob}
    Locked = TRUE
    Crashes = TRUE
CHECK_DEADLOCK FALSE
INVARIANTS Unique ReferencesClosed
PROPERTY OnlyGrows
