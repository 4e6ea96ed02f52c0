CONSTANTS
    ann = ann
    bob = bob
    NoOne = NoOne
    Sessions = {ann, bob}
    Killable = {bob}
SPECIFICATION FairSpec
INVARIANTS
    SoleDriver
PROPERTIES
    ImplementsDriverLock
    LockComesFree
