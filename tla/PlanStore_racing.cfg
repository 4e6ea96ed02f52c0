CONSTANTS
    api = api
    ui = ui
    ann = ann
    bob = bob
    Names = {api, ui}
    Actors = {ann, bob}
    NoOne = NoOne
    Hazards = {"unlocked", "orphan", "crash"}
    Verbs = {"create", "propose", "remove", "approve", "next", "done"}
    InitPlans <- Anything
    Proposals <- Swapped
    Bootstraps <- NoShell
    MaxEvents = 1
SPECIFICATION Spec
INVARIANTS
    OneInProgress
    StartedAfterDeps
    NeverStuck
SYMMETRY Interchangeable
