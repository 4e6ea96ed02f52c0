CONSTANTS
    api = api
    ui = ui
    ann = ann
    bob = bob
    Names = {api, ui}
    Actors = {ann, bob}
    NoOne = NoOne
    Hazards = {"crash"}
    Verbs = {"create", "propose", "add", "amend", "remove", "approve", "next", "done", "undo", "archive"}
    InitPlans <- Draft
    Proposals <- Reversed
    Bootstraps <- NoShell
    MaxEvents = 2
SPECIFICATION Spec
PROPERTIES
    ImplementsAtomic
    ApprovedIsKept
SYMMETRY Interchangeable
