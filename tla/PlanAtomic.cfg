\* Every verb but undo.
CONSTANTS
    a = a
    b = b
    c = c
    Names = {a, b, c}
    Verbs = {"create", "propose", "add", "amend", "remove", "approve", "next", "done", "archive"}
    Proposals <- SomeProposals
    Bootstraps <- SomeBootstraps
    InitPlans <- Absent
SPECIFICATION FairSpec
PROPERTIES
    Drains
