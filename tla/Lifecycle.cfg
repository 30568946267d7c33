SPECIFICATION Spec
CONSTANTS
    None = None
    Members <- TwoHosts
    Events <- LifecycleEvents
    Starts = {0, 1}
    Len = 2
    People = {p1}
    Keys = {}
    Links = {}
    LinkEvent <- NoLinks
    Requests = {r1, r2, r3}
    Seeds = {b1}
    SeedRows <- LifecycleRows
    Dialect = "postgres"
    HoldTime = 1
    HoldCap = 2
    PeopleCap = 2
    MaxTime = 0
    MayCrash = FALSE
    Ops = {"move", "reschedule", "cancel", "confirm", "decline", "guest"}
SYMMETRY RequestSymmetry
INVARIANTS
    GuardedInv
    EndsOneWay
PROPERTIES
    EndedStaysEnded
