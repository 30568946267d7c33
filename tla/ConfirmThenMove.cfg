SPECIFICATION Spec
CONSTANTS
    None = None
    Members <- OneHost
    Events <- PendingEvents
    Starts = {0}
    Len = 2
    People = {p1}
    Keys = {}
    Links = {}
    LinkEvent <- NoLinks
    Requests = {r1, r2, r3}
    Seeds = {b1}
    SeedRows <- OnePending
    Dialect = "postgres"
    HoldTime = 1
    HoldCap = 2
    PeopleCap = 2
    MaxTime = 0
    MayCrash = FALSE
    Ops = {"move", "confirm", "decline"}
INVARIANT ConfirmedNotDeclined
