SPECIFICATION Spec
CONSTANTS
    None = None
    Members <- OneHost
    Events <- KeyEvents
    Starts = {0, 1, 2}
    Len = 2
    People = {p1}
    Keys = {k1}
    Links = {}
    LinkEvent <- NoLinks
    Requests = {r1, r2}
    Seeds = {b1}
    SeedRows <- OnePersonal
    Dialect = "postgres"
    HoldTime = 1
    HoldCap = 2
    PeopleCap = 2
    MaxTime = 0
    MayCrash = FALSE
    Ops = {"reschedule"}
INVARIANT MovedOncePerKey
