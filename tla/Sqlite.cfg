SPECIFICATION Spec
CONSTANTS
    None = None
    Members <- TwoHosts
    Events <- SqliteEvents
    Starts = {0, 1, 2}
    Len = 2
    People = {p1}
    Keys = {k1}
    Links = {}
    LinkEvent <- NoLinks
    Requests = {r1, r2}
    Seeds = {b1}
    SeedRows <- LockRows
    Dialect = "sqlite"
    HoldTime = 1
    HoldCap = 2
    PeopleCap = 2
    MaxTime = 0
    MayCrash = TRUE
    Ops = {"book", "team", "hostEvent", "reschedule", "move", "confirm"}
SYMMETRY RequestSymmetry
INVARIANTS
    NoDoubleBooking
    WrittenOncePerKey
