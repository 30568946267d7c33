SPECIFICATION Spec
CONSTANTS
    None = None
    Members <- OneHost
    Events <- HoldEvents
    Starts = {0, 2}
    Len = 2
    People = {p1}
    Keys = {}
    Links = {}
    LinkEvent <- NoLinks
    Requests = {r1, r2, r3}
    Seeds = {b1}
    SeedRows <- OnePersonal
    Dialect = "postgres"
    HoldTime = 1
    HoldCap = 1
    PeopleCap = 2
    MaxTime = 1
    MayCrash = FALSE
    Ops = {"hold", "release", "book", "team", "move", "reschedule"}
SYMMETRY RequestSymmetry
INVARIANTS
    HoldsWithinCap
    
