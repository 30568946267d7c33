SPECIFICATION FairSpec
CONSTANTS
    None = None
    Members <- TwoHosts
    Events <- CohostEvents
    Starts = {1, 2}
    Len = 2
    People = {p1}
    Keys = {}
    Links = {}
    LinkEvent <- NoLinks
    Requests = {r1, r2, r3}
    Seeds = {b1}
    SeedRows <- OneCollective
    Dialect = "postgres"
    HoldTime = 1
    HoldCap = 2
    PeopleCap = 2
    MaxTime = 0
    MayCrash = FALSE
    Ops = {"book", "team", "reschedule"}
INVARIANTS
    TypeOK
PROPERTIES
    ImplementsDiary
    AllAnswered
