SPECIFICATION Spec
CONSTANTS
    None = None
    Members <- OneHost
    Events <- GroupEvents
    Starts = {0}
    Len = 2
    People = {p1, p2, p3}
    Keys = {}
    Links = {l1}
    LinkEvent <- GroupLinks
    Requests = {r1, r2, r3}
    Seeds = {}
    SeedRows <- NoRows
    Dialect = "postgres"
    HoldTime = 1
    HoldCap = 2
    PeopleCap = 3
    MaxTime = 0
    MayCrash = FALSE
    Ops = {"book", "seat", "guest", "cancel", "hold", "move"}
SYMMETRY RequestPeopleSymmetry
INVARIANTS
    HoldsExclusive
    PeopleWithinLimit
    AnsweredLinkIsSpent
