CONSTANTS
    One = One
    Two = Two

    Callers = {One, Two}
    Last = 4
    Period = 2
    Horizon = 2
    Slack = 0
    Firsts = {1, 2}
    Untils = {4}
    MaxSeries = 2
    MaxSeriesCalls = 3
    MaxSingles = 1

    Refs = {"r"}
    Windows = {"day", "month"}
    Ttl = 2
    MaxStale = 3
    ReadTimeout = 1
    Cooldown = 1
    MaxEntries = 2
    PruneAt = 0
    MaxCacheTime = 4
    MaxWrites = 1

    OAuthRequests = {One, Two}
    RefreshGrace = 1
    SpentLife = 1
    MaxTickets = 2
    MaxGrants = 2
    MaxTokens = 4
    MaxOAuthTime = 2
    MaxDeaths = 1

    BookCalls = {One, Two}
    BookTimes = {"ten", "noon"}
    MaxBookCalls = 4
    MaxSweeps = 1
    MaxBookOthers = 2

    HoldCalls = {One, Two}
    HoldTimes = {"ten", "noon"}
    MaxHoldCalls = 4
    MaxHoldFaults = 2

    Tabs = {One, Two}
    Life = 2
    Skew = 1
    IamGrace = 0
    MaxPairs = 3
    MaxSessions = 2
    MaxWebTime = 3

    ShareRequests = {One, Two}
    Hours <- TheHours
    Lead = 3
    MaxShareOthers = 1

    Dests <- OneCalendar
    Faults = {}
    MaxFaults = 0
    MaxTries = 1
    MaxChanges = 2
    WaitLooks = 1
    MaxLooks = 2
SPECIFICATION AllSpec
SYMMETRY RequestSymmetry
PROPERTY BookableIsOffered
CHECK_DEADLOCK FALSE
