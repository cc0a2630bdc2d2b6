SPECIFICATION SharedSpec
CONSTANTS
    Nobody = Nobody
    UserTurns = {u1}
    Pulses = {p1}
    Commands = {c1}
    KeepRecent = 2
    ClearKeep = 2
    MaxPhases = 1
    MaxUpsets = 2
    Turns = {t1, t2, t3}
    Origins = {o1}
    o1 = o1
    OriginOf <- OneOrigin
    TooDeep = {}
    Undecodable = {t3}
    MaxTurns = 2
    MaxOrigins = 1
    MaxCrashes = 2
    MaxFaults = 1
CHECK_DEADLOCK FALSE
INVARIANTS
    LogKept
    RequestWhole
    ChainAccounted
    StopSurvivesRestart
