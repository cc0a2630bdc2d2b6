CONSTANTS
    t1 = t1
    t2 = t2
    t3 = t3
    s1 = s1
    Nobody = Nobody
    Turns = {t1, t2, t3}
    Sessions = {s1}
    Scopes = {"normal"}
    SessionOf <- OneSession
    ScopeOf <- OneScope
    Serialized = {}
    SessionQueueCap = 1
    GlobalQueueCap = 2
    DurableSessionCap = 2
    DurableScopeCap = 2
    MaxRestarts = 1
    MaxPanics = 1
SPECIFICATION FairSpec
CHECK_DEADLOCK FALSE
INVARIANTS
    SlotsAgree
    BusyHasTask
PROPERTIES
    EndsUnlessPanic
