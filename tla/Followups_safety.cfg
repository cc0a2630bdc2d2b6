CONSTANTS
    Nobody = Nobody
    Keys = {m1, m2, m3}
    Sinks = {c1, c2}
    StageCap = 2
    MaxPhases = 1
    MaxTroubles = 1
    MaxBlind = 0
SPECIFICATION Spec
SYMMETRY Symmetry
INVARIANTS
    FedOnce
    RoutesClean
PROPERTIES
    Kept
