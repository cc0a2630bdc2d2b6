CONSTANTS
    CallIds = {c1, c2}
    NoId = NoId
    Reads = {r}
    Writes = {w, g}
    Garbled = {g}
    MaxAttempts = 2
    MaxIterations = 2
    DenialLimit = 2
    MaxCalls = 2
    MaxTroubles = 1
    MaxCrashes = 1
SPECIFICATION Spec
INVARIANTS
    EffectsOnce
    EffectsOnRecord
    TextAccountedFor
PROPERTIES
    DenialStops
    TurnEnds
