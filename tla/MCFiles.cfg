SPECIFICATION FilesSpec
CONSTANTS
    Callers = {p1, p2}
    Settings = {x0, pin, bad}
    Secrets = {k0, k1}
    Pinned = {pin}
    Invalid = {bad}
    X0 = x0
    K0 = k0
    Nobody = none
    Debounce = 1
    MaxTroubles = 2
    MaxGenerations = 2
    Interval = 2
    MaxDays = 8
    MaxFailures = 3
CHECK_DEADLOCK FALSE
INVARIANTS
    SourceIsWhole
    UpdatesKept
    BackupsKept
PROPERTIES
    UpdatesAreLive
    Converges
