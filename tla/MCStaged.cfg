SPECIFICATION StagedSpec
CONSTANTS
    Nobody = Nobody
    Keys = {m1, m2}
    Sinks = {c1}
    StageCap = 2
    MaxPhases = 1
    MaxTroubles = 1
    MaxBlind = 1
    MessageIds = {m1, m2}
    Releases = {19, 20, 21}
    Legacy = {11}
    MaxGenerations = 2
    MaxSwaps = 2
    MaxMishaps = 2
INVARIANTS
    UpgradeIsSafe
PROPERTIES
    FollowupsSettle
    NumbersAreKept
    StartsAgain
