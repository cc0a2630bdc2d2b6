CONSTANTS
    t1 = t1
    Turns = {t1}
    Direct = {}
    Undecodable = {t1}
    Errors <- Fallible
    MaxIterations = 3
    MaxCrashes = 2
    MaxFaults = 0
SPECIFICATION FairSpec
CHECK_DEADLOCK FALSE
INVARIANTS
    FailedMeansNoToolRan
    NoToolRerun
PROPERTIES
    KeepsPromise
    EveryTurnEnds
