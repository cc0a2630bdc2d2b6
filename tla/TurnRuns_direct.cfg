CONSTANTS
    t1 = t1
    Turns = {t1}
    Direct = {t1}
    Undecodable = {t1}
    Errors <- Fallible
    MaxIterations = 2
    MaxCrashes = 1
    MaxFaults = 1
SPECIFICATION Spec
CHECK_DEADLOCK FALSE
INVARIANTS
    OutcomeShown
PROPERTIES
    TerminalIsFinal
