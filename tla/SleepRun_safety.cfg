SPECIFICATION Spec
CONSTANTS
  Chats = {c1, c2}
  MaxMsg = 2
  MaxRuns = 2
  SkipThreshold = 0
  MaxSources = 1
  Keep = 0
  MaxAttempts = 2
  MaxFaults = 1
INVARIANTS
    DigestedAndKept
    WholeBundle
PROPERTIES
    EditKept
    RunEnds
