SPECIFICATION Spec
CONSTANTS
  Chats = {c1}
  MaxMsg = 1
  MaxRuns = 1
  SkipThreshold = 0
  MaxSources = 1
  Keep = 0
  MaxAttempts = 2
  MaxFaults = 1
PROPERTIES
  RunAlwaysEnds
