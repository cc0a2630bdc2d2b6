SPECIFICATION Spec
CONSTANTS
  SlotsPerDay = 2
  WeekLen = 2
  Gaps <- MCGaps
  Ids = {i1}
  Schedules <- MCSchedules
  MaxTime = 4
  MaxEdits = 2
  MaxFaults = 1
INVARIANTS
    FiresAsScheduled
    RunsAreHonest
PROPERTIES
    ScanFinishes
