SPECIFICATION FairSpec
CONSTANTS
  MaxSteps = 2
  ToolCounts = {0, 7, 107}
  MemoryCounts = {0, 2}
  MaxSessions = 1
  MaxAdminEdits = 1
  MaxInjections = 1
  MaxFaults = 1
CHECK_DEADLOCK FALSE
INVARIANTS OnlyPendingWorkEnds EditNotPreempted
PROPERTY SessionEnds
