SPECIFICATION Spec
CONSTANTS
  Files <- MCFiles
  Tools <- MCTools
  Plan <- CachePlan
  Jobs = 1
  Modes <- BailModes
  Results <- CacheResults
  Faults = TRUE
  EditsDuringRun = FALSE
  MaxRuns = 2
  MaxClock = 2
  MaxVersion = 2
INVARIANTS TypeOK BailStopsAtFirstFailure HitsDescribeFiles QuietRunLeavesCacheWarm VersionsRecorded
PROPERTIES OutcomesAreFinal
