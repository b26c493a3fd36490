SPECIFICATION Spec
CONSTANTS
  Files <- MCFiles
  Tools <- MCTools
  Plan <- CachePlan
  Jobs = 1
  Modes <- PlainMode
  Results <- CacheResults
  Faults = FALSE
  EditsDuringRun = FALSE
  MaxRuns = 2
  MaxClock = 2
  MaxVersion = 2
INVARIANT HitsMatchInstalledVersion
