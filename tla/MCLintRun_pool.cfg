SPECIFICATION FairSpec
CONSTANTS
  Files <- MCFiles
  Tools <- MCTools
  Plan <- PoolPlan
  Jobs = 2
  Modes <- PlainMode
  Results <- PoolResults
  Faults = TRUE
  EditsDuringRun = FALSE
  MaxRuns = 1
  MaxClock = 1
  MaxVersion = 1
INVARIANTS ReportIsComplete QueuedChecksSeeFixedFiles ProgressAddsUp
PROPERTIES RunTerminates ReportSpec
