\* Three runs of two processes, one edit, one upgrade, kills and failing writes.
SPECIFICATION Spec
CONSTANTS
  Processes = {"p", "q"}
  Files = {"a", "b"}
  Tools = {"ruff", "mypy"}
  FilesOf <- MCFilesOf
  PlanOf <- MCPlanOf
  Faults = TRUE
  MaxRuns = 3
  MaxClock = 1
  MaxVersion = 2
INVARIANTS
  AnswersAreCurrent
  QuietRunRepairsEntries
  QuietRunRepairsManifest
