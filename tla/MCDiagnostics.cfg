\* Two outcomes, up to four diagnostics past the filters, every strategy.
SPECIFICATION Spec
CONSTANTS
  Candidates <- CandidatesDef
  Outcomes = 2
  MaxReports = 4
  Configs <- ConfigsDef
  Rules <- RulesDef
  Signature <- SignatureDef
  Copies <- CopiesDef
  Commented <- CommentedDef
  CommentedSnippets = {"quoted comment"}
  CommentedContexts = {"# moved"}
  Suppressed = {"silenced", "silenced copies"}
  TestFiles = {"t.py"}
  InitFiles = {"__init__.py"}
INVARIANTS
  NothingBetterIsLost
  ListedWhereReported
  FirstSettles
  CopiesReportedOnce
