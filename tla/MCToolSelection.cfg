SPECIFICATION Spec
CONSTANT Situations <- MCSituations
INVARIANTS OnlyIsAbsolute PyqaLintersStayInScope ChecksAreHonoured NormalRunsInternalLinters OrderIsSound StaysInScope NamedFilesAreLinted ExcludedStayOut NamedDirectoriesAreCovered
CHECK_DEADLOCK FALSE
