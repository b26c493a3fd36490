SPECIFICATION Spec
CONSTANT Situations <- MCSituations
INVARIANT FlagsOnlyAdd
CHECK_DEADLOCK FALSE
