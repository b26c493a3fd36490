\* Two processes that prepare a tool three times each while its pin moves.
SPECIFICATION Spec
CONSTANTS
  Processes = {"p", "q"}
  Runtimes <- MCRuntimes
  MaxVersion = 2
  MaxCalls = 3
  Faults = TRUE
INVARIANTS
  PinHonoured
PROPERTIES
  CompletedInstallIsReused
