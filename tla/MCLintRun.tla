------------------------------ MODULE MCLintRun ------------------------------
(* Small plans for LintRun. *)
EXTENDS LintRun

Action(t, fs) ==
  [tool |-> t, files |-> fs, internal |-> FALSE, is_fix |-> FALSE,
   ignore_exit |-> FALSE, tolerant |-> FALSE,
   success |-> {0}, diagnostic |-> {}, tool_failure |-> {}]

MCFiles == {"a", "b"}
MCTools == {"ruff", "black", "hygiene"}

\* a linter, a formatter, the linter's fix action, an internal linter
PoolPlan ==
  <<Action("ruff", {"a"}),
    [Action("black", {"a"}) EXCEPT !.is_fix = TRUE],
    [Action("ruff", {"a", "b"}) EXCEPT !.ignore_exit = TRUE],
    [Action("hygiene", {"b"}) EXCEPT !.internal = TRUE]>>

CachePlan ==
  <<[Action("hygiene", {"b"}) EXCEPT !.internal = TRUE],
    [Action("black", {"a"}) EXCEPT !.is_fix = TRUE],
    [Action("ruff", {"a"}) EXCEPT !.ignore_exit = TRUE]>>

Clean == [returncode |-> 0, diags |-> FALSE]
Issues == [returncode |-> 1, diags |-> TRUE]
Crash == [returncode |-> 2, diags |-> FALSE]

PoolResults == {Clean, Issues}
CacheResults == {Clean, Issues}

PlainMode == {DefaultMode}
BailModes == {DefaultMode, [DefaultMode EXCEPT !.bail = TRUE],
              [DefaultMode EXCEPT !.check_only = TRUE]}
=============================================================================
