----------------------------- MODULE MCDiagnostics -----------------------------
(* Diagnostics of one file and its test that stand for each other in every way *)
(* the heuristics know: the same code nearby, equivalent codes on a line, one  *)
(* subject at any distance, copies of a piece of code.                         *)
EXTENDS Diagnostics

D(tool, code, message, file, line, severity) ==
  [tool |-> tool, code |-> code, message |-> message, file |-> file, line |-> line,
   function |-> "", severity |-> severity, ready |-> FALSE]

CandidatesDef ==
  {D("mypy", "arg-type", "argument", "a.py", 1, "error"),
   D("pyright", "reportArgumentType", "argument", "a.py", 1, "warning"),
   D("ruff", "PLR2004", "magic 3", "a.py", 1, "error"),
   D("ruff", "PLR2004", "magic 3", "a.py", 4, "odd"),
   [D("pylint", "R2004", "magic 3", "a.py", 9, "error") EXCEPT !.ready = TRUE],
   D("ruff", "C901", "too complex", "a.py", 1, "error"),
   D("pylint", "R0915", "many statements", "a.py", NoLine, "warning"),
   D("pylint", "R0801", "copies", "t.py", 1, "warning"),
   D("pylint", "R0801", "copies", "b.py", 1, "warning"),
   D("pylint", "R0801", "commented copies", "a.py", 1, "warning"),
   D("pylint", "R0801", "quoted comment", "b.py", 1, "warning"),
   [D("pylint", "R0801", "copies", "b.py", 1, "warning") EXCEPT !.function = "# moved"],
   D("pylint", "R0801", "silenced copies", "b.py", 1, "warning"),
   D("pylint", "W0613", "unused", "t.py", 1, "warning"),
   D("pylint", "R0801", "package copies", "a.py", 1, "warning"),
   D("ruff", "E501", "silenced", "a.py", 1, "error"),
   D("tombi", "", "out-of-order", "pyproject.toml", 1, "warning")}

RulesDef ==
  [mypy |-> <<>>, pyright |-> <<>>, tombi |-> <<>>,
   ruff |-> <<[codes |-> {"D100"}, severity |-> "notice"]>>,
   pylint |-> <<[codes |-> {"R2004", "R0915", "R0801"}, severity |-> "notice"],
                [codes |-> {"R0915"}, severity |-> "error"]>>]

SignatureDef ==
  [m \in {d.message : d \in CandidatesDef} |->
     CASE m = "magic 3" -> {"magic", "value"} [] m = "too complex" -> {"complex", "statement"}
       [] m = "many statements" -> {"statement"} [] OTHER -> {}]

Place(file, line, key) == [file |-> file, line |-> line, key |-> key]
CopiesDef ==
  [m \in {d.message : d \in CandidatesDef} |->
     CASE m \in {"copies", "silenced copies", "quoted comment"} ->
            <<Place("t.py", 1, "t"), Place("a.py", 2, "a")>>
       [] m = "commented copies" -> <<Place("a.py", 7, "c"), Place("b.py", 7, "d")>>
       [] m = "package copies" -> <<Place("a.py", 2, "a"), Place("__init__.py", 1, "i")>>
       [] OTHER -> <<>>]
CommentedDef == {[file |-> "a.py", line |-> 7]}

ConfigsDef ==
  {[by |-> "first", prefer |-> <<>>, fuzz |-> 3, sameFile |-> TRUE],
   [by |-> "severity", prefer |-> <<>>, fuzz |-> 3, sameFile |-> TRUE],
   [by |-> "severity", prefer |-> <<>>, fuzz |-> 0, sameFile |-> FALSE],
   [by |-> "prefer", prefer |-> <<"pylint", "ruff">>, fuzz |-> 3, sameFile |-> TRUE]}
=============================================================================
