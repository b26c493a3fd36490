----------------------------- MODULE ExitStatus -----------------------------
(***************************************************************************)
(* How py_qa reads the exit code of a tool: the classification of          *)
(* ActionExecutor._evaluate_exit_status and what ToolOutcome makes of it.  *)
(*                                                                         *)
(* An action is a record with the fields the classification reads:         *)
(*   success, diagnostic, tool_failure   the sets of ActionExitCodes       *)
(*   tolerant      the tool is pylint or tombi                             *)
(*   is_fix, ignore_exit                 the flags of ToolAction           *)
(***************************************************************************)
EXTENDS Integers

\* _IGNORED_CHECK_RETURN_CODES, and the code a formatter exits with after it
\* rewrote a file
IGNORED_CODES == {1}

Categories == {"success", "diagnostic", "tool_failure", "unknown"}

\* The three fallbacks tried when no catalog code and no diagnostic decides.
ExcusedWithoutDiagnostics(action, code) ==
  \/ action.tolerant
  \/ action.is_fix /\ code = 1
  \/ action.ignore_exit /\ code \in IGNORED_CODES

Succeeds(action, code, diags) ==
  \/ code = 0
  \/ /\ code \notin action.tool_failure
     /\ \/ code \in action.success
        \/ /\ code \notin action.diagnostic
           /\ ~diags
           /\ ExcusedWithoutDiagnostics(action, code)

Category(action, code, diags) ==
  IF Succeeds(action, code, diags) THEN "success"
  ELSE IF code \in action.tool_failure THEN "tool_failure"
  ELSE IF code \in action.diagnostic \/ diags THEN "diagnostic"
  ELSE "unknown"

\* The ActionExitEvaluation: a successful code is rewritten to 0.
EvaluateExitStatus(action, code, diags) ==
  [returncode |-> IF Succeeds(action, code, diags) THEN 0 ELSE code,
   category   |-> Category(action, code, diags)]

\* ToolOutcome.indicates_failure
IndicatesFailure(outcome) ==
  \/ outcome.category = "tool_failure"
  \/ outcome.category = "unknown" /\ outcome.returncode # 0 /\ ~outcome.diags
=============================================================================
