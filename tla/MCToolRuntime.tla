----------------------------- MODULE MCToolRuntime -----------------------------
(* Every runtime, two processes. *)
EXTENDS ToolRuntime

MCRuntimes == Installing \cup {"python", "binary"}
=============================================================================
