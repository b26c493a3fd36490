--------------------------- MODULE MCCacheProcesses ---------------------------
(* Two processes that share one tool and one file. *)
EXTENDS CacheProcesses

MCFilesOf == [t \in Tools |-> IF t = "ruff" THEN {"a"} ELSE {"a", "b"}]
MCPlanOf == [p \in Processes |-> IF p = "p" THEN <<"ruff", "mypy">> ELSE <<"ruff">>]
=============================================================================
