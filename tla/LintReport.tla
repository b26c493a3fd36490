----------------------------- MODULE LintReport -----------------------------
(***************************************************************************)
(* What a lint run promises its caller, whatever the cache, the pool and   *)
(* the faults do: an action is reported at most once and only if the mode  *)
(* of the run wants it, and a run that completes has reported every        *)
(* wanted action, or, when it bails, the first ones in plan order.         *)
(***************************************************************************)
EXTENDS Integers

CONSTANTS Modes,     \* the modes a run may have; each has a field bail
          Wants      \* the actions each mode wants, numbered in plan order

VARIABLES status,    \* "idle", "running", "complete" or "aborted"
          mode, reported

vars == <<status, mode, reported>>

Init == status = "idle" /\ reported = {}

Start(m) ==
  /\ status = "idle"
  /\ status' = "running" /\ mode' = m /\ reported' = {}

Report(k) ==
  /\ status = "running" /\ k \in Wants[mode] \ reported
  /\ reported' = reported \cup {k}
  /\ UNCHANGED <<status, mode>>

\* The reported actions are the first ones of the plan.
IsPrefix == \A k \in reported, j \in Wants[mode] : j < k => j \in reported

Complete ==
  /\ status = "running"
  /\ \/ reported = Wants[mode]
     \/ mode.bail /\ reported # {} /\ IsPrefix
  /\ status' = "complete"
  /\ UNCHANGED <<mode, reported>>

\* An aborted run reports nothing.
Abort ==
  /\ status = "running"
  /\ status' = "aborted" /\ reported' = {}
  /\ UNCHANGED mode

Leave ==
  /\ status \in {"complete", "aborted"}
  /\ status' = "idle" /\ reported' = {}

Next ==
  \/ \E m \in Modes : Start(m)
  \/ \E k \in Wants[mode] : Report(k)
  \/ Complete \/ Abort \/ Leave

Spec == Init /\ [][Next]_vars
=============================================================================
