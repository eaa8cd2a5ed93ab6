----------------------------- MODULE Execution -----------------------------
(***************************************************************************)
(* What the supervision of an attempt promises the matrix (execute of      *)
(* internal/hardening/supervisor.go): it returns, with the exit of the     *)
(* command line and the reason why it was stopped, if it was.  Supervisor  *)
(* implements this.                                                        *)
(***************************************************************************)
EXTENDS Deadline

VARIABLES
  stage,   \* "idle", "running" or "returned"
  exit,    \* of the command line: "none", "zero" or "other"
  reason   \* why it was stopped, or ""

executionVars == <<stage, exit, reason>>

ExecutionInit == stage = "idle" /\ exit = "none" /\ reason = ""

Launch == stage' = "running" /\ UNCHANGED <<exit, reason>>

LaunchFails == stage' = "returned" /\ exit' = "other" /\ reason' = "CRASHED"

Return ==
  /\ stage = "running" /\ stage' = "returned"
  /\ exit' \in {"zero", "other"}
  /\ reason' \in {"", "TIMED_OUT", "STORAGE_LIMIT", "INTERRUPTED"}
  /\ reason' = "INTERRUPTED" => ContextDone

ExecutionNext ==
  \/ stage = "idle" /\ (Launch \/ LaunchFails)
  \/ Return

ExecutionSpec ==
  /\ ExecutionInit /\ [][ExecutionNext]_executionVars
  /\ WF_executionVars(Return)
=============================================================================
