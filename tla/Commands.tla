------------------------------ MODULE Commands ------------------------------
(***************************************************************************)
(* One process of the command line executes one command (internal/cli): a  *)
(* campaign, a minimization or a hardening matrix.  All stop at the same   *)
(* interrupt.  The supervision of a single attempt of a matrix, which the  *)
(* matrix itself sees as an Execution, is looked at on its own; there the  *)
(* deadline of the matrix acts like an interrupt.                          *)
(***************************************************************************)
EXTENDS Campaign, Minimizer, Hardening, Supervisor

VARIABLE command

campaignVars == <<range, phase, index, results, count, early, groups>>
minimizerVars == <<step, base, best, next, failing, refused, saved>>

(* The arguments of the other commands do not matter. *)
Init ==
  /\ command \in {"campaign", "minimize", "hardening", "attempt"}
  /\ CampaignInit /\ MinimizerInit /\ HardeningInit /\ SupervisorInit
  /\ command # "minimize" => base = CHOOSE b \in Originals : TRUE
  /\ command # "campaign" => seedStart = 0 /\ seedEnd = 0 /\ ~stopOnFailure
  /\ command # "hardening" => options = CHOOSE o \in Options : TRUE

RunCampaign ==
  /\ command = "campaign" /\ CampaignNext
  /\ UNCHANGED <<command, minimizerVars, matrixVars, supervisorVars, expired>>

Minimize ==
  /\ command = "minimize" /\ MinimizerNext
  /\ UNCHANGED <<command, campaignVars, matrixVars, supervisorVars, expired>>

RunMatrix ==
  /\ command = "hardening" /\ HardeningNext
  /\ UNCHANGED <<command, campaignVars, minimizerVars, supervisorVars>>

SuperviseAttempt ==
  /\ command = "attempt"
  /\ \/ SupervisorNext /\ UNCHANGED cancelled
     \/ Cancel /\ UNCHANGED supervisorVars
  /\ UNCHANGED <<command, expired, campaignVars, minimizerVars, matrixVars>>

Next == RunCampaign \/ Minimize \/ RunMatrix \/ SuperviseAttempt

vars == <<command, cvars, mvars, matrixVars, supervisorVars, expired>>

(* A matrix makes progress unless its process dies, and execute returns,   *)
(* as the supervision shows: timers fire, and SIGKILL ends a command line. *)
(* Nobody has to interrupt, no deadline to pass, and no process to exit by *)
(* itself.                                                                 *)
Fairness ==
  /\ WF_hardeningVars(command = "hardening" /\ Program)
  /\ WF_<<hardeningVars, executionVars>>(command = "hardening" /\ (Execute \/ ReadEvidence))
  /\ WF_supervisorVars(command = "attempt" /\ TimesOut)
  /\ WF_supervisorVars(command = "attempt" /\ Stopping)
  /\ \A p \in Pids : WF_supervisorVars(command = "attempt" /\ Dies(p))

Spec == Init /\ [][Next]_vars /\ Fairness
=============================================================================
