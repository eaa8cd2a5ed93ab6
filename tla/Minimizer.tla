----------------------------- MODULE Minimizer ------------------------------
(***************************************************************************)
(* The minimizer: it replays a failed run with fewer faults, then with     *)
(* fewer clients, then for a shorter time, and keeps what still fails      *)
(* (MinimizeRun and testSchedule of internal/runner/minimize.go).          *)
(*                                                                         *)
(* Nothing is assumed of a replay: the same candidate may fail once and    *)
(* pass the next time, or not run at all.                                  *)
(***************************************************************************)
EXTENDS Naturals, Sequences, SequencesExt, Interruption

CONSTANTS
  Faults,     \* the faults of the original run, in order
  Clients,    \* the numbers of clients it may have
  Durations   \* pairs <<time.duration_ms, workload.duration_ms>>

ASSUME MinimizerAssumption ==
  /\ Faults \in Seq(Range(Faults))
  /\ Clients \subseteq Nat /\ Durations \subseteq Nat \X Nat

VARIABLES
  step,       \* the loop that runs
  base,       \* the candidate that is the original run
  best,       \* the smallest candidate accepted so far
  next,       \* the fault the scan will try to remove
  failing,    \* the candidates seen to fail
  refused,    \* the candidates tried that did not fail, or did not run
  saved       \* the content of the directory "minimized": at most one

mvars == <<step, base, best, next, failing, refused, saved, cancelled>>
seen == <<failing, refused>>

(* The original run, whose faults.json may be missing or broken. *)
Originals == [faults : {Faults, <<>>}, clients : Clients,
              duration : Durations]

MinimizerInit ==
  /\ step = "baseline"
  /\ base \in Originals /\ best = base /\ next = 1
  /\ failing = {} /\ refused = {} /\ saved = {}
  /\ cancelled = FALSE

MinimizerCancel ==
  /\ step \notin {"done", "error"} /\ Cancel
  /\ UNCHANGED <<step, base, best, next, seen, saved>>

(* One replay of a candidate: testSchedule. *)
Fails(c) == failing' = failing \union {c} /\ UNCHANGED refused
DoesNot(c) == refused' = refused \union {c} /\ UNCHANGED failing

Baseline ==
  /\ step = "baseline"
  /\ \/ Fails(base) /\ step' = "faults"
     \/ DoesNot(base) /\ step' = "error"
  /\ UNCHANGED <<base, best, next, saved, cancelled>>

(* Every loop looks at the context before it tries the next candidate. *)
GiveUp ==
  /\ cancelled
  /\ \/ step = "faults" /\ next <= Len(best.faults)
     \/ step = "clients" /\ best.clients > 1
     \/ step = "duration" /\ best.duration[1] > 1000
  /\ step' = "error"
  /\ UNCHANGED <<base, best, next, seen, saved, cancelled>>

(* Mutant: after a removal the scan goes on where it is. *)
TryFaultOnce ==
  /\ step = "faults" /\ ~cancelled /\ next <= Len(best.faults)
  /\ LET c == [best EXCEPT !.faults = RemoveAt(@, next)] IN
     \/ Fails(c) /\ best' = c /\ UNCHANGED next
     \/ DoesNot(c) /\ next' = next + 1 /\ UNCHANGED best
  /\ UNCHANGED <<step, base, saved, cancelled>>

(* A fault is left out; when the run still fails the scan starts again.    *)
TryFault ==
  /\ step = "faults" /\ ~cancelled /\ next <= Len(best.faults)
  /\ LET c == [best EXCEPT !.faults = RemoveAt(@, next)] IN
     \/ Fails(c) /\ best' = c /\ next' = 1
     \/ DoesNot(c) /\ next' = next + 1 /\ UNCHANGED best
  /\ UNCHANGED <<step, base, saved, cancelled>>

FaultsDone ==
  /\ step = "faults" /\ next > Len(best.faults)
  /\ step' = "clients"
  /\ UNCHANGED <<base, best, next, seen, saved, cancelled>>

(* A smaller candidate is kept when it fails, and ends its loop otherwise. *)
Shrink(c, following) ==
  \/ Fails(c) /\ best' = c /\ UNCHANGED step
  \/ DoesNot(c) /\ step' = following /\ UNCHANGED best

TryClients ==
  /\ step = "clients" /\ ~cancelled /\ best.clients > 1
  /\ Shrink([best EXCEPT !.clients = @ - 1], "duration")
  /\ UNCHANGED <<base, next, saved, cancelled>>

ClientsDone ==
  /\ step = "clients" /\ best.clients <= 1
  /\ step' = "duration"
  /\ UNCHANGED <<base, best, next, seen, saved, cancelled>>

(* int(float64(d) * 0.8) *)
Shorter(d) == <<(d[1] * 4) \div 5, (d[2] * 4) \div 5>>

(* Mutant: candidates are made from the original configuration. *)
TryDurationOfBase ==
  /\ step = "duration" /\ ~cancelled /\ best.duration[1] > 1000
  /\ LET d == Shorter(best.duration)
         c == [best EXCEPT !.clients = base.clients, !.duration = d]
     IN  \/ Fails(c) /\ best' = [best EXCEPT !.duration = d] /\ UNCHANGED step
         \/ DoesNot(c) /\ step' = "save" /\ UNCHANGED best
  /\ UNCHANGED <<base, next, saved, cancelled>>

TryDuration ==
  /\ step = "duration" /\ ~cancelled /\ best.duration[1] > 1000
  /\ Shrink([best EXCEPT !.duration = Shorter(@)], "save")
  /\ UNCHANGED <<base, next, saved, cancelled>>

DurationDone ==
  /\ step = "duration" /\ best.duration[1] <= 1000
  /\ step' = "save"
  /\ UNCHANGED <<base, best, next, seen, saved, cancelled>>

(* What an earlier minimization saved is removed first; that its own files *)
(* cannot be written is noticed only if there is no directory.             *)
Save ==
  /\ step = "save"
  /\ \/ saved' \in {{}, {best}} /\ step' = "final"
     \/ saved' = {} /\ step' = "error"
  /\ UNCHANGED <<base, best, next, seen, cancelled>>

(* The last run fills the directory; only that it runs is looked at. *)
FinalRun ==
  /\ step = "final"
  /\ \/ Fails(best) /\ step' = "done"
     \/ DoesNot(best) /\ step' \in {"done", "error"}
  /\ UNCHANGED <<base, best, next, saved, cancelled>>

MinimizerNext ==
  \/ MinimizerCancel \/ Baseline \/ GiveUp \/ TryFault \/ FaultsDone
  \/ TryClients \/ ClientsDone \/ TryDuration \/ DurationDone
  \/ Save \/ FinalRun

MinimizerSpec == MinimizerInit /\ [][MinimizerNext]_mvars
-----------------------------------------------------------------------------
(* What is saved as the minimized run, faults, clients and durations       *)
(* together, has been replayed and has failed.                             *)
SavedHasFailed == saved \subseteq failing

(* No single reduction of what is saved was left untried: each fault was   *)
(* left out of the faults that are saved, at the original number of        *)
(* clients and duration, and the run did not fail; so it was with one      *)
(* client less, and with the next shorter duration.                        *)
LocallyMinimal ==
  \A s \in saved :
    /\ \A i \in DOMAIN s.faults :
         [base EXCEPT !.faults = RemoveAt(s.faults, i)] \in refused
    /\ s.clients > 1 =>
         [base EXCEPT !.faults = s.faults, !.clients = s.clients - 1] \in refused
    /\ s.duration[1] > 1000 =>
         [s EXCEPT !.duration = Shorter(s.duration)] \in refused
=============================================================================
