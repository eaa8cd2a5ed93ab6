------------------------------- MODULE Runner -------------------------------
(***************************************************************************)
(* One run from its row in the database to its verdict: Runner.Run,        *)
(* cleanup and RunAndReport of internal/runner/runner.go, with everything  *)
(* that writes to the history meanwhile.                                   *)
(*                                                                         *)
(* Five activities write: the client workers and the leadership monitor of *)
(* the workload, the fault scheduler with its recoveries, the monitors of  *)
(* the nodes, and the handlers of the proxy.  The runner waits for the     *)
(* first, third and fourth of these before it judges; it never waits for   *)
(* the leadership monitor and the handlers.  A write may fail at any time, *)
(* the caller may cancel the run at any time, and the proxy may die.       *)
(***************************************************************************)
EXTENDS Naturals, Sequences

CONSTANT Configs  \* the configurations a run is started with

(* "misspelt" is a checker the registry does not know. *)
Checkers == {"reads", "leaders", "misspelt"}

(* What a configuration says about judging: its checkers, whether it lists *)
(* operations, and whether it asks for successful operations and for       *)
(* successful injections.                                                  *)
Config == [checkers : SUBSET Checkers, operations : BOOLEAN,
           successes : BOOLEAN, injections : BOOLEAN]

ASSUME ConfigsAssumption == Configs \subseteq Config

(* The records in the history that some judge looks for. *)
Kinds(w) ==
  CASE w = "clients"   -> {"success", "wrong answer"}
    [] w = "scheduler" -> {"injection", "failed fault"}
    [] w = "monitor"   -> {"rival leaders"}
    [] OTHER           -> {}

Activities == {"clients", "monitor", "scheduler", "nodes", "handlers"}
Evidence == UNION {Kinds(w) : w \in Activities}

(* Mutant: the proxy drains its requests before it stops. *)
AwaitedWithHandlers == {"clients", "scheduler", "nodes", "handlers"}

(* Those whose end the runner waits for. *)
Awaited == {"clients", "scheduler", "nodes"}

Statuses == {"RUNNING", "PASSED", "FAILED", "CRASHED", "ABORTED"}

VARIABLES
  config,      \* r.cfg
  stage,       \* where Run, cleanup and RunAndReport have got to
  row,         \* the status of the run's row, or "none"
  final,       \* finalStatus
  failed,      \* Run returns an error
  active,      \* the activities that are running
  told,        \* what cleanup has told to stop
  over,        \* why the context of the workload is done, or "no"
  cancelled,   \* the caller's context is done
  proxyDown,   \* the server of the proxy has returned an error
  history,     \* the evidence recorded so far
  judged,      \* the judges that have given their opinion
  found,       \* violationsFound
  violations,  \* the judges with a violation in the database
  historyErr,  \* r.historyErr is set
  lost,        \* a write failed of one whose end the verdict waits for
  report       \* the RunResult of RunAndReport

vars == <<config, stage, row, final, failed, active, told, over, cancelled,
          proxyDown, history, judged, found, violations, historyErr, lost,
          report>>
outcome == <<row, failed, report>>
world == <<active, told, over, cancelled, proxyDown, history>>
verdict == <<judged, found, violations>>
losses == <<historyErr, lost>>

RunResult == [status : Statuses \union {"UNKNOWN"},
              violations : BOOLEAN, err : BOOLEAN]
NoReport == [status |-> "none", violations |-> FALSE, err |-> FALSE]

Init ==
  /\ config \in Configs
  /\ stage = "create" /\ row = "none" /\ final = "PASSED" /\ failed = FALSE
  /\ active = {} /\ told = {} /\ over = "no"
  /\ cancelled = FALSE /\ proxyDown = FALSE /\ history = {}
  /\ judged = {} /\ found = FALSE /\ violations = {}
  /\ historyErr = FALSE /\ lost = FALSE
  /\ report = NoReport

-----------------------------------------------------------------------------
(* Writing to the history. *)

(* The write of an event or an operation fails and is remembered. *)
LoseWrite(counts) ==
  /\ historyErr' = TRUE
  /\ (counts /\ lost' = TRUE) \/ (~counts /\ UNCHANGED lost)

MayLose(counts) == UNCHANGED losses \/ LoseWrite(counts)

(* An activity records something of interest, or fails to record anything. *)
Write(w) ==
  /\ w \in active /\ stage # "done"
  /\ \/ /\ \E k \in Kinds(w) : history' = history \union {k}
        /\ UNCHANGED losses
     \/ LoseWrite(w \in Awaited) /\ UNCHANGED history
  /\ UNCHANGED <<config, stage, final, outcome, active, told, over, cancelled,
                 proxyDown, verdict>>

(* Workers and monitor notice the end of their context, the others that    *)
(* they were stopped; the scheduler's context is the caller's.             *)
MustEnd(w) ==
  CASE w \in {"clients", "monitor"} -> over # "no"
    [] w = "scheduler"              -> w \in told \/ cancelled
    [] OTHER                        -> w \in told

End(w) ==
  /\ w \in active /\ MustEnd(w)
  /\ active' = active \ {w}
  /\ UNCHANGED <<config, stage, final, outcome, told, over, cancelled,
                 proxyDown, history, verdict, losses>>

(* The context of the workload is done for the first reason there is. *)
Over(why) == over' = IF over = "no" THEN why ELSE over

Timeout ==
  /\ stage \in {"workload", "drain"} /\ Over("time")
  /\ UNCHANGED <<config, stage, final, outcome, active, told, cancelled,
                 proxyDown, history, verdict, losses>>

Cancel ==
  /\ ~cancelled /\ stage # "done"
  /\ cancelled' = TRUE /\ Over("cancelled")
  /\ UNCHANGED <<config, stage, final, outcome, active, told, proxyDown,
                 history, verdict, losses>>

ProxyFails ==
  /\ "handlers" \in active /\ ~proxyDown
  /\ proxyDown' = TRUE
  /\ UNCHANGED <<config, stage, final, outcome, active, told, over, cancelled,
                 history, verdict, losses>>

-----------------------------------------------------------------------------
(* Runner.Run *)

CreateRun ==
  /\ stage = "create"
  /\ \/ /\ row' = "RUNNING" /\ stage' = "nodes"
        /\ active' = {"handlers"}
        /\ MayLose(TRUE)
        /\ UNCHANGED failed
     \/ /\ stage' = "report" /\ failed' = TRUE
        /\ UNCHANGED <<row, active, losses>>
  /\ UNCHANGED <<config, final, told, over, cancelled, proxyDown, history,
                 verdict, report>>

(* Leave Run for cleanup, with an error unless the run has passed. *)
Leave(status) ==
  /\ final' = status /\ failed' = (status # "PASSED")
  /\ stage' = "cleanup"

Proceed(next) == stage' = next /\ UNCHANGED <<final, failed>>

(* Processes are not started under a context that is done. *)
StartNodes ==
  /\ stage = "nodes"
  /\ active' = active \union {"nodes"}
  /\ \/ ~cancelled /\ Proceed("warmup")
     \/ Leave("CRASHED")
  /\ UNCHANGED <<config, row, told, over, cancelled, proxyDown, history,
                 verdict, losses, report>>

Warmup ==
  /\ stage = "warmup"
  /\ \/ Proceed("scheduler")
     \/ cancelled /\ Leave("ABORTED")
  /\ UNCHANGED <<config, row, world, verdict, losses, report>>

StartFaultsAndWorkload ==
  /\ stage = "scheduler"
  /\ \/ /\ Proceed("workload")
        /\ active' = active \union {"scheduler", "clients", "monitor"}
     \/ Leave("CRASHED") /\ UNCHANGED active
  /\ UNCHANGED <<config, row, told, over, cancelled, proxyDown, history,
                 verdict, losses, report>>

(* Mutant: the end of the workload is taken for its completion. *)
WorkloadDoneUnchecked ==
  /\ stage = "workload" /\ "clients" \notin active
  /\ Leave("PASSED")
  /\ UNCHANGED <<config, row, world, verdict, losses, report>>

(* The select of Run, and the look at the context after it. *)
WorkloadDone ==
  /\ stage = "workload" /\ "clients" \notin active
  /\ Leave(IF cancelled THEN "ABORTED" ELSE "PASSED")
  /\ UNCHANGED <<config, row, world, verdict, losses, report>>

Drain(why, status) ==
  /\ stage = "workload"
  /\ stage' = "drain" /\ final' = status /\ failed' = TRUE
  /\ Over(why)
  /\ UNCHANGED <<config, row, active, told, cancelled, proxyDown, history,
                 verdict, losses, report>>

BreakOff ==
  \/ proxyDown /\ Drain("proxy", "CRASHED")
  \/ cancelled /\ Drain("cancelled", "ABORTED")

Drained ==
  /\ stage = "drain" /\ "clients" \notin active
  /\ Leave(final)
  /\ UNCHANGED <<config, row, world, verdict, losses, report>>

-----------------------------------------------------------------------------
(* Runner.cleanup *)

StopOrder == <<"scheduler", "nodes", "handlers">>

(* What is told to stop, and gone if the runner waits for it. *)
Stopped(w) == w \in told /\ (w \in Awaited => w \notin active)

Stop(i) ==
  /\ stage = "cleanup" /\ StopOrder[i] \notin told
  /\ \A k \in 1 .. i - 1 : Stopped(StopOrder[k])
  /\ told' = told \union {StopOrder[i]}
  /\ UNCHANGED <<config, stage, final, outcome, active, over, cancelled,
                 proxyDown, history, verdict, losses>>

AllStopped ==
  /\ stage = "cleanup" /\ \A i \in DOMAIN StopOrder : Stopped(StopOrder[i])
  /\ stage' = IF final = "PASSED" THEN "judge" ELSE "verdict"
  /\ UNCHANGED <<config, final, outcome, world, verdict, losses>>

(* Mutant: no minimum of successes by default. *)
JudgesAsConfigured ==
  {"fault execution"} \union config.checkers
  \union {j \in {"workload coverage"} : config.successes}
  \union {j \in {"fault coverage"} : config.injections}

(* Whom the configuration calls; a checker brings a minimum of one success *)
(* with it when operations are listed.                                     *)
Judges ==
  {"fault execution"} \union config.checkers
  \union {j \in {"workload coverage"} :
            \/ config.successes
            \/ config.checkers # {} /\ config.operations}
  \union {j \in {"fault coverage"} : config.injections}

(* The order of the judges; the checkers come in the configuration's. *)
Rank(j) == CASE j = "fault execution"   -> 1
             [] j \in Checkers          -> 2
             [] j = "workload coverage" -> 3
             [] j = "fault coverage"    -> 4

(* What each of them objects to in the history it reads. *)
Objects(j) ==
  CASE j = "fault execution"   -> "failed fault" \in history
    [] j = "reads"             -> "wrong answer" \in history
    [] j = "leaders"           -> "rival leaders" \in history
    [] j = "workload coverage" -> "success" \notin history
    [] j = "fault coverage"    -> "injection" \notin history
    [] j = "misspelt"          -> FALSE

(* A judge that cannot be had or cannot read counts as an objection, but   *)
(* the audit of the faults as an incomplete history.                       *)
NoOpinion(j) ==
  /\ \/ j = "fault execution" /\ UNCHANGED found /\ historyErr' = TRUE
     \/ j # "fault execution" /\ found' = TRUE /\ UNCHANGED historyErr
  /\ UNCHANGED <<violations, lost>>

(* The violation and then its event are written, or one write is lost. *)
Object(j) ==
  /\ j # "misspelt" /\ Objects(j)
  /\ found' = TRUE
  /\ \/ violations' = violations \union {j} /\ MayLose(TRUE)
     \/ UNCHANGED violations /\ LoseWrite(TRUE)

Judge(j) ==
  /\ stage = "judge" /\ j \in Judges \ judged
  /\ \A k \in Judges \ judged : Rank(j) <= Rank(k)
  /\ judged' = judged \union {j}
  /\ \/ NoOpinion(j)
     \/ Object(j)
     \/ /\ j # "misspelt" /\ ~Objects(j)
        /\ UNCHANGED <<found, violations, losses>>
  /\ UNCHANGED <<config, stage, final, outcome, world>>

AllJudged ==
  /\ stage = "judge" /\ judged = Judges
  /\ stage' = "verdict"
  /\ UNCHANGED <<config, final, outcome, world, verdict, losses>>

(* Mutant: a violation outweighs an incomplete history. *)
FinalStatusViolationFirst == IF found THEN "FAILED"
                             ELSE IF historyErr THEN "CRASHED" ELSE final

FinalStatus == IF historyErr THEN "CRASHED"
               ELSE IF found THEN "FAILED" ELSE final

Decide ==
  /\ stage = "verdict"
  /\ final' = FinalStatus /\ stage' = "update"
  /\ UNCHANGED <<config, outcome, world, verdict, losses>>

(* An update of the row that fails is not noticed. *)
UpdateRun ==
  /\ stage = "update"
  /\ row' \in {final, row}
  /\ stage' = "announce"
  /\ UNCHANGED <<config, final, failed, world, verdict, losses, report>>

(* RunCompleted, too late for the verdict. *)
Announce ==
  /\ stage = "announce" /\ stage' = "report"
  /\ MayLose(FALSE)
  /\ UNCHANGED <<config, final, outcome, world, verdict>>

-----------------------------------------------------------------------------
(* Runner.RunAndReport: what can be read of the run afterwards. *)

ReadStatus == {"UNKNOWN"} \union ({row} \ {"none"})

Report ==
  /\ stage = "report" /\ stage' = "done"
  /\ \/ report' = [status |-> "CRASHED", violations |-> FALSE, err |-> TRUE]
     \/ \E s \in ReadStatus, v \in {FALSE, violations # {}} :
          report' = [status |-> s, violations |-> v, err |-> failed]
  /\ UNCHANGED <<config, final, row, failed, world, verdict, losses>>

-----------------------------------------------------------------------------
Lifecycle ==
  \/ CreateRun \/ StartNodes \/ Warmup \/ StartFaultsAndWorkload
  \/ WorkloadDone \/ BreakOff \/ Drained
  \/ (\E i \in DOMAIN StopOrder : Stop(i)) \/ AllStopped
  \/ (\E j \in Judges : Judge(j)) \/ AllJudged
  \/ Decide \/ UpdateRun \/ Announce \/ Report

Environment ==
  \/ \E w \in Activities : Write(w) \/ End(w)
  \/ Timeout \/ Cancel \/ ProxyFails

Next == Lifecycle \/ Environment

(* The runner's goroutine is scheduled, timers fire, and what the runner   *)
(* waits for ends once it has to: the workers between two requests, the    *)
(* scheduler and the nodes as FaultScheduler shows.  Nothing is assumed of *)
(* the handlers and the leadership monitor.                                *)
Fairness ==
  /\ WF_vars(Lifecycle) /\ WF_vars(Timeout)
  /\ \A w \in {"clients", "scheduler", "nodes"} : WF_vars(End(w))

Spec == Init /\ [][Next]_vars /\ Fairness
-----------------------------------------------------------------------------
Stages == {"create", "nodes", "warmup", "scheduler", "workload", "drain",
           "cleanup", "judge", "verdict", "update", "announce", "report",
           "done"}

(* Every variable has a value of its type; in particular a report has a    *)
(* status, even when the row cannot be read.                               *)
TypeOK ==
  /\ config \in Configs /\ stage \in Stages
  /\ row \in Statuses \union {"none"} /\ final \in Statuses
  /\ failed \in BOOLEAN
  /\ active \subseteq Activities /\ told \subseteq Activities
  /\ over \in {"no", "time", "cancelled", "proxy"}
  /\ cancelled \in BOOLEAN /\ proxyDown \in BOOLEAN
  /\ history \subseteq Evidence
  /\ judged \subseteq Judges /\ violations \subseteq judged
  /\ found \in BOOLEAN /\ historyErr \in BOOLEAN /\ lost \in BOOLEAN
  /\ report \in RunResult \union {NoReport}

(* The database or the report says so. *)
Says(status) == row = status \/ report.status = status

(* A run that is called PASSED gives no configured judge a reason to       *)
(* object, now that everything the runner waits for has been written: no   *)
(* fault failed, no configured checker sees a wrong answer, every checker  *)
(* exists, operations succeeded where they had to, and faults were         *)
(* injected where they had to be.  No violation is stored and Run returned *)
(* no error.                                                               *)
PassedIsJudged ==
  Says("PASSED") =>
    /\ "misspelt" \notin config.checkers
    /\ "failed fault" \notin history
    /\ "reads" \in config.checkers => "wrong answer" \notin history
    /\ config.successes => "success" \in history
    /\ config.operations /\ config.checkers # {} => "success" \in history
    /\ config.injections => "injection" \in history
    /\ violations = {} /\ ~failed

(* When a write was lost of the workers, the scheduler, the nodes or the   *)
(* judges, the run is not called PASSED, FAILED or ABORTED: either it is   *)
(* CRASHED or its row was never completed.                                 *)
LostWriteIsNotHidden ==
  lost => ~\E s \in {"PASSED", "FAILED", "ABORTED"} : Says(s)

(* PASSED and FAILED are verdicts on a whole run: the workload was ended   *)
(* by its duration, not by an interruption or a failure of the proxy.      *)
VerdictIsOfFullRun ==
  Says("PASSED") \/ Says("FAILED") => over = "time"

(* Every run comes to a report, however it is interrupted. *)
RunEnds == <>(stage = "done")
=============================================================================
