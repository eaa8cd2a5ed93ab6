--------------------------- MODULE FaultScheduler ---------------------------
(***************************************************************************)
(* The fault scheduler of internal/faults/scheduler.go and the process     *)
(* faults it injects, composed with the node manager they call and with    *)
(* the order in which internal/runner/runner.go starts and shuts them      *)
(* down.                                                                   *)
(*                                                                         *)
(* One goroutine, runLoop, injects the schedule in order; a fault that     *)
(* sleeps keeps it busy.  cpu_pause and slow_disk launch a recovery        *)
(* goroutine each, which Stop waits for.  Time is abstracted: which faults *)
(* are due at a tick and when a timer fires is left open, so the model     *)
(* covers every lateness of the loop and every order of the goroutines.    *)
(***************************************************************************)
EXTENDS Naturals, Sequences

CONSTANTS
  Nodes,
  MaxSpawns,
  Schedules,  \* the schedules considered, sequences of [type, node] records
  MaxFaults,  \* bound: the length of a schedule
  MaxStalls   \* bound: stalls of one slow_disk that fit its duration

FaultTypes ==
  {"kill_node", "restart_node", "cpu_pause", "slow_disk",
   "persistence",  \* disk_write_loss, partial_persistence, stale_snapshot_restart
   "network",      \* the faults that only set rules in the proxy
   "invalid"}      \* unknown to the registry, or rejected by Validate or Inject

Faults == [type : FaultTypes, node : Nodes]

ASSUME SchedulesAssumption ==
  \A s \in Schedules : s \in Seq(Faults) /\ Len(s) <= MaxFaults
ASSUME StallsAssumption == MaxStalls \in Nat
ASSUME SpawnsAssumption == MaxSpawns \in Nat

VARIABLES
  state, spawned, phase, posted, parent, restarting, ctxDone, halting,
  runner,     \* how far Runner.Run has got
  schedule,   \* s.schedule, sorted
  loop,       \* where runLoop is
  idx,        \* the next fault of the schedule, from 1
  due,        \* the last fault that is due at this tick
  recovery,   \* of every fault, the recovery goroutine it launched
  stalls,     \* of every slow_disk, its stalls so far
  audit       \* of every fault, the events logged about it

managerVars ==
  <<state, spawned, phase, posted, parent, restarting, ctxDone, halting>>
schedulerVars == <<schedule, loop, idx, due, recovery, stalls, audit>>
vars == <<managerVars, runner, schedulerVars>>

Manager == INSTANCE NodeManager

RunnerPhase == {"starting", "warmup", "running", "stopping", "cleanup"}

(* "batch": injecting the due faults.  "sleep": inside a fault, between    *)
(* its kill and its start.  "confirm": Inject has returned nil and         *)
(* FaultInjected is not logged yet.                                        *)
LoopPhase == {"off", "select", "batch", "sleep", "confirm", "done"}

(* "stalled": the fault holds its node paused.  "interval": between two    *)
(* stalls.  "rescue": a resume failed and the deferred one is to come.     *)
Recovery == {"none", "stalled", "interval", "rescue", "done"}

Outcome == {"FaultAttempted", "FaultInjected", "FaultInjectionFailed",
            "FaultCompleted", "FaultRecoveryFailed"}

Fault == schedule[idx]

TypeOK ==
  /\ Manager!TypeOK
  /\ runner \in RunnerPhase
  /\ schedule \in Schedules
  /\ loop \in LoopPhase
  /\ idx \in 1 .. Len(schedule) + 1
  /\ due \in 0 .. Len(schedule)
  /\ recovery \in [DOMAIN schedule -> Recovery]
  /\ stalls \in [DOMAIN schedule -> 0 .. MaxStalls]
  /\ audit \in [DOMAIN schedule -> SUBSET Outcome]

Init ==
  /\ Manager!Init
  /\ runner = "starting"
  /\ schedule \in Schedules
  /\ loop = "off"
  /\ idx = 1
  /\ due = 0
  /\ recovery = [i \in DOMAIN schedule |-> "none"]
  /\ stalls = [i \in DOMAIN schedule |-> 0]
  /\ audit = [i \in DOMAIN schedule |-> {}]

----------------------------------------------------------------------------
(* Runner.Run and cleanup                                                  *)

(* A cluster that does not start completely is cleaned up at once.         *)
StartCluster(S) ==
  /\ runner = "starting"
  /\ Manager!StartAll(S)
  /\ runner' = IF S = Nodes THEN "warmup" ELSE "cleanup"
  /\ UNCHANGED schedulerVars

(* Scheduler.Start: an empty schedule needs no goroutine.                  *)
SchedulerStart ==
  /\ runner = "warmup"
  /\ runner' = "running"
  /\ loop' = IF schedule = <<>> THEN "off" ELSE "select"
  /\ UNCHANGED <<managerVars, schedule, idx, due, recovery, stalls, audit>>

(* The run is aborted during the warmup, or Scheduler.Start fails: there   *)
(* is no loop to stop.                                                     *)
SchedulerNeverStarts ==
  /\ runner = "warmup"
  /\ runner' = "cleanup"
  /\ UNCHANGED <<managerVars, schedulerVars>>

(* Mutant of Stop: the context of the loop is not cancelled.               *)
StopWithoutCancel ==
  /\ runner = "running"
  /\ runner' = "stopping"
  /\ UNCHANGED <<managerVars, schedulerVars>>

(* The user interrupts the run: the context of the scheduler descends from *)
(* the one of the run.                                                     *)
Interrupt ==
  /\ "run" \notin ctxDone
  /\ Manager!CancelContexts({"run", "sched"})
  /\ UNCHANGED <<runner, schedulerVars>>

(* The workload is over, or the proxy died, or the run was interrupted:    *)
(* cleanup calls Scheduler.Stop.                                           *)
Stop ==
  /\ runner = "running"
  /\ runner' = "stopping"
  /\ IF loop = "off" THEN UNCHANGED managerVars
     ELSE Manager!CancelContexts({"sched"})
  /\ UNCHANGED schedulerVars

(* Mutant of StopReturns: it waits for the loop only.                      *)
StopForgetsRecoveries ==
  /\ runner = "stopping"
  /\ loop \in {"off", "done"}
  /\ runner' = "cleanup"
  /\ UNCHANGED <<managerVars, schedulerVars>>

(* s.wg.Wait(): the loop and every launched recovery have returned.        *)
StopReturns ==
  /\ runner = "stopping"
  /\ loop \in {"off", "done"}
  /\ \A i \in DOMAIN schedule : recovery[i] \in {"none", "done"}
  /\ runner' = "cleanup"
  /\ UNCHANGED <<managerVars, schedulerVars>>

StopAll ==
  /\ runner = "cleanup"
  /\ Manager!StopAll \/ Manager!StopAllReturns
  /\ UNCHANGED <<runner, schedulerVars>>

----------------------------------------------------------------------------
(* runLoop                                                                 *)

Tick ==
  /\ loop = "select"
  /\ \E j \in idx .. Len(schedule) : due' = j
  /\ loop' = "batch"
  /\ UNCHANGED <<managerVars, runner, schedule, idx, recovery, stalls, audit>>

LoopCancelled ==
  /\ loop = "select" /\ "sched" \in ctxDone
  /\ loop' = "done"
  /\ UNCHANGED <<managerVars, runner, schedule, idx, due, recovery, stalls, audit>>

(* The events logged about the current fault, and the step to the next     *)
(* one: the inner loop does not look at the context.                       *)
Conclude(outcome) ==
  /\ audit' = [audit EXCEPT ![idx] = @ \cup {"FaultAttempted", outcome}]
  /\ idx' = idx + 1
  /\ loop' = IF idx = Len(schedule) THEN "done"
             ELSE IF idx = due THEN "select" ELSE "batch"
  /\ UNCHANGED <<schedule, due, stalls>>

(* The fault has been attempted, and goes on in phase l.                   *)
Proceed(l) ==
  /\ audit' = [audit EXCEPT ![idx] = @ \cup {"FaultAttempted"}]
  /\ loop' = l
  /\ UNCHANGED <<schedule, idx, due, stalls>>

InjectionFails == Conclude("FaultInjectionFailed") /\ UNCHANGED recovery

Injecting(types) == loop = "batch" /\ Fault.type \in types

(* The nodes on which KillNode, or the kill(2) in it, returns an error.    *)
KillFails(n) == ~Manager!KillSucceeds(n)

(* Mutant of InjectKill: the persistence faults ignore the error.          *)
InjectKillRegardless ==
  /\ Injecting({"kill_node", "persistence"})
  /\ Manager!KillNode(Fault.node) \/ (KillFails(Fault.node) /\ UNCHANGED managerVars)
  /\ Proceed(IF Fault.type = "kill_node" THEN "confirm" ELSE "sleep")
  /\ UNCHANGED <<runner, recovery>>

InjectKill ==
  /\ Injecting({"kill_node", "persistence"})
  /\ \/ /\ Manager!KillNode(Fault.node)
        /\ Proceed(IF Fault.type = "kill_node" THEN "confirm" ELSE "sleep")
        /\ UNCHANGED recovery
     \/ /\ KillFails(Fault.node)
        /\ InjectionFails
        /\ UNCHANGED managerVars
  /\ UNCHANGED runner

InjectRestart ==
  /\ Injecting({"restart_node"})
  /\ Manager!RestartNodeKills(Fault.node)
  /\ Proceed("sleep")
  /\ UNCHANGED <<runner, recovery>>

(* The pause is synchronous; the goroutine that resumes is launched.       *)
InjectPause ==
  /\ Injecting({"cpu_pause", "slow_disk"})
  /\ \/ /\ Manager!PauseNode(Fault.node)
        /\ recovery' = [recovery EXCEPT ![idx] = "stalled"]
        /\ Proceed("confirm")
     \/ /\ ~(state[Fault.node] = "RUNNING" /\ Manager!Signalable(Fault.node))
        /\ InjectionFails
        /\ UNCHANGED managerVars
  /\ UNCHANGED runner

InjectOther ==
  /\ Injecting({"network", "invalid"})
  /\ \/ Fault.type = "network" /\ Proceed("confirm") /\ UNCHANGED recovery
     \/ Fault.type = "invalid" /\ InjectionFails
  /\ UNCHANGED <<managerVars, runner>>

(* The sleep is over.  A restart starts the node; a persistence fault      *)
(* damages the data of the node it killed and starts it.  Either start     *)
(* fails under a cancelled context, and may fail otherwise; so may the     *)
(* damage, and then the node stays KILLED.                                 *)
Awake ==
  /\ loop = "sleep"
  /\ \/ /\ \/ Fault.type = "restart_node" /\ Manager!RestartNodeStarts(Fault.node)
           \/ Fault.type = "persistence" /\ Manager!StartNode(Fault.node)
        /\ Proceed("confirm")
        /\ UNCHANGED recovery
     \/ /\ \/ Fault.type = "restart_node" /\ Manager!RestartNodeFails(Fault.node)
           \/ Fault.type = "persistence" /\ UNCHANGED managerVars
        /\ InjectionFails
  /\ UNCHANGED runner

Confirm ==
  /\ loop = "confirm"
  /\ Conclude("FaultInjected")
  /\ UNCHANGED <<managerVars, runner, recovery>>

----------------------------------------------------------------------------
(* Recovery goroutines.  A wait ends when its timer fires or when the      *)
(* context is cancelled, and a goroutine for which both are true may take  *)
(* either branch.                                                          *)

Log(i, events) == audit' = [audit EXCEPT ![i] = @ \cup events]

GoTo(i, r) == recovery' = [recovery EXCEPT ![i] = r]

ResumeFails(n) == ~(state[n] = "PAUSED" /\ Manager!Signalable(n))

CpuPauseEnds(i) ==
  LET n == schedule[i].node
  IN /\ schedule[i].type = "cpu_pause" /\ recovery[i] = "stalled"
     /\ GoTo(i, "done")
     /\ \/ Manager!ResumeNode(n) /\ Log(i, {"FaultCompleted"})
        \/ ResumeFails(n) /\ Log(i, {"FaultRecoveryFailed"}) /\ UNCHANGED managerVars
     /\ UNCHANGED <<runner, schedule, loop, idx, due, stalls>>

(* The stall is over: resume; if the duration is over too, complete.       *)
SlowDiskStallEnds(i) ==
  LET n == schedule[i].node
  IN /\ schedule[i].type = "slow_disk" /\ recovery[i] = "stalled"
     /\ \/ /\ Manager!ResumeNode(n)
           /\ \/ GoTo(i, "done") /\ Log(i, {"FaultCompleted"})
              \/ GoTo(i, "interval") /\ UNCHANGED audit
        \/ /\ ResumeFails(n)
           /\ GoTo(i, "rescue") /\ Log(i, {"FaultRecoveryFailed"})
           /\ UNCHANGED managerVars
     /\ UNCHANGED <<runner, schedule, loop, idx, due, stalls>>

(* Mutant of SlowDiskRescue: no deferred resume.                           *)
NoRescue(i) ==
  /\ schedule[i].type = "slow_disk"
  /\ recovery[i] = "rescue" \/ (recovery[i] = "stalled" /\ "sched" \in ctxDone)
  /\ GoTo(i, "done")
  /\ UNCHANGED <<managerVars, runner, schedule, loop, idx, due, stalls, audit>>

(* The deferred resume of a goroutine that returns while it believes the   *)
(* node paused: after a cancellation, or after a resume that failed.       *)
SlowDiskRescue(i) ==
  LET n == schedule[i].node
  IN /\ schedule[i].type = "slow_disk"
     /\ recovery[i] = "rescue" \/ (recovery[i] = "stalled" /\ "sched" \in ctxDone)
     /\ GoTo(i, "done")
     /\ \/ Manager!ResumeNode(n) /\ UNCHANGED audit
        \/ ResumeFails(n) /\ Log(i, {"FaultRecoveryFailed"}) /\ UNCHANGED managerVars
     /\ UNCHANGED <<runner, schedule, loop, idx, due, stalls>>

(* The interval is over: complete, or pause again for the next stall.      *)
SlowDiskIntervalEnds(i) ==
  LET n == schedule[i].node
      last == stalls[i] = MaxStalls
  IN /\ recovery[i] = "interval"
     /\ \/ /\ GoTo(i, "done") /\ Log(i, {"FaultCompleted"})
           /\ UNCHANGED <<managerVars, stalls>>
        \/ /\ ~last
           /\ Manager!PauseNode(n)
           /\ GoTo(i, "stalled")
           /\ stalls' = [stalls EXCEPT ![i] = @ + 1]
           /\ UNCHANGED audit
        \/ /\ ~last
           /\ ~(state[n] = "RUNNING" /\ Manager!Signalable(n))
           /\ GoTo(i, "done") /\ Log(i, {"FaultRecoveryFailed"})
           /\ UNCHANGED <<managerVars, stalls>>
     /\ UNCHANGED <<runner, schedule, loop, idx, due>>

SlowDiskCancelled(i) ==
  /\ recovery[i] = "interval" /\ "sched" \in ctxDone
  /\ GoTo(i, "done")
  /\ UNCHANGED <<managerVars, runner, schedule, loop, idx, due, stalls, audit>>

----------------------------------------------------------------------------
Inject == InjectKill \/ InjectRestart \/ InjectPause \/ InjectOther

RunLoop == Tick \/ LoopCancelled \/ Inject \/ Awake \/ Confirm

Recover(i) ==
  \/ CpuPauseEnds(i) \/ SlowDiskStallEnds(i) \/ SlowDiskRescue(i)
  \/ SlowDiskIntervalEnds(i) \/ SlowDiskCancelled(i)

Runner ==
  \/ \E S \in SUBSET Nodes : StartCluster(S)
  \/ SchedulerStart \/ SchedulerNeverStarts \/ Interrupt
  \/ Stop \/ StopReturns \/ StopAll

(* What happens to the processes outside of any call.                      *)
Background(p) == Manager!Background(p) /\ UNCHANGED <<runner, schedulerVars>>

Next ==
  \/ Runner
  \/ RunLoop
  \/ \E i \in DOMAIN schedule : Recover(i)
  \/ \E p \in Manager!Procs : Background(p)

Spec == Init /\ [][Next]_vars

(* Timers fire and the Go runtime schedules runnable goroutines; the       *)
(* cleanup goes on once it has begun.  That a fault is due, that the       *)
(* cluster starts and that the run ends is not assumed.                    *)
Fairness ==
  /\ WF_vars(LoopCancelled) /\ WF_vars(Inject) /\ WF_vars(Awake) /\ WF_vars(Confirm)
  /\ \A i \in 1 .. MaxFaults : WF_vars(i \in DOMAIN schedule /\ Recover(i))
  /\ WF_vars(StopReturns) /\ WF_vars(StopAll)
  /\ \A p \in Manager!Procs :
       /\ WF_vars(Manager!ProcessDies(p) /\ UNCHANGED <<runner, schedulerVars>>)
       /\ WF_vars(Manager!WatchCtx(p) /\ UNCHANGED <<runner, schedulerVars>>)
       /\ WF_vars(Manager!MonitorReaps(p) /\ UNCHANGED <<runner, schedulerVars>>)
       /\ WF_vars(Manager!MonitorRecords(p[1], p[2]) /\ UNCHANGED <<runner, schedulerVars>>)

FairSpec == Spec /\ Fairness

----------------------------------------------------------------------------
(* Correctness                                                             *)

(* The scheduler and its faults use the manager as it expects to be used:  *)
(* every step is a step of NodeManager, so its invariants hold here.       *)
UsesManager == Manager!Spec

(* A node that is paused while its process can still be signalled has a    *)
(* recovery goroutine that is going to resume it: no interleaving of       *)
(* pauses, restarts, recoveries and a shutdown leaves a node frozen.       *)
PauseHasRecovery ==
  \A n \in Nodes :
    state[n] = "PAUSED" /\ Manager!Signalable(n) =>
      \E i \in DOMAIN schedule :
        schedule[i].node = n /\ recovery[i] \in {"stalled", "rescue"}

(* When Scheduler.Stop has returned the audit trail is complete: every     *)
(* attempted fault was either injected or failed, never both, only         *)
(* injected faults have a recovery outcome, and every cpu_pause that was   *)
(* injected has exactly one.                                               *)
AuditComplete ==
  runner = "cleanup" =>
    \A i \in DOMAIN schedule :
      /\ "FaultAttempted" \in audit[i] =>
           ("FaultInjected" \in audit[i]) # ("FaultInjectionFailed" \in audit[i])
      /\ audit[i] \cap {"FaultCompleted", "FaultRecoveryFailed"} # {} =>
           "FaultInjected" \in audit[i]
      /\ schedule[i].type = "cpu_pause" /\ "FaultInjected" \in audit[i] =>
           ("FaultCompleted" \in audit[i]) # ("FaultRecoveryFailed" \in audit[i])

(* A run that ends without being interrupted records no crash that the     *)
(* harness caused itself: an exit that monitorProcess calls unexpected was *)
(* not asked for by a context that Scheduler.Stop cancelled.               *)
NormalEndIsNoCrash ==
  [][\A n \in Nodes :
       state'[n] = "CRASHED" /\ state[n] # "CRASHED" /\ "run" \notin ctxDone
       => ~Manager!Doomed(Manager!Cmd(n))]_vars

(* A cleanup that has begun ends: the loop, the recoveries, every process  *)
(* and every monitor come to an end, however the run was interrupted.      *)
ShutdownCompletes == runner \in {"stopping", "cleanup"} ~> halting = "returned"

============================================================================
