---------------------------- MODULE NodeManager ----------------------------
(***************************************************************************)
(* The node manager of internal/node/manager.go: it spawns one operating   *)
(* system process per cluster node, and kills, restarts, pauses, resumes   *)
(* and stops it.  Every method of the manager runs under one mutex and is  *)
(* one action here; RestartNode sleeps between two locked sections and is  *)
(* two.  What happens without the lock is modelled step by step: processes *)
(* exit on their own, posted signals take effect later, os/exec's watcher  *)
(* kills the process of a cancelled context, the grace timer of a stop     *)
(* fires, and one monitor goroutine per process reaps it and then records  *)
(* the exit under the lock.                                                *)
(*                                                                         *)
(* A process stands for its whole process group.  The k-th process started *)
(* for node n is <<n, k>>; np.Cmd is always the last one started.  The     *)
(* data directory and its snapshots are part of DataDirectory.             *)
(***************************************************************************)
EXTENDS Naturals

CONSTANTS
  Nodes,      \* the configured nodes, node-1 .. node-N
  MaxSpawns   \* bound: how often one node may be started

ASSUME SpawnsAssumption == MaxSpawns \in Nat

Procs == Nodes \X (1 .. MaxSpawns)

(* The context a process is started under: StartAll passes the context of  *)
(* the run, a fault passes the context of the scheduler.                   *)
Contexts == {"run", "sched"}

(* STARTING and RESTARTING are declared too, but no method stores them:    *)
(* they only name the event a start emits.                                 *)
NodeState == {"DECLARED", "RUNNING", "PAUSED", "KILLED", "STOPPED", "CRASHED"}

(* "zombie": exited, not yet waited for.  "exiting": cmd.Wait has returned *)
(* and Done is closed.  "finished": the monitor has recorded the exit.     *)
Phase == {"unborn", "up", "frozen", "zombie", "exiting", "finished"}

(* What has been sent to a process: the signals, the call of its           *)
(* CancelFunc, and the expiry of the grace timer of a stop.                *)
Posted == {"SIGTERM", "SIGKILL", "cancel", "grace"}

VARIABLES
  state,       \* np.State
  spawned,     \* how many processes np has had; np.Cmd is the last of them
  phase,       \* of every process
  posted,      \* the subset of Posted that every process was sent
  parent,      \* the context every process was started under
  restarting,  \* nodes whose RestartNode call is in its unlocked sleep
  ctxDone,     \* the cancelled contexts
  halting      \* StopAll: not called, waiting for the monitors, returned

vars == <<state, spawned, phase, posted, parent, restarting, ctxDone, halting>>

Halting == {"no", "waiting", "returned"}

TypeOK ==
  /\ state \in [Nodes -> NodeState]
  /\ spawned \in [Nodes -> 0 .. MaxSpawns]
  /\ phase \in [Procs -> Phase]
  /\ posted \in [Procs -> SUBSET Posted]
  /\ parent \in [Procs -> Contexts]
  /\ restarting \in SUBSET Nodes
  /\ ctxDone \in SUBSET Contexts
  /\ halting \in Halting

Init ==
  /\ state = [n \in Nodes |-> "DECLARED"]
  /\ spawned = [n \in Nodes |-> 0]
  /\ phase = [p \in Procs |-> "unborn"]
  /\ posted = [p \in Procs |-> {}]
  /\ parent = [p \in Procs |-> "run"]
  /\ restarting = {}
  /\ ctxDone = {}
  /\ halting = "no"

----------------------------------------------------------------------------
(* Helpers                                                                 *)

Cmd(n) == <<n, spawned[n]>>

Active(n) == state[n] \in {"RUNNING", "PAUSED"}

Alive(p) == phase[p] \in {"up", "frozen"}

Reaped(p) == phase[p] \in {"exiting", "finished"}

(* kill(2) on a process group that was waited for fails with ESRCH; on a   *)
(* zombie it succeeds and does nothing.                                    *)
Signalable(n) == phase[Cmd(n)] \in {"up", "frozen", "zombie"}

(* nodeCtx is cancelled by np.CancelFunc or with its parent context.       *)
Cancelled(p) == "cancel" \in posted[p] \/ parent[p] \in ctxDone

Doomed(p) == "SIGKILL" \in posted[p] \/ Cancelled(p)

----------------------------------------------------------------------------
(* Methods.  A failed call that changes nothing is not a step.             *)

CanStart(n, c) == c \notin ctxDone /\ spawned[n] < MaxSpawns

(* startNodeUnlocked, for every node of S at once: the new process is      *)
(* recorded RUNNING as soon as cmd.Start returns.                          *)
StartNodesUnlocked(S, c) ==
  LET Fresh(p) == p[1] \in S /\ p[2] = spawned[p[1]] + 1
  IN /\ \A n \in S : CanStart(n, c)
     /\ spawned' = [n \in Nodes |-> IF n \in S THEN spawned[n] + 1 ELSE spawned[n]]
     /\ state' = [n \in Nodes |-> IF n \in S THEN "RUNNING" ELSE state[n]]
     /\ phase' = [p \in Procs |-> IF Fresh(p) THEN "up" ELSE phase[p]]
     /\ parent' = [p \in Procs |-> IF Fresh(p) THEN c ELSE parent[p]]
     /\ UNCHANGED posted

(* StartAll returns at the first start that fails: the nodes of S were     *)
(* started before it.                                                      *)
StartAll(S) ==
  /\ halting = "no"
  /\ \A n \in Nodes : state[n] = "DECLARED"
  /\ StartNodesUnlocked(S, "run")
  /\ UNCHANGED <<restarting, ctxDone, halting>>

(* Faults are injected only once StartAll has succeeded and until the      *)
(* cleanup calls StopAll (runner.go).                                      *)
Operating == halting = "no" /\ \A n \in Nodes : state[n] # "DECLARED"

(* StartNode does nothing for a RUNNING node and starts a process in every *)
(* other state.                                                            *)
StartNode(n) ==
  /\ Operating
  /\ state[n] # "RUNNING"
  /\ StartNodesUnlocked({n}, "sched")
  /\ UNCHANGED <<restarting, ctxDone, halting>>

KillSucceeds(n) == Active(n) /\ Signalable(n)

(* Mutants of KillEffect: the state is left to the monitor; the group is   *)
(* sent SIGTERM only and the context is kept.                              *)
KillKeepsState(n) ==
  /\ posted' = [posted EXCEPT ![Cmd(n)] = @ \cup {"SIGKILL", "cancel"}]
  /\ UNCHANGED state

KillByTerm(n) ==
  /\ state' = [state EXCEPT ![n] = "KILLED"]
  /\ posted' = [posted EXCEPT ![Cmd(n)] = @ \cup {"SIGTERM"}]

KillEffect(n) ==
  /\ state' = [state EXCEPT ![n] = "KILLED"]
  /\ posted' = [posted EXCEPT ![Cmd(n)] = @ \cup {"SIGKILL", "cancel"}]

KillNode(n) ==
  /\ Operating
  /\ KillSucceeds(n)
  /\ KillEffect(n)
  /\ UNCHANGED <<spawned, phase, parent, restarting, ctxDone, halting>>

(* Mutant of RestartNodeKills: it does not kill.                           *)
RestartWithoutKill(n) ==
  /\ Operating
  /\ n \notin restarting
  /\ restarting' = restarting \cup {n}
  /\ UNCHANGED <<state, spawned, phase, posted, parent, ctxDone, halting>>

(* The first half of RestartNode: the error of KillNode is ignored.        *)
RestartNodeKills(n) ==
  /\ Operating
  /\ n \notin restarting
  /\ restarting' = restarting \cup {n}
  /\ IF KillSucceeds(n) THEN KillEffect(n) ELSE UNCHANGED <<state, posted>>
  /\ UNCHANGED <<spawned, phase, parent, ctxDone, halting>>

(* The second half, after the sleep: it starts the node whatever its state *)
(* is by now, or fails and returns the error.                              *)
RestartNodeStarts(n) ==
  /\ Operating
  /\ n \in restarting
  /\ restarting' = restarting \ {n}
  /\ StartNodesUnlocked({n}, "sched")
  /\ UNCHANGED <<ctxDone, halting>>

RestartNodeFails(n) ==
  /\ Operating
  /\ n \in restarting
  /\ restarting' = restarting \ {n}
  /\ UNCHANGED <<state, spawned, phase, posted, parent, ctxDone, halting>>

PauseNode(n) ==
  /\ Operating
  /\ state[n] = "RUNNING" /\ Signalable(n)
  /\ state' = [state EXCEPT ![n] = "PAUSED"]
  /\ phase' = [phase EXCEPT ![Cmd(n)] = IF @ = "up" THEN "frozen" ELSE @]
  /\ UNCHANGED <<spawned, posted, parent, restarting, ctxDone, halting>>

(* Mutant of ResumeNode: SIGCONT is not sent.                              *)
ResumeInNameOnly(n) ==
  /\ Operating
  /\ state[n] = "PAUSED" /\ Signalable(n)
  /\ state' = [state EXCEPT ![n] = "RUNNING"]
  /\ UNCHANGED <<spawned, phase, posted, parent, restarting, ctxDone, halting>>

ResumeNode(n) ==
  /\ Operating
  /\ state[n] = "PAUSED" /\ Signalable(n)
  /\ state' = [state EXCEPT ![n] = "RUNNING"]
  /\ phase' = [phase EXCEPT ![Cmd(n)] = IF @ = "frozen" THEN "up" ELSE @]
  /\ UNCHANGED <<spawned, posted, parent, restarting, ctxDone, halting>>

(* Mutant of StopAll: only RUNNING nodes are stopped.                      *)
StopAllRunning ==
  /\ halting = "no"
  /\ restarting = {}
  /\ halting' = "waiting"
  /\ state' = [n \in Nodes |-> IF state[n] = "RUNNING" THEN "STOPPED" ELSE state[n]]
  /\ posted' = [p \in Procs |-> IF state[p[1]] = "RUNNING" /\ p[2] = spawned[p[1]]
                                THEN posted[p] \cup {"SIGTERM", "cancel"}
                                ELSE posted[p]]
  /\ UNCHANGED <<spawned, phase, parent, restarting, ctxDone>>

(* StopAll: stopNodeUnlocked for every node, one locked section.  SIGTERM, *)
(* a timer for SIGKILL, and then np.CancelFunc() without waiting.          *)
StopAll ==
  /\ halting = "no"
  /\ restarting = {}
  /\ halting' = "waiting"
  /\ state' = [n \in Nodes |-> IF Active(n) THEN "STOPPED" ELSE state[n]]
  /\ posted' = [p \in Procs |-> IF Active(p[1]) /\ p[2] = spawned[p[1]]
                                THEN posted[p] \cup {"SIGTERM", "cancel"}
                                ELSE posted[p]]
  /\ UNCHANGED <<spawned, phase, parent, restarting, ctxDone>>

(* nm.wg.Wait(): every monitor that was started has returned.              *)
StopAllReturns ==
  /\ halting = "waiting"
  /\ \A p \in Procs : phase[p] \in {"unborn", "finished"}
  /\ halting' = "returned"
  /\ UNCHANGED <<state, spawned, phase, posted, parent, restarting, ctxDone>>

----------------------------------------------------------------------------
(* Processes, signals and contexts                                         *)

(* The node program ends by itself, or obeys a SIGTERM.                    *)
ProcessExits(p) ==
  /\ phase[p] = "up"
  /\ phase' = [phase EXCEPT ![p] = "zombie"]
  /\ UNCHANGED <<state, spawned, posted, parent, restarting, ctxDone, halting>>

(* SIGKILL ends a process whether it runs or is stopped.                   *)
ProcessDies(p) ==
  /\ Alive(p) /\ "SIGKILL" \in posted[p]
  /\ phase' = [phase EXCEPT ![p] = "zombie"]
  /\ UNCHANGED <<state, spawned, posted, parent, restarting, ctxDone, halting>>

(* os/exec watches nodeCtx and calls cmd.Cancel, which kills the group.    *)
WatchCtx(p) ==
  /\ Alive(p) /\ Cancelled(p) /\ "SIGKILL" \notin posted[p]
  /\ posted' = [posted EXCEPT ![p] = @ \cup {"SIGKILL"}]
  /\ UNCHANGED <<state, spawned, phase, parent, restarting, ctxDone, halting>>

(* The timer armed by stopNodeUnlocked fires before Done is closed.        *)
GraceExpires(p) ==
  /\ "SIGTERM" \in posted[p] /\ "grace" \notin posted[p]
  /\ ~Reaped(p)
  /\ posted' = [posted EXCEPT ![p] = @ \cup {"SIGKILL", "grace"}]
  /\ UNCHANGED <<state, spawned, phase, parent, restarting, ctxDone, halting>>

CancelContexts(C) ==
  /\ ctxDone' = ctxDone \cup C
  /\ UNCHANGED <<state, spawned, phase, posted, parent, restarting, halting>>

(* monitorProcess up to close(done): without the lock.                     *)
MonitorReaps(p) ==
  /\ phase[p] = "zombie"
  /\ phase' = [phase EXCEPT ![p] = "exiting"]
  /\ UNCHANGED <<state, spawned, posted, parent, restarting, ctxDone, halting>>

(* Mutant of MonitorRecords: the generations are compared wrongly.         *)
MonitorRecordsReplaced(n, k) ==
  /\ phase[<<n, k>>] = "exiting"
  /\ phase' = [phase EXCEPT ![<<n, k>>] = "finished"]
  /\ state' = [state EXCEPT ![n] = IF k < spawned[n] /\ @ = "RUNNING"
                                   THEN "CRASHED" ELSE @]
  /\ UNCHANGED <<spawned, posted, parent, restarting, ctxDone, halting>>

(* monitorProcess under the lock: a monitor whose process was replaced     *)
(* leaves the node alone.                                                  *)
MonitorRecords(n, k) ==
  /\ phase[<<n, k>>] = "exiting"
  /\ phase' = [phase EXCEPT ![<<n, k>>] = "finished"]
  /\ state' = [state EXCEPT ![n] = IF k = spawned[n] /\ @ = "RUNNING"
                                   THEN "CRASHED" ELSE @]
  /\ UNCHANGED <<spawned, posted, parent, restarting, ctxDone, halting>>

----------------------------------------------------------------------------
(* Its callers, the persistence faults, call StartNode for the node they   *)
(* have just killed, from the goroutine that also calls RestartNode.       *)
StartKilledNode(n) == state[n] = "KILLED" /\ n \notin restarting /\ StartNode(n)

Method ==
  \/ \E S \in SUBSET Nodes : StartAll(S)
  \/ \E n \in Nodes :
       \/ StartKilledNode(n) \/ KillNode(n)
       \/ RestartNodeKills(n) \/ RestartNodeStarts(n) \/ RestartNodeFails(n)
       \/ PauseNode(n) \/ ResumeNode(n)
  \/ StopAll
  \/ StopAllReturns

Background(p) ==
  \/ ProcessExits(p) \/ ProcessDies(p) \/ WatchCtx(p) \/ GraceExpires(p)
  \/ MonitorReaps(p)
  \/ MonitorRecords(p[1], p[2])

Next ==
  \/ Method
  \/ \E p \in Procs : Background(p)
  \/ \E C \in SUBSET Contexts : CancelContexts(C)

Spec == Init /\ [][Next]_vars

(* The kernel delivers SIGKILL, the runtime schedules the watcher and the  *)
(* monitor of every process, and a StopAll that may return does.  No one   *)
(* is obliged to call a method, to exit or to cancel a context, and the    *)
(* grace timer is not needed.                                              *)
Fairness ==
  /\ \A p \in Procs :
       /\ WF_vars(ProcessDies(p)) /\ WF_vars(WatchCtx(p))
       /\ WF_vars(MonitorReaps(p)) /\ WF_vars(MonitorRecords(p[1], p[2]))
  /\ WF_vars(StopAllReturns)

FairSpec == Spec /\ Fairness

----------------------------------------------------------------------------
(* What the manager implements: an instance of a node is a process that is *)
(* alive and that nothing has told to end.                                 *)

LiveOf(n) ==
  IF spawned[n] = 0 \/ ~Alive(Cmd(n)) \/ Doomed(Cmd(n)) THEN "none"
  ELSE IF phase[Cmd(n)] = "up" THEN "running" ELSE "suspended"

Lifecycle ==
  INSTANCE NodeLifecycle WITH inst <- spawned, live <- [n \in Nodes |-> LiveOf(n)]

(* Every step of the manager is a step of the abstract lifecycle or leaves *)
(* it alone: in particular a node is started again only when its previous  *)
(* process is dead or doomed.                                              *)
ImplementsLifecycle == Lifecycle!Spec

----------------------------------------------------------------------------
(* Correctness                                                             *)

(* A process that was replaced by a later one of the same node has been    *)
(* sent SIGKILL, is going to be, or is no longer alive: starting a node    *)
(* never leaves a second process of it behind that nobody will stop.       *)
NoOrphan ==
  \A n \in Nodes : \A k \in 1 .. MaxSpawns :
    k < spawned[n] /\ Alive(<<n, k>>) => Doomed(<<n, k>>)

(* What the manager records of a node agrees with its current process: a   *)
(* node it reports down is dead or doomed, a crashed one is gone, a        *)
(* RUNNING one is not stopped by SIGSTOP and its exit is still to be       *)
(* recorded, a PAUSED one does not execute, and the manager itself has     *)
(* sent no ending signal to a node it reports RUNNING or PAUSED unless a   *)
(* context above it was cancelled.                                         *)
StateMatchesProcess ==
  \A n \in Nodes :
    LET p == Cmd(n)
    IN /\ state[n] = "DECLARED" <=> spawned[n] = 0
       /\ state[n] \in {"KILLED", "STOPPED"} => ~Alive(p) \/ Doomed(p)
       /\ state[n] = "CRASHED" => phase[p] = "finished"
       /\ state[n] = "RUNNING" => phase[p] \in {"up", "zombie", "exiting"}
       /\ state[n] = "PAUSED" => phase[p] # "up"
       /\ Active(n) /\ posted[p] # {} => parent[p] \in ctxDone

(* The manager's own stops and kills are never recorded as a crash: an     *)
(* exit that monitorProcess calls one was asked for neither by a method    *)
(* nor by a context, unless the context above the process was cancelled.   *)
OwnStopIsNoCrash ==
  [][\A n \in Nodes : state'[n] = "CRASHED" /\ state[n] # "CRASHED"
                      => ~Doomed(Cmd(n)) \/ parent[Cmd(n)] \in ctxDone]_vars

(* StopAll returns: it waits for the monitors of all processes ever        *)
(* started, the replaced and the paused ones too.                          *)
StopAllCompletes == halting = "waiting" ~> halting = "returned"

(* No end of a process goes unnoticed: when the process of a RUNNING node  *)
(* has exited, the node leaves RUNNING or gets a new process; and when a   *)
(* node is killed, its process really goes away and is reaped.             *)
EndsAreNoticed ==
  \A n \in Nodes : \A k \in 1 .. MaxSpawns :
    /\ state[n] = "RUNNING" /\ spawned[n] = k /\ phase[<<n, k>>] = "zombie"
         ~> state[n] # "RUNNING" \/ spawned[n] > k
    /\ state[n] = "KILLED" /\ spawned[n] = k ~> phase[<<n, k>>] = "finished"

----------------------------------------------------------------------------
(* The inductive invariant                                                 *)

(* Processes are born in order, nothing is sent to one before it is born,  *)
(* and the process of a node inside RestartNode is dead or doomed even     *)
(* when the kill failed.                                                   *)
Bookkeeping ==
  /\ \A n \in Nodes : \A k \in 1 .. MaxSpawns :
       /\ k > spawned[n] => phase[<<n, k>>] = "unborn" /\ posted[<<n, k>>] = {}
       /\ k <= spawned[n] => phase[<<n, k>>] # "unborn"
  /\ \A n \in restarting :
       spawned[n] > 0 /\ (~Alive(Cmd(n)) \/ Doomed(Cmd(n)))

IInv == TypeOK /\ NoOrphan /\ StateMatchesProcess /\ Bookkeeping

============================================================================
