------------------------ MODULE FaultScheduler_proofs -----------------------
(***************************************************************************)
(* Proofs about FaultScheduler, for any set of nodes and any schedules.    *)
(* The manager's own invariant is not proved again: every step of the      *)
(* scheduler is shown to be a step of NodeManager, and what was proved of  *)
(* that module is cited.                                                   *)
(***************************************************************************)
EXTENDS FaultScheduler, TLAPS

USE SpawnsAssumption

ManagerProofs == INSTANCE NodeManager_proofs

(* The loop is inside the injection of the current fault.                  *)
Busy == loop \in {"batch", "sleep", "confirm"}

Pausing == {"cpu_pause", "slow_disk"}
Recovered == {"FaultCompleted", "FaultRecoveryFailed"}

(* Where the loop is agrees with the schedule and with the run: it runs    *)
(* only between SchedulerStart and the return of Stop, and all that time   *)
(* every node has been started and StopAll has not been called.            *)
Progress ==
  /\ loop = "select" => idx <= Len(schedule)
  /\ Busy => idx <= due
  /\ loop = "off" => idx = 1
  /\ runner \in {"starting", "warmup"} => loop = "off"
  /\ loop = "select" \/ Busy => runner \in {"running", "stopping"}
  /\ runner \in {"warmup", "running", "stopping"} =>
       halting = "no" /\ \A n \in Nodes : state[n] # "DECLARED"
  /\ runner = "starting" => halting = "no"
  /\ runner = "cleanup" => \A i \in DOMAIN schedule : recovery[i] \in {"none", "done"}

(* RestartNode is only under way while the loop sleeps in a restart, and   *)
(* the node that a persistence fault has killed stays killed meanwhile.    *)
Sleeping ==
  /\ loop = "sleep" => Fault.type \in {"restart_node", "persistence"}
  /\ loop = "sleep" /\ Fault.type = "persistence" => state[Fault.node] = "KILLED"
  /\ restarting = IF loop = "sleep" /\ Fault.type = "restart_node"
                  THEN {Fault.node} ELSE {}

(* What has been logged of fault i, and what its goroutine does.           *)
Ahead(i) == i > idx \/ (i = idx /\ ~(loop \in {"sleep", "confirm"}))

Launched(i) == i < idx \/ (i = idx /\ loop = "confirm")

AuditOf(i) ==
  /\ Ahead(i) => audit[i] = {}
  /\ i = idx /\ loop = "sleep" => audit[i] = {"FaultAttempted"}
  /\ i = idx /\ loop = "confirm" =>
       audit[i] \cap {"FaultInjected", "FaultInjectionFailed"} = {}
  /\ i < idx => ("FaultInjected" \in audit[i]) # ("FaultInjectionFailed" \in audit[i])
  /\ recovery[i] # "none" =>
       /\ schedule[i].type \in Pausing
       /\ Launched(i)
       /\ i < idx => "FaultInjected" \in audit[i]
  /\ schedule[i].type \in Pausing =>
       /\ i = idx /\ loop = "confirm" => recovery[i] # "none"
       /\ "FaultInjected" \in audit[i] => recovery[i] # "none"
  /\ recovery[i] = "none" => audit[i] \cap Recovered = {}
  /\ schedule[i].type = "cpu_pause" =>
       /\ recovery[i] \in {"none", "stalled", "done"}
       /\ recovery[i] = "stalled" => audit[i] \cap Recovered = {}
       /\ recovery[i] = "done" =>
            ("FaultCompleted" \in audit[i]) # ("FaultRecoveryFailed" \in audit[i])

Audited == \A i \in DOMAIN schedule : AuditOf(i)

OwnTypeOK ==
  /\ runner \in RunnerPhase
  /\ schedule \in Schedules
  /\ loop \in LoopPhase
  /\ idx \in 1 .. Len(schedule) + 1
  /\ due \in 0 .. Len(schedule)
  /\ recovery \in [DOMAIN schedule -> Recovery]
  /\ stalls \in [DOMAIN schedule -> 0 .. MaxStalls]
  /\ audit \in [DOMAIN schedule -> SUBSET Outcome]

Own == OwnTypeOK /\ Progress /\ Sleeping /\ PauseHasRecovery /\ Audited

IInv == Manager!IInv /\ Own

----------------------------------------------------------------------------
(* Facts about the schedule and about the manager                          *)

LEMMA ScheduleFacts ==
  ASSUME OwnTypeOK
  PROVE  /\ Len(schedule) \in Nat /\ DOMAIN schedule = 1 .. Len(schedule)
         /\ \A i \in DOMAIN schedule : schedule[i] \in Faults
<1>1. schedule \in Seq(Faults)
  BY SchedulesAssumption DEF OwnTypeOK
<1> QED BY <1>1

LEMMA FaultIsOne ==
  ASSUME OwnTypeOK, Progress, Busy
  PROVE  /\ idx \in DOMAIN schedule /\ idx \in Nat /\ due \in Nat /\ idx <= due
         /\ Fault.node \in Nodes /\ Fault.type \in FaultTypes
<1>1. idx \in DOMAIN schedule /\ idx \in Nat /\ due \in Nat /\ idx <= due
  BY ScheduleFacts DEF OwnTypeOK, Progress
<1>2. Fault \in Faults
  BY <1>1, ScheduleFacts DEF Fault
<1> QED BY <1>1, <1>2 DEF Faults

(* The manager that the scheduler calls is the one that NodeManager_proofs *)
(* is about.                                                               *)
LEMMA SameInvariant == Manager!IInv <=> ManagerProofs!IInv
BY DEF Manager!Procs, ManagerProofs!Procs, Manager!Contexts, ManagerProofs!Contexts,
       Manager!IInv, ManagerProofs!IInv, Manager!TypeOK, ManagerProofs!TypeOK,
       Manager!NoOrphan, ManagerProofs!NoOrphan, Manager!StateMatchesProcess,
       ManagerProofs!StateMatchesProcess, Manager!Bookkeeping,
       ManagerProofs!Bookkeeping, Manager!Cmd, ManagerProofs!Cmd, Manager!Alive,
       ManagerProofs!Alive, Manager!Doomed, ManagerProofs!Doomed, Manager!Cancelled,
       ManagerProofs!Cancelled, Manager!Active, ManagerProofs!Active, Manager!NodeState,
       ManagerProofs!NodeState, Manager!Phase, ManagerProofs!Phase, Manager!Posted,
       ManagerProofs!Posted, Manager!Halting, ManagerProofs!Halting

LEMMA SameSteps == [Manager!Next]_managerVars => [ManagerProofs!Next]_ManagerProofs!vars
BY DEF Manager!Procs, ManagerProofs!Procs, Manager!Contexts, ManagerProofs!Contexts,
       Manager!Next, ManagerProofs!Next, Manager!Method, ManagerProofs!Method,
       Manager!Background, ManagerProofs!Background, Manager!StartAll,
       ManagerProofs!StartAll, Manager!StartNodesUnlocked,
       ManagerProofs!StartNodesUnlocked, Manager!CanStart, ManagerProofs!CanStart,
       Manager!StartKilledNode, ManagerProofs!StartKilledNode, Manager!StartNode,
       ManagerProofs!StartNode, Manager!Operating, ManagerProofs!Operating,
       Manager!KillNode, ManagerProofs!KillNode, Manager!KillSucceeds,
       ManagerProofs!KillSucceeds, Manager!KillEffect, ManagerProofs!KillEffect,
       Manager!Active, ManagerProofs!Active, Manager!Signalable,
       ManagerProofs!Signalable, Manager!Cmd, ManagerProofs!Cmd,
       Manager!RestartNodeKills, ManagerProofs!RestartNodeKills,
       Manager!RestartNodeStarts, ManagerProofs!RestartNodeStarts,
       Manager!RestartNodeFails, ManagerProofs!RestartNodeFails, Manager!PauseNode,
       ManagerProofs!PauseNode, Manager!ResumeNode, ManagerProofs!ResumeNode,
       Manager!StopAll, ManagerProofs!StopAll, Manager!StopAllReturns,
       ManagerProofs!StopAllReturns, Manager!ProcessExits, ManagerProofs!ProcessExits,
       Manager!ProcessDies, ManagerProofs!ProcessDies, Manager!Alive,
       ManagerProofs!Alive, Manager!WatchCtx, ManagerProofs!WatchCtx, Manager!Cancelled,
       ManagerProofs!Cancelled, Manager!GraceExpires, ManagerProofs!GraceExpires,
       Manager!Reaped, ManagerProofs!Reaped, Manager!MonitorReaps,
       ManagerProofs!MonitorReaps, Manager!MonitorRecords, ManagerProofs!MonitorRecords,
       Manager!CancelContexts, ManagerProofs!CancelContexts, managerVars,
       ManagerProofs!vars

LEMMA ManagerPreserves == Manager!IInv /\ [Manager!Next]_managerVars => Manager!IInv'
<1>1. Manager!IInv' <=> ManagerProofs!IInv'
  BY SameInvariant, PTL
<1> QED BY <1>1, SameInvariant, SameSteps, ManagerProofs!NextPreserves

(* A call that starts and pauses nothing, or what happens on its own.      *)
Quiet ==
  \/ \E p \in Manager!Procs : Manager!Background(p)
  \/ \E C \in SUBSET Manager!Contexts : Manager!CancelContexts(C)
  \/ \E n \in Nodes : \/ Manager!KillNode(n) \/ Manager!ResumeNode(n)
                      \/ Manager!RestartNodeKills(n) \/ Manager!RestartNodeFails(n)
  \/ Manager!StopAll \/ Manager!StopAllReturns
  \/ UNCHANGED managerVars

(* A paused node with a process that takes signals: what PauseHasRecovery  *)
(* is about.                                                               *)
Held(n) == state[n] = "PAUSED" /\ Manager!Signalable(n)

LEMMA PausedHasProcess ==
  ASSUME Manager!IInv, NEW n \in Nodes, state[n] # "DECLARED"
  PROVE  Manager!Cmd(n) \in Manager!Procs /\ spawned[n] \in 1 .. MaxSpawns
BY DEF Manager!IInv, Manager!TypeOK, Manager!StateMatchesProcess, Manager!Procs,
       Manager!Cmd

LEMMA ProcessEnds ==
  ASSUME Manager!IInv, NEW n \in Nodes,
         state[n] = "PAUSED" \/ state'[n] # "PAUSED", UNCHANGED spawned,
         \A p \in Manager!Procs : phase'[p] \in {"up", "frozen", "zombie"} =>
                                    phase[p] \in {"up", "frozen", "zombie"}
  PROVE  Held(n)' => Held(n)
<1>1. CASE state'[n] = "PAUSED"
  <2>1. Manager!Cmd(n) \in Manager!Procs /\ Manager!Cmd(n)' = Manager!Cmd(n)
    BY <1>1, PausedHasProcess DEF Manager!Cmd
  <2> QED BY <1>1, <2>1 DEF Held, Manager!Signalable
<1> QED BY <1>1 DEF Held

LEMMA QuietEffects ==
  ASSUME Manager!IInv, Quiet, NEW n \in Nodes
  PROVE  /\ state[n] # "DECLARED" => state'[n] # "DECLARED"
         /\ state[n] = "KILLED" => state'[n] = "KILLED"
         /\ Held(n)' => Held(n)
<1> DEFINE Later == \A p \in Manager!Procs : phase'[p] \in {"up", "frozen", "zombie"} =>
                                    phase[p] \in {"up", "frozen", "zombie"}
           Kept == /\ state[n] # "DECLARED" => state'[n] # "DECLARED"
                   /\ state[n] = "KILLED" => state'[n] = "KILLED"
                   /\ state[n] = "PAUSED" \/ state'[n] # "PAUSED"
<1>0. /\ state \in [Nodes -> Manager!NodeState] /\ phase \in [Manager!Procs -> Manager!Phase]
  BY DEF Manager!IInv, Manager!TypeOK
<1>1. ASSUME NEW p \in Manager!Procs, Manager!Background(p)
      PROVE  Kept /\ Later /\ UNCHANGED spawned
  <2>1. p = <<p[1], p[2]>>
    BY DEF Manager!Procs
  <2> QED BY <1>0, <1>1, <2>1
          DEF Manager!Background, Manager!ProcessExits, Manager!ProcessDies,
              Manager!WatchCtx, Manager!GraceExpires, Manager!MonitorReaps,
              Manager!MonitorRecords, Manager!Alive
<1>2. ASSUME NEW m \in Nodes,
             \/ Manager!KillNode(m) \/ Manager!ResumeNode(m)
             \/ Manager!RestartNodeKills(m) \/ Manager!RestartNodeFails(m)
      PROVE  Kept /\ Later /\ UNCHANGED spawned
  BY <1>0, <1>2
  DEF Manager!KillNode, Manager!ResumeNode, Manager!RestartNodeKills,
      Manager!RestartNodeFails, Manager!KillEffect, Manager!KillSucceeds,
      Manager!Active, Manager!Signalable
<1>3. ASSUME \/ \E C \in SUBSET Manager!Contexts : Manager!CancelContexts(C)
             \/ Manager!StopAll \/ Manager!StopAllReturns \/ UNCHANGED managerVars
      PROVE  Kept /\ Later /\ UNCHANGED spawned
  BY <1>0, <1>3
  DEF Manager!CancelContexts, Manager!StopAll, Manager!StopAllReturns, managerVars,
      Manager!Active
<1>4. Kept /\ Later /\ UNCHANGED spawned
  BY <1>1, <1>2, <1>3 DEF Quiet
<1> QED BY <1>4, ProcessEnds

LEMMA StartEffects ==
  ASSUME Manager!IInv, NEW S \in SUBSET Nodes, NEW c, Manager!StartNodesUnlocked(S, c), NEW n \in Nodes
  PROVE  /\ n \in S \/ state[n] # "DECLARED" => state'[n] # "DECLARED"
         /\ Held(n)' => n \notin S /\ Held(n)
<1>1. /\ state'[n] = IF n \in S THEN "RUNNING" ELSE state[n]
      /\ spawned'[n] = IF n \in S THEN spawned[n] + 1 ELSE spawned[n]
  BY DEF Manager!StartNodesUnlocked
<1>2. CASE n \notin S /\ state[n] = "PAUSED"
  <2>1. Manager!Cmd(n) \in Manager!Procs /\ Manager!Cmd(n)' = Manager!Cmd(n) /\ Manager!Cmd(n)[1] = n
    BY <1>1, <1>2, PausedHasProcess DEF Manager!Cmd
  <2>2. phase'[Manager!Cmd(n)] = phase[Manager!Cmd(n)]
    BY <1>2, <2>1 DEF Manager!StartNodesUnlocked
  <2> QED BY <1>1, <1>2, <2>1, <2>2 DEF Held, Manager!Signalable
<1> QED BY <1>1, <1>2 DEF Held

----------------------------------------------------------------------------
(* The audit trail                                                         *)

LEMMA ConcludeAudits ==
  ASSUME OwnTypeOK, Progress, Audited, Busy, NEW outcome \in Outcome,
         Conclude(outcome), UNCHANGED <<runner, recovery>>,
         \/ outcome = "FaultInjected" /\ loop = "confirm"
         \/ outcome = "FaultInjectionFailed" /\ loop \in {"batch", "sleep"}
  PROVE  OwnTypeOK' /\ Audited' /\ loop' \in {"done", "select", "batch"}
<1>1. /\ idx \in DOMAIN schedule /\ idx \in 1 .. Len(schedule) /\ idx <= due
      /\ Len(schedule) \in Nat /\ DOMAIN schedule = 1 .. Len(schedule)
  BY FaultIsOne, ScheduleFacts
<1>2. /\ idx' = idx + 1 /\ UNCHANGED <<schedule, due, stalls>>
      /\ loop' \in {"done", "select", "batch"}
      /\ audit' = [audit EXCEPT ![idx] = @ \cup {"FaultAttempted", outcome}]
  BY DEF Conclude
<1>3. OwnTypeOK'
  BY <1>1, <1>2 DEF OwnTypeOK, LoopPhase, Outcome
<1>4. ASSUME NEW i \in DOMAIN schedule PROVE AuditOf(i)'
  <2>1. AuditOf(i) /\ i \in Nat
    BY <1>1 DEF Audited
  <2>2. CASE i = idx
    <3>1. audit'[i] = audit[i] \cup {"FaultAttempted", outcome} /\ i < idx' /\ ~Ahead(i)' /\ Launched(i)'
      BY <1>1, <1>2, <2>2 DEF OwnTypeOK, Ahead, Launched
    <3>2. CASE loop = "confirm"
      BY <1>1, <1>2, <2>1, <2>2, <3>1, <3>2 DEF AuditOf, Recovered
    <3>3. CASE loop \in {"batch", "sleep"}
      <4>1. ~Launched(i) /\ recovery[i] = "none" /\ audit[i] \subseteq {"FaultAttempted"}
        BY <1>1, <2>1, <2>2, <3>3 DEF AuditOf, Ahead, Launched
      <4> QED BY <1>1, <1>2, <2>1, <2>2, <3>1, <3>3, <4>1 DEF AuditOf, Recovered
    <3> QED BY <3>2, <3>3
  <2>3. CASE i # idx
    <3>1. audit'[i] = audit[i] /\ (Launched(i)' <=> Launched(i)) /\ (Ahead(i)' => Ahead(i))
          /\ ~(i = idx' /\ loop' \in {"sleep", "confirm"}) /\ (i < idx' <=> i < idx)
      BY <1>1, <1>2, <2>1, <2>3 DEF OwnTypeOK, Launched, Ahead
    <3> QED BY <1>2, <2>1, <2>3, <3>1 DEF AuditOf
  <2> QED BY <2>2, <2>3
<1> QED BY <1>2, <1>3, <1>4 DEF Audited

LEMMA ProceedAudits ==
  ASSUME OwnTypeOK, Progress, Audited, NEW l \in {"sleep", "confirm"},
         loop = "batch" \/ (loop = "sleep" /\ l = "confirm"), Proceed(l),
         UNCHANGED runner,
         \/ UNCHANGED recovery /\ Fault.type \notin Pausing
         \/ /\ Fault.type \in Pausing /\ l = "confirm"
            /\ recovery' = [recovery EXCEPT ![idx] = "stalled"]
  PROVE  OwnTypeOK' /\ Audited' /\ loop' = l
<1>1. /\ idx \in DOMAIN schedule /\ idx \in 1 .. Len(schedule)
      /\ Len(schedule) \in Nat /\ DOMAIN schedule = 1 .. Len(schedule)
  BY FaultIsOne, ScheduleFacts DEF Busy
<1>2. /\ UNCHANGED <<schedule, idx, due, stalls>> /\ loop' = l
      /\ audit' = [audit EXCEPT ![idx] = @ \cup {"FaultAttempted"}]
  BY DEF Proceed
<1>3. OwnTypeOK'
  BY <1>1, <1>2 DEF OwnTypeOK, LoopPhase, Outcome, Recovery
<1>4. ASSUME NEW i \in DOMAIN schedule PROVE AuditOf(i)'
  <2>1. AuditOf(i) /\ i \in Nat
    BY <1>1 DEF Audited
  <2>2. CASE i = idx
    <3>1. recovery[i] = "none" /\ audit[i] \subseteq {"FaultAttempted"}
      BY <1>1, <2>1, <2>2 DEF AuditOf, Ahead, Launched
    <3>2. audit'[i] = {"FaultAttempted"} /\ ~Ahead(i)' /\ i = idx' /\ (l = "confirm" => Launched(i)')
      BY <1>1, <1>2, <2>2, <3>1 DEF OwnTypeOK, Ahead, Launched
    <3>3. schedule[i] = Fault
      BY <2>2 DEF Fault
    <3> QED BY <1>1, <1>2, <2>1, <2>2, <3>1, <3>2, <3>3
            DEF AuditOf, Recovered, OwnTypeOK, Pausing
  <2>3. CASE i # idx
    <3>1. /\ audit'[i] = audit[i] /\ recovery'[i] = recovery[i]
          /\ (Launched(i)' <=> Launched(i)) /\ (Ahead(i)' <=> Ahead(i))
      BY <1>1, <1>2, <2>1, <2>3 DEF OwnTypeOK, Launched, Ahead
    <3> QED BY <1>2, <2>1, <2>3, <3>1 DEF AuditOf
  <2> QED BY <2>2, <2>3
<1> QED BY <1>2, <1>3, <1>4 DEF Audited

(* A goroutine that goes on to phase r logs what it has come to.           *)
LEMMA RecoveryAudits ==
  ASSUME OwnTypeOK, Progress, Audited, NEW i \in DOMAIN schedule,
         NEW r \in Recovery \ {"none"}, NEW events \in SUBSET Recovered,
         recovery[i] # "none", GoTo(i, r), Log(i, events),
         stalls' \in [DOMAIN schedule -> 0 .. MaxStalls],
         schedule[i].type = "cpu_pause" =>
           /\ recovery[i] = "stalled" /\ r = "done"
           /\ events \in {{"FaultCompleted"}, {"FaultRecoveryFailed"}},
         UNCHANGED <<runner, schedule, loop, idx, due>>
  PROVE  OwnTypeOK' /\ Audited'
<1>1. /\ Len(schedule) \in Nat /\ DOMAIN schedule = 1 .. Len(schedule)
  BY ScheduleFacts
<1>2. /\ recovery' = [recovery EXCEPT ![i] = r]
      /\ audit' = [audit EXCEPT ![i] = @ \cup events]
  BY DEF GoTo, Log
<1>3. OwnTypeOK'
  BY <1>1, <1>2 DEF OwnTypeOK, Outcome, Recovered
<1>4. ASSUME NEW j \in DOMAIN schedule PROVE AuditOf(j)'
  <2>1. AuditOf(j) /\ (Launched(j)' <=> Launched(j)) /\ (Ahead(j)' <=> Ahead(j)) /\ j \in Nat
    BY <1>1 DEF Audited, Launched, Ahead
  <2>2. CASE i = j
    <3>1. audit'[i] = audit[i] \cup events /\ recovery'[i] = r
      BY <1>2 DEF OwnTypeOK
    <3>2. Launched(i) /\ ~Ahead(i) /\ ~(i = idx /\ loop = "sleep")
      BY <2>1, <2>2 DEF AuditOf, Launched, Ahead, OwnTypeOK
    <3>3. ASSUME NEW e, e \notin Recovered PROVE e \in audit'[i] <=> e \in audit[i]
      BY <3>1, <3>3
    <3>4. \A e \in {"FaultInjected", "FaultInjectionFailed", "FaultAttempted"} : e \notin Recovered
      BY DEF Recovered
    <3> QED BY <2>1, <2>2, <3>1, <3>2, <3>3, <3>4 DEF AuditOf, Recovered
  <2>3. CASE i # j
    <3>1. audit'[j] = audit[j] /\ recovery'[j] = recovery[j]
      BY <1>2, <2>3 DEF OwnTypeOK
    <3> QED BY <2>1, <2>3, <3>1 DEF AuditOf
  <2> QED BY <2>2, <2>3
<1> QED BY <1>3, <1>4 DEF Audited

----------------------------------------------------------------------------
(* Pauses and recoveries                                                   *)

LEMMA PausesKept ==
  ASSUME OwnTypeOK, PauseHasRecovery, UNCHANGED schedule,
         \A n \in Nodes : Held(n)' => Held(n),
         \A i \in DOMAIN schedule :
           recovery[i] \in {"stalled", "rescue"} /\ Held(schedule[i].node)'
             => recovery'[i] \in {"stalled", "rescue"}
  PROVE  PauseHasRecovery'
<1> SUFFICES ASSUME NEW n \in Nodes, Held(n)'
             PROVE  \E i \in DOMAIN schedule :
                      schedule[i].node = n /\ recovery'[i] \in {"stalled", "rescue"}
  BY DEF PauseHasRecovery, Held
<1>1. PICK i \in DOMAIN schedule : schedule[i].node = n /\ recovery[i] \in {"stalled", "rescue"}
  BY DEF PauseHasRecovery, Held
<1> QED BY <1>1

LEMMA PauseAdds ==
  ASSUME Manager!IInv, OwnTypeOK, PauseHasRecovery, NEW i \in DOMAIN schedule,
         Manager!PauseNode(schedule[i].node), UNCHANGED schedule,
         recovery' = [recovery EXCEPT ![i] = "stalled"]
  PROVE  /\ PauseHasRecovery'
         /\ \A n \in Nodes : /\ state[n] # "DECLARED" => state'[n] # "DECLARED"
                             /\ state[n] = "KILLED" => state'[n] = "KILLED"
<1> DEFINE m == schedule[i].node
<1>0. state \in [Nodes -> Manager!NodeState] /\ phase \in [Manager!Procs -> Manager!Phase] /\ m \in Nodes
  BY ScheduleFacts DEF Manager!IInv, Manager!TypeOK, Faults
<1>1. /\ state[m] = "RUNNING" /\ state' = [state EXCEPT ![m] = "PAUSED"] /\ UNCHANGED spawned
      /\ \A p \in Manager!Procs : phase'[p] \in {"up", "frozen", "zombie"} =>
                                    phase[p] \in {"up", "frozen", "zombie"}
  BY <1>0 DEF Manager!PauseNode
<1>2. ASSUME NEW n \in Nodes, Held(n)'
      PROVE  \E j \in DOMAIN schedule :
               schedule[j].node = n /\ recovery'[j] \in {"stalled", "rescue"}
  <2>1. CASE n = m
    <3>1. recovery'[i] = "stalled"
      BY DEF OwnTypeOK
    <3> QED BY <2>1, <3>1
  <2>2. CASE n # m
    <3>1. Held(n)
      BY <1>0, <1>1, <1>2, <2>2, ProcessEnds
    <3>2. PICK j \in DOMAIN schedule : schedule[j].node = n /\ recovery[j] \in {"stalled", "rescue"}
      BY <3>1 DEF PauseHasRecovery, Held
    <3>3. recovery'[j] = recovery[j]
      BY <2>2, <3>2 DEF OwnTypeOK
    <3> QED BY <3>2, <3>3
  <2> QED BY <2>1, <2>2
<1>3. PauseHasRecovery'
  BY <1>2 DEF PauseHasRecovery, Held
<1> QED BY <1>0, <1>1, <1>3

----------------------------------------------------------------------------
(* Every step of the scheduler keeps the invariant and is a step of the    *)
(* manager, or leaves it alone.                                            *)

(* The run goes on, or something happens to a process, and the scheduler   *)
(* does nothing.                                                           *)
LEMMA AsidePreserves ==
  ASSUME IInv, Quiet, UNCHANGED <<schedulerVars, restarting>>, runner' \in RunnerPhase,
         \/ runner' = runner /\ (runner = "cleanup" \/ UNCHANGED halting)
         \/ runner = "warmup" /\ runner' = "cleanup"
         \/ runner = "running" /\ runner' = "stopping" /\ UNCHANGED halting
         \/ /\ runner = "stopping" /\ runner' = "cleanup" /\ loop \in {"off", "done"}
            /\ \A i \in DOMAIN schedule : recovery[i] \in {"none", "done"}
  PROVE  Own'
<1> USE DEF IInv, Own
<1>1. UNCHANGED <<schedule, loop, idx, due, recovery, stalls, audit>>
  BY DEF schedulerVars
<1>2. OwnTypeOK'
  BY <1>1 DEF OwnTypeOK
<1>3. Progress'
  <2>1. runner = "warmup" => \A i \in DOMAIN schedule : recovery[i] \in {"none", "done"}
    <3>1. ASSUME runner = "warmup", NEW i \in DOMAIN schedule PROVE recovery[i] = "none"
      <4>1. idx = 1 /\ loop = "off" /\ i \in 1 .. Len(schedule) /\ Len(schedule) \in Nat
        BY <3>1, ScheduleFacts DEF Progress
      <4>2. ~Launched(i)
        BY <4>1 DEF Launched
      <4> QED BY <4>2 DEF Audited, AuditOf
    <3> QED BY <3>1
  <2>2. \A n \in Nodes : state[n] # "DECLARED" => state'[n] # "DECLARED"
    BY QuietEffects
  <2>3. Busy' = Busy
    BY <1>1 DEF Busy
  <2> QED BY <1>1, <2>1, <2>2, <2>3 DEF Progress, Busy
<1>4. Sleeping'
  <2>1. loop = "sleep" => Fault.node \in Nodes
    BY FaultIsOne DEF Busy
  <2>2. Fault' = Fault
    BY <1>1 DEF Fault
  <2> QED BY <1>1, <2>1, <2>2, QuietEffects DEF Sleeping
<1>5. PauseHasRecovery'
  BY <1>1, QuietEffects, PausesKept
<1>6. Audited'
  BY <1>1 DEF Audited, AuditOf, Ahead, Launched
<1> QED BY <1>2, <1>3, <1>4, <1>5, <1>6

LEMMA StartClusterPreserves ==
  ASSUME IInv, NEW S \in SUBSET Nodes, StartCluster(S)
  PROVE  Own' /\ Manager!Next
<1> USE DEF IInv, Own
<1>1. /\ UNCHANGED <<schedule, loop, idx, due, recovery, stalls, audit>>
      /\ runner = "starting" /\ runner' = IF S = Nodes THEN "warmup" ELSE "cleanup"
      /\ Manager!StartNodesUnlocked(S, "run") /\ UNCHANGED <<restarting, halting>>
  BY DEF StartCluster, Manager!StartAll, schedulerVars
<1>2. loop = "off" /\ idx = 1 /\ halting = "no"
  BY <1>1 DEF Progress
<1>3. OwnTypeOK'
  BY <1>1 DEF OwnTypeOK, RunnerPhase
<1>4. Progress'
  <2>1. ASSUME NEW i \in DOMAIN schedule PROVE recovery[i] = "none"
    <3>1. ~Launched(i)
      BY <1>2, ScheduleFacts DEF Launched
    <3> QED BY <3>1 DEF Audited, AuditOf
  <2> QED BY <1>1, <1>2, <2>1, StartEffects DEF Progress, Busy
<1>5. Sleeping'
  BY <1>1, <1>2 DEF Sleeping
<1>6. PauseHasRecovery'
  BY <1>1, StartEffects, PausesKept
<1>7. Audited'
  BY <1>1 DEF Audited, AuditOf, Ahead, Launched
<1>8. Manager!Next
  BY DEF StartCluster, Manager!Next, Manager!Method
<1> QED BY <1>3, <1>4, <1>5, <1>6, <1>7, <1>8

(* Scheduler.Start, the tickers of runLoop and its end.                    *)
LEMMA LoopMovesPreserve ==
  ASSUME IInv, SchedulerStart \/ Tick \/ LoopCancelled
  PROVE  Own' /\ UNCHANGED managerVars
<1> USE DEF IInv, Own
<1>1. /\ UNCHANGED <<managerVars, schedule, idx, recovery, stalls, audit>>
      /\ Len(schedule) \in Nat /\ idx \in 1 .. Len(schedule) + 1
      /\ \/ /\ runner = "warmup" /\ runner' = "running" /\ loop = "off"
            /\ loop' = IF schedule = <<>> THEN "off" ELSE "select"
            /\ UNCHANGED due
         \/ /\ loop = "select" /\ loop' = "batch" /\ UNCHANGED runner
            /\ due' \in idx .. Len(schedule)
         \/ loop = "select" /\ loop' = "done" /\ UNCHANGED <<runner, due>>
  BY ScheduleFacts DEF SchedulerStart, Tick, LoopCancelled, Progress, OwnTypeOK
<1>2. UNCHANGED <<state, spawned, phase, restarting, halting>>
  BY <1>1 DEF managerVars
<1>3. OwnTypeOK'
  BY <1>1 DEF OwnTypeOK, RunnerPhase, LoopPhase
<1>4. Progress'
  <2>1. schedule # <<>> => Len(schedule) > 0
    <3>1. schedule \in Seq(Faults)
      BY SchedulesAssumption DEF OwnTypeOK
    <3> QED BY <3>1
  <2> QED BY <1>1, <1>2, <2>1 DEF Progress, Busy
<1>5. Sleeping'
  BY <1>1, <1>2 DEF Sleeping
<1>6. PauseHasRecovery'
  BY <1>1, <1>2 DEF PauseHasRecovery, Manager!Signalable, Manager!Cmd
<1>7. Audited'
  BY <1>1 DEF Audited, AuditOf, Ahead, Launched
<1> QED BY <1>1, <1>3, <1>4, <1>5, <1>6, <1>7

(* While the loop is busy the manager may be used.                         *)
LEMMA BusyOperates ==
  ASSUME OwnTypeOK, Progress, Busy
  PROVE  Manager!Operating /\ runner \in {"running", "stopping"}
BY DEF Progress, Busy, Manager!Operating

LEMMA ProgressKept ==
  ASSUME OwnTypeOK, Progress, Busy, UNCHANGED <<runner, schedule, due, halting>>,
         \A n \in Nodes : state[n] # "DECLARED" => state'[n] # "DECLARED",
         \/ UNCHANGED idx /\ loop' \in {"sleep", "confirm"}
         \/ \E outcome \in Outcome : Conclude(outcome)
  PROVE  Progress'
<1>1. idx \in Nat /\ due \in Nat /\ idx <= due /\ Len(schedule) \in Nat /\ due <= Len(schedule)
  BY FaultIsOne, ScheduleFacts DEF OwnTypeOK
<1>2. runner \in {"running", "stopping"}
  BY BusyOperates
<1>3. CASE UNCHANGED idx /\ loop' \in {"sleep", "confirm"}
  BY <1>1, <1>2, <1>3 DEF Progress, Busy
<1>4. CASE \E outcome \in Outcome : Conclude(outcome)
  <2>1. /\ idx' = idx + 1
        /\ loop' = IF idx = Len(schedule) THEN "done"
                   ELSE IF idx = due THEN "select" ELSE "batch"
    BY <1>4 DEF Conclude
  <2> QED BY <1>1, <1>2, <2>1 DEF Progress, Busy
<1> QED BY <1>3, <1>4

(* An injection that fails, which leaves the nodes as they are.            *)
LEMMA FailurePreserves ==
  ASSUME IInv, loop \in {"batch", "sleep"}, InjectionFails, UNCHANGED runner,
         IF loop = "sleep" /\ Fault.type = "restart_node"
           THEN Manager!RestartNodeFails(Fault.node) ELSE UNCHANGED managerVars
  PROVE  Own' /\ [Manager!Next]_managerVars
<1> USE DEF IInv, Own
<1>1. Busy /\ "FaultInjectionFailed" \in Outcome
  BY DEF Busy, Outcome
<1>2. OwnTypeOK' /\ Audited' /\ loop' \in {"done", "select", "batch"} /\ UNCHANGED <<schedule, due, recovery>>
  BY <1>1, ConcludeAudits DEF InjectionFails, Conclude
<1>3. Fault.node \in Nodes
  BY <1>1, FaultIsOne
<1>4. Quiet /\ UNCHANGED <<state, halting>>
  BY <1>3 DEF Quiet, managerVars, Manager!RestartNodeFails
<1>5. Progress'
  BY <1>1, <1>2, <1>4, ProgressKept DEF InjectionFails
<1>6. Sleeping'
  <2>1. restarting' = {}
    BY DEF Sleeping, managerVars, Manager!RestartNodeFails
  <2> QED BY <1>2, <2>1 DEF Sleeping
<1>7. PauseHasRecovery'
  BY <1>2, <1>4, QuietEffects, PausesKept
<1>8. [Manager!Next]_managerVars
  BY <1>3 DEF Manager!Next, Manager!Method
<1> QED BY <1>2, <1>5, <1>6, <1>7, <1>8

LEMMA InjectKillPreserves ==
  ASSUME IInv, InjectKill
  PROVE  Own' /\ [Manager!Next]_managerVars
<1> USE DEF IInv, Own
<1>1. Busy /\ loop = "batch" /\ Fault.type \in {"kill_node", "persistence"} /\ UNCHANGED runner
  BY DEF InjectKill, Injecting, Busy
<1>2. CASE InjectionFails /\ UNCHANGED managerVars
  BY <1>1, <1>2, FailurePreserves
<1>3. CASE /\ Manager!KillNode(Fault.node)
           /\ Proceed(IF Fault.type = "kill_node" THEN "confirm" ELSE "sleep")
           /\ UNCHANGED recovery
  <2> DEFINE l == IF Fault.type = "kill_node" THEN "confirm" ELSE "sleep"
  <2>1. Fault.node \in Nodes /\ Proceed(l) /\ l \in {"sleep", "confirm"} /\ Fault.type \notin Pausing
    BY <1>1, <1>3, FaultIsOne DEF Pausing
  <2>2. OwnTypeOK' /\ Audited' /\ loop' = l /\ UNCHANGED <<schedule, idx, due>>
    <3> HIDE DEF l
    <3> QED BY <1>1, <1>3, <2>1, ProceedAudits DEF Proceed
  <2>3. /\ Quiet /\ UNCHANGED <<restarting, halting>> /\ state'[Fault.node] = "KILLED"
        /\ Fault' = Fault
    BY <1>3, <2>1, <2>2
    DEF Quiet, Manager!KillNode, Manager!KillEffect, Manager!IInv, Manager!TypeOK, Fault
  <2>4. Progress'
    BY <1>1, <2>2, <2>3, QuietEffects, ProgressKept
  <2>5. Sleeping'
    BY <1>1, <2>2, <2>3 DEF Sleeping
  <2>6. PauseHasRecovery'
    BY <1>3, <2>2, <2>3, QuietEffects, PausesKept
  <2>7. Manager!Next
    BY <1>3, <2>1 DEF Manager!Next, Manager!Method
  <2> QED BY <2>2, <2>4, <2>5, <2>6, <2>7
<1> QED BY <1>2, <1>3 DEF InjectKill

LEMMA InjectRestartPreserves ==
  ASSUME IInv, InjectRestart
  PROVE  Own' /\ [Manager!Next]_managerVars
<1> USE DEF IInv, Own
<1>1. /\ Busy /\ loop = "batch" /\ Fault.type = "restart_node" /\ UNCHANGED <<runner, recovery>>
      /\ Manager!RestartNodeKills(Fault.node) /\ Proceed("sleep")
  BY DEF InjectRestart, Injecting, Busy
<1>2. Fault.node \in Nodes /\ Fault.type \notin Pausing
  BY <1>1, FaultIsOne DEF Pausing
<1>3. OwnTypeOK' /\ Audited' /\ loop' = "sleep" /\ UNCHANGED <<schedule, idx, due>>
  BY <1>1, <1>2, ProceedAudits DEF Proceed
<1>4. /\ Quiet /\ UNCHANGED halting /\ restarting' = restarting \cup {Fault.node}
      /\ Fault' = Fault
  BY <1>1, <1>2, <1>3 DEF Quiet, Manager!RestartNodeKills, Fault
<1>5. Progress'
  BY <1>1, <1>3, <1>4, QuietEffects, ProgressKept
<1>6. Sleeping'
  BY <1>1, <1>3, <1>4 DEF Sleeping
<1>7. PauseHasRecovery'
  BY <1>1, <1>3, <1>4, QuietEffects, PausesKept
<1>8. Manager!Next
  BY <1>1, <1>2 DEF Manager!Next, Manager!Method
<1> QED BY <1>3, <1>5, <1>6, <1>7, <1>8

LEMMA InjectPausePreserves ==
  ASSUME IInv, InjectPause
  PROVE  Own' /\ [Manager!Next]_managerVars
<1> USE DEF IInv, Own
<1>1. Busy /\ loop = "batch" /\ Fault.type \in Pausing /\ UNCHANGED runner
  BY DEF InjectPause, Injecting, Busy, Pausing
<1>2. CASE InjectionFails /\ UNCHANGED managerVars
  BY <1>1, <1>2, FailurePreserves
<1>3. CASE /\ Manager!PauseNode(Fault.node)
           /\ recovery' = [recovery EXCEPT ![idx] = "stalled"]
           /\ Proceed("confirm")
  <2>1. idx \in DOMAIN schedule /\ Fault.node \in Nodes
    BY <1>1, FaultIsOne
  <2>2. OwnTypeOK' /\ Audited' /\ loop' = "confirm" /\ UNCHANGED <<schedule, idx, due>>
    BY <1>1, <1>3, ProceedAudits DEF Proceed
  <2>3. UNCHANGED <<restarting, halting>>
    BY <1>3 DEF Manager!PauseNode
  <2>4. /\ PauseHasRecovery'
        /\ \A n \in Nodes : state[n] # "DECLARED" => state'[n] # "DECLARED"
    BY <1>3, <2>1, <2>2, PauseAdds DEF Fault
  <2>5. Progress'
    BY <1>1, <2>2, <2>3, <2>4, ProgressKept
  <2>6. Sleeping'
    BY <1>1, <2>2, <2>3 DEF Sleeping
  <2>7. Manager!Next
    BY <1>3, <2>1 DEF Manager!Next, Manager!Method
  <2> QED BY <2>2, <2>4, <2>5, <2>6, <2>7
<1> QED BY <1>2, <1>3 DEF InjectPause

LEMMA InjectOtherPreserves ==
  ASSUME IInv, InjectOther
  PROVE  Own' /\ [Manager!Next]_managerVars
<1> USE DEF IInv, Own
<1>1. Busy /\ loop = "batch" /\ UNCHANGED <<runner, managerVars>>
  BY DEF InjectOther, Injecting, Busy
<1>2. CASE InjectionFails
  BY <1>1, <1>2, FailurePreserves
<1>3. CASE Fault.type = "network" /\ Proceed("confirm") /\ UNCHANGED recovery
  <2>1. Fault.type \notin Pausing /\ Quiet /\ UNCHANGED <<restarting, halting>>
    BY <1>1, <1>3 DEF Pausing, Quiet, managerVars
  <2>2. OwnTypeOK' /\ Audited' /\ loop' = "confirm" /\ UNCHANGED <<schedule, idx, due>>
    BY <1>1, <1>3, <2>1, ProceedAudits DEF Proceed
  <2>3. Progress'
    BY <1>1, <2>1, <2>2, QuietEffects, ProgressKept
  <2>4. Sleeping'
    BY <1>1, <2>1, <2>2 DEF Sleeping
  <2>5. PauseHasRecovery'
    BY <1>3, <2>1, <2>2, QuietEffects, PausesKept
  <2> QED BY <1>1, <2>2, <2>3, <2>4, <2>5
<1> QED BY <1>2, <1>3 DEF InjectOther

LEMMA AwakePreserves ==
  ASSUME IInv, Awake
  PROVE  Own' /\ [Manager!Next]_managerVars
<1> USE DEF IInv, Own
<1>1. Busy /\ loop = "sleep" /\ Fault.node \in Nodes /\ UNCHANGED runner
  BY FaultIsOne DEF Awake, Busy
<1>2. CASE /\ \/ Fault.type = "restart_node" /\ Manager!RestartNodeFails(Fault.node)
              \/ Fault.type = "persistence" /\ UNCHANGED managerVars
           /\ InjectionFails
  BY <1>1, <1>2, FailurePreserves
<1>3. CASE /\ \/ Fault.type = "restart_node" /\ Manager!RestartNodeStarts(Fault.node)
              \/ Fault.type = "persistence" /\ Manager!StartNode(Fault.node)
           /\ Proceed("confirm")
           /\ UNCHANGED recovery
  <2>1. /\ Fault.type \notin Pausing /\ UNCHANGED halting /\ restarting' = {}
        /\ Manager!StartNodesUnlocked({Fault.node}, "sched")
    BY <1>1, <1>3 DEF Pausing, Manager!RestartNodeStarts, Manager!StartNode, Sleeping
  <2>2. OwnTypeOK' /\ Audited' /\ loop' = "confirm" /\ UNCHANGED <<schedule, idx, due>>
    BY <1>1, <1>3, <2>1, ProceedAudits DEF Proceed
  <2>3. \A n \in Nodes : /\ state[n] # "DECLARED" => state'[n] # "DECLARED"
                         /\ Held(n)' => Held(n)
    <3>1. {Fault.node} \in SUBSET Nodes
      BY <1>1
    <3> QED BY <2>1, <3>1, StartEffects
  <2>4. Progress'
    BY <1>1, <2>1, <2>2, <2>3, ProgressKept
  <2>5. Sleeping'
    BY <2>1, <2>2 DEF Sleeping
  <2>6. PauseHasRecovery'
    BY <1>3, <2>2, <2>3, PausesKept
  <2>7. Manager!Next
    BY <1>1, <1>3 DEF Manager!Next, Manager!Method, Manager!StartKilledNode, Sleeping
  <2> QED BY <2>2, <2>4, <2>5, <2>6, <2>7
<1> QED BY <1>2, <1>3 DEF Awake

LEMMA ConfirmPreserves ==
  ASSUME IInv, Confirm
  PROVE  Own' /\ [Manager!Next]_managerVars
<1> USE DEF IInv, Own
<1>1. /\ Busy /\ loop = "confirm" /\ Conclude("FaultInjected") /\ "FaultInjected" \in Outcome
      /\ UNCHANGED <<managerVars, runner, recovery>>
  BY DEF Confirm, Busy, Outcome
<1>2. OwnTypeOK' /\ Audited' /\ loop' \in {"done", "select", "batch"} /\ UNCHANGED <<schedule, due>>
  BY <1>1, ConcludeAudits DEF Conclude
<1>3. Quiet /\ UNCHANGED <<restarting, halting>>
  BY <1>1 DEF Quiet, managerVars
<1>4. Progress'
  BY <1>1, <1>2, <1>3, QuietEffects, ProgressKept
<1>5. Sleeping'
  BY <1>1, <1>2, <1>3 DEF Sleeping
<1>6. PauseHasRecovery'
  BY <1>1, <1>2, <1>3, QuietEffects, PausesKept
<1> QED BY <1>1, <1>2, <1>4, <1>5, <1>6

(* What a recovery goroutine does to its node, and then Audited and the    *)
(* pauses are what matters.                                                *)
LEMMA RecoveryPreserves ==
  ASSUME IInv, NEW i \in DOMAIN schedule, NEW r \in Recovery \ {"none"},
         NEW events \in SUBSET Recovered,
         recovery[i] \in {"stalled", "interval", "rescue"}, GoTo(i, r), Log(i, events),
         stalls' \in [DOMAIN schedule -> 0 .. MaxStalls],
         schedule[i].type = "cpu_pause" =>
           /\ recovery[i] = "stalled" /\ r = "done"
           /\ events \in {{"FaultCompleted"}, {"FaultRecoveryFailed"}},
         UNCHANGED <<runner, schedule, loop, idx, due>>,
         \/ Manager!ResumeNode(schedule[i].node)
         \/ /\ UNCHANGED managerVars
            /\ \/ recovery[i] = "interval" \/ r = "rescue"
               \/ ResumeFails(schedule[i].node)
         \/ Manager!PauseNode(schedule[i].node) /\ r = "stalled"
  PROVE  Own' /\ [Manager!Next]_managerVars
<1> USE DEF IInv, Own
<1> DEFINE n == schedule[i].node
<1>1. n \in Nodes
  BY ScheduleFacts DEF Faults
<1>2. OwnTypeOK' /\ Audited'
  BY RecoveryAudits
<1>3. recovery' = [recovery EXCEPT ![i] = r] /\ recovery[i] \in Recovery
  BY DEF GoTo, OwnTypeOK
<1>4. UNCHANGED <<restarting, halting>>
  BY DEF managerVars, Manager!ResumeNode, Manager!PauseNode
<1>5. /\ PauseHasRecovery'
      /\ \A m \in Nodes : /\ state[m] # "DECLARED" => state'[m] # "DECLARED"
                          /\ state[m] = "KILLED" => state'[m] = "KILLED"
  <2>1. CASE Manager!PauseNode(n) /\ r = "stalled"
    BY <1>3, <2>1, PauseAdds
  <2>2. CASE Manager!ResumeNode(n) \/ UNCHANGED managerVars
    <3>1. Quiet
      BY <1>1, <2>2 DEF Quiet
    <3>2. Held(n)' => recovery[i] = "interval" \/ r = "rescue"
      <4>1. CASE Manager!ResumeNode(n)
        BY <1>1, <4>1 DEF Held, Manager!ResumeNode, Manager!IInv, Manager!TypeOK
      <4>2. CASE UNCHANGED managerVars
        <5>1. Held(n)' => Held(n)
          BY <1>1, <3>1, QuietEffects
        <5>2. recovery[i] = "interval" \/ r = "rescue" \/ ~Held(n) \/ Manager!ResumeNode(n) \/ Manager!PauseNode(n)
          BY DEF ResumeFails, Held
        <5>3. Held(n)' => ~Manager!ResumeNode(n) /\ ~Manager!PauseNode(n)
          BY <1>1, <4>2, <5>1
          DEF Held, Manager!ResumeNode, Manager!PauseNode, managerVars, Manager!IInv,
              Manager!TypeOK
        <5> QED BY <5>1, <5>2, <5>3
      <4> QED BY <2>2, <4>1, <4>2
    <3>3. \A j \in DOMAIN schedule :
            recovery[j] \in {"stalled", "rescue"} /\ Held(schedule[j].node)'
              => recovery'[j] \in {"stalled", "rescue"}
      BY <1>3, <3>2 DEF OwnTypeOK
    <3> QED BY <3>1, <3>3, QuietEffects, PausesKept
  <2> QED BY <2>1, <2>2
<1>6. Progress'
  <2>1. runner # "cleanup"
    BY DEF Progress
  <2> QED BY <1>4, <1>5 DEF Progress, Busy
<1>7. Sleeping'
  <2>1. loop = "sleep" => Fault.node \in Nodes
    BY FaultIsOne DEF Busy
  <2>2. Fault' = Fault
    BY DEF Fault
  <2> QED BY <1>4, <1>5, <2>1, <2>2 DEF Sleeping
<1>8. [Manager!Next]_managerVars
  BY <1>1 DEF Manager!Next, Manager!Method
<1> QED BY <1>2, <1>5, <1>6, <1>7, <1>8

LEMMA RecoverPreserves ==
  ASSUME IInv, NEW i \in DOMAIN schedule, Recover(i)
  PROVE  Own' /\ [Manager!Next]_managerVars
<1> USE DEF IInv, Own
<1> DEFINE n == schedule[i].node
<1>0. /\ stalls \in [DOMAIN schedule -> 0 .. MaxStalls] /\ audit \in [DOMAIN schedule -> SUBSET Outcome]
      /\ MaxStalls \in Nat
  BY StallsAssumption DEF OwnTypeOK
<1>1. /\ {"FaultCompleted"} \in SUBSET Recovered /\ {"FaultRecoveryFailed"} \in SUBSET Recovered
      /\ {} \in SUBSET Recovered /\ {"done", "interval", "rescue", "stalled"} \subseteq Recovery \ {"none"}
  BY DEF Recovered, Recovery
<1>2. UNCHANGED audit => Log(i, {})
  BY <1>0 DEF Log
<1>3. /\ recovery[i] = "interval" => schedule[i].type # "cpu_pause"
      /\ UNCHANGED <<runner, schedule, loop, idx, due>>
  BY DEF Audited, AuditOf, Recover, CpuPauseEnds, SlowDiskStallEnds, SlowDiskRescue,
         SlowDiskIntervalEnds, SlowDiskCancelled
<1>4. CASE CpuPauseEnds(i)
  <2>1. UNCHANGED stalls /\ GoTo(i, "done") /\ recovery[i] = "stalled"
    BY <1>4 DEF CpuPauseEnds
  <2>2. \/ Manager!ResumeNode(n) /\ Log(i, {"FaultCompleted"})
        \/ ResumeFails(n) /\ Log(i, {"FaultRecoveryFailed"}) /\ UNCHANGED managerVars
    BY <1>4 DEF CpuPauseEnds
  <2> QED BY <1>0, <1>1, <1>3, <2>1, <2>2, RecoveryPreserves
<1>5. CASE SlowDiskStallEnds(i)
  <2>1. UNCHANGED stalls /\ recovery[i] = "stalled" /\ schedule[i].type = "slow_disk"
    BY <1>5 DEF SlowDiskStallEnds
  <2>2. \/ Manager!ResumeNode(n) /\ GoTo(i, "done") /\ Log(i, {"FaultCompleted"})
        \/ Manager!ResumeNode(n) /\ GoTo(i, "interval") /\ Log(i, {})
        \/ ResumeFails(n) /\ GoTo(i, "rescue") /\ Log(i, {"FaultRecoveryFailed"})
             /\ UNCHANGED managerVars
    BY <1>2, <1>5 DEF SlowDiskStallEnds
  <2> QED BY <1>0, <1>1, <1>3, <2>1, <2>2, RecoveryPreserves
<1>6. CASE SlowDiskRescue(i)
  <2>1. /\ UNCHANGED stalls /\ recovery[i] \in {"stalled", "rescue"} /\ schedule[i].type = "slow_disk"
        /\ GoTo(i, "done")
    BY <1>6 DEF SlowDiskRescue
  <2>2. \/ Manager!ResumeNode(n) /\ Log(i, {})
        \/ ResumeFails(n) /\ Log(i, {"FaultRecoveryFailed"}) /\ UNCHANGED managerVars
    BY <1>2, <1>6 DEF SlowDiskRescue
  <2> QED BY <1>0, <1>1, <1>3, <2>1, <2>2, RecoveryPreserves
<1>7. CASE SlowDiskIntervalEnds(i)
  <2>1. /\ recovery[i] = "interval" /\ stalls' \in [DOMAIN schedule -> 0 .. MaxStalls]
    <3>1. stalls[i] # MaxStalls => stalls[i] + 1 \in 0 .. MaxStalls
      BY <1>0
    <3> QED BY <1>0, <1>7, <3>1 DEF SlowDiskIntervalEnds
  <2>2. \/ GoTo(i, "done") /\ Log(i, {"FaultCompleted"}) /\ UNCHANGED managerVars
        \/ Manager!PauseNode(n) /\ GoTo(i, "stalled") /\ Log(i, {})
        \/ GoTo(i, "done") /\ Log(i, {"FaultRecoveryFailed"}) /\ UNCHANGED managerVars
    BY <1>2, <1>7 DEF SlowDiskIntervalEnds
  <2> QED BY <1>1, <1>3, <2>1, <2>2, RecoveryPreserves
<1>8. CASE SlowDiskCancelled(i)
  <2>1. /\ recovery[i] = "interval" /\ UNCHANGED stalls /\ GoTo(i, "done") /\ Log(i, {})
        /\ UNCHANGED managerVars
    BY <1>2, <1>8 DEF SlowDiskCancelled
  <2> QED BY <1>0, <1>1, <1>3, <2>1, RecoveryPreserves
<1> QED BY <1>4, <1>5, <1>6, <1>7, <1>8 DEF Recover

(* Runner.Run and cleanup, and what happens to the processes.              *)
LEMMA RunnerPreserves ==
  ASSUME IInv, Runner \/ (\E p \in Manager!Procs : Background(p)) \/ UNCHANGED vars
  PROVE  Own' /\ [Manager!Next]_managerVars
<1>1. runner \in RunnerPhase
  BY DEF IInv, Own, OwnTypeOK
<1>2. CASE \E S \in SUBSET Nodes : StartCluster(S)
  BY <1>2, StartClusterPreserves
<1>3. CASE SchedulerStart
  BY <1>3, LoopMovesPreserve
<1>4. CASE SchedulerNeverStarts \/ StopReturns \/ UNCHANGED vars
  <2>1. Quiet /\ UNCHANGED <<managerVars, schedulerVars, restarting, halting>> /\ runner' \in RunnerPhase
    BY <1>1, <1>4
    DEF SchedulerNeverStarts, StopReturns, vars, managerVars, Quiet, RunnerPhase
  <2>2. \/ runner' = runner
        \/ runner = "warmup" /\ runner' = "cleanup"
        \/ /\ runner = "stopping" /\ runner' = "cleanup" /\ loop \in {"off", "done"}
           /\ \A i \in DOMAIN schedule : recovery[i] \in {"none", "done"}
    BY <1>4 DEF SchedulerNeverStarts, StopReturns, vars
  <2> QED BY <2>1, <2>2, AsidePreserves
<1>5. CASE Interrupt \/ Stop
  <2>1. (\E C \in SUBSET Manager!Contexts : Manager!CancelContexts(C)) \/ UNCHANGED managerVars
    BY <1>5 DEF Interrupt, Stop, Manager!Contexts
  <2>2. Quiet /\ UNCHANGED <<schedulerVars, restarting, halting>> /\ runner' \in RunnerPhase
    BY <1>1, <1>5, <2>1
    DEF Interrupt, Stop, Quiet, managerVars, RunnerPhase, Manager!CancelContexts
  <2>3. runner' = runner \/ (runner = "running" /\ runner' = "stopping")
    BY <1>5 DEF Interrupt, Stop
  <2>4. [Manager!Next]_managerVars
    BY <2>1 DEF Manager!Next
  <2> QED BY <2>2, <2>3, <2>4, AsidePreserves
<1>6. CASE StopAll
  <2>1. /\ Manager!StopAll \/ Manager!StopAllReturns
        /\ runner = "cleanup" /\ UNCHANGED <<runner, schedulerVars>>
    BY <1>6 DEF StopAll
  <2>2. Quiet /\ UNCHANGED restarting /\ Manager!Next
    BY <2>1
    DEF Quiet, Manager!StopAll, Manager!StopAllReturns, Manager!Next, Manager!Method
  <2> QED BY <1>1, <2>1, <2>2, AsidePreserves
<1>7. CASE \E p \in Manager!Procs : Background(p)
  <2>1. PICK p \in Manager!Procs : Manager!Background(p) /\ UNCHANGED <<runner, schedulerVars>>
    BY <1>7 DEF Background
  <2>2. Quiet /\ UNCHANGED <<restarting, halting>> /\ Manager!Next
    BY <2>1
    DEF Quiet, Manager!Next, Manager!Background, Manager!ProcessExits,
        Manager!ProcessDies, Manager!WatchCtx, Manager!GraceExpires,
        Manager!MonitorReaps, Manager!MonitorRecords
  <2> QED BY <1>1, <2>1, <2>2, AsidePreserves
<1> QED BY <1>2, <1>3, <1>4, <1>5, <1>6, <1>7 DEF Runner

LEMMA NextPreserves ==
  ASSUME IInv, [Next]_vars
  PROVE  IInv' /\ [Manager!Next]_managerVars
<1> USE DEF IInv
<1>1. ASSUME RunLoop PROVE Own' /\ [Manager!Next]_managerVars
  BY <1>1, LoopMovesPreserve, InjectKillPreserves, InjectRestartPreserves,
     InjectPausePreserves, InjectOtherPreserves, AwakePreserves, ConfirmPreserves
  DEF RunLoop, Inject
<1>2. ASSUME ~RunLoop PROVE Own' /\ [Manager!Next]_managerVars
  BY <1>2, RunnerPreserves, RecoverPreserves DEF Next
<1>3. Own' /\ [Manager!Next]_managerVars
  BY <1>1, <1>2
<1> QED BY <1>3, ManagerPreserves DEF IInv

LEMMA InitEstablishes == Init => IInv /\ Manager!Init
<1> SUFFICES ASSUME Init PROVE IInv
  BY DEF Init
<1>1. Manager!IInv
  <2>1. ManagerProofs!Init
    BY DEF Init, Manager!Init, ManagerProofs!Init, Manager!Procs, ManagerProofs!Procs
  <2> QED BY <2>1, ManagerProofs!InitEstablishes, SameInvariant
<1>2. schedule \in Schedules /\ OwnTypeOK
  BY StallsAssumption, SchedulesAssumption
  DEF Init, OwnTypeOK, RunnerPhase, LoopPhase, Recovery, Outcome
<1>3. Progress /\ Sleeping
  BY DEF Init, Progress, Sleeping, Busy, Manager!Init
<1>4. PauseHasRecovery
  BY DEF Init, PauseHasRecovery, Manager!Init
<1>5. Audited
  BY <1>2, ScheduleFacts DEF Init, Audited, AuditOf, Ahead, Launched, Recovered
<1> QED BY <1>1, <1>2, <1>3, <1>4, <1>5 DEF IInv, Own

----------------------------------------------------------------------------
(* Theorems                                                                *)

LEMMA Invariance == Spec => []IInv
BY InitEstablishes, NextPreserves, PTL DEF Spec

(* Every variable of the scheduler and of its manager keeps its type.      *)
THEOREM TypeCorrect == Spec => []TypeOK
<1>1. IInv => TypeOK
  BY DEF IInv, Own, OwnTypeOK, TypeOK, Manager!IInv
<1> QED BY <1>1, Invariance, PTL

(* The loop, the faults and the recoveries only do with the manager what   *)
(* it expects: with any schedule, every behaviour of the scheduler is one  *)
(* of NodeManager.                                                         *)
THEOREM SchedulerUsesManager == Spec => UsesManager
<1>1. IInv /\ [Next]_vars => [Manager!Next]_managerVars
  BY NextPreserves
<1>2. [Manager!Next]_managerVars <=> [Manager!Next]_Manager!vars
  BY DEF managerVars, Manager!vars
<1> QED BY <1>1, <1>2, Invariance, InitEstablishes, PTL
        DEF Spec, UsesManager, Manager!Spec

(* And so what NodeManager promises also holds while faults are injected.  *)
THEOREM ManagerKeepsItsPromises ==
  Spec => [](Manager!NoOrphan /\ Manager!StateMatchesProcess)
<1>1. IInv => Manager!NoOrphan /\ Manager!StateMatchesProcess
  BY DEF IInv, Manager!IInv
<1> QED BY <1>1, Invariance, PTL

(* No schedule and no interleaving leaves a node frozen that no goroutine  *)
(* is going to resume.                                                     *)
THEOREM PausesAreRecovered == Spec => []PauseHasRecovery
<1>1. IInv => PauseHasRecovery
  BY DEF IInv, Own
<1> QED BY <1>1, Invariance, PTL

(* When Scheduler.Stop has returned the audit trail is complete, whatever  *)
(* the schedule and however the recoveries raced with the loop.            *)
THEOREM AuditsAreComplete == Spec => []AuditComplete
<1>1. ASSUME IInv, runner = "cleanup", NEW i \in DOMAIN schedule
      PROVE  /\ "FaultAttempted" \in audit[i] =>
                  ("FaultInjected" \in audit[i]) # ("FaultInjectionFailed" \in audit[i])
             /\ audit[i] \cap Recovered # {} => "FaultInjected" \in audit[i]
             /\ schedule[i].type = "cpu_pause" /\ "FaultInjected" \in audit[i] =>
                  ("FaultCompleted" \in audit[i]) # ("FaultRecoveryFailed" \in audit[i])
  <2> USE <1>1 DEF IInv, Own
  <2>1. loop \in {"off", "done"} /\ recovery[i] \in {"none", "done"}
    BY DEF Progress, Busy, OwnTypeOK, LoopPhase
  <2>2. AuditOf(i)
    BY DEF Audited
  <2>3. CASE i < idx
    BY <2>1, <2>2, <2>3 DEF AuditOf, Pausing
  <2>4. CASE ~(i < idx)
    <3>1. Ahead(i)
      BY <2>1, <2>4, ScheduleFacts DEF Ahead, OwnTypeOK
    <3> QED BY <2>2, <3>1 DEF AuditOf
  <2> QED BY <2>3, <2>4
<1>2. IInv => AuditComplete
  BY <1>1 DEF AuditComplete, Recovered
<1> QED BY <1>2, Invariance, PTL

============================================================================
