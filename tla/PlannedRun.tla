----------------------------- MODULE PlannedRun -----------------------------
(***************************************************************************)
(* Generated schedules: generateRandomSchedule and                         *)
(* assignGeneratedProcessTargets of internal/faults/scheduler.go, and the  *)
(* execution of what they plan against a clock.  The planner keeps every   *)
(* sampled type and time and chooses targets by a picture of the future:   *)
(* which nodes earlier faults will have killed, and until when a pause or  *)
(* a slow disk will keep a node busy.  The picture is right if faults are  *)
(* injected when they are planned; but the loop sleeps inside a restart    *)
(* and inside a persistence fault, and starts later than its clock.        *)
(*                                                                         *)
(* Processes do not exit by themselves here and starts succeed: what       *)
(* happens then, and the order of events, is FaultScheduler's subject.     *)
(* A unit of time is longer than the 10 ms after which the loop looks.     *)
(***************************************************************************)
EXTENDS Naturals, Sequences

CONSTANTS
  NodeCount,     \* the nodes are node-1 .. node-NodeCount
  MaxFaults,     \* max_faults of the profile
  Types,         \* the fault types with a positive weight
  Segment,       \* the length of the segment of each fault
  StartBuffer,   \* the time before the first segment
  StartLags,     \* how late the loop may start, on the clock of the schedule
  Durations,     \* what duration_ms may be for cpu_pause and slow_disk
  StallTimes,    \* what stall_ms of slow_disk may be
  IntervalTimes, \* what interval_ms of slow_disk may be
  SleepTimes     \* how long a restart or a persistence fault may sleep

Pauses == {"cpu_pause", "slow_disk"}
ProcessFaults == Pauses \cup {"kill_node", "restart_node", "persistence"}

ASSUME TypesAssumption == Types \subseteq ProcessFaults \cup {"network"}
ASSUME NumbersAssumption ==
  /\ {NodeCount, MaxFaults, Segment} \subseteq Nat \ {0}
  /\ StartBuffer \in Nat /\ StartLags \subseteq Nat
  /\ Durations \cup StallTimes \cup IntervalTimes \cup SleepTimes \subseteq Nat \ {0}

Nodes == 1 .. NodeCount

VARIABLES
  plan,      \* the schedule, as far as it has been planned
  killed,    \* the planner's picture: the nodes that are down after the plan,
  busyUntil, \* and until when each node is paused
  now,       \* the clock of the schedule
  idx,       \* the fault the loop injects next
  wakeAt,    \* when the loop's sleep inside a fault ends; 0 if it is not asleep
  status,    \* the state of every node
  recovery,  \* of every fault, what its goroutine waits for
  failed,    \* which events report a failure
  late       \* auxiliary: a fault was injected after its planned time

planVars == <<plan, killed, busyUntil>>
runVars == <<now, idx, wakeAt, status, recovery, failed, late>>
vars == <<planVars, runVars>>

----------------------------------------------------------------------------
(* The planner                                                             *)

Fault == [type : Types, at : Nat, node : Nodes,
          duration : Nat, stall : Nat, interval : Nat]

(* The samples for the i-th fault: type, time within its segment, preferred *)
(* node, and the times of a pause.                                         *)
Samples(i) ==
  {f \in [type : Types, at : StartBuffer + (i - 1) * Segment .. StartBuffer + i * Segment - 1,
          node : Nodes, duration : Durations \cup {0}, stall : StallTimes \cup {0},
          interval : IntervalTimes \cup {0}] :
     /\ f.duration = 0 <=> f.type \notin Pauses
     /\ f.stall = 0 <=> f.type # "slow_disk"
     /\ f.interval = 0 <=> f.type # "slow_disk"}

(* Until when the planner takes the target of f to be busy.                *)
BusyUntil(f) ==
  CASE f.type = "cpu_pause" -> f.at + f.duration
    [] f.type = "slow_disk" -> f.at + f.duration + f.stall
    [] OTHER -> 0

(* Mutant of Eligible: a paused node is a target like any other.           *)
EligibleThoughBusy(f) ==
  IF f.type = "restart_node" /\ killed # {} THEN killed ELSE Nodes \ killed

(* The nodes that may be the target of f: a restart takes a killed node if *)
(* there is one.                                                           *)
Eligible(f) ==
  LET free == {n \in Nodes : busyUntil[n] <= f.at}
  IN IF f.type = "restart_node" /\ free \cap killed # {}
     THEN free \cap killed
     ELSE free \ killed

(* The preferred node, or the first.                                       *)
Target(f) ==
  IF f.node \in Eligible(f) THEN f.node
  ELSE CHOOSE n \in Eligible(f) : \A m \in Eligible(f) : n <= m

(* Mutant of Foresee: a restart does not bring the node back.              *)
ForeseeNoRecovery(f) ==
  /\ killed' = IF f.type = "kill_node" THEN killed \cup {f.node} ELSE killed
  /\ busyUntil' = IF f.type \in Pauses THEN [busyUntil EXCEPT ![f.node] = BusyUntil(f)]
                  ELSE busyUntil

(* The picture after f, whose node is its target.                          *)
Foresee(f) ==
  /\ killed' = CASE f.type = "kill_node" -> killed \cup {f.node}
                 [] f.type = "restart_node" -> killed \ {f.node}
                 [] OTHER -> killed
  /\ busyUntil' = IF f.type \in Pauses THEN [busyUntil EXCEPT ![f.node] = BusyUntil(f)]
                  ELSE busyUntil

Planned == Len(plan) = MaxFaults

Plan(f) == plan' = Append(plan, f) /\ UNCHANGED runVars

(* One round of assignGeneratedProcessTargets.  It looks at no later       *)
(* sample, so that each is drawn when its turn comes.  Without an eligible *)
(* node the profile is an error, and there is no run.                      *)
AssignProcessTarget ==
  /\ ~Planned
  /\ \E f \in Samples(Len(plan) + 1) :
       LET assigned == [f EXCEPT !.node = Target(f)] IN
       /\ f.type \in ProcessFaults
       /\ Eligible(f) # {}
       /\ Plan(assigned)
       /\ Foresee(assigned)

LeaveAlone ==
  /\ ~Planned
  /\ \E f \in Samples(Len(plan) + 1) : f.type \notin ProcessFaults /\ Plan(f)
  /\ UNCHANGED <<killed, busyUntil>>

----------------------------------------------------------------------------
(* The run                                                                 *)

Done == [phase |-> "done", due |-> 0, end |-> 0]
Stalled(due, end) == [phase |-> "stalled", due |-> due, end |-> end]
Interval(due, end) == [phase |-> "interval", due |-> due, end |-> end]

Recovery == [phase : {"stalled", "interval", "done"}, due : Nat, end : Nat]

TypeOK ==
  /\ plan \in Seq(Fault) /\ Len(plan) <= MaxFaults
  /\ killed \subseteq Nodes
  /\ busyUntil \in [Nodes -> Nat]
  /\ now \in Nat
  /\ idx \in 1 .. MaxFaults + 1
  /\ wakeAt \in Nat
  /\ status \in [Nodes -> {"RUNNING", "PAUSED", "KILLED"}]
  /\ recovery \in [1 .. MaxFaults -> Recovery]
  /\ failed \subseteq {"FaultInjectionFailed", "FaultRecoveryFailed"}
  /\ late \in BOOLEAN

Init ==
  /\ plan = <<>> /\ killed = {} /\ busyUntil = [n \in Nodes |-> 0]
  /\ now \in StartLags
  /\ idx = 1
  /\ wakeAt = 0
  /\ status = [n \in Nodes |-> "RUNNING"]
  /\ recovery = [i \in 1 .. MaxFaults |-> Done]
  /\ failed = {}
  /\ late = FALSE

Current == plan[idx]

FaultDue == Planned /\ wakeAt = 0 /\ idx <= MaxFaults /\ Current.at <= now

Injects(types) ==
  /\ FaultDue
  /\ Current.type \in types
  /\ late' = (late \/ Current.at < now)
  /\ UNCHANGED <<planVars, now>>

NextFault == idx' = idx + 1 /\ UNCHANGED wakeAt

FallsAsleep == (\E t \in SleepTimes : wakeAt' = now + t) /\ UNCHANGED idx

InjectionFails ==
  /\ failed' = failed \cup {"FaultInjectionFailed"}
  /\ NextFault
  /\ UNCHANGED <<status, recovery>>

InjectKill ==
  /\ Injects({"kill_node", "persistence"})
  /\ IF status[Current.node] = "KILLED" THEN InjectionFails
     ELSE /\ status' = [status EXCEPT ![Current.node] = "KILLED"]
          /\ IF Current.type = "kill_node" THEN NextFault ELSE FallsAsleep
          /\ UNCHANGED <<recovery, failed>>

InjectRestart ==
  /\ Injects({"restart_node"})
  /\ status' = [status EXCEPT ![Current.node] = "KILLED"]
  /\ FallsAsleep
  /\ UNCHANGED <<recovery, failed>>

InjectPause ==
  /\ Injects(Pauses)
  /\ IF status[Current.node] # "RUNNING" THEN InjectionFails
     ELSE /\ status' = [status EXCEPT ![Current.node] = "PAUSED"]
          /\ recovery' = [recovery EXCEPT ![idx] =
               IF Current.type = "cpu_pause" THEN Stalled(now + Current.duration, now)
               ELSE Stalled(now + Current.stall, now + Current.duration)]
          /\ NextFault
          /\ UNCHANGED failed

InjectNetwork ==
  /\ Injects({"network"})
  /\ NextFault
  /\ UNCHANGED <<status, recovery, failed>>

(* The node is started, whatever has happened to it during the sleep.      *)
Awake ==
  /\ wakeAt # 0 /\ wakeAt <= now
  /\ status' = [status EXCEPT ![Current.node] = "RUNNING"]
  /\ wakeAt' = 0
  /\ idx' = idx + 1
  /\ UNCHANGED <<planVars, now, recovery, failed, late>>

RecoveryFails(i) ==
  /\ failed' = failed \cup {"FaultRecoveryFailed"}
  /\ recovery' = [recovery EXCEPT ![i] = Done]
  /\ UNCHANGED status

(* The node is resumed; a slow disk whose duration is not over goes on.    *)
StallEnds(i) ==
  LET n == plan[i].node
      r == recovery[i]
  IN /\ r.phase = "stalled" /\ r.due <= now
     /\ IF status[n] # "PAUSED" THEN RecoveryFails(i)
        ELSE /\ status' = [status EXCEPT ![n] = "RUNNING"]
             /\ recovery' = [recovery EXCEPT ![i] =
                  IF now >= r.end THEN Done ELSE Interval(now + plan[i].interval, r.end)]
             /\ UNCHANGED failed
     /\ UNCHANGED <<planVars, now, idx, wakeAt, late>>

IntervalEnds(i) ==
  LET n == plan[i].node
      r == recovery[i]
  IN /\ r.phase = "interval" /\ r.due <= now
     /\ IF now < r.end /\ status[n] # "RUNNING" THEN RecoveryFails(i)
        ELSE /\ status' = [status EXCEPT ![n] = IF now < r.end THEN "PAUSED" ELSE @]
             /\ recovery' = [recovery EXCEPT ![i] =
                  IF now < r.end THEN Stalled(now + plan[i].stall, r.end) ELSE Done]
             /\ UNCHANGED failed
     /\ UNCHANGED <<planVars, now, idx, wakeAt, late>>

Pending == {i \in 1 .. MaxFaults : recovery[i].phase # "done"}

Over == Planned /\ idx > MaxFaults /\ Pending = {}

(* Time passes when nothing is due, until nothing is left to do.           *)
Tick ==
  /\ Planned /\ ~Over
  /\ ~FaultDue
  /\ wakeAt # 0 => now < wakeAt
  /\ \A i \in Pending : now < recovery[i].due
  /\ now' = now + 1
  /\ UNCHANGED <<planVars, idx, wakeAt, status, recovery, failed, late>>

Next ==
  \/ AssignProcessTarget \/ LeaveAlone
  \/ Tick
  \/ InjectKill \/ InjectRestart \/ InjectPause \/ InjectNetwork \/ Awake
  \/ \E i \in 1 .. MaxFaults : StallEnds(i) \/ IntervalEnds(i)

Spec == Init /\ [][Next]_vars

----------------------------------------------------------------------------
(* Correctness                                                             *)

(* A fault is planned for the very moment at which a pause of its target   *)
(* is to end.                                                              *)
Tight ==
  \E i, j \in DOMAIN plan :
    /\ i < j /\ plan[j].type \in ProcessFaults /\ plan[i].node = plan[j].node
    /\ plan[i].type = "cpu_pause" /\ plan[j].at = BusyUntil(plan[i])

Punctual == ~late /\ ~Tight

(* The planner is right about a punctual run: no fault that it planned     *)
(* fails, neither when it is injected nor when the node recovers.          *)
PunctualPlanSucceeds == Punctual => failed = {}

(* And in the end exactly those nodes are down that it foresaw.            *)
PictureComesTrue ==
  Over /\ Punctual =>
    \A n \in Nodes : status[n] = IF n \in killed THEN "KILLED" ELSE "RUNNING"

============================================================================
