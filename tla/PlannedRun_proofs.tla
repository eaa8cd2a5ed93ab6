------------------------- MODULE PlannedRun_proofs -------------------------
(***************************************************************************)
(* Theorems about PlannedRun: the planner is right about every punctual    *)
(* run, for any number of nodes and faults and any times.                  *)
(***************************************************************************)
EXTENDS PlannedRun, WellFoundedInduction, SequenceTheorems, TLAPS

----------------------------------------------------------------------------
(* The inductive invariant                                                 *)

IsPause(f) == f.type \in Pauses
Stops(f, n) == f.type = "kill_node" /\ f.node = n
Brings(f, n) == f.type = "restart_node" /\ f.node = n

(* By the plan p, n is down when the j-th fault is due.                    *)
DownAt(p, n, j) ==
  \E i \in 1 .. j - 1 : Stops(p[i], n) /\ \A k \in i + 1 .. j - 1 : ~Brings(p[k], n)

(* No target is busy, and only a restart has a target that is down.        *)
Sound(p, j) ==
  p[j].type \in ProcessFaults =>
    /\ p[j].type # "restart_node" => ~DownAt(p, p[j].node, j)
    /\ \A i \in 1 .. j - 1 :
         IsPause(p[i]) /\ p[i].node = p[j].node => BusyUntil(p[i]) <= p[j].at

Lasts(f) ==
  /\ f.type \in Pauses => f.duration > 0
  /\ f.type = "slow_disk" => f.stall > 0 /\ f.interval > 0

PlanInv ==
  /\ \A j \in DOMAIN plan : Sound(plan, j) /\ Lasts(plan[j])
  /\ \A j \in DOMAIN plan : IsPause(plan[j]) => BusyUntil(plan[j]) <= busyUntil[plan[j].node]
  /\ \A n \in Nodes : n \in killed <=> DownAt(plan, n, Len(plan) + 1)

NotStarted ==
  /\ idx = 1 /\ wakeAt = 0 /\ failed = {}
  /\ \A n \in Nodes : status[n] = "RUNNING"
  /\ \A i \in 1 .. MaxFaults : recovery[i].phase = "done"

Waiting(i) == recovery[i].phase # "done"
IsStalled(i) == recovery[i].phase = "stalled"

(* What is waited for lies ahead, and what has been injected does not.     *)
Timely(i) ==
  Waiting(i) =>
    /\ i < idx /\ IsPause(plan[i])
    /\ plan[i].at <= now /\ now <= recovery[i].due
    /\ plan[i].type = "cpu_pause" => IsStalled(i) /\ recovery[i].end <= recovery[i].due

Asleep == wakeAt # 0

ClockInv ==
  /\ ~Planned => NotStarted
  /\ \A i \in 1 .. MaxFaults : Timely(i)
  /\ Asleep => /\ idx <= MaxFaults
               /\ plan[idx].type \in {"restart_node", "persistence"}
               /\ plan[idx].at <= now

(* The i-th fault will touch its node again.                               *)
Active(i) == IsStalled(i) \/ (Waiting(i) /\ recovery[i].due < recovery[i].end)

(* In a punctual run a pause ends when the planner expects it to.          *)
EndsInTime(i) ==
  /\ plan[i].type = "cpu_pause" => recovery[i].due = BusyUntil(plan[i])
  /\ plan[i].type = "slow_disk" =>
       /\ recovery[i].end = plan[i].at + plan[i].duration
       /\ IsStalled(i) => recovery[i].due < BusyUntil(plan[i])

IsDown(n) == DownAt(plan, n, idx) \/ (Asleep /\ plan[idx].node = n)

PunctualInv ==
  Punctual =>
    /\ failed = {}
    /\ \A i \in 1 .. MaxFaults : Waiting(i) => EndsInTime(i)
    /\ \A n \in Nodes : status[n] = "KILLED" <=> IsDown(n)
    /\ \A n \in Nodes : status[n] = "PAUSED" =>
         \E i \in 1 .. MaxFaults : IsStalled(i) /\ plan[i].node = n
    /\ \A i \in 1 .. MaxFaults : Active(i) =>
         status[plan[i].node] = IF IsStalled(i) THEN "PAUSED" ELSE "RUNNING"

Inv == TypeOK /\ PlanInv /\ ClockInv /\ PunctualInv

----------------------------------------------------------------------------
(* Types                                                                   *)

LEMMA Numbers ==
  /\ NodeCount \in Nat \ {0} /\ MaxFaults \in Nat \ {0} /\ Segment \in Nat \ {0}
  /\ StartBuffer \in Nat /\ StartLags \subseteq Nat
  /\ Durations \subseteq Nat \ {0} /\ StallTimes \subseteq Nat \ {0}
  /\ IntervalTimes \subseteq Nat \ {0} /\ SleepTimes \subseteq Nat \ {0}
BY NumbersAssumption

LEMMA SamplesAreFaults ==
  ASSUME NEW i \in Nat \ {0}, NEW f \in Samples(i)
  PROVE  f \in Fault /\ Lasts(f)
<1>1. /\ f \in [type : Types, at : StartBuffer + (i - 1) * Segment .. StartBuffer + i * Segment - 1,
                node : Nodes, duration : Durations \cup {0}, stall : StallTimes \cup {0},
                interval : IntervalTimes \cup {0}]
      /\ f.duration = 0 <=> f.type \notin Pauses
      /\ f.stall = 0 <=> f.type # "slow_disk"
      /\ f.interval = 0 <=> f.type # "slow_disk"
  BY DEF Samples
<1>2. \A n \in StartBuffer + (i - 1) * Segment .. StartBuffer + i * Segment - 1 : n \in Nat
  <2>1. (i - 1) * Segment \in Nat /\ i * Segment \in Int
    BY Numbers
  <2> QED BY <2>1, Numbers
<1>3. f \in Fault
  <2>1. /\ f.duration \in Nat /\ f.stall \in Nat /\ f.interval \in Nat
        /\ f.type \in Types /\ f.node \in Nodes /\ f.at \in Nat
    <3> DEFINE T == StartBuffer + (i - 1) * Segment .. StartBuffer + i * Segment - 1
    <3> HIDE DEF T
    <3>1. /\ f.duration \in Durations \cup {0} /\ f.stall \in StallTimes \cup {0}
          /\ f.interval \in IntervalTimes \cup {0}
          /\ f.type \in Types /\ f.node \in Nodes /\ f.at \in T
      BY <1>1 DEF T
    <3>2. \A n \in T : n \in Nat
      BY <1>2 DEF T
    <3>3. \A S \in SUBSET (Nat \ {0}) : S \cup {0} \subseteq Nat
      OBVIOUS
    <3>4. /\ Durations \cup {0} \subseteq Nat /\ StallTimes \cup {0} \subseteq Nat
          /\ IntervalTimes \cup {0} \subseteq Nat
      BY <3>3, Numbers
    <3> QED BY <3>1, <3>2, <3>4, Zenon
  <2>2. f = [type |-> f.type, at |-> f.at, node |-> f.node, duration |-> f.duration,
             stall |-> f.stall, interval |-> f.interval]
    BY <1>1
  <2> QED BY <2>1, <2>2 DEF Fault
<1> QED BY <1>1, <1>3, Numbers DEF Fault, Lasts, Pauses

LEMMA PlannedFaults ==
  ASSUME TypeOK
  PROVE  /\ Len(plan) \in Nat /\ DOMAIN plan = 1 .. Len(plan)
         /\ \A i \in DOMAIN plan : plan[i] \in Fault
         /\ Planned => DOMAIN plan = 1 .. MaxFaults
<1>1. plan \in Seq(Fault)
  BY DEF TypeOK
<1> QED BY <1>1, LenProperties, ElementOfSeq DEF Planned

LEMMA BusyUntilType ==
  ASSUME NEW f \in Fault PROVE BusyUntil(f) \in Nat
BY DEF BusyUntil, Fault

(* The first of a set of nodes.                                            *)
LEMMA FirstExists ==
  ASSUME NEW S \in SUBSET Nodes, S # {}
  PROVE  \E n \in S : \A m \in S : n <= m
<1> DEFINE R == OpToRel(<, Nat)
<1>1. IsWellFoundedOn(R, Nat)
  BY NatLessThanWellFounded
<1>2. S \subseteq Nat /\ \A x, y \in Nat : y < x => <<y, x>> \in R
  BY Numbers DEF OpToRel, Nodes
<1> HIDE DEF R
<1>3. PICK n \in S : \A m \in S : <<m, n>> \notin R
  BY <1>1, <1>2, WFMin
<1>4. \A m \in S : ~(m < n)
  BY <1>2, <1>3
<1> QED BY <1>2, <1>4

LEMMA TargetIsEligible ==
  ASSUME NEW f, Eligible(f) # {}
  PROVE  Target(f) \in Eligible(f) /\ Eligible(f) \subseteq Nodes
<1>1. Eligible(f) \subseteq Nodes
  BY DEF Eligible
<1>2. \E n \in Eligible(f) : \A m \in Eligible(f) : n <= m
  BY <1>1, FirstExists
<1> QED BY <1>1, <1>2 DEF Target

(* The fault that a round of the planner adds.                             *)
LEMMA AssignedFault ==
  ASSUME TypeOK, AssignProcessTarget
  PROVE  \E f \in Fault :
           /\ Lasts(f) /\ f.type \in ProcessFaults
           /\ f.node \in Nodes /\ busyUntil[f.node] <= f.at
           /\ f.type # "restart_node" => f.node \notin killed
           /\ Plan(f) /\ Foresee(f)
<1>1. PICK f \in Samples(Len(plan) + 1) :
        /\ f.type \in ProcessFaults /\ Eligible(f) # {}
        /\ Plan([f EXCEPT !.node = Target(f)]) /\ Foresee([f EXCEPT !.node = Target(f)])
  BY DEF AssignProcessTarget
<1> DEFINE a == [f EXCEPT !.node = Target(f)]
<1>2. f \in Fault /\ Lasts(f)
  BY PlannedFaults, SamplesAreFaults
<1>3. Target(f) \in Nodes /\ Target(f) \in Eligible(f)
  BY <1>1, TargetIsEligible
<1>4. /\ busyUntil[Target(f)] <= f.at
      /\ f.type # "restart_node" => Target(f) \notin killed
  BY <1>3 DEF Eligible
<1>5. /\ a \in Fault /\ a.node = Target(f) /\ a.type = f.type /\ a.at = f.at
      /\ a.duration = f.duration /\ a.stall = f.stall /\ a.interval = f.interval
  BY <1>2, <1>3 DEF Fault
<1>6. Lasts(a)
  BY <1>2, <1>5 DEF Lasts
<1> HIDE DEF a
<1> QED BY <1>1, <1>3, <1>4, <1>5, <1>6 DEF a

LEMMA PlanGrows ==
  ASSUME TypeOK, ~Planned, NEW f \in Fault, Plan(f)
  PROVE  /\ plan' \in Seq(Fault) /\ Len(plan') = Len(plan) + 1
         /\ DOMAIN plan' = 1 .. Len(plan) + 1
         /\ plan'[Len(plan) + 1] = f
         /\ \A i \in 1 .. Len(plan) : plan'[i] = plan[i]
         /\ Len(plan') <= MaxFaults
<1>1. plan \in Seq(Fault) /\ Len(plan) \in Nat /\ Len(plan) < MaxFaults
  BY PlannedFaults, Numbers DEF TypeOK, Planned
<1>2. plan' = Append(plan, f)
  BY DEF Plan
<1>3. Len(plan') = Len(plan) + 1
  BY <1>1, <1>2, AppendProperties
<1> QED BY <1>1, <1>2, <1>3, AppendProperties, LenProperties, Numbers

LEMMA InitTyped == Init => TypeOK
<1> SUFFICES ASSUME Init PROVE TypeOK
  OBVIOUS
<1>1. plan \in Seq(Fault) /\ Len(plan) <= MaxFaults
  <2>1. plan \in Seq(Fault) /\ Len(plan) = 0
    BY EmptySeq DEF Init
  <2> QED BY <2>1, Numbers
<1>2. idx \in 1 .. MaxFaults + 1 /\ now \in Nat
  BY Numbers DEF Init
<1>3. recovery \in [1 .. MaxFaults ->
                     [phase : {"stalled", "interval", "done"}, due : Nat, end : Nat]]
  BY DEF Init, Done
<1> QED BY <1>1, <1>2, <1>3 DEF Init, TypeOK, Recovery

LEMMA TypesLast ==
  ASSUME TypeOK, ClockInv, [Next]_vars
  PROVE  TypeOK'
<1>1. ASSUME NEW f \in Fault, ~Planned, Plan(f), Foresee(f) \/ UNCHANGED <<killed, busyUntil>>
      PROVE  TypeOK'
  <2>1. plan' \in Seq(Fault) /\ Len(plan') <= MaxFaults
    BY <1>1, PlanGrows
  <2>2. f.node \in Nodes /\ BusyUntil(f) \in Nat
    BY BusyUntilType DEF Fault
  <2>3. killed' \subseteq Nodes /\ busyUntil' \in [Nodes -> Nat]
    BY <1>1, <2>2 DEF Foresee, TypeOK
  <2> QED BY <1>1, <2>1, <2>3 DEF Plan, runVars, TypeOK
<1>2. CASE AssignProcessTarget
  BY <1>1, <1>2, AssignedFault DEF AssignProcessTarget
<1>3. CASE LeaveAlone
  BY <1>1, <1>3, PlannedFaults, SamplesAreFaults DEF LeaveAlone
<1>4. CASE Tick
  BY <1>4 DEF Tick, planVars, TypeOK
<1>5. ASSUME FaultDue
      PROVE  Current \in Fault /\ idx + 1 \in 1 .. MaxFaults + 1 /\ idx \in 1 .. MaxFaults
  BY <1>5, PlannedFaults, Numbers DEF FaultDue, Current, TypeOK
<1>6. CASE InjectKill
  <2>1. /\ UNCHANGED <<plan, killed, busyUntil, now, recovery>> /\ late' \in BOOLEAN
        /\ status' \in [Nodes -> {"RUNNING", "PAUSED", "KILLED"}]
        /\ failed' \subseteq {"FaultInjectionFailed", "FaultRecoveryFailed"}
    BY <1>5, <1>6 DEF InjectKill, Injects, InjectionFails, planVars, TypeOK, Fault
  <2>2. idx' \in 1 .. MaxFaults + 1 /\ wakeAt' \in Nat
    BY <1>5, <1>6, Numbers
    DEF InjectKill, Injects, InjectionFails, NextFault, FallsAsleep, TypeOK
  <2> QED BY <2>1, <2>2 DEF TypeOK
<1>7. CASE InjectRestart
  <2>1. /\ UNCHANGED <<plan, killed, busyUntil, now, recovery, failed>> /\ late' \in BOOLEAN
        /\ status' \in [Nodes -> {"RUNNING", "PAUSED", "KILLED"}]
    BY <1>5, <1>7 DEF InjectRestart, Injects, planVars, TypeOK, Fault
  <2>2. idx' \in 1 .. MaxFaults + 1 /\ wakeAt' \in Nat
    BY <1>5, <1>7, Numbers DEF InjectRestart, Injects, FallsAsleep, TypeOK
  <2> QED BY <2>1, <2>2 DEF TypeOK
<1>8. CASE InjectPause
  <2>1. /\ UNCHANGED <<plan, killed, busyUntil, now>> /\ late' \in BOOLEAN
        /\ status' \in [Nodes -> {"RUNNING", "PAUSED", "KILLED"}]
        /\ failed' \subseteq {"FaultInjectionFailed", "FaultRecoveryFailed"}
    BY <1>5, <1>8 DEF InjectPause, Injects, InjectionFails, planVars, TypeOK, Fault
  <2>2. idx' \in 1 .. MaxFaults + 1 /\ wakeAt' \in Nat
    BY <1>5, <1>8 DEF InjectPause, Injects, InjectionFails, NextFault, TypeOK
  <2>3. /\ Stalled(now + Current.duration, now) \in Recovery
        /\ Stalled(now + Current.stall, now + Current.duration) \in Recovery
    BY <1>5, <1>8 DEF InjectPause, Injects, Stalled, TypeOK, Fault, Recovery
  <2>4. recovery' \in [1 .. MaxFaults -> Recovery]
    BY <1>8, <2>3 DEF InjectPause, InjectionFails, TypeOK
  <2> QED BY <2>1, <2>2, <2>4 DEF TypeOK
<1>9. CASE InjectNetwork
  BY <1>5, <1>9 DEF InjectNetwork, Injects, NextFault, planVars, TypeOK
<1>10. CASE Awake
  <2>1. idx + 1 \in 1 .. MaxFaults + 1
    BY <1>10, Numbers DEF Awake, ClockInv, Asleep, TypeOK
  <2>2. status' \in [Nodes -> {"RUNNING", "PAUSED", "KILLED"}]
    BY <1>10 DEF Awake, TypeOK
  <2> QED BY <1>10, <2>1, <2>2 DEF Awake, planVars, TypeOK
<1>11. ASSUME NEW i \in 1 .. MaxFaults, Waiting(i) PROVE plan[i] \in Fault
  BY <1>11, PlannedFaults DEF ClockInv, NotStarted, Waiting
<1>12. ASSUME NEW i \in 1 .. MaxFaults, StallEnds(i) PROVE TypeOK'
  <2>1. Waiting(i)
    BY <1>12 DEF StallEnds, Waiting
  <2>2. /\ Interval(now + plan[i].interval, recovery[i].end) \in Recovery
        /\ Done \in Recovery
    <3>1. plan[i].interval \in Nat /\ now \in Nat
      <4>1. plan[i] \in Fault
        BY <1>11, <2>1
      <4> QED BY <4>1 DEF TypeOK, Fault
    <3>2. recovery[i].end \in Nat
      BY DEF TypeOK, Recovery
    <3> QED BY <3>1, <3>2 DEF Interval, Done, Recovery
  <2>3. recovery' \in [1 .. MaxFaults -> Recovery]
    BY <1>12, <2>2 DEF StallEnds, RecoveryFails, TypeOK
  <2>4. /\ status' \in [Nodes -> {"RUNNING", "PAUSED", "KILLED"}]
        /\ failed' \subseteq {"FaultInjectionFailed", "FaultRecoveryFailed"}
    BY <1>12 DEF StallEnds, RecoveryFails, TypeOK
  <2> QED BY <1>12, <2>3, <2>4 DEF StallEnds, planVars, TypeOK
<1>13. ASSUME NEW i \in 1 .. MaxFaults, IntervalEnds(i) PROVE TypeOK'
  <2>1. Waiting(i)
    BY <1>13 DEF IntervalEnds, Waiting
  <2>2. /\ Stalled(now + plan[i].stall, recovery[i].end) \in Recovery
        /\ Done \in Recovery
    <3>1. plan[i].stall \in Nat /\ now \in Nat
      <4>1. plan[i] \in Fault
        BY <1>11, <2>1
      <4> QED BY <4>1 DEF TypeOK, Fault
    <3>2. recovery[i].end \in Nat
      BY DEF TypeOK, Recovery
    <3> QED BY <3>1, <3>2 DEF Stalled, Done, Recovery
  <2>3. recovery' \in [1 .. MaxFaults -> Recovery]
    BY <1>13, <2>2 DEF IntervalEnds, RecoveryFails, TypeOK
  <2>4. /\ status' \in [Nodes -> {"RUNNING", "PAUSED", "KILLED"}]
        /\ failed' \subseteq {"FaultInjectionFailed", "FaultRecoveryFailed"}
    BY <1>13 DEF IntervalEnds, RecoveryFails, TypeOK
  <2> QED BY <1>13, <2>3, <2>4 DEF IntervalEnds, planVars, TypeOK
<1>14. CASE UNCHANGED vars
  BY <1>14 DEF vars, planVars, runVars, TypeOK
<1> QED BY <1>2, <1>3, <1>4, <1>6, <1>7, <1>8, <1>9, <1>10, <1>12, <1>13, <1>14 DEF Next

----------------------------------------------------------------------------
(* The planner                                                             *)

(* One fault more, and who is down by the plan.                            *)
LEMMA DownStep ==
  ASSUME NEW p, NEW n, NEW j \in Nat \ {0}
  PROVE  /\ ~DownAt(p, n, 1)
         /\ DownAt(p, n, j + 1) <=> Stops(p[j], n) \/ (DownAt(p, n, j) /\ ~Brings(p[j], n))
<1>1. ~DownAt(p, n, 1)
  BY DEF DownAt
<1>2. ASSUME DownAt(p, n, j + 1) PROVE Stops(p[j], n) \/ (DownAt(p, n, j) /\ ~Brings(p[j], n))
  <2>1. PICK i \in 1 .. j : Stops(p[i], n) /\ \A k \in i + 1 .. j : ~Brings(p[k], n)
    BY <1>2 DEF DownAt
  <2>2. CASE i = j
    BY <2>1, <2>2
  <2>3. CASE i # j
    <3>1. i \in 1 .. j - 1 /\ j \in i + 1 .. j /\ \A k \in i + 1 .. j - 1 : k \in i + 1 .. j
      BY <2>3
    <3> QED BY <2>1, <3>1 DEF DownAt
  <2> QED BY <2>2, <2>3
<1>3. ASSUME Stops(p[j], n) PROVE DownAt(p, n, j + 1)
  <2>1. j \in 1 .. (j + 1) - 1 /\ \A k \in j + 1 .. (j + 1) - 1 : FALSE
    OBVIOUS
  <2> QED BY <1>3, <2>1 DEF DownAt
<1>4. ASSUME DownAt(p, n, j), ~Brings(p[j], n) PROVE DownAt(p, n, j + 1)
  <2>1. PICK i \in 1 .. j - 1 : Stops(p[i], n) /\ \A k \in i + 1 .. j - 1 : ~Brings(p[k], n)
    BY <1>4 DEF DownAt
  <2>2. i \in 1 .. (j + 1) - 1 /\ \A k \in i + 1 .. (j + 1) - 1 : k \in i + 1 .. j - 1 \/ k = j
    OBVIOUS
  <2> QED BY <1>4, <2>1, <2>2 DEF DownAt
<1> QED BY <1>1, <1>2, <1>3, <1>4

(* Plans that begin alike say the same of their common beginning.          *)
LEMMA SamePrefix ==
  ASSUME NEW p, NEW q, NEW j \in Nat \ {0}, \A i \in 1 .. j - 1 : p[i] = q[i]
  PROVE  /\ \A n : DownAt(p, n, j) <=> DownAt(q, n, j)
         /\ p[j] = q[j] /\ Sound(p, j) => Sound(q, j)
<1>1. \A i \in 1 .. j - 1 : \A k \in i + 1 .. j - 1 : k \in 1 .. j - 1
  OBVIOUS
<1>2. ASSUME NEW n PROVE DownAt(p, n, j) <=> DownAt(q, n, j)
  BY <1>1 DEF DownAt
<1> QED BY <1>2 DEF Sound

(* A fault that was fit for the picture keeps the picture true.            *)
LEMMA PlanningKeepsPlanInv ==
  ASSUME TypeOK, PlanInv, AssignProcessTarget \/ LeaveAlone
  PROVE  PlanInv'
<1>1. PICK f \in Fault :
        /\ ~Planned /\ Lasts(f) /\ Plan(f)
        /\ \/ /\ f.type \in ProcessFaults /\ busyUntil[f.node] <= f.at
              /\ f.type # "restart_node" => f.node \notin killed
              /\ Foresee(f)
           \/ f.type \notin ProcessFaults /\ UNCHANGED <<killed, busyUntil>>
  <2>1. CASE AssignProcessTarget
    BY <2>1, AssignedFault DEF AssignProcessTarget
  <2>2. CASE LeaveAlone
    BY <2>2, PlannedFaults, SamplesAreFaults DEF LeaveAlone
  <2> QED BY <2>1, <2>2
<1>2. PICK k \in Nat \ {0} : Len(plan) = k - 1
  BY PlannedFaults
<1>3. /\ DOMAIN plan = 1 .. k - 1 /\ DOMAIN plan' = 1 .. k /\ Len(plan') = k /\ plan'[k] = f
      /\ \A i \in 1 .. k - 1 : plan'[i] = plan[i]
  BY <1>1, <1>2, PlannedFaults, PlanGrows
<1>4. /\ f.node \in Nodes /\ f.at \in Nat
      /\ \A i \in 1 .. k - 1 : plan[i] \in Fault /\ plan[i].node \in Nodes
  BY <1>3, PlannedFaults DEF Fault
<1>5. ASSUME NEW j \in 1 .. k - 1 PROVE Sound(plan', j) /\ Lasts(plan'[j])
  <2>1. Sound(plan, j) /\ Lasts(plan[j])
    BY <1>3 DEF PlanInv
  <2>2. plan'[j] = plan[j] /\ j \in Nat \ {0} /\ \A i \in 1 .. j - 1 : plan[i] = plan'[i]
    BY <1>2, <1>3
  <2> QED BY <2>1, <2>2, SamePrefix
<1>6. ASSUME NEW n \in Nodes PROVE n \in killed <=> DownAt(plan', n, k)
  <2>1. n \in killed <=> DownAt(plan, n, k)
    BY <1>2 DEF PlanInv
  <2> QED BY <1>3, <2>1, SamePrefix
<1>7. Sound(plan', k) /\ Lasts(plan'[k])
  <2>1. ASSUME f.type \in ProcessFaults, f.type # "restart_node" PROVE ~DownAt(plan', f.node, k)
    BY <1>1, <1>4, <1>6, <2>1
  <2>2. ASSUME f.type \in ProcessFaults, NEW i \in 1 .. k - 1,
               IsPause(plan[i]), plan[i].node = f.node
        PROVE  BusyUntil(plan[i]) <= f.at
    <3>1. BusyUntil(plan[i]) <= busyUntil[f.node] /\ busyUntil[f.node] <= f.at
      BY <1>1, <1>3, <2>2 DEF PlanInv
    <3>2. BusyUntil(plan[i]) \in Nat /\ busyUntil[f.node] \in Nat
      BY <1>4, BusyUntilType DEF TypeOK
    <3> QED BY <1>4, <3>1, <3>2
  <2>3. Sound(plan', k)
    BY <1>3, <2>1, <2>2 DEF Sound
  <2> QED BY <1>1, <1>3, <2>3
<1>8. ASSUME NEW i \in 1 .. k, IsPause(plan'[i])
      PROVE  BusyUntil(plan'[i]) <= busyUntil'[plan'[i].node]
  <2>1. CASE f.type \notin Pauses
    <3>1. busyUntil' = busyUntil
      BY <1>1, <2>1 DEF Foresee
    <3>2. i \in 1 .. k - 1
      BY <1>2, <1>3, <1>8, <2>1 DEF IsPause
    <3> QED BY <1>3, <1>8, <3>1, <3>2 DEF PlanInv
  <2>2. CASE f.type \in Pauses
    <3>1. /\ busyUntil' = [busyUntil EXCEPT ![f.node] = BusyUntil(f)]
          /\ busyUntil \in [Nodes -> Nat] /\ busyUntil[f.node] <= f.at
      BY <1>1, <2>2 DEF Foresee, TypeOK, ProcessFaults
    <3>2. BusyUntil(f) \in Nat /\ f.at <= BusyUntil(f)
      BY <2>2, BusyUntilType DEF BusyUntil, Pauses, Fault
    <3>3. CASE i = k
      BY <1>3, <1>4, <3>1, <3>2, <3>3
    <3>4. CASE i \in 1 .. k - 1
      <4>1. /\ plan'[i] = plan[i] /\ BusyUntil(plan[i]) <= busyUntil[plan[i].node]
            /\ BusyUntil(plan[i]) \in Nat /\ plan[i].node \in Nodes
        BY <1>3, <1>4, <1>8, <3>4, BusyUntilType DEF PlanInv
      <4> QED BY <1>4, <3>1, <3>2, <4>1
    <3> QED BY <1>2, <3>3, <3>4
  <2> QED BY <2>1, <2>2
<1>9. ASSUME NEW n \in Nodes PROVE n \in killed' <=> DownAt(plan', n, k + 1)
  <2>1. DownAt(plan', n, k + 1) <=> Stops(f, n) \/ (DownAt(plan', n, k) /\ ~Brings(f, n))
    BY <1>3, DownStep
  <2>2. n \in killed' <=> Stops(f, n) \/ (n \in killed /\ ~Brings(f, n))
    BY <1>1 DEF Foresee, Stops, Brings, ProcessFaults
  <2> QED BY <1>6, <2>1, <2>2
<1>10. \A j \in 1 .. k : j \in 1 .. k - 1 \/ j = k
  BY <1>2
<1> QED BY <1>3, <1>5, <1>7, <1>8, <1>9, <1>10 DEF PlanInv

----------------------------------------------------------------------------
(* The clock                                                               *)

LEMMA InitInv == Init => Inv
<1> SUFFICES ASSUME Init PROVE Inv
  OBVIOUS
<1>1. TypeOK
  BY InitTyped
<1>2. Len(plan) = 0 /\ DOMAIN plan = {}
  BY <1>1, PlannedFaults DEF Init
<1>3. PlanInv
  <2>1. \A n \in Nodes : ~DownAt(plan, n, 0 + 1)
    BY DEF DownAt
  <2> QED BY <1>2, <2>1 DEF PlanInv, Init
<1>4. NotStarted /\ \A i \in 1 .. MaxFaults : ~Waiting(i)
  BY DEF Init, NotStarted, Waiting, Done
<1>5. ClockInv
  BY <1>4 DEF ClockInv, Timely, Asleep, NotStarted
<1>6. PunctualInv
  <2>1. \A n \in Nodes : ~DownAt(plan, n, idx)
    BY DEF DownAt, Init
  <2>2. \A i \in 1 .. MaxFaults : ~IsStalled(i)
    BY <1>4 DEF Waiting, IsStalled
  <2> QED BY <1>4, <2>1, <2>2 DEF PunctualInv, IsDown, Asleep, NotStarted, Active, Waiting
<1> QED BY <1>1, <1>3, <1>5, <1>6 DEF Inv

(* While the planner is at work, the run has not begun.                    *)
LEMMA PlanningKeepsRun ==
  ASSUME Inv, AssignProcessTarget \/ LeaveAlone, TypeOK'
  PROVE  ClockInv' /\ PunctualInv'
<1>1. NotStarted /\ UNCHANGED runVars
  BY DEF Inv, ClockInv, AssignProcessTarget, LeaveAlone, Plan
<1>2. NotStarted' /\ \A i \in 1 .. MaxFaults : ~Waiting(i)' /\ ~IsStalled(i)'
  BY <1>1 DEF NotStarted, runVars, Waiting, IsStalled
<1>3. ClockInv'
  BY <1>2 DEF ClockInv, Timely, Asleep, NotStarted
<1>4. PunctualInv'
  <2>1. \A n \in Nodes : ~DownAt(plan, n, idx)'
    BY <1>2 DEF DownAt, NotStarted
  <2> QED BY <1>2, <2>1 DEF PunctualInv, IsDown, Asleep, NotStarted, Active
<1> QED BY <1>3, <1>4

(* In a step of the run the plan stays what it is.                         *)
LEMMA PlanStays ==
  ASSUME UNCHANGED planVars
  PROVE  /\ PlanInv' <=> PlanInv
         /\ Planned' <=> Planned
         /\ Tight' <=> Tight
BY DEF planVars, PlanInv, Planned, Tight

(* A fault that is due is a fault of the plan.                             *)
LEMMA DueFault ==
  ASSUME TypeOK, FaultDue
  PROVE  /\ Planned /\ ~Asleep /\ idx \in 1 .. MaxFaults /\ idx \in Nat \ {0}
         /\ DOMAIN plan = 1 .. MaxFaults
         /\ Current = plan[idx] /\ Current \in Fault /\ Current.at <= now
         /\ now \in Nat /\ MaxFaults \in Nat
BY PlannedFaults, Numbers DEF FaultDue, Current, Asleep, TypeOK

LEMMA TickKeepsClock ==
  ASSUME TypeOK, ClockInv, Tick
  PROVE  ClockInv'
<1>1. /\ Planned /\ Planned' /\ now' = now + 1 /\ now \in Nat
      /\ UNCHANGED <<plan, idx, wakeAt, recovery>>
      /\ \A i \in Pending : now < recovery[i].due
  BY PlanStays DEF Tick, planVars, TypeOK
<1>2. ASSUME NEW i \in 1 .. MaxFaults, Waiting(i)' PROVE Timely(i)'
  <2>1. Waiting(i) /\ now < recovery[i].due /\ recovery[i].due \in Nat
    BY <1>1, <1>2 DEF Waiting, Pending, TypeOK, Recovery
  <2>2. plan[i].at \in Nat
    BY <1>1, PlannedFaults DEF Fault
  <2> QED BY <1>1, <2>1, <2>2 DEF ClockInv, Timely, IsStalled
<1>3. ASSUME Asleep'
      PROVE  /\ idx <= MaxFaults /\ plan[idx].type \in {"restart_node", "persistence"}
             /\ plan[idx].at <= now + 1
  <2>1. /\ idx <= MaxFaults /\ plan[idx].type \in {"restart_node", "persistence"}
        /\ plan[idx].at <= now
    BY <1>1, <1>3 DEF ClockInv, Asleep
  <2>2. plan[idx].at \in Nat
    <3>1. idx \in 1 .. MaxFaults
      BY <2>1, Numbers DEF TypeOK
    <3>2. plan[idx] \in Fault
      BY <1>1, <3>1, PlannedFaults
    <3> QED BY <3>2 DEF Fault
  <2> QED BY <1>1, <2>1, <2>2
<1>4. \A i \in 1 .. MaxFaults : Timely(i)'
  BY <1>2 DEF Timely
<1> QED BY <1>1, <1>3, <1>4 DEF ClockInv

(* The loop injects a fault: only the one that is due begins to wait.      *)
LEMMA InjectionKeepsClock ==
  ASSUME TypeOK, PlanInv, ClockInv,
         InjectKill \/ InjectRestart \/ InjectPause \/ InjectNetwork
  PROVE  ClockInv'
<1>1. FaultDue /\ UNCHANGED planVars /\ now' = now /\ Planned'
  BY PlanStays DEF InjectKill, InjectRestart, InjectPause, InjectNetwork, Injects, FaultDue
<1>2. /\ idx \in 1 .. MaxFaults /\ Current = plan[idx] /\ Current \in Fault
      /\ Current.at <= now /\ now \in Nat /\ ~Asleep /\ MaxFaults \in Nat
      /\ DOMAIN plan = 1 .. MaxFaults
  BY <1>1, DueFault
<1>3. /\ idx' \in {idx, idx + 1}
      /\ Asleep' => idx' = idx /\ Current.type \in {"restart_node", "persistence"}
  BY <1>2 DEF InjectKill, InjectRestart, InjectPause, InjectNetwork, InjectionFails,
              Injects, NextFault, FallsAsleep, Asleep
<1>4. ASSUME NEW i \in 1 .. MaxFaults, recovery'[i] = recovery[i] PROVE Timely(i)'
  <2>1. Timely(i)
    BY DEF ClockInv
  <2> QED BY <1>1, <1>2, <1>3, <1>4, <2>1 DEF Timely, Waiting, IsStalled, planVars
<1>5. CASE UNCHANGED recovery
  BY <1>1, <1>2, <1>3, <1>4, <1>5 DEF ClockInv, Asleep, planVars
<1>6. CASE recovery' # recovery
  <2>1. /\ InjectPause /\ idx' = idx + 1 /\ UNCHANGED wakeAt /\ Current.type \in Pauses
        /\ recovery' = [recovery EXCEPT ![idx] =
             IF Current.type = "cpu_pause" THEN Stalled(now + Current.duration, now)
             ELSE Stalled(now + Current.stall, now + Current.duration)]
    BY <1>6 DEF InjectKill, InjectRestart, InjectPause, InjectNetwork, InjectionFails,
                Injects, NextFault
  <2>2. /\ recovery'[idx] = IF Current.type = "cpu_pause" THEN Stalled(now + Current.duration, now)
                            ELSE Stalled(now + Current.stall, now + Current.duration)
        /\ \A i \in 1 .. MaxFaults \ {idx} : recovery'[i] = recovery[i]
    BY <1>2, <2>1 DEF TypeOK
  <2>3. Current.duration \in Nat /\ Current.stall \in Nat
    BY <1>2 DEF Fault
  <2>4. now <= recovery'[idx].due /\ recovery'[idx].phase = "stalled"
        /\ (Current.type = "cpu_pause" => recovery'[idx].end <= recovery'[idx].due)
    BY <1>2, <2>2, <2>3 DEF Stalled
  <2>5. ASSUME NEW i \in 1 .. MaxFaults, i = idx PROVE Timely(i)'
    BY <1>1, <1>2, <2>1, <2>4, <2>5 DEF Timely, Waiting, IsStalled, IsPause, planVars
  <2>6. ~Asleep'
    BY <1>2, <2>1 DEF Asleep
  <2>7. \A i \in 1 .. MaxFaults : Timely(i)'
    BY <1>4, <2>2, <2>5
  <2> QED BY <1>1, <2>6, <2>7 DEF ClockInv
<1> QED BY <1>5, <1>6

LEMMA RecoveryKeepsClock ==
  ASSUME TypeOK, PlanInv, ClockInv,
         NEW i \in 1 .. MaxFaults, StallEnds(i) \/ IntervalEnds(i)
  PROVE  ClockInv'
<1>1. /\ Waiting(i) /\ recovery[i].due <= now
      /\ UNCHANGED <<plan, now, idx, wakeAt>> /\ UNCHANGED planVars
      /\ \E r \in {Done, Interval(now + plan[i].interval, recovery[i].end),
                   Stalled(now + plan[i].stall, recovery[i].end)} :
           /\ recovery' = [recovery EXCEPT ![i] = r]
           /\ r.phase = "interval" => IsStalled(i) /\ recovery[i].end > now
           /\ r.phase = "stalled" => recovery[i].phase = "interval"
  BY DEF StallEnds, IntervalEnds, RecoveryFails, planVars, Waiting, IsStalled,
         Done, Interval, Stalled, TypeOK, Recovery
<1>2. Planned /\ Planned'
  BY <1>1, PlanStays DEF ClockInv, NotStarted, Waiting
<1>3. /\ plan[i] \in Fault /\ Timely(i) /\ recovery[i].end \in Nat /\ recovery[i].due \in Nat
      /\ now \in Nat
  BY <1>2, PlannedFaults DEF ClockInv, TypeOK, Recovery
<1>4. plan[i].interval \in Nat /\ plan[i].stall \in Nat
  BY <1>3 DEF Fault
<1>5. ASSUME NEW j \in 1 .. MaxFaults PROVE Timely(j)'
  <2>1. CASE j # i
    <3>1. recovery'[j] = recovery[j] /\ Timely(j)
      BY <1>1, <2>1 DEF ClockInv, TypeOK
    <3> QED BY <1>1, <3>1 DEF Timely, Waiting, IsStalled
  <2>2. CASE j = i
    <3>1. PICK r \in {Done, Interval(now + plan[i].interval, recovery[i].end),
                      Stalled(now + plan[i].stall, recovery[i].end)} :
            /\ recovery'[i] = r
            /\ r.phase = "interval" => IsStalled(i) /\ recovery[i].end > now
            /\ r.phase = "stalled" => recovery[i].phase = "interval"
      BY <1>1 DEF TypeOK
    <3>2. r.phase # "done" => now <= r.due /\ plan[i].type # "cpu_pause"
      BY <1>1, <1>3, <1>4, <3>1 DEF Done, Interval, Stalled, Timely, IsStalled
    <3> QED BY <1>1, <1>3, <2>2, <3>1, <3>2 DEF Timely, Waiting, IsStalled
  <2> QED BY <2>1, <2>2
<1> QED BY <1>1, <1>2, <1>5 DEF ClockInv, Asleep

LEMMA AwakeKeepsClock ==
  ASSUME TypeOK, ClockInv, Awake
  PROVE  ClockInv'
<1>1. /\ Planned /\ Planned' /\ ~Asleep' /\ idx' = idx + 1 /\ idx \in Nat
      /\ UNCHANGED <<plan, now, recovery>>
  BY PlanStays DEF Awake, Asleep, planVars, ClockInv, NotStarted, TypeOK
<1>2. ASSUME NEW i \in 1 .. MaxFaults PROVE Timely(i)'
  <2>1. Timely(i)
    BY DEF ClockInv
  <2> QED BY <1>1, <2>1 DEF Timely, Waiting, IsStalled
<1> QED BY <1>1, <1>2 DEF ClockInv

----------------------------------------------------------------------------
(* Punctual runs                                                           *)

(* When a later fault comes to the same node, an earlier one has nothing   *)
(* more to do there.                                                       *)
LEMMA NoneActive ==
  ASSUME Inv, Planned, Punctual, NEW i \in 1 .. MaxFaults, NEW j \in 1 .. MaxFaults,
         i < j, Active(i), plan[j].type \in ProcessFaults, plan[i].node = plan[j].node,
         plan[j].at <= now
  PROVE  FALSE
<1>1. /\ DOMAIN plan = 1 .. MaxFaults /\ plan[i] \in Fault /\ plan[j] \in Fault
      /\ now \in Nat /\ MaxFaults \in Nat
  BY PlannedFaults, Numbers DEF Inv, TypeOK
<1>2. /\ plan[i].at \in Nat /\ plan[i].duration \in Nat /\ plan[i].stall \in Nat
      /\ plan[j].at \in Nat
  BY <1>1 DEF Fault
<1>3. recovery[i].due \in Nat /\ recovery[i].end \in Nat
  BY DEF Inv, TypeOK, Recovery
<1>4. Waiting(i) /\ IsPause(plan[i]) /\ now <= recovery[i].due /\ EndsInTime(i)
      /\ (plan[i].type = "cpu_pause" => IsStalled(i))
  <2>1. Waiting(i)
    BY DEF Active, IsStalled, Waiting
  <2> QED BY <2>1 DEF Inv, ClockInv, PunctualInv, Timely
<1>5. BusyUntil(plan[i]) <= plan[j].at
  <2>1. Sound(plan, j) /\ i \in 1 .. j - 1
    BY <1>1 DEF Inv, PlanInv
  <2> QED BY <1>4, <2>1 DEF Sound
<1>6. CASE plan[i].type = "cpu_pause"
  <2>1. plan[j].at = BusyUntil(plan[i])
    BY <1>2, <1>3, <1>4, <1>5, <1>1, <1>6 DEF EndsInTime, BusyUntil
  <2> QED BY <1>1, <1>6, <2>1 DEF Punctual, Tight
<1>7. CASE plan[i].type = "slow_disk"
  <2>1. BusyUntil(plan[i]) = plan[i].at + plan[i].duration + plan[i].stall
    BY <1>7 DEF BusyUntil
  <2>2. CASE IsStalled(i)
    BY <1>1, <1>2, <1>3, <1>4, <1>5, <1>7, <2>1, <2>2 DEF EndsInTime
  <2>3. CASE recovery[i].due < recovery[i].end
    BY <1>1, <1>2, <1>3, <1>4, <1>5, <1>7, <2>1, <2>3 DEF EndsInTime
  <2> QED BY <2>2, <2>3 DEF Active
<1> QED BY <1>4, <1>6, <1>7 DEF IsPause, Pauses

(* No two faults have something to do at the same node.                    *)
LEMMA OneActive ==
  ASSUME Inv, Planned, Punctual, NEW i \in 1 .. MaxFaults, NEW j \in 1 .. MaxFaults,
         Active(i), Active(j), plan[i].node = plan[j].node
  PROVE  i = j
<1>1. ASSUME NEW k \in 1 .. MaxFaults, Active(k)
      PROVE  plan[k].type \in ProcessFaults /\ plan[k].at <= now
  BY <1>1 DEF Active, IsStalled, Waiting, Inv, ClockInv, Timely, IsPause, ProcessFaults
<1>2. ~(i < j) /\ ~(j < i)
  BY <1>1, NoneActive
<1> QED BY <1>2, Numbers

(* None has at the target of a fault that is injected, or that sleeps.     *)
LEMMA TargetIsFree ==
  ASSUME Inv, Planned, Punctual, idx \in 1 .. MaxFaults,
         plan[idx].type \in ProcessFaults, plan[idx].at <= now
  PROVE  /\ \A i \in 1 .. MaxFaults : plan[i].node = plan[idx].node => ~Active(i)
         /\ \A i \in 1 .. MaxFaults : Active(i) => i # idx
         /\ status[plan[idx].node] # "PAUSED"
<1>1. ASSUME NEW i \in 1 .. MaxFaults, Active(i) PROVE i < idx
  BY <1>1 DEF Active, IsStalled, Waiting, Inv, ClockInv, Timely
<1>2. ASSUME NEW i \in 1 .. MaxFaults, plan[i].node = plan[idx].node PROVE ~Active(i)
  BY <1>1, <1>2, NoneActive
<1>3. plan[idx].node \in Nodes
  BY PlannedFaults DEF Inv, Fault
<1>4. status[plan[idx].node] # "PAUSED"
  BY <1>2, <1>3 DEF Inv, PunctualInv, Active
<1>5. idx \in Nat
  BY Numbers
<1> QED BY <1>1, <1>2, <1>4, <1>5

LEMMA TickKeepsPunctual ==
  ASSUME Inv, Tick
  PROVE  PunctualInv'
<1>1. UNCHANGED <<plan, idx, wakeAt, status, recovery, failed, late>>
  BY DEF Tick, planVars
<1> QED BY <1>1 DEF Inv, PunctualInv, Punctual, Tight, Waiting, EndsInTime, IsStalled,
                    IsDown, Asleep, Active

(* The node of the fault that is due is down or not, as planned.           *)
LEMMA DueStatus ==
  ASSUME Inv, Punctual, FaultDue, Current.type \in ProcessFaults
  PROVE  /\ Current.type # "restart_node" => status[Current.node] = "RUNNING"
         /\ \A i \in 1 .. MaxFaults : plan[i].node = Current.node => ~Active(i)
         /\ \A i \in 1 .. MaxFaults : Active(i) => i # idx
<1>1. /\ Planned /\ ~Asleep /\ idx \in 1 .. MaxFaults
      /\ DOMAIN plan = 1 .. MaxFaults
      /\ Current = plan[idx] /\ Current \in Fault /\ Current.at <= now
  BY DueFault DEF Inv
<1>2. /\ \A i \in 1 .. MaxFaults : plan[i].node = Current.node => ~Active(i)
      /\ \A i \in 1 .. MaxFaults : Active(i) => i # idx
      /\ status[Current.node] # "PAUSED"
  BY <1>1, TargetIsFree
<1>3. Current.node \in Nodes
  BY <1>1 DEF Fault
<1>4. ASSUME Current.type # "restart_node" PROVE status[Current.node] # "KILLED"
  <2>1. ~DownAt(plan, Current.node, idx)
    BY <1>1, <1>4 DEF Inv, PlanInv, Sound
  <2> QED BY <1>1, <1>3, <2>1 DEF Inv, PunctualInv, IsDown
<1>5. status[Current.node] \in {"RUNNING", "PAUSED", "KILLED"}
  BY <1>3 DEF Inv, TypeOK
<1> QED BY <1>2, <1>4, <1>5

LEMMA SleepsPositive ==
  ASSUME TypeOK, FallsAsleep PROVE Asleep' /\ idx' = idx
BY Numbers DEF FallsAsleep, Asleep, TypeOK

(* What an injection leaves of the clock and the plan.                     *)
LEMMA PunctualInjection ==
  ASSUME Inv, InjectKill \/ InjectRestart \/ InjectPause \/ InjectNetwork, Punctual'
  PROVE  /\ Punctual /\ FaultDue /\ Planned /\ ~Asleep /\ Current.at = now
         /\ UNCHANGED <<plan, now>>
         /\ idx \in 1 .. MaxFaults /\ idx \in Nat \ {0} /\ Current = plan[idx]
         /\ Current \in Fault /\ Current.node \in Nodes
<1>1. /\ FaultDue /\ UNCHANGED planVars /\ now' = now
      /\ ~late' => ~late /\ ~(Current.at < now)
  <2>1. ASSUME NEW types, Injects(types)
        PROVE  /\ FaultDue /\ UNCHANGED planVars /\ now' = now
               /\ ~late' => ~late /\ ~(Current.at < now)
    BY <2>1 DEF Injects, planVars
  <2> QED BY <2>1 DEF InjectKill, InjectRestart, InjectPause, InjectNetwork
<1>2. /\ Planned /\ ~Asleep /\ idx \in 1 .. MaxFaults /\ idx \in Nat \ {0}
      /\ Current = plan[idx] /\ Current \in Fault /\ Current.at <= now /\ now \in Nat
  BY <1>1, DueFault DEF Inv
<1>3. Current.at \in Nat /\ Current.node \in Nodes
  BY <1>2 DEF Fault
<1>4. Punctual /\ ~(Current.at < now)
  BY <1>1, PlanStays DEF Punctual
<1>5. Current.at = now
  BY <1>2, <1>3, <1>4
<1>6. UNCHANGED <<plan, now>>
  BY <1>1 DEF planVars
<1> QED BY <1>1, <1>2, <1>3, <1>4, <1>5, <1>6

(* A node that is killed, or restarted, had nothing to expect.             *)
LEMMA StopKeepsPunctual ==
  ASSUME Inv, InjectKill \/ InjectRestart
  PROVE  PunctualInv'
<1> SUFFICES ASSUME Punctual' PROVE PunctualInv'
  BY DEF PunctualInv
<1> DEFINE n == Current.node
<1>1. /\ Punctual /\ FaultDue /\ Planned /\ ~Asleep /\ UNCHANGED <<plan, now>>
      /\ idx \in 1 .. MaxFaults /\ idx \in Nat \ {0} /\ Current = plan[idx] /\ n \in Nodes
  BY PunctualInjection
<1>2. /\ InjectKill => Current.type \in {"kill_node", "persistence"}
      /\ InjectRestart => Current.type = "restart_node"
  BY DEF InjectKill, InjectRestart, Injects
<1>3. /\ InjectKill => status[n] = "RUNNING"
      /\ \A i \in 1 .. MaxFaults : plan[i].node = n => ~Active(i)
  BY <1>1, <1>2, DueStatus DEF ProcessFaults
<1>4. /\ status' = [status EXCEPT ![n] = "KILLED"] /\ UNCHANGED <<recovery, failed>>
      /\ \/ Current.type = "kill_node" /\ idx' = idx + 1 /\ ~Asleep'
         \/ Current.type # "kill_node" /\ idx' = idx /\ Asleep'
  BY <1>1, <1>2, <1>3, SleepsPositive DEF InjectKill, InjectRestart, NextFault, Asleep, Inv
<1>5. ASSUME NEW m \in Nodes PROVE IsDown(m)' <=> m = n \/ IsDown(m)
  <2>1. CASE Current.type = "kill_node" /\ idx' = idx + 1 /\ ~Asleep'
    <3>1. IsDown(m)' <=> DownAt(plan, m, idx + 1)
      BY <1>1, <2>1 DEF IsDown
    <3>2. DownAt(plan, m, idx + 1) <=> m = n \/ DownAt(plan, m, idx)
      BY <1>1, <2>1, DownStep DEF Stops, Brings
    <3> QED BY <1>1, <3>1, <3>2 DEF IsDown
  <2>2. CASE idx' = idx /\ Asleep'
    BY <1>1, <2>2 DEF IsDown
  <2> QED BY <1>4, <2>1, <2>2
<1>6. \A i \in 1 .. MaxFaults :
        /\ Waiting(i)' = Waiting(i) /\ EndsInTime(i)' = EndsInTime(i)
        /\ IsStalled(i)' = IsStalled(i) /\ Active(i)' = Active(i)
  BY <1>1, <1>4 DEF Waiting, EndsInTime, IsStalled, Active
<1>7. /\ \A i \in 1 .. MaxFaults : plan[i].node \in Nodes
      /\ status \in [Nodes -> {"RUNNING", "PAUSED", "KILLED"}]
  BY <1>1, PlannedFaults DEF Inv, Fault, TypeOK
<1> QED BY <1>1, <1>3, <1>4, <1>5, <1>6, <1>7 DEF Inv, PunctualInv

(* A fault that stops no node is followed by the next one.                 *)
LEMMA NextIsDown ==
  ASSUME idx \in Nat \ {0}, UNCHANGED plan, idx' = idx + 1, ~Asleep, ~Asleep',
         plan[idx].type \notin {"kill_node", "restart_node"}, NEW m
  PROVE  IsDown(m)' <=> IsDown(m)
<1>1. IsDown(m)' <=> DownAt(plan, m, idx + 1)
  BY DEF IsDown
<1>2. DownAt(plan, m, idx + 1) <=> DownAt(plan, m, idx)
  BY DownStep DEF Stops, Brings
<1> QED BY <1>1, <1>2 DEF IsDown

LEMMA NetworkKeepsPunctual ==
  ASSUME Inv, InjectNetwork
  PROVE  PunctualInv'
<1> SUFFICES ASSUME Punctual' PROVE PunctualInv'
  BY DEF PunctualInv
<1>1. /\ Punctual /\ ~Asleep /\ UNCHANGED <<plan, now>>
      /\ idx \in Nat \ {0} /\ Current = plan[idx]
  BY PunctualInjection
<1>2. /\ Current.type = "network" /\ idx' = idx + 1 /\ ~Asleep'
      /\ UNCHANGED <<status, recovery, failed>>
  BY <1>1 DEF InjectNetwork, Injects, NextFault, Asleep
<1>3. \A m \in Nodes : IsDown(m)' <=> IsDown(m)
  BY <1>1, <1>2, NextIsDown
<1> QED BY <1>1, <1>2, <1>3
        DEF Inv, PunctualInv, Waiting, EndsInTime, IsStalled, Active

LEMMA PauseKeepsPunctual ==
  ASSUME Inv, InjectPause
  PROVE  PunctualInv'
<1> SUFFICES ASSUME Punctual' PROVE PunctualInv'
  BY DEF PunctualInv
<1> DEFINE n == Current.node
<1>1. /\ Punctual /\ FaultDue /\ Planned /\ ~Asleep /\ UNCHANGED <<plan, now>>
      /\ idx \in 1 .. MaxFaults /\ idx \in Nat \ {0} /\ Current = plan[idx] /\ n \in Nodes
      /\ Current \in Fault /\ Current.at = now
  BY PunctualInjection
<1>2. Current.type \in Pauses
  BY DEF InjectPause, Injects
<1>3. /\ status[n] = "RUNNING"
      /\ \A i \in 1 .. MaxFaults : plan[i].node = n => ~Active(i)
      /\ \A i \in 1 .. MaxFaults : Active(i) => i # idx
  BY <1>1, <1>2, DueStatus DEF ProcessFaults, Pauses
<1>4. /\ status' = [status EXCEPT ![n] = "PAUSED"] /\ UNCHANGED failed
      /\ idx' = idx + 1 /\ ~Asleep'
      /\ recovery' = [recovery EXCEPT ![idx] =
           IF Current.type = "cpu_pause" THEN Stalled(now + Current.duration, now)
           ELSE Stalled(now + Current.stall, now + Current.duration)]
  BY <1>1, <1>3 DEF InjectPause, NextFault, Asleep
<1>5. \A m \in Nodes : IsDown(m)' <=> IsDown(m)
  BY <1>1, <1>2, <1>4, NextIsDown DEF Pauses
<1>6. /\ recovery'[idx] = IF Current.type = "cpu_pause" THEN Stalled(now + Current.duration, now)
                          ELSE Stalled(now + Current.stall, now + Current.duration)
      /\ \A i \in 1 .. MaxFaults : i # idx => recovery'[i] = recovery[i]
  BY <1>1, <1>4 DEF Inv, TypeOK
<1>7. ASSUME NEW i \in 1 .. MaxFaults, i # idx
      PROVE  /\ Waiting(i)' = Waiting(i) /\ EndsInTime(i)' = EndsInTime(i)
             /\ IsStalled(i)' = IsStalled(i) /\ Active(i)' = Active(i)
  BY <1>1, <1>6, <1>7 DEF Waiting, EndsInTime, IsStalled, Active
<1>8. ASSUME NEW i \in 1 .. MaxFaults, i = idx
      PROVE  IsStalled(i)' /\ EndsInTime(i)'
  <2>1. /\ now \in Nat /\ Current.at = now /\ Current.duration \in Nat /\ Current.stall \in Nat
        /\ Current.duration > 0
    <3>1. Lasts(Current)
      BY <1>1, PlannedFaults DEF Inv, PlanInv
    <3> QED BY <1>1, <1>2, <3>1 DEF Fault, Lasts
  <2>2. IsStalled(i)'
    BY <1>6, <1>8 DEF IsStalled, Stalled
  <2>3. plan'[i] = Current
    BY <1>1, <1>8
  <2>4. CASE Current.type = "cpu_pause"
    <3>1. recovery'[i].due = now + Current.duration
      BY <1>6, <1>8, <2>4 DEF Stalled
    <3>2. BusyUntil(Current) = Current.at + Current.duration
      BY <2>4 DEF BusyUntil
    <3> QED BY <2>1, <2>2, <2>3, <2>4, <3>1, <3>2 DEF EndsInTime
  <2>5. CASE Current.type = "slow_disk"
    <3>1. recovery'[i].due = now + Current.stall /\ recovery'[i].end = now + Current.duration
      BY <1>6, <1>8, <2>5 DEF Stalled
    <3>2. BusyUntil(Current) = Current.at + Current.duration + Current.stall
      BY <2>5 DEF BusyUntil
    <3>3. recovery'[i].due < BusyUntil(Current)
      BY <2>1, <3>1, <3>2
    <3> QED BY <2>1, <2>2, <2>3, <2>5, <3>1, <3>3 DEF EndsInTime
  <2> QED BY <1>2, <2>2, <2>4, <2>5 DEF Pauses
<1>9. /\ \A i \in 1 .. MaxFaults : plan[i].node \in Nodes
      /\ status \in [Nodes -> {"RUNNING", "PAUSED", "KILLED"}]
  BY <1>1, PlannedFaults DEF Inv, Fault, TypeOK
<1>10. \A m \in Nodes : status'[m] = IF m = n THEN "PAUSED" ELSE status[m]
  BY <1>4, <1>9
<1>11. \A m \in Nodes : status'[m] = "KILLED" <=> IsDown(m)'
  BY <1>1, <1>3, <1>5, <1>10 DEF Inv, PunctualInv
<1>12. ASSUME NEW m \in Nodes, status'[m] = "PAUSED"
       PROVE  \E i \in 1 .. MaxFaults : IsStalled(i)' /\ plan'[i].node = m
  <2>1. CASE m = n
    BY <1>1, <1>8, <2>1
  <2>2. CASE m # n
    <3>1. PICK i \in 1 .. MaxFaults : IsStalled(i) /\ plan[i].node = m
      BY <1>1, <1>10, <1>12, <2>2 DEF Inv, PunctualInv
    <3> QED BY <1>1, <1>7, <2>2, <3>1
  <2> QED BY <2>1, <2>2
<1>13. ASSUME NEW i \in 1 .. MaxFaults, Active(i)'
       PROVE  status'[plan'[i].node] = IF IsStalled(i)' THEN "PAUSED" ELSE "RUNNING"
  <2>1. CASE i = idx
    BY <1>1, <1>8, <1>10, <2>1
  <2>2. CASE i # idx
    <3>1. Active(i) /\ plan[i].node # n
      BY <1>3, <1>7, <1>13, <2>2
    <3>2. status[plan[i].node] = IF IsStalled(i) THEN "PAUSED" ELSE "RUNNING"
      BY <1>1, <3>1 DEF Inv, PunctualInv
    <3> QED BY <1>1, <1>7, <1>9, <1>10, <2>2, <3>1, <3>2
  <2> QED BY <2>1, <2>2
<1>14. failed' = {} /\ \A i \in 1 .. MaxFaults : Waiting(i)' => EndsInTime(i)'
  BY <1>1, <1>4, <1>7, <1>8 DEF Inv, PunctualInv
<1> QED BY <1>11, <1>12, <1>13, <1>14 DEF PunctualInv

(* A node that wakes up is up, and had nothing to expect.                  *)
LEMMA AwakeKeepsPunctual ==
  ASSUME Inv, Awake
  PROVE  PunctualInv'
<1> SUFFICES ASSUME Punctual' PROVE PunctualInv'
  BY DEF PunctualInv
<1> DEFINE n == plan[idx].node
<1>1. /\ Asleep /\ ~Asleep' /\ idx' = idx + 1 /\ UNCHANGED <<plan, now, recovery, failed, late>>
      /\ UNCHANGED planVars /\ status' = [status EXCEPT ![n] = "RUNNING"]
  BY DEF Awake, Asleep, Current, planVars
<1>2. /\ Planned /\ Punctual /\ DOMAIN plan = 1 .. MaxFaults
      /\ \A i \in 1 .. MaxFaults : plan[i].node \in Nodes
      /\ status \in [Nodes -> {"RUNNING", "PAUSED", "KILLED"}]
  <2>1. Planned /\ Punctual
    BY <1>1, PlanStays DEF Inv, ClockInv, NotStarted, Asleep, Punctual
  <2> QED BY <2>1, PlannedFaults DEF Inv, TypeOK, Fault
<1>3. /\ idx \in 1 .. MaxFaults /\ idx \in Nat \ {0} /\ n \in Nodes
      /\ plan[idx].type \in {"restart_node", "persistence"} /\ plan[idx].at <= now
  <2>1. idx <= MaxFaults
    BY <1>1 DEF Inv, ClockInv
  <2>2. idx \in 1 .. MaxFaults
    BY <2>1, Numbers DEF Inv, TypeOK
  <2> QED BY <1>1, <1>2, <2>2, Numbers DEF Inv, ClockInv
<1>4. /\ \A i \in 1 .. MaxFaults : plan[i].node = n => ~Active(i)
      /\ status[n] # "PAUSED"
  BY <1>2, <1>3, TargetIsFree DEF ProcessFaults
<1>5. \A m \in Nodes : status'[m] = IF m = n THEN "RUNNING" ELSE status[m]
  BY <1>1, <1>2
<1>6. ASSUME NEW m \in Nodes PROVE IsDown(m)' <=> m # n /\ IsDown(m)
  <2>1. IsDown(m)' <=> DownAt(plan, m, idx + 1)
    BY <1>1 DEF IsDown
  <2>2. DownAt(plan, m, idx + 1) <=> DownAt(plan, m, idx) /\ ~Brings(plan[idx], m)
    BY <1>3, DownStep DEF Stops
  <2>3. CASE plan[idx].type = "restart_node"
    BY <2>1, <2>2, <2>3 DEF Brings, IsDown
  <2>4. CASE plan[idx].type = "persistence"
    <3>1. ~DownAt(plan, n, idx)
      BY <1>2, <1>3, <2>4 DEF Inv, PlanInv, Sound, ProcessFaults
    <3> QED BY <2>1, <2>2, <2>4, <3>1 DEF Brings, IsDown
  <2> QED BY <1>3, <2>3, <2>4
<1>7. \A i \in 1 .. MaxFaults :
        /\ Waiting(i)' = Waiting(i) /\ EndsInTime(i)' = EndsInTime(i)
        /\ IsStalled(i)' = IsStalled(i) /\ Active(i)' = Active(i)
  BY <1>1 DEF Waiting, EndsInTime, IsStalled, Active
<1> QED BY <1>1, <1>2, <1>4, <1>5, <1>6, <1>7 DEF Inv, PunctualInv

(* The fault i, whose recovery is due, is the only one active at its node. *)
LEMMA DueRecovery ==
  ASSUME Inv, NEW i \in 1 .. MaxFaults, StallEnds(i) \/ IntervalEnds(i), Punctual'
  PROVE  /\ Planned /\ Punctual /\ Waiting(i) /\ recovery[i].due = now /\ now \in Nat
         /\ UNCHANGED <<plan, now, idx, wakeAt, late>>
         /\ plan[i] \in Fault /\ Timely(i) /\ EndsInTime(i)
         /\ \A j \in 1 .. MaxFaults : plan[j].node \in Nodes
         /\ Active(i) => \A j \in 1 .. MaxFaults :
                            Active(j) /\ plan[j].node = plan[i].node => j = i
<1>1. /\ Waiting(i) /\ recovery[i].due <= now
      /\ UNCHANGED <<plan, now, idx, wakeAt, late>> /\ UNCHANGED planVars
  BY DEF StallEnds, IntervalEnds, planVars, Waiting
<1>2. Planned /\ Punctual
  BY <1>1, PlanStays DEF Inv, ClockInv, NotStarted, Waiting, Punctual
<1>3. Timely(i) /\ EndsInTime(i)
  BY <1>1, <1>2 DEF Inv, ClockInv, PunctualInv
<1>4. recovery[i].due = now /\ now \in Nat
  <2>1. recovery[i].due \in Nat /\ now \in Nat /\ now <= recovery[i].due
    BY <1>1, <1>3 DEF Inv, TypeOK, Timely, Recovery
  <2> QED BY <1>1, <2>1
<1>5. plan[i] \in Fault /\ \A j \in 1 .. MaxFaults : plan[j].node \in Nodes
  BY <1>2, PlannedFaults DEF Inv, Fault
<1>6. Active(i) => \A j \in 1 .. MaxFaults : Active(j) /\ plan[j].node = plan[i].node => j = i
  BY <1>2, OneActive
<1> QED BY <1>1, <1>2, <1>3, <1>4, <1>5, <1>6

(* What the other faults wait for is not touched.                          *)
LEMMA OthersWait ==
  ASSUME NEW i \in 1 .. MaxFaults, NEW r, recovery \in [1 .. MaxFaults -> Recovery],
         recovery' = [recovery EXCEPT ![i] = r], UNCHANGED <<plan, idx, wakeAt>>
  PROVE  /\ recovery'[i] = r
         /\ \A j \in 1 .. MaxFaults : j # i =>
              /\ Waiting(j)' = Waiting(j) /\ EndsInTime(j)' = EndsInTime(j)
              /\ IsStalled(j)' = IsStalled(j) /\ Active(j)' = Active(j)
         /\ \A m : IsDown(m)' = IsDown(m)
<1>1. recovery'[i] = r /\ \A j \in 1 .. MaxFaults : j # i => recovery'[j] = recovery[j]
  OBVIOUS
<1> QED BY <1>1 DEF Waiting, EndsInTime, IsStalled, Active, IsDown, Asleep

LEMMA StallEndKeepsPunctual ==
  ASSUME Inv, NEW i \in 1 .. MaxFaults, StallEnds(i)
  PROVE  PunctualInv'
<1> SUFFICES ASSUME Punctual' PROVE PunctualInv'
  BY DEF PunctualInv
<1> DEFINE n == plan[i].node
<1>1. /\ Planned /\ Punctual /\ Waiting(i) /\ recovery[i].due = now /\ now \in Nat
      /\ UNCHANGED <<plan, now, idx, wakeAt, late>>
      /\ plan[i] \in Fault /\ Timely(i) /\ EndsInTime(i)
      /\ \A j \in 1 .. MaxFaults : plan[j].node \in Nodes
      /\ Active(i) => \A j \in 1 .. MaxFaults : Active(j) /\ plan[j].node = n => j = i
  BY DueRecovery
<1>2. IsStalled(i) /\ Active(i) /\ status[n] = "PAUSED"
  <2>1. IsStalled(i) /\ Active(i)
    BY DEF StallEnds, IsStalled, Active
  <2> QED BY <1>1, <2>1 DEF Inv, PunctualInv
<1>3. PICK r \in {Done, Interval(now + plan[i].interval, recovery[i].end)} :
        /\ status' = [status EXCEPT ![n] = "RUNNING"] /\ UNCHANGED failed
        /\ recovery' = [recovery EXCEPT ![i] = r]
        /\ now >= recovery[i].end => r = Done
  BY <1>2 DEF StallEnds
<1>4. /\ recovery'[i] = r
      /\ \A j \in 1 .. MaxFaults : j # i =>
           /\ Waiting(j)' = Waiting(j) /\ EndsInTime(j)' = EndsInTime(j)
           /\ IsStalled(j)' = IsStalled(j) /\ Active(j)' = Active(j)
      /\ \A m : IsDown(m)' = IsDown(m)
  BY <1>1, <1>3, OthersWait DEF Inv, TypeOK, Recovery
<1>5. ~IsStalled(i)'
  BY <1>3, <1>4 DEF IsStalled, Done, Interval
<1>6. Waiting(i)' => EndsInTime(i)'
  <2>1. ASSUME Waiting(i)'
        PROVE  plan[i].type # "cpu_pause" /\ recovery'[i].end = recovery[i].end
    <3>1. r # Done
      BY <1>4, <2>1 DEF Waiting, Done
    <3>2. ~(now >= recovery[i].end) /\ recovery'[i].end = recovery[i].end
      BY <1>3, <1>4, <3>1 DEF Interval
    <3> QED BY <1>1, <3>2 DEF Timely, Inv, TypeOK
  <2> QED BY <1>1, <1>5, <2>1 DEF EndsInTime
<1>7. status \in [Nodes -> {"RUNNING", "PAUSED", "KILLED"}]
  BY DEF Inv, TypeOK
<1>8. \A m \in Nodes : status'[m] = IF m = n THEN "RUNNING" ELSE status[m]
  BY <1>3, <1>7
<1>9. \A m \in Nodes : status'[m] = "KILLED" <=> IsDown(m)'
  BY <1>1, <1>2, <1>4, <1>8 DEF Inv, PunctualInv
<1>10. ASSUME NEW m \in Nodes, status'[m] = "PAUSED"
       PROVE  \E j \in 1 .. MaxFaults : IsStalled(j)' /\ plan'[j].node = m
  <2>1. m # n /\ status[m] = "PAUSED"
    BY <1>8, <1>10
  <2>2. PICK j \in 1 .. MaxFaults : IsStalled(j) /\ plan[j].node = m
    BY <1>1, <2>1 DEF Inv, PunctualInv
  <2> QED BY <1>1, <1>4, <2>1, <2>2
<1>11. ASSUME NEW j \in 1 .. MaxFaults, Active(j)'
       PROVE  status'[plan'[j].node] = IF IsStalled(j)' THEN "PAUSED" ELSE "RUNNING"
  <2>1. CASE j = i
    BY <1>1, <1>5, <1>8, <2>1
  <2>2. CASE j # i
    <3>1. Active(j) /\ plan[j].node # n
      BY <1>1, <1>2, <1>4, <1>11, <2>2
    <3>2. status[plan[j].node] = IF IsStalled(j) THEN "PAUSED" ELSE "RUNNING"
      BY <1>1, <3>1 DEF Inv, PunctualInv
    <3> QED BY <1>1, <1>4, <1>8, <2>2, <3>1, <3>2
  <2> QED BY <2>1, <2>2
<1>12. failed' = {} /\ \A j \in 1 .. MaxFaults : Waiting(j)' => EndsInTime(j)'
  BY <1>1, <1>3, <1>4, <1>6 DEF Inv, PunctualInv
<1> QED BY <1>9, <1>10, <1>11, <1>12 DEF PunctualInv

LEMMA IntervalEndKeepsPunctual ==
  ASSUME Inv, NEW i \in 1 .. MaxFaults, IntervalEnds(i)
  PROVE  PunctualInv'
<1> SUFFICES ASSUME Punctual' PROVE PunctualInv'
  BY DEF PunctualInv
<1> DEFINE n == plan[i].node
           again == now < recovery[i].end
<1>1. /\ Planned /\ Punctual /\ Waiting(i) /\ recovery[i].due = now /\ now \in Nat
      /\ UNCHANGED <<plan, now, idx, wakeAt, late>>
      /\ plan[i] \in Fault /\ Timely(i) /\ EndsInTime(i)
      /\ \A j \in 1 .. MaxFaults : plan[j].node \in Nodes
      /\ Active(i) => \A j \in 1 .. MaxFaults : Active(j) /\ plan[j].node = n => j = i
  BY DueRecovery
<1>2. ~IsStalled(i) /\ (again => Active(i) /\ status[n] = "RUNNING")
  <2>1. ~IsStalled(i) /\ (again => Active(i))
    BY <1>1 DEF IntervalEnds, IsStalled, Active
  <2> QED BY <1>1, <2>1 DEF Inv, PunctualInv
<1>3. /\ status' = [status EXCEPT ![n] = IF again THEN "PAUSED" ELSE @] /\ UNCHANGED failed
      /\ recovery' = [recovery EXCEPT ![i] =
           IF again THEN Stalled(now + plan[i].stall, recovery[i].end) ELSE Done]
  BY <1>2 DEF IntervalEnds
<1>4. /\ recovery'[i] = IF again THEN Stalled(now + plan[i].stall, recovery[i].end) ELSE Done
      /\ \A j \in 1 .. MaxFaults : j # i =>
           /\ Waiting(j)' = Waiting(j) /\ EndsInTime(j)' = EndsInTime(j)
           /\ IsStalled(j)' = IsStalled(j) /\ Active(j)' = Active(j)
      /\ \A m : IsDown(m)' = IsDown(m)
  BY <1>1, <1>3, OthersWait DEF Inv, TypeOK, Recovery
<1>5. (IsStalled(i)' <=> again) /\ (Waiting(i)' <=> again)
  BY <1>4 DEF IsStalled, Waiting, Stalled, Done
<1>6. ASSUME Waiting(i)' PROVE EndsInTime(i)'
  <2>1. /\ plan[i].type = "slow_disk" /\ recovery[i].end \in Nat
        /\ plan[i].at \in Nat /\ plan[i].duration \in Nat /\ plan[i].stall \in Nat
    BY <1>1, <1>2 DEF Timely, IsPause, Pauses, Inv, TypeOK, Fault, Recovery
  <2>2. /\ recovery'[i].due = now + plan[i].stall /\ recovery'[i].end = recovery[i].end /\ again
    BY <1>4, <1>5, <1>6 DEF Stalled
  <2>3. /\ BusyUntil(plan[i]) = plan[i].at + plan[i].duration + plan[i].stall
        /\ recovery[i].end = plan[i].at + plan[i].duration
    BY <1>1, <2>1 DEF BusyUntil, EndsInTime
  <2>4. recovery'[i].due < BusyUntil(plan[i])
    BY <1>1, <2>1, <2>2, <2>3
  <2> QED BY <1>1, <2>1, <2>2, <2>3, <2>4 DEF EndsInTime
<1>7. status \in [Nodes -> {"RUNNING", "PAUSED", "KILLED"}]
  BY DEF Inv, TypeOK
<1>8. \A m \in Nodes : status'[m] = IF m = n /\ again THEN "PAUSED" ELSE status[m]
  BY <1>3, <1>7
<1>9. \A m \in Nodes : status'[m] = "KILLED" <=> IsDown(m)'
  BY <1>1, <1>2, <1>4, <1>8 DEF Inv, PunctualInv
<1>10. ASSUME NEW m \in Nodes, status'[m] = "PAUSED"
       PROVE  \E j \in 1 .. MaxFaults : IsStalled(j)' /\ plan'[j].node = m
  <2>1. CASE m = n /\ again
    BY <1>1, <1>5, <2>1
  <2>2. CASE ~(m = n /\ again)
    <3>1. PICK j \in 1 .. MaxFaults : IsStalled(j) /\ plan[j].node = m
      BY <1>1, <1>8, <1>10, <2>2 DEF Inv, PunctualInv
    <3> QED BY <1>1, <1>2, <1>4, <3>1
  <2> QED BY <2>1, <2>2
<1>11. ASSUME NEW j \in 1 .. MaxFaults, Active(j)'
       PROVE  status'[plan'[j].node] = IF IsStalled(j)' THEN "PAUSED" ELSE "RUNNING"
  <2>1. CASE j = i
    <3>1. again
      BY <1>5, <1>11, <2>1 DEF Active
    <3> QED BY <1>1, <1>5, <1>8, <2>1, <3>1
  <2>2. CASE j # i
    <3>1. Active(j) /\ ~(plan[j].node = n /\ again)
      BY <1>1, <1>2, <1>4, <1>11, <2>2
    <3>2. status[plan[j].node] = IF IsStalled(j) THEN "PAUSED" ELSE "RUNNING"
      BY <1>1, <3>1 DEF Inv, PunctualInv
    <3> QED BY <1>1, <1>4, <1>8, <2>2, <3>1, <3>2
  <2> QED BY <2>1, <2>2
<1>12. failed' = {} /\ \A j \in 1 .. MaxFaults : Waiting(j)' => EndsInTime(j)'
  BY <1>1, <1>3, <1>4, <1>6 DEF Inv, PunctualInv
<1> QED BY <1>9, <1>10, <1>11, <1>12 DEF PunctualInv

----------------------------------------------------------------------------
(* The theorems                                                            *)

(* The plan, the clock, and who is up and what waits in a punctual run: an *)
(* invariant that every action keeps.                                      *)
THEOREM Invariance == Spec => []Inv
<1>1. ASSUME Inv, [Next]_vars PROVE Inv'
  <2>1. TypeOK'
    BY <1>1, TypesLast DEF Inv
  <2>2. CASE AssignProcessTarget \/ LeaveAlone
    BY <1>1, <2>1, <2>2, PlanningKeepsPlanInv, PlanningKeepsRun DEF Inv
  <2>3. ASSUME UNCHANGED planVars, ClockInv', PunctualInv' PROVE Inv'
    BY <1>1, <2>1, <2>3, PlanStays DEF Inv
  <2>4. CASE Tick
    <3>1. UNCHANGED planVars
      BY <2>4 DEF Tick, planVars
    <3> QED BY <1>1, <2>3, <2>4, <3>1, TickKeepsClock, TickKeepsPunctual DEF Inv
  <2>5. CASE InjectKill \/ InjectRestart \/ InjectPause \/ InjectNetwork
    <3>1. UNCHANGED planVars
      BY <2>5 DEF InjectKill, InjectRestart, InjectPause, InjectNetwork, Injects, planVars
    <3>2. ClockInv'
      BY <1>1, <2>5, InjectionKeepsClock DEF Inv
    <3>3. PunctualInv'
      BY <1>1, <2>5, StopKeepsPunctual, PauseKeepsPunctual, NetworkKeepsPunctual
    <3> QED BY <2>3, <3>1, <3>2, <3>3
  <2>6. CASE Awake
    <3>1. UNCHANGED planVars
      BY <2>6 DEF Awake, planVars
    <3> QED BY <1>1, <2>3, <2>6, <3>1, AwakeKeepsClock, AwakeKeepsPunctual DEF Inv
  <2>7. ASSUME NEW i \in 1 .. MaxFaults, StallEnds(i) \/ IntervalEnds(i) PROVE Inv'
    <3>1. UNCHANGED planVars
      BY <2>7 DEF StallEnds, IntervalEnds, planVars
    <3>2. ClockInv'
      BY <1>1, <2>7, RecoveryKeepsClock DEF Inv
    <3>3. PunctualInv'
      BY <1>1, <2>7, StallEndKeepsPunctual, IntervalEndKeepsPunctual
    <3> QED BY <2>3, <3>1, <3>2, <3>3
  <2>8. CASE UNCHANGED vars
    BY <1>1, <2>8
    DEF Inv, TypeOK, PlanInv, ClockInv, PunctualInv, vars, planVars, runVars, Planned, NotStarted,
        Timely, Waiting, IsStalled, Asleep, Punctual, Tight, EndsInTime, IsDown, Active
  <2> QED BY <1>1, <2>2, <2>4, <2>5, <2>6, <2>7, <2>8 DEF Next
<1> QED BY <1>1, InitInv, PTL DEF Spec

(* Every variable of the planner and of the run has its type.              *)
THEOREM TypeCorrect == Spec => []TypeOK
BY Invariance, PTL DEF Inv

(* No fault is planned for a node that an earlier pause still occupies,    *)
(* and none but a restart for a node that is down by then.                 *)
THEOREM PlansAreSound == Spec => [](\A j \in DOMAIN plan : Sound(plan, j))
<1>1. Inv => \A j \in DOMAIN plan : Sound(plan, j)
  BY DEF Inv, PlanInv
<1> QED BY <1>1, Invariance, PTL

(* No fault of a punctual run fails, neither when it is injected nor when  *)
(* its node recovers.                                                      *)
THEOREM PunctualPlansSucceed == Spec => []PunctualPlanSucceeds
<1>1. Inv => PunctualPlanSucceeds
  BY DEF Inv, PunctualInv, PunctualPlanSucceeds
<1> QED BY <1>1, Invariance, PTL

(* When a punctual run is over, the nodes that are down are those that the *)
(* planner foresaw, and the others run.                                    *)
THEOREM PicturesComeTrue == Spec => []PictureComesTrue
<1>1. ASSUME Inv PROVE PictureComesTrue
  <2> SUFFICES ASSUME Over, Punctual, NEW n \in Nodes
               PROVE  status[n] = IF n \in killed THEN "KILLED" ELSE "RUNNING"
    BY DEF PictureComesTrue
  <2>1. /\ Planned /\ idx = Len(plan) + 1 /\ ~Asleep
        /\ \A i \in 1 .. MaxFaults : ~Waiting(i)
    <3>1. Planned /\ \A i \in 1 .. MaxFaults : ~Waiting(i)
      BY DEF Over, Pending, Waiting
    <3>2. idx > MaxFaults /\ idx \in 1 .. MaxFaults + 1
      BY <1>1 DEF Over, Inv, TypeOK
    <3>3. idx = MaxFaults + 1
      BY <3>2, Numbers
    <3>4. ~Asleep
      BY <1>1, <3>2, Numbers DEF Inv, ClockInv
    <3> QED BY <3>1, <3>3, <3>4 DEF Planned
  <2>2. status[n] # "PAUSED"
    BY <1>1, <2>1 DEF Inv, PunctualInv, IsStalled, Waiting
  <2>3. status[n] = "KILLED" <=> n \in killed
    BY <1>1, <2>1, Zenon DEF Inv, PunctualInv, PlanInv, IsDown
  <2>4. status[n] \in {"RUNNING", "PAUSED", "KILLED"}
    BY <1>1 DEF Inv, TypeOK
  <2> QED BY <2>2, <2>3, <2>4
<1> QED BY <1>1, Invariance, PTL

============================================================================
