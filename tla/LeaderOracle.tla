---------------------------- MODULE LeaderOracle ----------------------------
(***************************************************************************)
(* The leader oracle: the goroutine monitorLeadership of                   *)
(* internal/workload/generator.go, which polls every node for its role and *)
(* turns what it sees into LeaderElected and LeaderStepDown events, and    *)
(* internal/checkers/leader_uniqueness.go, which judges those events.      *)
(*                                                                         *)
(* The cluster under test is external; three kinds are considered.  The    *)
(* sweep over the nodes is one step per node: leadership may change while  *)
(* it is under way.                                                        *)
(***************************************************************************)
EXTENDS Naturals, SequencesExt

CONSTANTS
  NodeCount,  \* the nodes are node-1 .. node-NodeCount
  Clusters,   \* what the cluster may guarantee, see ClusterKinds
  MaxTerm,    \* bound: terms of the cluster
  MaxSweeps,  \* bound: sweeps of the monitor
  MaxKills    \* bound: nodes that are killed

(* "single": never two leaders at a time.  "raft": one leader per term,    *)
(* but a leader of an old term may not know yet.  "broken": two nodes may  *)
(* lead in the same term.                                                  *)
ClusterKinds == {"single", "raft", "broken"}

ASSUME ClusterAssumption == Clusters \subseteq ClusterKinds
ASSUME NumbersAssumption == {NodeCount, MaxTerm, MaxSweeps, MaxKills} \subseteq Nat

Nodes == 1 .. NodeCount
Terms == 1 .. MaxTerm
None == 0

VARIABLES
  cluster,     \* the cluster: its kind
  leading,     \* the cluster: the term in which a node leads, or None
  lastTerm,    \* the cluster: the highest term that had a leader
  up,          \* the nodes that run
  kills,       \* how many were killed
  next,        \* the monitor: the node it polls next
  current,     \* the monitor: currentLeader and currentTerm of this sweep
  lastInTerm,  \* the monitor: lastLeaderInTerm
  lastActive,  \* the monitor: lastActiveLeader
  sweeps,      \* how many sweeps it has completed
  events,      \* the events about leaders and killed nodes
  outcomes,    \* auxiliary: what the sweeps ended with
  direct       \* auxiliary: one leader followed another without a gap

clusterVars == <<cluster, leading, lastTerm, up, kills>>
monitorVars == <<next, current, lastInTerm, lastActive, sweeps>>
auxVars == <<outcomes, direct>>
vars == <<clusterVars, monitorVars, events, auxVars>>

Claims == [node : Nodes, term : Terms]
NoClaim == [node |-> None, term |-> None]

Events == [type : {"LeaderElected", "LeaderStepDown", "NodeKilled"},
           node : Nodes, term : 0 .. MaxTerm]

Event(type, n, t) == [type |-> type, node |-> n, term |-> t]

TypeOK ==
  /\ cluster \in Clusters
  /\ leading \in [Nodes -> 0 .. MaxTerm]
  /\ lastTerm \in 0 .. MaxTerm
  /\ up \subseteq Nodes
  /\ kills \in 0 .. MaxKills
  /\ next \in 1 .. NodeCount + 1
  /\ current \in Claims \cup {NoClaim}
  /\ lastInTerm \in [Terms -> 0 .. NodeCount]
  /\ lastActive \in 0 .. NodeCount
  /\ sweeps \in 0 .. MaxSweeps
  /\ events \in Seq(Events)
  /\ outcomes \subseteq Claims
  /\ direct \in BOOLEAN

Init ==
  /\ cluster \in Clusters
  /\ leading = [n \in Nodes |-> None]
  /\ lastTerm = 0
  /\ up = Nodes
  /\ kills = 0
  /\ next = 1
  /\ current = NoClaim
  /\ lastInTerm = [t \in Terms |-> None]
  /\ lastActive = None
  /\ sweeps = 0
  /\ events = <<>>
  /\ outcomes = {}
  /\ direct = FALSE

----------------------------------------------------------------------------
(* The cluster                                                             *)

Leaders == {n \in Nodes : leading[n] # None}

Elect(n, t) ==
  /\ n \in up /\ leading[n] = None
  /\ cluster = "single" => Leaders = {}
  /\ IF cluster = "broken" THEN t >= lastTerm ELSE t > lastTerm
  /\ t <= lastTerm + 1
  /\ leading' = [leading EXCEPT ![n] = t]
  /\ lastTerm' = t
  /\ UNCHANGED <<cluster, up, kills, monitorVars, events, auxVars>>

StepDown(n) ==
  /\ leading[n] # None
  /\ leading' = [leading EXCEPT ![n] = None]
  /\ UNCHANGED <<cluster, lastTerm, up, kills, monitorVars, events, auxVars>>

(* The node manager kills a node and logs it.  The checker judges events   *)
(* by their times, and the manager's clock is behind the monitor's: it     *)
(* starts when the run has already been stored.                            *)
Kill(n) ==
  /\ n \in up /\ kills < MaxKills
  /\ up' = up \ {n}
  /\ kills' = kills + 1
  /\ leading' = [leading EXCEPT ![n] = None]
  /\ \E i \in 1 .. Len(events) + 1 :
       events' = InsertAt(events, i, Event("NodeKilled", n, None))
  /\ UNCHANGED <<cluster, lastTerm, monitorVars, auxVars>>

Restart(n) ==
  /\ n \notin up
  /\ up' = up \cup {n}
  /\ UNCHANGED <<cluster, leading, lastTerm, kills, monitorVars, events, auxVars>>

----------------------------------------------------------------------------
(* monitorLeadership                                                       *)

(* Mutant of PollLeader: the highest term heard in the sweep is kept.      *)
PollLeaderMaxTerm ==
  /\ next <= NodeCount
  /\ leading[next] # None
  /\ current' = [node |-> next,
                 term |-> IF current.term > leading[next] THEN current.term ELSE leading[next]]
  /\ next' = next + 1
  /\ UNCHANGED <<clusterVars, lastInTerm, lastActive, sweeps, events, auxVars>>

(* A node that answers that it leads overwrites what the sweep has so far. *)
PollLeader ==
  /\ next <= NodeCount
  /\ leading[next] # None
  /\ current' = [node |-> next, term |-> leading[next]]
  /\ next' = next + 1
  /\ UNCHANGED <<clusterVars, lastInTerm, lastActive, sweeps, events, auxVars>>

(* A follower, or a node that is blocked, down or too slow.                *)
PollOther ==
  /\ next <= NodeCount
  /\ next' = next + 1
  /\ UNCHANGED <<clusterVars, current, lastInTerm, lastActive, sweeps, events, auxVars>>

SweepEnds ==
  /\ next = NodeCount + 1 /\ sweeps < MaxSweeps
  /\ next' = 1
  /\ current' = NoClaim
  /\ sweeps' = sweeps + 1
  /\ UNCHANGED clusterVars

Elected == Event("LeaderElected", current.node, current.term)
SteppedDown == Event("LeaderStepDown", lastActive, None)

(* Mutant of LeaderSeen: only the first leader of a term is announced.     *)
LeaderSeenOncePerTerm ==
  /\ SweepEnds
  /\ current # NoClaim
  /\ outcomes' = outcomes \cup {current}
  /\ direct' = (direct \/ lastActive \notin {None, current.node})
  /\ IF lastInTerm[current.term] = None
     THEN /\ events' = events \o (IF lastActive \in {None, current.node}
                                  THEN <<Elected>> ELSE <<Elected, SteppedDown>>)
          /\ lastInTerm' = [lastInTerm EXCEPT ![current.term] = current.node]
          /\ lastActive' = current.node
     ELSE UNCHANGED <<events, lastInTerm, lastActive>>

LeaderSeen ==
  /\ SweepEnds
  /\ current # NoClaim
  /\ outcomes' = outcomes \cup {current}
  /\ direct' = (direct \/ lastActive \notin {None, current.node})
  /\ IF lastInTerm[current.term] # current.node
     THEN /\ events' = events \o (IF lastActive \in {None, current.node}
                                  THEN <<Elected>> ELSE <<Elected, SteppedDown>>)
          /\ lastInTerm' = [lastInTerm EXCEPT ![current.term] = current.node]
          /\ lastActive' = current.node
     ELSE UNCHANGED <<events, lastInTerm, lastActive>>

(* Mutant of NoLeaderSeen: the leader is forgotten without an event.       *)
LeaderForgotten ==
  /\ SweepEnds
  /\ current = NoClaim
  /\ lastActive' = None
  /\ UNCHANGED <<events, lastInTerm, outcomes, direct>>

NoLeaderSeen ==
  /\ SweepEnds
  /\ current = NoClaim
  /\ events' = IF lastActive = None THEN events ELSE Append(events, SteppedDown)
  /\ lastActive' = None
  /\ UNCHANGED <<lastInTerm, outcomes, direct>>

Next ==
  \/ \E n \in Nodes :
       (\E t \in Terms : Elect(n, t)) \/ StepDown(n) \/ Kill(n) \/ Restart(n)
  \/ PollLeader \/ PollOther \/ LeaderSeen \/ NoLeaderSeen

Spec == Init /\ [][Next]_vars

----------------------------------------------------------------------------
(* LeaderUniquenessChecker.Check                                           *)

Judge(acc, e) ==
  CASE e.type = "LeaderElected" ->
         LET active == acc.active \cup {e.node}
         IN [inTerm |-> [acc.inTerm EXCEPT ![e.term] = e.node],
             active |-> active,
             rivals |-> acc.rivals \/ acc.inTerm[e.term] \notin {None, e.node},
             several |-> acc.several \/ active # {e.node}]
    [] e.type \in {"LeaderStepDown", "NodeKilled"} ->
         [acc EXCEPT !.active = @ \ {e.node}]

Verdict ==
  LET round[i \in 0 .. Len(events)] ==
        IF i = 0
        THEN [inTerm |-> [t \in Terms |-> None], active |-> {},
              rivals |-> FALSE, several |-> FALSE]
        ELSE Judge(round[i - 1], events[i])
  IN round[Len(events)]

(* "Term leader uniqueness violation"                                      *)
RivalsReported == Verdict.rivals

(* "Leader uniqueness violation: multiple active leaders"                  *)
SeveralReported == Verdict.several

----------------------------------------------------------------------------
(* Correctness                                                             *)

(* A cluster with one leader per term is never reported to have two in one *)
(* term, however elections, kills and sweeps interleave.                   *)
OneLeaderPerTermIsNotReported == cluster # "broken" => ~RivalsReported

(* Two nodes that two sweeps found leading in the same term are reported.  *)
RivalsInOneTermAreReported ==
  (\E a, b \in outcomes : a.term = b.term /\ a.node # b.node) => RivalsReported

(* Leaders that follow each other with a sweep in between that finds none  *)
(* are not reported as simultaneous, killed leaders included, however much *)
(* earlier than it happened a kill is placed.                              *)
SeparateLeadersAreNotReported == ~direct => ~SeveralReported

(* A cluster that never has two leaders at a time is not reported to have  *)
(* several active ones ("Check real-time leader uniqueness").              *)
HandoverIsNoViolation == cluster = "single" => ~SeveralReported

============================================================================
