--------------------------- MODULE NodeLifecycle ---------------------------
(***************************************************************************)
(* What the node manager promises about each node, without processes,      *)
(* signals or monitors: a node has at most one live instance.  An instance *)
(* may be suspended and continued, it ends when it exits or is told to     *)
(* end, and the next instance begins only after that.                      *)
(***************************************************************************)
EXTENDS Naturals

CONSTANT Nodes

VARIABLES
  inst,   \* the number of the node's latest instance, 0 before the first
  live    \* what that instance does

vars == <<inst, live>>

Live == {"none", "running", "suspended"}

TypeOK ==
  /\ inst \in [Nodes -> Nat]
  /\ live \in [Nodes -> Live]

Init ==
  /\ inst = [n \in Nodes |-> 0]
  /\ live = [n \in Nodes |-> "none"]

(* The nodes of S get a new instance: none of them has a live one.         *)
Begin(S) ==
  /\ \A n \in S : live[n] = "none"
  /\ inst' = [n \in Nodes |-> IF n \in S THEN inst[n] + 1 ELSE inst[n]]
  /\ live' = [n \in Nodes |-> IF n \in S THEN "running" ELSE live[n]]

End(S) ==
  /\ live' = [n \in Nodes |-> IF n \in S THEN "none" ELSE live[n]]
  /\ UNCHANGED inst

Suspend(n) ==
  /\ live[n] = "running"
  /\ live' = [live EXCEPT ![n] = "suspended"]
  /\ UNCHANGED inst

Continue(n) ==
  /\ live[n] = "suspended"
  /\ live' = [live EXCEPT ![n] = "running"]
  /\ UNCHANGED inst

Next ==
  \/ \E S \in SUBSET Nodes : Begin(S) \/ End(S)
  \/ \E n \in Nodes : Suspend(n) \/ Continue(n)

Spec == Init /\ [][Next]_vars

============================================================================
