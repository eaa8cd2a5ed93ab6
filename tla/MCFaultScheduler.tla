-------------------------- MODULE MCFaultScheduler --------------------------
(* Instances of FaultScheduler for TLC.                                    *)
EXTENDS FaultScheduler

CONSTANT n1

Any(types) == [type : types, node : {n1}]

ProcessFaults ==
  {"kill_node", "restart_node", "cpu_pause", "slow_disk", "persistence"}

Pairs == {<<f, g>> : f \in Any(ProcessFaults), g \in Any(ProcessFaults)}

(* A pause, a restart or a network fault, and another pause: recoveries    *)
(* that overlap.                                                           *)
Overlapping ==
  LET Pauses == Any({"cpu_pause", "slow_disk"})
  IN {<<f, g, h>> : f \in Pauses, g \in Any({"restart_node", "network"}), h \in Pauses}

(* A single restart.                                                       *)
OneRestart == {<<f>> : f \in Any({"restart_node"})}

(* Pairs and triples of faults, a single invalid one, and none at all.     *)
PairsAndTriples ==
  Pairs \cup Overlapping \cup {<<>>} \cup {<<f>> : f \in Any({"invalid"})}

============================================================================
