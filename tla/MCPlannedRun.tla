---------------------------- MODULE MCPlannedRun ----------------------------
(* Instances of PlannedRun for TLC.                                        *)
EXTENDS PlannedRun

AllTypes == ProcessFaults \cup {"network"}

============================================================================
