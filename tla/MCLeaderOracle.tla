--------------------------- MODULE MCLeaderOracle ---------------------------
(* Instances of LeaderOracle for TLC.                                      *)
EXTENDS LeaderOracle

============================================================================
