----------------------------- MODULE MCOracles -----------------------------
(* Three nodes that lead in two terms, or two clients of one key.          *)
EXTENDS Oracles, TLC

ClientSymmetry == Permutations(Clients)

(* An exclusive lock service behind a lossy network, and one that is not   *)
(* exclusive.                                                              *)
JudgedServices == {[exclusive |-> TRUE, lossy |-> TRUE], [exclusive |-> FALSE, lossy |-> FALSE]}

============================================================================
