-------------------------- MODULE MCDataDirectory --------------------------
(***************************************************************************)
(* One node with two files, of whose snapshots two are kept.               *)
(***************************************************************************)
EXTENDS DataDirectory, TLC

CONSTANTS n1, f1, f2

FileSymmetry == Permutations({f1, f2})

=============================================================================
