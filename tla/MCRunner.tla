------------------------------ MODULE MCRunner ------------------------------
(* Configurations that between them call every judge: a typical one, one   *)
(* with a misspelt checker, one that judges nothing but the faults, and    *)
(* one that lists no operations.                                           *)
EXTENDS Runner

Conf(checkers, operations, successes, injections) ==
  [checkers |-> checkers, operations |-> operations,
   successes |-> successes, injections |-> injections]

MCConfigs == {Conf({"reads", "leaders"}, TRUE, FALSE, TRUE),
              Conf({"reads", "misspelt"}, FALSE, FALSE, FALSE),
              Conf({}, TRUE, TRUE, FALSE)}
=============================================================================
