----------------------------- MODULE MCCommands -----------------------------
(* Seeds of three bits, so that ranges reach both ends of the integers and *)
(* one of them covers them all; three faults, up to three clients and      *)
(* durations from which two and no steps lead below a second.  Matrices of *)
(* two seeds, of two repetitions and of two profiles, and some that must   *)
(* be refused: all seeds, too many in all, and the same profile twice.     *)
EXTENDS Commands

MCFaults == <<"kill", "partition", "heal">>
MCDurations == {<<1500, 1500>>, <<1000, 0>>}

Matrix(from, to, repetitions, profiles, keepGoing) ==
  [from |-> from, to |-> to, repetitions |-> repetitions, profiles |-> profiles,
   keepGoing |-> keepGoing]

MCOptions ==
  {Matrix(2, 3, 1, <<"minidb">>, FALSE), Matrix(2, 3, 1, <<"minidb">>, TRUE),
   Matrix(3, 3, 2, <<"minidb">>, FALSE),
   Matrix(0, 0, 1, <<"minidb", "coordination">>, FALSE),
   Matrix(-4, 3, 1, <<"minidb">>, FALSE), Matrix(2, 3, 2, <<"minidb">>, FALSE),
   Matrix(0, 0, 1, <<"minidb", "minidb">>, FALSE)}
=============================================================================
