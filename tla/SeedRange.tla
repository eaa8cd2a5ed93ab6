----------------------------- MODULE SeedRange -----------------------------
(* Seeds are signed integers of a fixed width, and their differences wrap  *)
(* around.                                                                 *)
EXTENDS Integers

CONSTANT Half  \* half of how many there are: 2^63 in the code

ASSUME HalfAssumption == Half \in Nat \ {0}

Seeds == -Half .. Half - 1

Signed(x) == ((x + Half) % (2 * Half)) - Half
Unsigned(x) == x % (2 * Half)
=============================================================================
