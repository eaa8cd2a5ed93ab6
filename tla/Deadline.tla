------------------------------ MODULE Deadline ------------------------------
(* A context that is cancelled by the interrupt, as a child of that of     *)
(* Interruption, or by its own deadline (context.WithTimeout), whichever   *)
(* comes first.                                                            *)
EXTENDS Interruption

VARIABLE expired  \* the deadline passed before any interrupt

Expire == ~cancelled /\ ~expired /\ expired' = TRUE

ContextDone == cancelled \/ expired
=============================================================================
