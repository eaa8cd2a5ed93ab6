---------------------------- MODULE Interruption ----------------------------
(* The context of a command of internal/cli: an interrupt, or SIGTERM,     *)
(* cancels it, once and for good.                                          *)

VARIABLE cancelled  \* the context is done

Cancel == ~cancelled /\ cancelled' = TRUE
=============================================================================
