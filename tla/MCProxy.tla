------------------------------- MODULE MCProxy -------------------------------
(* One client, one node and the links between them.                        *)
EXTENDS Proxy
=============================================================================
