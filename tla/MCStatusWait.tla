---------------------------- MODULE MCStatusWait ----------------------------
(* Small instances of StatusWait. *)
EXTENDS StatusWait

CONSTANTS w1, w2, n1, n2
=============================================================================
