----------------------------- MODULE MCRecovery -----------------------------
(* RecoverySink on a small instance.                                       *)
EXTENDS RecoverySink
=============================================================================
