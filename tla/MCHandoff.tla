----------------------------- MODULE MCHandoff -----------------------------
(* SessionHandoff on a small instance, safety and fates of a fragment.      *)
EXTENDS SessionHandoff
=============================================================================
