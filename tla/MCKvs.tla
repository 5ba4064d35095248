------------------------------- MODULE MCKvs -------------------------------
(* KvsConnection on a small instance.                                      *)
EXTENDS KvsConnection
=============================================================================
