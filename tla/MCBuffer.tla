------------------------------ MODULE MCBuffer ------------------------------
(* BufferManager on a small instance.                                      *)
EXTENDS BufferManager

\* Everything; and a window of one tick, which keeps the element buffering.
AllOnly == {All}
AllAndWindow == {All, [from |-> 2, to |-> 3]}
=============================================================================
