----------------------------- MODULE MCTimeline -----------------------------
(* MkvTimeline on a small instance.                                        *)
EXTENDS MkvTimeline
=============================================================================
