---------------------------- MODULE FragmentFate ----------------------------
(***************************************************************************)
(* What the sink promises about one fragment it has finalized: from the    *)
(* moment it leaves the MKV writer it travels to exactly one end, and the  *)
(* end is never revised.  It reaches KVS, or the buffer on disk, or a loss *)
(* that is reported: counted as dropped when the queue is full, logged     *)
(* when the disk write fails, abandoned by a stop() that timed out.        *)
(***************************************************************************)
VARIABLE fate

Outcomes == {"uploaded", "buffered", "dropped", "writeFailed", "abandoned"}
Fates == {"unmarked", "travelling"} \cup Outcomes

Init == fate = "unmarked"

Depart == fate = "unmarked" /\ fate' = "travelling"

Arrive == fate = "travelling" /\ fate' \in Outcomes

Next == Depart \/ Arrive

Spec == Init /\ [][Next]_fate
=============================================================================
