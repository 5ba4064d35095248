---------------------------- MODULE FragmentStore ----------------------------
(***************************************************************************)
(* What the disk buffer promises: an at-least-once store with a retention  *)
(* window.  A fragment that was accepted is held until it has been         *)
(* delivered or its window is over; it may be delivered again.             *)
(*                                                                         *)
(* Input: those of the fragments held whose window is over.  It is up to   *)
(* the clock, and to the store whether it makes use of it.                 *)
(***************************************************************************)
VARIABLES accepted, held, delivered, overdue

Init == accepted = {} /\ held = {} /\ delivered = {}

\* A fragment is acknowledged to its producer: from now on it is held.
Accept == \E f \in held' :
    /\ accepted' = accepted \cup {f}
    /\ held' = held \cup {f}
    /\ UNCHANGED delivered

\* A write that nobody acknowledged may have gone through.
Keep == \E f \in held' : held' = held \cup {f} /\ UNCHANGED <<accepted, delivered>>

\* One of those held is delivered, for the first time or again.
Deliver == \E f \in held : delivered' = delivered \cup {f} /\ UNCHANGED <<accepted, held>>

\* What has been delivered may be let go, and what is too old to be kept.
LetGo == /\ held' \subseteq held /\ held \ held' \subseteq delivered \cup overdue
         /\ UNCHANGED <<accepted, delivered>>

Next == Accept \/ Keep \/ Deliver \/ LetGo

Spec == Init /\ [][Next]_<<accepted, held, delivered>>
=============================================================================
