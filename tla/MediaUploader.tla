--------------------------- MODULE MediaUploader ---------------------------
(***************************************************************************)
(* What the sink and the buffer manager may expect of an uploader          *)
(* (media_uploader.rs), as far as KvsConnection keeps it.  One call at a   *)
(* time.  A fragment that put_fragment() answers Ok for has been handed    *)
(* over exactly once; KVS may keep or lose it later.  A fragment that it   *)
(* answers Err for, or whose call was cancelled, has not been handed over, *)
(* so that it can be buffered without being sent twice.  An expired        *)
(* session stays expired until a reset has succeeded.                      *)
(***************************************************************************)
CONSTANT Fragments
VARIABLES call, frag, fate, expired

Calls == {"none", "put", "reset", "initialize"}
Fates == {"idle", "accepted", "persisted", "lost"}

Init ==
    /\ call = "none" /\ expired = FALSE
    /\ frag \notin Fragments
    /\ fate = [f \in Fragments |-> "idle"]

Returns == call' = "none" /\ frag' \notin Fragments

Ask(c) ==
    /\ call = "none" /\ call' = c
    /\ frag' \notin Fragments
    /\ UNCHANGED <<fate, expired>>

\* A fragment that is done with, or was never handed over, is put.
Put(f) ==
    /\ call = "none" /\ call' = "put" /\ frag' = f
    /\ fate[f] # "accepted" /\ fate' = [fate EXCEPT ![f] = "idle"]
    /\ UNCHANGED expired

Accept ==
    /\ call = "put" /\ fate[frag] = "idle"
    /\ fate' = [fate EXCEPT ![frag] = "accepted"]
    /\ Returns /\ UNCHANGED expired

Refuse == call = "put" /\ fate[frag] = "idle" /\ Returns /\ UNCHANGED <<fate, expired>>

\* KVS keeps or loses fragments it has been given.
Settle ==
    /\ \A f \in Fragments :
          fate'[f] # fate[f] => fate[f] = "accepted" /\ fate'[f] \in {"persisted", "lost"}
    /\ UNCHANGED <<call, frag, expired>>

Expire == ~expired /\ expired' /\ UNCHANGED <<call, frag, fate>>

ResetSucceeds == call = "reset" /\ Returns /\ expired' = FALSE /\ UNCHANGED fate

ResetFails == call = "reset" /\ Returns /\ UNCHANGED <<fate, expired>>

InitializeReturns ==
    call = "initialize" /\ Returns /\ expired' \in BOOLEAN /\ UNCHANGED fate

Next ==
    \/ \E f \in Fragments : Put(f)
    \/ \E c \in {"reset", "initialize"} : Ask(c)
    \/ Accept \/ Refuse \/ Settle \/ Expire
    \/ ResetSucceeds \/ ResetFails \/ InitializeReturns

Spec == Init /\ [][Next]_<<call, frag, fate, expired>>
=============================================================================
