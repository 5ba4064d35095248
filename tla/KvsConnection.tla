---------------------------- MODULE KvsConnection ----------------------------
(***************************************************************************)
(* KvsClient and KvsConnection (kvs_client.rs): fragments handed to a      *)
(* long-lived PutMedia request through a bounded channel, the              *)
(* acknowledgments that come back, the health check, reconnecting with     *)
(* back-off, and the KVS session with its clock.                           *)
(*                                                                         *)
(* The client lives behind a mutex, so one call runs at a time (pc); it is *)
(* split where it may wait, and there it may be cancelled.  Around it run  *)
(* the HTTP body that empties the channel, the task that reads the         *)
(* response, KVS, and time.                                                *)
(*                                                                         *)
(* Abstracted: fragment numbers and the time of the last IDLE are only     *)
(* logged or implied (an IDLE sets the acknowledgment time as well);       *)
(* clocks are ages that stop counting once they are over their limit;      *)
(* producer timestamps are told apart from the previous one only.          *)
(***************************************************************************)
EXTENDS Naturals, FiniteSets, SequencesExt

CONSTANTS
    Fragments,      \* identities of fragments, used again once settled
    NoFragment,
    Capacity,       \* FRAGMENT_CHANNEL_SIZE
    AckCapacity,    \* ACK_CHANNEL_SIZE
    Retention,      \* FRAGMENT_STATUS_RETENTION
    StaleAfter,     \* STALE_CONNECTION_TIMEOUT_SECS
    SessionMax,     \* max_session_duration
    MaxTries,       \* reconnection attempts that fit in max_elapsed_time
    MaxStatus       \* bound: fragments sent within FRAGMENT_STATUS_TIMEOUT_SECS

Header == "header"

ASSUME FragmentsAssumption == {NoFragment, Header} \cap Fragments = {}
ASSUME LimitsAssumption ==
    /\ {AckCapacity, Retention, StaleAfter, SessionMax} \subseteq Nat
    /\ Capacity \in Nat /\ Capacity >= 2
    /\ MaxTries \in Nat \ {0}
    /\ MaxStatus \in Nat /\ MaxStatus > Retention

VARIABLES
    ready,          \* inner is Some: initialize() has succeeded
    call, frag,     \* the call under way and its fragment
    pc, attempt, tries, newAge, \* its locals; newAge: of the connection being made
    failure,        \* the error of the last put_fragment(), if that is the last call
    producer,       \* producer_start_timestamp
    sessionAge,     \* session_start
    first,          \* first_fragment_of_connection
    connected,      \* fragment_sender is Some
    monitored,      \* connection_monitor has fired
    acks,           \* the acknowledgment channel
    status,         \* fragment_status
    ackAge,         \* last_ack_time
    link,           \* the request behind the channel
    channel, rxOpen, \* what is in the channel; its receiver is alive
    cur,            \* fragments of this connection that KVS has not settled
    fate,           \* what has become of each fragment
    connProducer, heard, kept \* ghost: of the connection, see below

calling == <<call, frag, pc, attempt, tries, newAge, failure>>
session == <<ready, producer, sessionAge>>
client == <<first, connected, acks, status, ackAge>>
request == <<link, channel, rxOpen, monitored, cur, connProducer, heard, kept>>
vars == <<calling, session, client, request, fate>>

AckKinds == {"Buffering", "Received", "Persisted", "Error", "Idle"}
AckStatus == [buffering : BOOLEAN, received : BOOLEAN, persisted : BOOLEAN,
              error : BOOLEAN]
NewStatus == [buffering |-> FALSE, received |-> FALSE, persisted |-> FALSE,
              error |-> FALSE]
Underway == {"handed", "buffering", "received"}
Fates == {"idle", "persisted", "lost"} \cup Underway

\* Where a call waits.  "dial" stands for all of connect() with its AWS calls.
Waiting == {"room", "dial", "pause", "dialNew"}
Pcs == {"idle", "send", "reset", "reconnect"} \cup Waiting

\* Time goes on; an age over its limit need not be told apart from another.
Older(age, limit) == IF age <= limit THEN age + 1 ELSE age

Expired == sessionAge > SessionMax

Init ==
    /\ ready = FALSE /\ call = "none" /\ frag = NoFragment
    /\ pc = "idle" /\ attempt = 1 /\ tries = 0 /\ newAge = 0 /\ failure = "none"
    /\ producer = 0 /\ sessionAge = 0
    /\ first = TRUE /\ connected = FALSE /\ acks = <<>> /\ status = <<>> /\ ackAge = 0
    /\ link = "none" /\ channel = <<>> /\ rxOpen = FALSE /\ monitored = FALSE
    /\ cur = {} /\ connProducer = 0 /\ heard = "nothing" /\ kept = 0
    /\ fate = [f \in Fragments |-> "idle"]

-----------------------------------------------------------------------------
(* Acknowledgments and health.                                             *)

\* The oldest entry an acknowledgment fits is taken for the one it is about.
Fits(kind, s) ==
    CASE kind = "Buffering" -> ~s.buffering
      [] kind = "Received" -> s.buffering /\ ~s.received
      [] kind = "Persisted" -> s.received /\ ~s.persisted
      [] kind = "Error" -> ~s.error
      [] OTHER -> FALSE

Marked(kind, s) ==
    CASE kind = "Buffering" -> [s EXCEPT !.buffering = TRUE]
      [] kind = "Received" -> [s EXCEPT !.received = TRUE]
      [] kind = "Persisted" -> [s EXCEPT !.persisted = TRUE]
      [] kind = "Error" -> [s EXCEPT !.error = TRUE]

Oldest(list, kind) == SelectInSeq(list, LAMBDA s : Fits(kind, s))

Acknowledged(list, kind) ==
    LET i == Oldest(list, kind)
    IN  IF i = 0 THEN list ELSE [list EXCEPT ![i] = Marked(kind, @)]

\* retain(): the entries at these places, in their order.
Retained(list, places) ==
    LET n == Cardinality(places)
    IN  {[i \in 1..n |-> list[at[i]]] :
            at \in {f \in [1..n -> places] : \A i, j \in 1..n : i < j => f[i] < f[j]}}

\* A long list loses what is persisted and the k oldest, those that timed out.
Trimmed(list) ==
    IF Len(list) <= Retention THEN {list}
    ELSE UNION {Retained(list, {i \in DOMAIN list : i > k /\ ~list[i].persisted}) :
                    k \in DOMAIN list \cup {0}}

\* Mutant: a connection that nothing comes back from is fine.
HealthyUnlessTold == ~monitored

Healthy == ~monitored /\ ackAge <= StaleAfter

-----------------------------------------------------------------------------
(* Calls.                                                                  *)

Returns(error) ==
    /\ call' = "none" /\ frag' = NoFragment
    /\ pc' = "idle" /\ attempt' = 1 /\ tries' = 0 /\ newAge' = 0
    /\ failure' = error

PutFragment(f) ==
    /\ pc = "idle" /\ ready /\ fate[f] \notin Underway
    /\ call' = "put" /\ frag' = f /\ pc' = "send" /\ failure' = "none"
    /\ fate' = [fate EXCEPT ![f] = "idle"]
    /\ UNCHANGED <<attempt, tries, newAge, session, client, request>>

\* Headers are right at the start of a connection and nowhere else.
Hears == IF first <=> heard = "nothing" THEN "clusters" ELSE "garbled"

Items == IF first THEN <<Header, frag>> ELSE <<frag>>

HandOver ==
    /\ channel' = channel \o Items
    /\ heard' = Hears
    /\ first' = FALSE
    /\ cur' = cur \cup {frag}
    /\ fate' = [fate EXCEPT ![frag] = "handed"]
    /\ Returns("none")
    /\ UNCHANGED <<connected, link, rxOpen, monitored, connProducer, kept>>

\* The first send is retried on a new connection, the second is not.
SendFails ==
    /\ IF attempt = 1
       THEN pc' = "reconnect" /\ UNCHANGED <<call, frag, attempt, tries, newAge, failure>>
       ELSE Returns("connection")
    /\ UNCHANGED <<first, connected, request, fate>>

\* process_acknowledgments() takes them one by one while others may come in.
ProcessAcknowledgment ==
    /\ pc = "send" /\ acks # <<>>
    /\ acks' = Tail(acks) /\ ackAge' = 0
    /\ status' = Acknowledged(status, Head(acks))
    /\ UNCHANGED <<calling, session, first, connected, request, fate>>

SendUnhealthy ==
    /\ pc = "send" /\ acks = <<>> /\ ~Healthy
    /\ status' \in Trimmed(status)
    /\ SendFails
    /\ UNCHANGED <<session, acks, ackAge>>

\* The fragment is listed before anything has been sent.
Track ==
    \E list \in Trimmed(status) :
        Len(list) < MaxStatus /\ status' = Append(list, NewStatus)

SendFragment ==
    /\ pc = "send" /\ acks = <<>> /\ Healthy
    /\ Track
    /\ \/ ~(connected /\ rxOpen) /\ SendFails
       \/ /\ connected /\ rxOpen /\ Len(channel \o Items) <= Capacity
          /\ HandOver
       \/ /\ connected /\ rxOpen /\ Len(channel \o Items) > Capacity
          /\ pc' = "room"
          /\ UNCHANGED <<call, frag, attempt, tries, newAge, failure, first, connected,
                         request, fate>>
    /\ UNCHANGED <<session, acks, ackAge>>

\* Mutant: a full channel takes one more.
RoomNotAwaited ==
    /\ pc = "room" /\ rxOpen
    /\ HandOver
    /\ UNCHANGED <<session, acks, status, ackAge>>

RoomFound ==
    /\ pc = "room" /\ rxOpen /\ Len(channel) < Capacity
    /\ HandOver
    /\ UNCHANGED <<session, acks, status, ackAge>>

RoomLost ==
    /\ pc = "room" /\ ~rxOpen
    /\ SendFails
    /\ UNCHANGED <<session, acks, status, ackAge>>

\* Mutant: the sender of the old connection stays until there is a new one.
SenderKept == UNCHANGED connected /\ monitored' = FALSE /\ acks' = <<>>

CleanUp == connected' = FALSE /\ monitored' = FALSE /\ acks' = <<>>

\* Mutant: fragments of the old connection stay listed.
StatusKept == UNCHANGED status /\ ackAge' = 0

ForgetAcknowledgments == status' = <<>> /\ ackAge' = 0

\* Mutant: the new connection goes on where the old one was.
HeadersNotExpected == UNCHANGED first

ExpectHeaders == first' = TRUE

\* What is in the channel stays with the old request, which may still go on.
Disconnect ==
    /\ CleanUp /\ ForgetAcknowledgments /\ ExpectHeaders
    /\ link' = "none" /\ channel' = <<>> /\ rxOpen' = FALSE /\ cur' = {}
    /\ heard' = "nothing" /\ kept' = 0
    /\ pc' = "dial"
    /\ UNCHANGED <<call, frag, attempt, tries, newAge, failure, connProducer, fate>>

ReconnectOnce == pc = "reconnect" /\ Disconnect /\ UNCHANGED session

ResetSession ==
    /\ pc = "idle" /\ ready
    /\ call' = "reset" /\ pc' = "reset" /\ failure' = "none"
    /\ UNCHANGED <<frag, attempt, tries, newAge, session, client, request, fate>>

\* Mutant: the session counts as new before it is.
StartedTooEarly == ready' = ready /\ sessionAge' = 0

ExpiredUntilLive == UNCHANGED <<ready, sessionAge>>

StartSession ==
    /\ pc = "reset"
    /\ producer' = 1 - producer
    /\ Disconnect
    /\ ExpiredUntilLive

Connect ==
    /\ connected' = TRUE /\ link' = "up" /\ rxOpen' = TRUE /\ monitored' = FALSE

Reconnected ==
    /\ pc = "dial" /\ Connect
    /\ connProducer' = producer
    /\ IF call = "reset"
       THEN sessionAge' = 0 /\ Returns("none")
       ELSE /\ pc' = "send" /\ attempt' = 2 /\ tries' = 0
            /\ UNCHANGED <<call, frag, newAge, failure, sessionAge>>
    /\ UNCHANGED <<ready, producer, first, acks, status, ackAge, channel, cur, heard,
                   kept, fate>>

\* Mutant: every attempt is the first.
TryNotCounted == tries

NextTry == tries + 1

\* reset_session() wraps the error, put_fragment() passes it on as Internal.
ReconnectFails ==
    /\ pc = "dial"
    /\ IF NextTry < MaxTries
       THEN /\ pc' = "pause" /\ tries' = NextTry
            /\ UNCHANGED <<call, frag, attempt, newAge, failure>>
       ELSE Returns(IF call = "put" THEN "internal" ELSE "none")
    /\ UNCHANGED <<session, client, request, fate>>

BackOff ==
    /\ pc = "pause" /\ pc' = "reconnect"
    /\ UNCHANGED <<call, frag, attempt, tries, newAge, failure, session, client, request,
                   fate>>

\* The task that made the call is aborted while it waits.
Cancel ==
    /\ pc \in Waiting \ {"dialNew"}
    /\ Returns("none")
    /\ UNCHANGED <<session, client, request, fate>>

\* start(): a new connection is made, and replaces the old one if that works.
Initialize ==
    /\ pc = "idle"
    /\ call' = "initialize" /\ pc' = "dialNew" /\ failure' = "none"
    /\ UNCHANGED <<frag, attempt, tries, newAge, session, client, request, fate>>

Initialized ==
    /\ pc = "dialNew" /\ Connect /\ Returns("none")
    /\ ready' = TRUE /\ producer' = 1 - producer /\ connProducer' = 1 - producer
    /\ sessionAge' = newAge /\ ackAge' = newAge
    /\ first' = TRUE /\ acks' = <<>> /\ status' = <<>>
    /\ channel' = <<>> /\ cur' = {} /\ heard' = "nothing" /\ kept' = 0
    /\ UNCHANGED fate

InitializeFails ==
    /\ pc = "dialNew" /\ Returns("none")
    /\ UNCHANGED <<session, client, request, fate>>

-----------------------------------------------------------------------------
(* The request, KVS, and time.                                             *)

Ack(kind) == acks' = IF Len(acks) < AckCapacity THEN Append(acks, kind) ELSE acks

KvsReads ==
    /\ link = "up" /\ channel # <<>>
    /\ channel' = Tail(channel)
    /\ IF Head(channel) = Header
       THEN UNCHANGED <<acks, fate>>
       ELSE /\ fate' = [fate EXCEPT ![Head(channel)] = "buffering"]
            /\ Ack("Buffering")
    /\ UNCHANGED <<calling, session, first, connected, status, ackAge, link, rxOpen,
                   monitored, cur, connProducer, heard, kept>>

\* One more fragment of this connection is safe.
Counted == IF kept <= MaxStatus THEN kept + 1 ELSE kept

KvsStep(f, from, to, kind) ==
    /\ link = "up" /\ f \in cur /\ fate[f] \in from
    /\ fate' = [fate EXCEPT ![f] = to] /\ Ack(kind)
    /\ cur' = IF to \in Underway THEN cur ELSE cur \ {f}
    /\ kept' = IF to = "persisted" THEN Counted ELSE kept
    /\ UNCHANGED <<calling, session, first, connected, status, ackAge, link, channel,
                   rxOpen, monitored, connProducer, heard>>

KvsReceives(f) == KvsStep(f, {"buffering"}, "received", "Received")
KvsPersists(f) == KvsStep(f, {"received"}, "persisted", "Persisted")
KvsRejects(f) == KvsStep(f, {"buffering", "received"}, "lost", "Error")

KvsIdle ==
    /\ link = "up" /\ Ack("Idle")
    /\ UNCHANGED <<calling, session, first, connected, status, ackAge, request, fate>>

\* Fragments of a request that was given up, or that no answer comes from.
Settles(f) ==
    /\ fate[f] \in Underway /\ f \notin ToSet(channel)
    /\ f \in cur => link # "up"
    /\ \E end \in {"persisted", "lost"} :
          /\ fate' = [fate EXCEPT ![f] = end]
          /\ kept' = IF f \in cur /\ end = "persisted" THEN Counted ELSE kept
    /\ cur' = cur \ {f}
    /\ UNCHANGED <<calling, session, client, link, channel, rxOpen, monitored,
                   connProducer, heard>>

\* Nothing is read any more and nothing comes back, but nobody says so.
Hang ==
    /\ link = "up" /\ link' = "hung"
    /\ UNCHANGED <<calling, session, client, channel, rxOpen, monitored, cur,
                   connProducer, heard, kept, fate>>

Break ==
    /\ link \in {"up", "hung"} /\ link' = "down"
    /\ UNCHANGED <<calling, session, client, channel, rxOpen, monitored, cur,
                   connProducer, heard, kept, fate>>

BodyDropped ==
    /\ link = "down" /\ rxOpen
    /\ rxOpen' = FALSE /\ channel' = <<>>
    /\ cur' = cur \ ToSet(channel)
    /\ fate' = [f \in Fragments |-> IF f \in ToSet(channel) THEN "lost" ELSE fate[f]]
    /\ UNCHANGED <<calling, session, client, link, monitored, connProducer, heard, kept>>

ResponseEnds ==
    /\ link = "down" /\ ~monitored /\ monitored' = TRUE
    /\ UNCHANGED <<calling, session, client, link, channel, rxOpen, cur, connProducer,
                   heard, kept, fate>>

Tick ==
    /\ ready \/ pc = "dialNew"
    /\ sessionAge' = IF ready THEN Older(sessionAge, SessionMax) ELSE sessionAge
    /\ ackAge' = IF ready THEN Older(ackAge, StaleAfter) ELSE ackAge
    /\ newAge' = IF pc = "dialNew"
                 THEN Older(newAge, IF StaleAfter > SessionMax THEN StaleAfter
                                    ELSE SessionMax)
                 ELSE newAge
    /\ UNCHANGED <<call, frag, pc, attempt, tries, failure, ready, producer, first,
                   connected, acks, status, request, fate>>

-----------------------------------------------------------------------------
Put == \E f \in Fragments : PutFragment(f)

ClientStep ==
    \/ ProcessAcknowledgment \/ SendUnhealthy \/ SendFragment \/ RoomFound \/ RoomLost
    \/ ReconnectOnce \/ StartSession \/ Reconnected \/ ReconnectFails \/ BackOff
    \/ Initialized \/ InitializeFails

Next ==
    \/ Put \/ ResetSession \/ Initialize \/ ClientStep \/ Cancel
    \/ KvsReads \/ KvsIdle
    \/ \E f \in Fragments : KvsReceives(f) \/ KvsPersists(f) \/ KvsRejects(f) \/ Settles(f)
    \/ Hang \/ Break \/ BodyDropped \/ ResponseEnds \/ Tick

Spec == Init /\ [][Next]_vars

(***************************************************************************)
(* Fairness.  A call is polled and its network requests return, with one   *)
(* result or the other; KVS does not acknowledge faster than the client    *)
(* reads; the two ends of a broken request are noticed; time               *)
(* goes on and the caller keeps putting fragments; KVS settles some day    *)
(* what it was given by a request that is over.  Nothing makes it read,    *)
(* answer, hang or break, or a request that hangs break.                   *)
(***************************************************************************)
FairSpec ==
    /\ Spec
    /\ WF_vars(ClientStep) /\ SF_vars(SendUnhealthy \/ SendFragment) /\ WF_vars(Tick)
    /\ WF_vars(BodyDropped) /\ WF_vars(ResponseEnds)
    /\ \A f \in Fragments : WF_vars(Settles(f))
    /\ SF_vars(Put)

-----------------------------------------------------------------------------
(* Properties.                                                             *)

\* Every variable has its type; a connection without headers is still empty.
TypeOK ==
    /\ {ready, first, connected, rxOpen, monitored} \subseteq BOOLEAN
    /\ call \in {"none", "put", "reset", "initialize"}
    /\ frag \in Fragments \cup {NoFragment} /\ (frag \in Fragments <=> call = "put")
    /\ pc \in Pcs /\ attempt \in 1..2 /\ tries \in 0..(MaxTries - 1)
    /\ failure \in {"none", "internal", "connection"}
    /\ producer \in 0..1 /\ connProducer \in 0..1
    /\ sessionAge \in Nat /\ ackAge \in Nat /\ newAge \in Nat
    /\ acks \in Seq(AckKinds) /\ Len(acks) <= AckCapacity
    /\ status \in Seq(AckStatus) /\ Len(status) <= MaxStatus
    /\ link \in {"none", "up", "hung", "down"}
    /\ channel \in Seq(Fragments \cup {Header}) /\ Len(channel) <= Capacity
    /\ cur \subseteq Fragments /\ fate \in [Fragments -> Fates]
    /\ heard \in {"nothing", "clusters", "garbled"}
    /\ kept \in 0..(MaxStatus + 1)
    /\ first => channel = <<>>

(***************************************************************************)
(* Each connection carries MKV headers once, before its first cluster      *)
(* (fragment.rs:9), whatever failed, was cancelled, reset or retried.      *)
(***************************************************************************)
HeadersFirst == heard # "garbled"

(***************************************************************************)
(* A connection in use belongs to the session in force: it was made with   *)
(* the producer timestamp the client now has, also after a reset that      *)
(* failed or was cancelled half-way.                                       *)
(***************************************************************************)
ConnectionOfSession == connected => connProducer = producer

(***************************************************************************)
(* Acknowledgments of one connection are never credited to fragments of    *)
(* another: the client counts no more fragments as persisted than KVS has  *)
(* persisted on this connection, also when acknowledgments get lost.       *)
(***************************************************************************)
PersistedCountIsSafe ==
    Cardinality({i \in DOMAIN status : status[i].persisted}) <= kept

Uploader == INSTANCE MediaUploader WITH
    fate <- [f \in Fragments |-> IF fate[f] \in Underway THEN "accepted" ELSE fate[f]],
    expired <- Expired

(***************************************************************************)
(* Handed over at most once per call, not at all when the call fails, and  *)
(* expired until a reset succeeds (MediaUploader).                         *)
(***************************************************************************)
UploaderSpec == Uploader!Spec

Blocked == pc = "room" /\ rxOpen /\ Len(channel) = Capacity

(***************************************************************************)
(* Every call returns, however often connecting fails, provided a channel  *)
(* that is full does not stay full: the wait for room (kvs_client.rs:331)  *)
(* is the only one without a limit.                                        *)
(***************************************************************************)
CallReturns == (Blocked ~> ~Blocked) => (call # "none" ~> call = "none")

(***************************************************************************)
(* A request that silently stopped is given up, not fed until the channel  *)
(* is full: once nothing has come back for longer than the stale check     *)
(* (kvs_client.rs:488) allows, a put with room left replaces it.           *)
(***************************************************************************)
SeenStale ==
    /\ link = "hung" /\ pc = "idle"
    /\ acks = <<>> /\ ackAge > StaleAfter /\ Len(channel) < Capacity

DeadConnectionReplaced == SeenStale ~> link # "hung"

\* is_network_error_str() on the two errors of put_fragment(): only the
\* prefix "Connection error" has one of its words.
IsNetworkError(error) == error = "connection"

(***************************************************************************)
(* "Switching to BufferOnly mode due to network failure" (imp.rs:1126): a  *)
(* put that gave up because no connection could be made is taken for one.  *)
(***************************************************************************)
OutageIsNetworkError ==
    [][call = "put" /\ pc = "dial" /\ call' = "none" /\ failure' # "none"
          => IsNetworkError(failure')]_vars
=============================================================================
