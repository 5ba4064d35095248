------------------------ MODULE KvsConnection_proofs ------------------------
(***************************************************************************)
(* Proofs about KvsConnection, for every set of fragments, every size of   *)
(* the channels and lists, every time limit and number of attempts.        *)
(***************************************************************************)
EXTENDS KvsConnection, SequenceFacts

-----------------------------------------------------------------------------
(* The list of fragments that wait for acknowledgments.                    *)

PersistedEntries(list) == {i \in DOMAIN list : list[i].persisted}

\* The oldest entry that fits is one that fits, if there is one.
LEMMA FirstFit ==
    ASSUME NEW list \in Seq(AckStatus), NEW kind
    PROVE  \/ Oldest(list, kind) = 0
           \/ /\ Oldest(list, kind) \in DOMAIN list
              /\ Fits(kind, list[Oldest(list, kind)])
<1> DEFINE I == {i \in 1..Len(list) : Fits(kind, list[i])}
<1>1. Oldest(list, kind) = IF I # {} THEN Min(I) ELSE 0
  BY DEF Oldest, SelectInSeq
<1>2. I \subseteq Nat /\ \A i \in I : i \in DOMAIN list /\ Fits(kind, list[i])
  OBVIOUS
<1> HIDE DEF I
<1>3. I # {} => Min(I) \in I
  <2>1. I # {} => \E n \in I : \A m \in I : n <= m
    BY <1>2, LeastNatural
  <2>2. QED
    BY <2>1 DEF Min
<1>4. QED
  BY <1>1, <1>2, <1>3

\* An acknowledgment keeps the list's type and length and marks one entry.
LEMMA AcknowledgedFacts ==
    ASSUME NEW list \in Seq(AckStatus), NEW kind \in AckKinds
    PROVE  /\ Acknowledged(list, kind) \in Seq(AckStatus)
           /\ Len(Acknowledged(list, kind)) = Len(list)
           /\ \E j \in Nat :
                PersistedEntries(Acknowledged(list, kind))
                  \subseteq PersistedEntries(list) \cup
                              (IF kind = "Persisted" THEN {j} ELSE {})
<1> DEFINE i == Oldest(list, kind)
           marked == [list EXCEPT ![i] = Marked(kind, @)]
<1>1. i = 0 \/ (i \in DOMAIN list /\ Fits(kind, list[i]))
  BY FirstFit
<1>2. Acknowledged(list, kind) = IF i = 0 THEN list ELSE marked
  BY DEF Acknowledged
<1> HIDE DEF i
<1>3. CASE i = 0
  BY <1>2, <1>3
<1>4. CASE i # 0
  <2>1. i \in DOMAIN list /\ i \in Nat /\ Fits(kind, list[i]) /\ list[i] \in AckStatus
    BY <1>1, <1>4
  <2>2. kind \in {"Buffering", "Received", "Persisted", "Error"}
    BY <2>1 DEF Fits, AckKinds
  <2>3. /\ Marked(kind, list[i]) \in AckStatus
        /\ kind # "Persisted" => Marked(kind, list[i]).persisted = list[i].persisted
    BY <2>1, <2>2 DEF Marked, AckStatus
  <2>4. /\ marked \in Seq(AckStatus) /\ Len(marked) = Len(list)
        /\ DOMAIN marked = DOMAIN list
        /\ marked[i] = Marked(kind, list[i])
        /\ \A j \in DOMAIN list : j # i => marked[j] = list[j]
    BY <2>1, <2>3
  <2> HIDE DEF marked
  <2>5. PersistedEntries(marked)
          \subseteq PersistedEntries(list) \cup
                      (IF kind = "Persisted" THEN {i} ELSE {})
    BY <2>3, <2>4 DEF PersistedEntries
  <2>6. QED
    BY <1>2, <1>4, <2>1, <2>4, <2>5
<1>5. QED
  BY <1>3, <1>4

\* What retain() leaves is a shorter list; a list that was cut has no entry
\* left that is persisted.
LEMMA TrimmedFacts ==
    ASSUME NEW list \in Seq(AckStatus), NEW l \in Trimmed(list)
    PROVE  /\ l \in Seq(AckStatus) /\ Len(l) <= Len(list)
           /\ l = list \/ PersistedEntries(l) = {}
<1>1. CASE Len(list) <= Retention
  BY <1>1 DEF Trimmed
<1>2. CASE ~(Len(list) <= Retention)
  <2>1. PICK k \in DOMAIN list \cup {0} :
          l \in Retained(list, {i \in DOMAIN list : i > k /\ ~list[i].persisted})
    BY <1>2 DEF Trimmed
  <2> DEFINE places == {i \in DOMAIN list : i > k /\ ~list[i].persisted}
             n == Cardinality(places)
  <2>2. n \in Nat /\ n <= Len(list)
    BY PlacesFinite
  <2>3. /\ places \subseteq DOMAIN list
        /\ \A i \in places : list[i] \in AckStatus /\ ~list[i].persisted
    OBVIOUS
  <2>4. PICK at \in [1..n -> places] : l = [i \in 1..n |-> list[at[i]]]
    BY <2>1 DEF Retained
  <2> HIDE DEF places, n
  <2>5. /\ l \in Seq(AckStatus) /\ Len(l) = n /\ DOMAIN l = 1..n
        /\ \A i \in 1..n : ~l[i].persisted
    BY <2>2, <2>3, <2>4
  <2>6. QED
    BY <2>2, <2>5 DEF PersistedEntries
<1>3. QED
  BY <1>1, <1>2

-----------------------------------------------------------------------------
(* Types, one group of variables at a time.                                *)

SessionType ==
    /\ ready \in BOOLEAN /\ producer \in 0..1 /\ connProducer \in 0..1
    /\ sessionAge \in Nat /\ ackAge \in Nat /\ newAge \in Nat

CallType ==
    /\ call \in {"none", "put", "reset", "initialize"}
    /\ frag \in Fragments \cup {NoFragment} /\ (frag \in Fragments <=> call = "put")
    /\ pc \in Pcs /\ attempt \in 1..2 /\ tries \in 0..(MaxTries - 1)
    /\ failure \in {"none", "internal", "connection"}

LinkType ==
    /\ first \in BOOLEAN /\ connected \in BOOLEAN
    /\ rxOpen \in BOOLEAN /\ monitored \in BOOLEAN
    /\ link \in {"none", "up", "hung", "down"}
    /\ heard \in {"nothing", "clusters", "garbled"}

AcksType == acks \in Seq(AckKinds) /\ Len(acks) <= AckCapacity

StatusType == status \in Seq(AckStatus) /\ Len(status) <= MaxStatus

ChannelType ==
    /\ channel \in Seq(Fragments \cup {Header}) /\ Len(channel) <= Capacity
    /\ first => channel = <<>>

FateType ==
    /\ cur \subseteq Fragments /\ fate \in [Fragments -> Fates]
    /\ kept \in 0..(MaxStatus + 1)

\* The groups are the type invariant.
LEMMA TypeGroups ==
    TypeOK <=> /\ SessionType /\ CallType /\ LinkType /\ AcksType
               /\ StatusType /\ ChannelType /\ FateType
<1>1. {ready, first, connected, rxOpen, monitored} \subseteq BOOLEAN
        <=> /\ ready \in BOOLEAN /\ first \in BOOLEAN /\ connected \in BOOLEAN
            /\ rxOpen \in BOOLEAN /\ monitored \in BOOLEAN
  BY Zenon
<1>2. QED
  BY <1>1 DEF TypeOK, SessionType, CallType, LinkType, AcksType, StatusType,
     ChannelType, FateType

\* The constants, one by one.
LEMMA Limits ==
    /\ AckCapacity \in Nat /\ Retention \in Nat /\ StaleAfter \in Nat
    /\ SessionMax \in Nat /\ Capacity \in Nat /\ Capacity >= 2
    /\ MaxTries \in Nat \ {0} /\ MaxStatus \in Nat /\ MaxStatus > Retention
    /\ NoFragment \notin Fragments /\ Header \notin Fragments
  BY LimitsAssumption, FragmentsAssumption

\* An age stays a number, whatever its limit.
LEMMA OlderType ==
    ASSUME NEW age \in Nat, NEW limit \in Nat
    PROVE  Older(age, limit) \in Nat
  BY DEF Older

\* What happens around a call, but for the clock.
EnvStep ==
    \/ KvsReads \/ KvsIdle
    \/ \E f \in Fragments : KvsReceives(f) \/ KvsPersists(f) \/ KvsRejects(f) \/ Settles(f)
    \/ Hang \/ Break \/ BodyDropped \/ ResponseEnds

\* It leaves the call, the session and the list alone.
LEMMA EnvFrame ==
    ASSUME EnvStep
    PROVE  UNCHANGED <<calling, session, first, connected, status, ackAge,
                       connProducer, heard>>
  BY DEF EnvStep, KvsReads, KvsIdle, KvsReceives, KvsPersists, KvsRejects, KvsStep,
     Settles, Hang, Break, BodyDropped, ResponseEnds, calling, session, client, request

\* Steps of a call that only move it on, or end it.
MovesOn ==
    \/ ResetSession \/ ReconnectFails \/ BackOff \/ Cancel
    \/ Initialize \/ InitializeFails

\* They leave the connection and the fragments alone.
LEMMA MovesOnFrame ==
    ASSUME MovesOn
    PROVE  UNCHANGED <<session, client, request, fate>>
  BY DEF MovesOn, ResetSession, ReconnectFails, BackOff, Cancel, Initialize,
     InitializeFails

\* What a step of the client does to the connection, whatever else it does.
LEMMA SendCases ==
    ASSUME SendUnhealthy \/ SendFragment \/ RoomFound \/ RoomLost
    PROVE  /\ UNCHANGED <<session, acks, ackAge>>
           /\ pc \in {"send", "room"}
           /\ \/ HandOver /\ (Len(channel \o Items) <= Capacity \/ Len(channel) < Capacity)
              \/ SendFails
              \/ /\ pc' = "room"
                 /\ UNCHANGED <<call, frag, attempt, tries, newAge, failure, first,
                                connected, request, fate>>
           /\ \/ pc = "room" /\ UNCHANGED status
              \/ pc = "send" /\ status' \in Trimmed(status)
              \/ pc = "send" /\ Track
  BY DEF SendUnhealthy, SendFragment, RoomFound, RoomLost

\* The steps, grouped by what they leave alone.
LEMMA StepCases ==
    ASSUME [Next]_vars
    PROVE  \/ Put \/ MovesOn \/ ProcessAcknowledgment
           \/ (SendUnhealthy \/ SendFragment \/ RoomFound \/ RoomLost)
           \/ ReconnectOnce \/ StartSession \/ Reconnected \/ Initialized
           \/ EnvStep \/ Tick \/ UNCHANGED vars
  BY DEF Next, ClientStep, MovesOn, EnvStep

\* Each group of variables keeps its type.
LEMMA SessionTypeStep == SessionType /\ [Next]_vars => SessionType'
<1> SUFFICES ASSUME SessionType, [Next]_vars PROVE SessionType'
  OBVIOUS
<1> USE DEF SessionType, session, calling, client, request
<1>1. CASE EnvStep \/ MovesOn
  <2>1. UNCHANGED <<ready, producer, connProducer, sessionAge, ackAge>>
    BY <1>1, EnvFrame, MovesOnFrame
  <2>2. newAge' \in {newAge, 0}
    BY <1>1, EnvFrame DEF MovesOn, ResetSession, ReconnectFails, BackOff, Cancel,
       Initialize, InitializeFails, Returns
  <2>3. QED
    BY <2>1, <2>2
<1>2. CASE Put \/ ProcessAcknowledgment \/ UNCHANGED vars
  BY <1>2 DEF Put, PutFragment, ProcessAcknowledgment, vars
<1>3. CASE SendUnhealthy \/ SendFragment \/ RoomFound \/ RoomLost
  <2>1. UNCHANGED <<ready, producer, sessionAge, ackAge>>
    BY <1>3, SendCases
  <2>2. connProducer' = connProducer /\ newAge' \in {newAge, 0}
    <3>1. CASE HandOver
      BY <3>1 DEF HandOver, Returns
    <3>2. CASE SendFails
      BY <3>2 DEF SendFails, Returns
    <3>3. QED
      BY <1>3, <3>1, <3>2, SendCases
  <2>3. QED
    BY <2>1, <2>2
<1>4. CASE ReconnectOnce \/ StartSession
  BY <1>4 DEF ReconnectOnce, StartSession, Disconnect, ForgetAcknowledgments,
     ExpiredUntilLive
<1>5. CASE Reconnected
  BY <1>5 DEF Reconnected, Returns
<1>6. CASE Initialized
  BY <1>6 DEF Initialized, Returns
<1>7. CASE Tick
  <2>1. /\ Older(sessionAge, SessionMax) \in Nat /\ Older(ackAge, StaleAfter) \in Nat
        /\ Older(newAge, IF StaleAfter > SessionMax THEN StaleAfter ELSE SessionMax) \in Nat
    BY Limits, OlderType
  <2>2. QED
    BY <1>7, <2>1 DEF Tick
<1>8. QED
  BY <1>1, <1>2, <1>3, <1>4, <1>5, <1>6, <1>7, StepCases

\* Which calls are under way where: what makes the type of frag inductive.
CallAtPc ==
    /\ pc = "idle" <=> call = "none"
    /\ pc \in {"send", "room"} => call = "put"
    /\ pc = "reset" => call = "reset"
    /\ pc \in {"reconnect", "dial", "pause"} => call \in {"put", "reset"}
    /\ pc = "dialNew" <=> call = "initialize"

CallInv == CallType /\ CallAtPc

\* The call under way and its place keep to each other.
LEMMA CallStep == CallInv /\ [Next]_vars => CallInv'
<1> SUFFICES ASSUME CallInv, [Next]_vars PROVE CallInv'
  OBVIOUS
<1> USE Limits DEF CallInv, CallType, CallAtPc, calling, Pcs, Waiting
<1>1. CASE EnvStep \/ Tick \/ UNCHANGED vars
  BY <1>1, EnvFrame DEF Tick, vars
<1>2. CASE Put
  BY <1>2 DEF Put, PutFragment
<1>3. ASSUME NEW e \in {"none", "internal", "connection"}, Returns(e)
      PROVE  CallInv'
  BY <1>3 DEF Returns
<1>4. CASE MovesOn
  <2>1. CASE ResetSession \/ Initialize \/ BackOff
    BY <2>1 DEF ResetSession, Initialize, BackOff
  <2>2. CASE Cancel \/ InitializeFails
    BY <2>2, <1>3 DEF Cancel, InitializeFails
  <2>3. CASE ReconnectFails
    <3>1. CASE NextTry < MaxTries
      BY <2>3, <3>1 DEF ReconnectFails, NextTry
    <3>2. CASE ~(NextTry < MaxTries)
      <4>1. Returns(IF call = "put" THEN "internal" ELSE "none")
        BY <2>3, <3>2 DEF ReconnectFails
      <4>2. QED
        BY <4>1, <1>3
    <3>3. QED
      BY <3>1, <3>2
  <2>4. QED
    BY <1>4, <2>1, <2>2, <2>3 DEF MovesOn
<1>5. CASE ProcessAcknowledgment
  BY <1>5 DEF ProcessAcknowledgment
<1>6. CASE SendUnhealthy \/ SendFragment \/ RoomFound \/ RoomLost
  <2>1. CASE HandOver
    BY <2>1, <1>3 DEF HandOver
  <2>2. CASE SendFails
    <3>1. pc \in {"send", "room"}
      BY <1>6, SendCases
    <3>2. QED
      BY <2>2, <3>1, <1>3 DEF SendFails
  <2>3. QED
    BY <1>6, <2>1, <2>2, SendCases
<1>7. CASE ReconnectOnce \/ StartSession
  BY <1>7 DEF ReconnectOnce, StartSession, Disconnect
<1>8. CASE Reconnected
  BY <1>8, <1>3 DEF Reconnected
<1>9. CASE Initialized
  BY <1>9, <1>3 DEF Initialized
<1>10. QED
  BY <1>1, <1>2, <1>4, <1>5, <1>6, <1>7, <1>8, <1>9, StepCases

\* The request and the flags about it.
LEMMA LinkTypeStep == LinkType /\ [Next]_vars => LinkType'
<1> SUFFICES ASSUME LinkType, [Next]_vars PROVE LinkType'
  OBVIOUS
<1> USE DEF LinkType, client, request
<1>1. CASE EnvStep
  <2>1. CASE KvsReads \/ KvsIdle
    BY <2>1 DEF KvsReads, KvsIdle
  <2>2. CASE \E f \in Fragments : KvsReceives(f) \/ KvsPersists(f) \/ KvsRejects(f)
    BY <2>2 DEF KvsReceives, KvsPersists, KvsRejects, KvsStep
  <2>3. CASE \E f \in Fragments : Settles(f)
    BY <2>3 DEF Settles
  <2>4. CASE Hang \/ Break \/ BodyDropped \/ ResponseEnds
    BY <2>4 DEF Hang, Break, BodyDropped, ResponseEnds
  <2>5. QED
    BY <1>1, <2>1, <2>2, <2>3, <2>4 DEF EnvStep
<1>2. CASE Put \/ MovesOn \/ ProcessAcknowledgment \/ Tick \/ UNCHANGED vars
  BY <1>2, MovesOnFrame DEF Put, PutFragment, ProcessAcknowledgment, Tick, vars
<1>3. CASE SendUnhealthy \/ SendFragment \/ RoomFound \/ RoomLost
  BY <1>3, SendCases DEF HandOver, SendFails, Hears
<1>4. CASE ReconnectOnce \/ StartSession
  BY <1>4 DEF ReconnectOnce, StartSession, Disconnect, CleanUp, ExpectHeaders
<1>5. CASE Reconnected \/ Initialized
  BY <1>5 DEF Reconnected, Initialized, Connect
<1>6. QED
  BY <1>1, <1>2, <1>3, <1>4, <1>5, StepCases

\* The response task drops what the acknowledgment channel has no room for.
LEMMA AckType ==
    ASSUME AcksType, NEW kind \in AckKinds, Ack(kind)
    PROVE  AcksType'
<1>1. CASE Len(acks) < AckCapacity
  BY <1>1, Limits DEF AcksType, Ack
<1>2. CASE ~(Len(acks) < AckCapacity)
  BY <1>2 DEF AcksType, Ack
<1>3. QED
  BY <1>1, <1>2

\* The acknowledgment channel is never longer than its capacity.
LEMMA AcksTypeStep == AcksType /\ [Next]_vars => AcksType'
<1> SUFFICES ASSUME AcksType, [Next]_vars PROVE AcksType'
  OBVIOUS
<1> USE DEF client, request
<1>1. ASSUME acks' = <<>> PROVE AcksType'
  BY <1>1, Limits DEF AcksType
<1>2. ASSUME UNCHANGED acks PROVE AcksType'
  BY <1>2 DEF AcksType
<1>3. CASE KvsReads \/ KvsIdle
  BY <1>3, <1>2, AckType DEF KvsReads, KvsIdle, AckKinds
<1>4. CASE \E f \in Fragments : KvsReceives(f) \/ KvsPersists(f) \/ KvsRejects(f)
  BY <1>4, AckType DEF KvsReceives, KvsPersists, KvsRejects, KvsStep, AckKinds
<1>5. CASE (\E f \in Fragments : Settles(f)) \/ Hang \/ Break \/ BodyDropped \/ ResponseEnds
  BY <1>5, <1>2 DEF Settles, Hang, Break, BodyDropped, ResponseEnds
<1>6. CASE Put \/ MovesOn \/ Tick \/ UNCHANGED vars
  BY <1>6, <1>2, MovesOnFrame DEF Put, PutFragment, Tick, vars
<1>7. CASE ProcessAcknowledgment
  <2>1. acks' = Tail(acks) /\ acks # <<>>
    BY <1>7 DEF ProcessAcknowledgment
  <2>2. Tail(acks) \in Seq(AckKinds) /\ Len(Tail(acks)) = Len(acks) - 1
    BY <2>1 DEF AcksType
  <2>3. Len(acks) \in Nat /\ AckCapacity \in Nat
    BY Limits DEF AcksType
  <2>4. QED
    BY <2>1, <2>2, <2>3 DEF AcksType
<1>8. CASE SendUnhealthy \/ SendFragment \/ RoomFound \/ RoomLost
  BY <1>8, <1>2, SendCases
<1>9. CASE ReconnectOnce \/ StartSession \/ Initialized
  BY <1>9, <1>1 DEF ReconnectOnce, StartSession, Disconnect, CleanUp, Initialized
<1>10. CASE Reconnected
  BY <1>10, <1>2 DEF Reconnected
<1>11. QED
  BY <1>3, <1>4, <1>5, <1>6, <1>7, <1>8, <1>9, <1>10, StepCases DEF EnvStep

\* Acknowledging and trimming keep the list within its bound.
LEMMA StatusTypeStep == AcksType /\ StatusType /\ [Next]_vars => StatusType'
<1> SUFFICES ASSUME AcksType, StatusType, [Next]_vars PROVE StatusType'
  OBVIOUS
<1> USE DEF client, request
<1>1. ASSUME UNCHANGED status PROVE StatusType'
  BY <1>1 DEF StatusType
<1>2. CASE Put \/ MovesOn \/ Reconnected \/ EnvStep \/ Tick \/ UNCHANGED vars
  BY <1>1, <1>2, MovesOnFrame, EnvFrame DEF Put, PutFragment, Reconnected, Tick, vars
<1>3. CASE ProcessAcknowledgment
  <2>1. Head(acks) \in AckKinds
    BY <1>3 DEF ProcessAcknowledgment, AcksType
  <2>2. QED
    BY <1>3, <2>1, AcknowledgedFacts DEF ProcessAcknowledgment, StatusType
<1>4. CASE SendUnhealthy \/ SendFragment \/ RoomFound \/ RoomLost
  <2>1. CASE status' \in Trimmed(status)
    BY <2>1, TrimmedFacts, Limits DEF StatusType
  <2>2. CASE Track
    <3>1. PICK list \in Trimmed(status) :
            Len(list) < MaxStatus /\ status' = Append(list, NewStatus)
      BY <2>2 DEF Track
    <3>2. list \in Seq(AckStatus) /\ NewStatus \in AckStatus
      BY TrimmedFacts DEF StatusType, NewStatus, AckStatus
    <3>3. QED
      BY <3>1, <3>2, Limits DEF StatusType
  <2>3. QED
    BY <1>4, <1>1, <2>1, <2>2, SendCases
<1>5. CASE ReconnectOnce \/ StartSession \/ Initialized
  <2>1. status' = <<>>
    BY <1>5 DEF ReconnectOnce, StartSession, Disconnect, ForgetAcknowledgments, Initialized
  <2>2. QED
    BY <2>1, Limits DEF StatusType
<1>6. QED
  BY <1>2, <1>3, <1>4, <1>5, StepCases

\* A fragment, with headers or without, is sent only if there is room.
LEMMA ChannelTypeStep == CallInv /\ ChannelType /\ [Next]_vars => ChannelType'
<1> SUFFICES ASSUME CallInv, ChannelType, [Next]_vars PROVE ChannelType'
  OBVIOUS
<1> USE DEF client, request
<1>1. ASSUME UNCHANGED <<channel, first>> PROVE ChannelType'
  BY <1>1 DEF ChannelType
<1>2. ASSUME channel' = <<>> PROVE ChannelType'
  BY <1>2, Limits DEF ChannelType
<1>3. CASE KvsReads
  <2>1. channel # <<>> /\ channel' = Tail(channel) /\ UNCHANGED first
    BY <1>3 DEF KvsReads
  <2>2. /\ Tail(channel) \in Seq(Fragments \cup {Header})
        /\ Len(Tail(channel)) = Len(channel) - 1 /\ Len(channel) \in Nat
    BY <2>1 DEF ChannelType
  <2>3. QED
    BY <2>1, <2>2, Limits DEF ChannelType
<1>4. CASE KvsIdle \/ Hang \/ Break \/ ResponseEnds
  BY <1>4, <1>1 DEF KvsIdle, Hang, Break, ResponseEnds
<1>5. CASE \E f \in Fragments : KvsReceives(f) \/ KvsPersists(f) \/ KvsRejects(f)
          \/ Settles(f)
  BY <1>5, <1>1 DEF KvsReceives, KvsPersists, KvsRejects, KvsStep, Settles
<1>6. CASE Put \/ MovesOn \/ ProcessAcknowledgment \/ Reconnected \/ Tick \/ UNCHANGED vars
  BY <1>6, <1>1, MovesOnFrame DEF Put, PutFragment, ProcessAcknowledgment, Reconnected,
     Tick, vars
<1>7. CASE ReconnectOnce \/ StartSession \/ Initialized \/ BodyDropped
  BY <1>7, <1>2 DEF ReconnectOnce, StartSession, Disconnect, Initialized, BodyDropped
<1>8. CASE SendUnhealthy \/ SendFragment \/ RoomFound \/ RoomLost
  <2>1. CASE HandOver /\ (Len(channel \o Items) <= Capacity \/ Len(channel) < Capacity)
    <3>1. frag \in Fragments
      BY <1>8, SendCases DEF CallInv, CallType, CallAtPc
    <3>2. Items \in Seq(Fragments \cup {Header}) /\ Len(Items) = IF first THEN 2 ELSE 1
      <4>1. CASE first
        BY <3>1, <4>1 DEF Items
      <4>2. CASE ~first
        BY <3>1, <4>2 DEF Items
      <4>3. QED
        BY <4>1, <4>2
    <3>3. /\ channel \o Items \in Seq(Fragments \cup {Header})
          /\ Len(channel \o Items) = Len(channel) + Len(Items)
      <4>1. channel \in Seq(Fragments \cup {Header})
        BY DEF ChannelType
      <4> DEFINE items == Items
      <4>2. items \in Seq(Fragments \cup {Header})
        BY <3>2
      <4> HIDE DEF items
      <4>3. /\ channel \o items \in Seq(Fragments \cup {Header})
            /\ Len(channel \o items) = Len(channel) + Len(items)
        BY <4>1, <4>2
      <4>4. QED
        BY <4>3 DEF items
    <3>4. Len(channel) \in Nat /\ (first => Len(channel) = 0)
      BY DEF ChannelType
    <3>5. Len(channel \o Items) <= Capacity
      BY <2>1, <3>2, <3>3, <3>4, Limits
    <3>6. QED
      BY <2>1, <3>3, <3>5 DEF HandOver, ChannelType
  <2>2. CASE SendFails
    BY <2>2, <1>1 DEF SendFails
  <2>3. QED
    BY <1>8, <2>1, <2>2, <1>1, SendCases
<1>9. QED
  BY <1>3, <1>4, <1>5, <1>6, <1>7, <1>8, StepCases DEF EnvStep

\* What KVS does with fragments.
LEMMA FateTypeStep == CallInv /\ FateType /\ [Next]_vars => FateType'
<1> SUFFICES ASSUME CallInv, FateType, [Next]_vars PROVE FateType'
  OBVIOUS
<1> USE DEF client, request
<1>1. ASSUME UNCHANGED <<cur, fate, kept>> PROVE FateType'
  BY <1>1 DEF FateType
<1>2. ASSUME UNCHANGED fate, cur' = {}, kept' = 0 PROVE FateType'
  BY <1>2, Limits DEF FateType
<1>3. \A f \in Fragments, to \in Fates : [fate EXCEPT ![f] = to] \in [Fragments -> Fates]
  BY DEF FateType
<1>4. {"idle", "handed", "buffering", "received", "persisted", "lost"} \subseteq Fates
  BY DEF Fates, Underway
<1>5. Counted \in 0..(MaxStatus + 1)
  BY Limits DEF Counted, FateType
<1>6. CASE KvsReads
  <2>1. Head(channel) \in Fragments \/ [fate EXCEPT ![Head(channel)] = "buffering"] = fate
    BY DEF FateType
  <2>2. UNCHANGED <<cur, kept>>
    BY <1>6 DEF KvsReads
  <2>3. fate' = fate \/ fate' = [fate EXCEPT ![Head(channel)] = "buffering"]
    BY <1>6 DEF KvsReads
  <2>4. QED
    BY <1>6, <2>1, <2>2, <2>3, <1>3, <1>4, <1>1 DEF FateType, KvsReads
<1>7. ASSUME NEW f \in Fragments, KvsReceives(f) \/ KvsPersists(f) \/ KvsRejects(f)
      PROVE  FateType'
  <2>1. PICK to \in {"received", "persisted", "lost"} : fate' = [fate EXCEPT ![f] = to]
    BY <1>7 DEF KvsReceives, KvsPersists, KvsRejects, KvsStep
  <2>2. cur' \subseteq cur /\ kept' \in {kept, Counted}
    BY <1>7 DEF KvsReceives, KvsPersists, KvsRejects, KvsStep
  <2>3. fate' \in [Fragments -> Fates]
    BY <2>1, <1>3, <1>4
  <2>4. QED
    BY <2>2, <2>3, <1>5 DEF FateType
<1>8. ASSUME NEW f \in Fragments, Settles(f) PROVE FateType'
  <2>1. PICK to \in {"persisted", "lost"} : fate' = [fate EXCEPT ![f] = to]
    BY <1>8 DEF Settles
  <2>2. cur' \subseteq cur /\ kept' \in {kept, Counted}
    BY <1>8 DEF Settles
  <2>3. fate' \in [Fragments -> Fates]
    BY <2>1, <1>3, <1>4
  <2>4. QED
    BY <2>2, <2>3, <1>5 DEF FateType
<1>9. CASE BodyDropped
  <2>1. fate' \in [Fragments -> Fates]
    BY <1>9, <1>4 DEF BodyDropped, FateType
  <2>2. QED
    BY <1>9, <2>1 DEF BodyDropped, FateType
<1>10. CASE KvsIdle \/ Hang \/ Break \/ ResponseEnds
  BY <1>10, <1>1 DEF KvsIdle, Hang, Break, ResponseEnds
<1>11. CASE Put
  BY <1>11, <1>3, <1>4 DEF Put, PutFragment, FateType
<1>12. CASE MovesOn \/ ProcessAcknowledgment \/ Reconnected \/ Tick \/ UNCHANGED vars
  BY <1>12, <1>1, MovesOnFrame DEF ProcessAcknowledgment, Reconnected, Tick, vars
<1>13. CASE ReconnectOnce \/ StartSession \/ Initialized
  BY <1>13, <1>2 DEF ReconnectOnce, StartSession, Disconnect, Initialized
<1>14. CASE SendUnhealthy \/ SendFragment \/ RoomFound \/ RoomLost
  <2>1. CASE HandOver
    <3>1. frag \in Fragments
      BY <1>14, SendCases DEF CallInv, CallType, CallAtPc
    <3>2. QED
      BY <2>1, <3>1, <1>3, <1>4 DEF HandOver, FateType
  <2>2. CASE SendFails
    BY <2>2, <1>1 DEF SendFails
  <2>3. QED
    BY <1>14, <2>1, <2>2, <1>1, SendCases
<1>15. QED
  BY <1>6, <1>7, <1>8, <1>9, <1>10, <1>11, <1>12, <1>13, <1>14, StepCases DEF EnvStep

TypeInv == TypeOK /\ CallAtPc

\* The initial state.
LEMMA TypeInit == Init => TypeInv
<1> SUFFICES ASSUME Init PROVE TypeInv
  OBVIOUS
<1> USE Limits DEF Init
<1>1. SessionType
  <2>1. ready \in BOOLEAN
    BY Zenon
  <2>2. producer = 0 /\ connProducer = 0 /\ sessionAge = 0 /\ ackAge = 0 /\ newAge = 0
    OBVIOUS
  <2> HIDE DEF Init
  <2>3. QED
    BY <2>1, <2>2 DEF SessionType
<1>2. CallType /\ CallAtPc
  BY DEF CallType, CallAtPc, Pcs, Waiting
<1>3. LinkType
  BY DEF LinkType
<1>4. AcksType /\ StatusType
  BY DEF AcksType, StatusType
<1>5. ChannelType
  BY DEF ChannelType
<1>6. FateType
  BY DEF FateType, Fates
<1>7. QED
  BY <1>1, <1>2, <1>3, <1>4, <1>5, <1>6, TypeGroups DEF TypeInv

\* Every step.
LEMMA TypeStep == TypeInv /\ [Next]_vars => TypeInv'
<1> SUFFICES ASSUME TypeInv, [Next]_vars PROVE TypeInv'
  OBVIOUS
<1>1. /\ SessionType /\ CallInv /\ LinkType /\ AcksType /\ StatusType /\ ChannelType
      /\ FateType
  BY TypeGroups DEF TypeInv, CallInv
<1>2. SessionType' /\ CallInv' /\ LinkType'
  BY <1>1, SessionTypeStep, CallStep, LinkTypeStep
<1>3. AcksType' /\ StatusType' /\ ChannelType' /\ FateType'
  BY <1>1, AcksTypeStep, StatusTypeStep, ChannelTypeStep, FateTypeStep
<1>4. (TypeOK <=> /\ SessionType /\ CallType /\ LinkType /\ AcksType
                  /\ StatusType /\ ChannelType /\ FateType)'
  BY TypeGroups, PTL
<1>5. QED
  BY <1>2, <1>3, <1>4 DEF TypeInv, CallInv

\* The inductive invariant behind the types.
LEMMA TypeInvariant == Spec => []TypeInv
  BY TypeInit, TypeStep, PTL DEF Spec

(***************************************************************************)
(* Every variable of the client, the request and KVS keeps its type: no    *)
(* channel or list outgrows its limit (kvs_client.rs:25-42).               *)
(***************************************************************************)
THEOREM TypeCorrect == Spec => []TypeOK
<1>1. TypeInv => TypeOK
  BY DEF TypeInv
<1>2. QED
  BY <1>1, TypeInvariant, PTL

-----------------------------------------------------------------------------
(* One connection: its headers and its session.                            *)

\* A connection is new exactly as long as nothing has been sent on it.
HeadersInv == HeadersFirst /\ (first <=> heard = "nothing")

ConnectionInv == HeadersInv /\ ConnectionOfSession

\* No step mixes up connections.
LEMMA ConnectionStep == ConnectionInv /\ [Next]_vars => ConnectionInv'
<1> SUFFICES ASSUME ConnectionInv, [Next]_vars PROVE ConnectionInv'
  OBVIOUS
<1> USE DEF ConnectionInv, HeadersInv, HeadersFirst, ConnectionOfSession, client, request,
        session
<1>1. ASSUME UNCHANGED <<first, heard, connected, connProducer, producer>>
      PROVE  ConnectionInv'
  BY <1>1
<1>2. CASE EnvStep
  <2>1. UNCHANGED <<first, heard, connected, connProducer, producer>>
    BY <1>2, EnvFrame
  <2>2. QED
    BY <2>1, <1>1
<1>3. CASE Put \/ MovesOn \/ ProcessAcknowledgment \/ Tick \/ UNCHANGED vars
  BY <1>3, <1>1, MovesOnFrame DEF Put, PutFragment, ProcessAcknowledgment, Tick, vars
<1>4. CASE SendUnhealthy \/ SendFragment \/ RoomFound \/ RoomLost
  <2>1. UNCHANGED producer
    BY <1>4, SendCases
  <2>2. CASE HandOver
    BY <2>1, <2>2 DEF HandOver, Hears
  <2>3. CASE SendFails
    BY <2>1, <2>3, <1>1 DEF SendFails
  <2>4. QED
    BY <1>4, <2>1, <2>2, <2>3, <1>1, SendCases
<1>5. CASE ReconnectOnce \/ StartSession
  <2>1. connected' = FALSE /\ first' = TRUE /\ heard' = "nothing"
    BY <1>5 DEF ReconnectOnce, StartSession, Disconnect, CleanUp, ExpectHeaders
  <2>2. QED
    BY <2>1
<1>6. CASE Reconnected
  BY <1>6 DEF Reconnected
<1>7. CASE Initialized
  BY <1>7 DEF Initialized
<1>8. QED
  BY <1>2, <1>3, <1>4, <1>5, <1>6, <1>7, StepCases

\* So it is always.
LEMMA ConnectionInvariant == Spec => []ConnectionInv
<1>1. Init => ConnectionInv
  BY DEF Init, ConnectionInv, HeadersInv, HeadersFirst, ConnectionOfSession
<1>2. QED
  BY <1>1, ConnectionStep, PTL DEF Spec

(***************************************************************************)
(* Whatever fails, is cancelled, reset or retried, a connection carries    *)
(* headers once and before its first cluster.                              *)
(***************************************************************************)
THEOREM HeadersComeFirst == Spec => []HeadersFirst
<1>1. ConnectionInv => HeadersFirst
  BY DEF ConnectionInv, HeadersInv
<1>2. QED
  BY <1>1, ConnectionInvariant, PTL

(***************************************************************************)
(* No connection outlives the session it was made for.                     *)
(***************************************************************************)
THEOREM ConnectionIsOfSession == Spec => []ConnectionOfSession
<1>1. ConnectionInv => ConnectionOfSession
  BY DEF ConnectionInv
<1>2. QED
  BY <1>1, ConnectionInvariant, PTL

-----------------------------------------------------------------------------
(* Acknowledgments: those counted and those still to be read.              *)

\* The step before the count: a "persisted" in the channel may be counted next.
CountInv ==
    kept <= MaxStatus =>
        Cardinality(PersistedEntries(status)) + Cardinality(Places(acks, "Persisted"))
          <= kept

\* The sets that are counted are finite.
LEMMA Countable ==
    ASSUME AcksType, StatusType
    PROVE  /\ IsFiniteSet(PersistedEntries(status))
           /\ Cardinality(PersistedEntries(status)) \in Nat
           /\ Cardinality(PersistedEntries(status)) <= MaxStatus
           /\ Cardinality(Places(acks, "Persisted")) \in Nat
<1>1. status \in Seq(AckStatus) /\ Len(status) \in Nat /\ Len(status) <= MaxStatus
  BY DEF StatusType
<1>2. PersistedEntries(status) \subseteq DOMAIN status
  BY DEF PersistedEntries
<1>3. acks \in Seq(AckKinds) /\ Places(acks, "Persisted") \subseteq DOMAIN acks
  BY DEF AcksType, Places
<1>4. /\ IsFiniteSet(PersistedEntries(status))
      /\ Cardinality(PersistedEntries(status)) \in Nat
      /\ Cardinality(PersistedEntries(status)) <= Len(status)
  BY <1>1, <1>2, PlacesFinite
<1>5. Cardinality(Places(acks, "Persisted")) \in Nat
  BY <1>3, PlacesFinite
<1>6. QED
  BY <1>1, <1>4, <1>5, Limits

\* One more acknowledgment, unless the channel has no room for it.
LEMMA AckCount ==
    ASSUME AcksType, NEW kind \in AckKinds, Ack(kind)
    PROVE  Cardinality(Places(acks', "Persisted"))
             <= IF kind = "Persisted" THEN Cardinality(Places(acks, "Persisted")) + 1
                ELSE Cardinality(Places(acks, "Persisted"))
<1> DEFINE c == Cardinality(Places(acks, "Persisted"))
<1>1. c \in Nat
  BY PlacesFinite DEF AcksType, Places
<1>2. CASE acks' = acks
  BY <1>1, <1>2
<1>3. CASE acks' = Append(acks, kind)
  <2>1. Cardinality(Places(Append(acks, kind), "Persisted"))
          = IF kind = "Persisted" THEN c + 1 ELSE c
    BY PlacesAppend DEF AcksType
  <2> HIDE DEF c
  <2>2. Cardinality(Places(acks', "Persisted")) = IF kind = "Persisted" THEN c + 1 ELSE c
    BY <2>1, <1>3
  <2>3. QED
    BY <1>1, <2>2 DEF c
<1>4. QED
  BY <1>2, <1>3 DEF Ack

\* A new entry of the list is not persisted.
LEMMA NewEntry ==
    ASSUME NEW list \in Seq(AckStatus)
    PROVE  PersistedEntries(Append(list, NewStatus)) = PersistedEntries(list)
<1> DEFINE l == Append(list, NewStatus)
<1>1. NewStatus \in AckStatus /\ ~NewStatus.persisted
  BY DEF NewStatus, AckStatus
<1>2. /\ DOMAIN l = DOMAIN list \cup {Len(list) + 1} /\ l[Len(list) + 1] = NewStatus
      /\ \A i \in DOMAIN list : l[i] = list[i]
      /\ DOMAIN list = 1..Len(list)
  BY <1>1
<1> HIDE DEF l
<1>3. PersistedEntries(l) = PersistedEntries(list)
  BY <1>1, <1>2 DEF PersistedEntries
<1>4. QED
  BY <1>3 DEF l

\* Reading an acknowledgment moves one from the channel to the list.
LEMMA CountStep == TypeOK /\ CountInv /\ [Next]_vars => CountInv'
<1> SUFFICES ASSUME TypeOK, CountInv, [Next]_vars PROVE CountInv'
  OBVIOUS
<1> USE DEF client, request
<1> DEFINE c(list) == Cardinality(PersistedEntries(list))
           a(s) == Cardinality(Places(s, "Persisted"))
<1>1. /\ AcksType /\ StatusType /\ kept \in Nat /\ MaxStatus \in Nat
      /\ c(status) \in Nat /\ a(acks) \in Nat
  BY TypeGroups, Countable, Limits DEF FateType
<1>2. /\ kept <= MaxStatus => c(status) + a(acks) <= kept
      /\ (kept' <= MaxStatus => c(status') + a(acks') <= kept') => CountInv'
  BY DEF CountInv
<1>3. Counted = IF kept <= MaxStatus THEN kept + 1 ELSE kept
  BY DEF Counted
<1>4. ASSUME UNCHANGED <<status, acks, kept>> PROVE CountInv'
  BY <1>4 DEF CountInv
<1>5. ASSUME status' = <<>>, acks' = <<>>, kept' = 0 PROVE CountInv'
  <2>1. PersistedEntries(status') = {} /\ Places(acks', "Persisted") = {}
    BY <1>5 DEF PersistedEntries, Places
  <2>2. QED
    BY <1>2, <1>5, <2>1, FS_EmptySet
<1>6. CASE KvsReads \/ KvsIdle
  <2>1. UNCHANGED <<status, kept>> /\ (UNCHANGED acks \/ Ack("Buffering") \/ Ack("Idle"))
    BY <1>6 DEF KvsReads, KvsIdle
  <2>2. a(acks') <= a(acks)
    BY <2>1, <1>1, AckCount DEF AckKinds
  <2> HIDE DEF a, c
  <2>3. a(acks') \in Nat
    <3>1. AcksType'
      BY <1>1, AcksTypeStep
    <3>2. QED
      BY <3>1, PlacesFinite DEF AcksType, Places, a
  <2>4. QED
    BY <1>1, <1>2, <2>1, <2>2, <2>3
<1>7. CASE \E f \in Fragments : KvsReceives(f) \/ KvsRejects(f)
  <2>1. UNCHANGED <<status, kept>> /\ (Ack("Received") \/ Ack("Error"))
    BY <1>7 DEF KvsReceives, KvsRejects, KvsStep
  <2>2. a(acks') <= a(acks)
    BY <2>1, <1>1, AckCount DEF AckKinds
  <2> HIDE DEF a, c
  <2>3. a(acks') \in Nat
    <3>1. AcksType'
      BY <1>1, AcksTypeStep
    <3>2. QED
      BY <3>1, PlacesFinite DEF AcksType, Places, a
  <2>4. QED
    BY <1>1, <1>2, <2>1, <2>2, <2>3
<1>8. CASE \E f \in Fragments : KvsPersists(f)
  <2>1. UNCHANGED status /\ kept' = Counted /\ Ack("Persisted")
    BY <1>8 DEF KvsPersists, KvsStep
  <2>2. a(acks') <= a(acks) + 1
    BY <2>1, <1>1, AckCount DEF AckKinds
  <2> HIDE DEF a, c
  <2>3. a(acks') \in Nat
    <3>1. AcksType'
      BY <1>1, AcksTypeStep
    <3>2. QED
      BY <3>1, PlacesFinite DEF AcksType, Places, a
  <2>4. QED
    BY <1>1, <1>2, <1>3, <2>1, <2>2, <2>3
<1>9. CASE \E f \in Fragments : Settles(f)
  <2>1. UNCHANGED <<status, acks>> /\ kept' \in {kept, Counted}
    BY <1>9 DEF Settles
  <2> HIDE DEF a, c
  <2>2. QED
    BY <1>1, <1>2, <1>3, <2>1
<1>10. CASE Hang \/ Break \/ BodyDropped \/ ResponseEnds
  BY <1>10, <1>4 DEF Hang, Break, BodyDropped, ResponseEnds
<1>11. CASE Put \/ MovesOn \/ Reconnected \/ Tick \/ UNCHANGED vars
  BY <1>11, <1>4, MovesOnFrame DEF Put, PutFragment, Reconnected, Tick, vars
<1>12. CASE ProcessAcknowledgment
  <2> DEFINE kind == Head(acks)
  <2>1. /\ acks # <<>> /\ acks' = Tail(acks) /\ UNCHANGED kept
        /\ status' = Acknowledged(status, kind)
    BY <1>12 DEF ProcessAcknowledgment
  <2>2. kind \in AckKinds
    BY <2>1, <1>1 DEF AcksType
  <2>3. a(acks') <= IF kind = "Persisted" THEN a(acks) - 1 ELSE a(acks)
    BY <2>1, <1>1, PlacesTail DEF AcksType
  <2>4. PICK j \in Nat : PersistedEntries(status')
          \subseteq PersistedEntries(status) \cup (IF kind = "Persisted" THEN {j} ELSE {})
    BY <2>1, <2>2, <1>1, AcknowledgedFacts DEF StatusType
  <2>5. c(status') <= IF kind = "Persisted" THEN c(status) + 1 ELSE c(status)
    <3> DEFINE p == PersistedEntries(status)
    <3>1. IsFiniteSet(p) /\ Cardinality(p) \in Nat
      BY <1>1, Countable
    <3> HIDE DEF p
    <3>2. /\ IsFiniteSet(p \cup {j})
          /\ Cardinality(p \cup {j}) \in {Cardinality(p), Cardinality(p) + 1}
      BY <3>1, FS_AddElement
    <3>3. CASE kind = "Persisted"
      <4>1. PersistedEntries(status') \in SUBSET (p \cup {j})
        BY <2>4, <3>3 DEF p
      <4>2. Cardinality(PersistedEntries(status')) <= Cardinality(p \cup {j})
        BY <4>1, <3>2, FS_Subset
      <4>3. Cardinality(PersistedEntries(status')) \in Nat
        BY <4>1, <3>2, FS_Subset, FS_CardinalityType
      <4>4. QED
        BY <4>2, <4>3, <3>1, <3>2, <3>3 DEF p
    <3>4. CASE kind # "Persisted"
      <4>1. PersistedEntries(status') \in SUBSET p
        BY <2>4, <3>4 DEF p
      <4>2. Cardinality(PersistedEntries(status')) <= Cardinality(p)
        BY <4>1, <3>1, FS_Subset
      <4>3. QED
        BY <4>2, <3>4 DEF p
    <3>5. QED
      BY <3>3, <3>4
  <2>6. c(status') \in Nat /\ a(acks') \in Nat
    <3>1. AcksType' /\ StatusType'
      BY <1>1, AcksTypeStep, StatusTypeStep
    <3>2. /\ IsFiniteSet(PersistedEntries(status')) /\ c(status') \in Nat
          /\ a(acks') \in Nat
      BY <3>1, PlacesFinite DEF AcksType, StatusType, Places, PersistedEntries
    <3>3. QED
      BY <3>2
  <2> HIDE DEF a, c, kind
  <2>7. QED
    BY <1>1, <1>2, <2>1, <2>3, <2>5, <2>6
<1>13. CASE SendUnhealthy \/ SendFragment \/ RoomFound \/ RoomLost
  <2>1. UNCHANGED <<acks, kept>>
    BY <1>13, SendCases DEF HandOver, SendFails
  <2>2. CASE UNCHANGED status
    BY <2>1, <2>2, <1>4
  <2>3. ASSUME NEW list \in Trimmed(status),
               PersistedEntries(status') = PersistedEntries(list)
        PROVE  CountInv'
    <3>1. list = status \/ PersistedEntries(list) = {}
      BY <1>1, TrimmedFacts DEF StatusType
    <3>2. c(status') = c(status) \/ c(status') = 0
      BY <2>3, <3>1, FS_EmptySet
    <3> HIDE DEF a, c
    <3>3. QED
      BY <1>1, <1>2, <2>1, <3>2
  <2>4. CASE status' \in Trimmed(status)
    BY <2>4, <2>3
  <2>5. CASE Track
    <3>1. PICK list \in Trimmed(status) : status' = Append(list, NewStatus)
      BY <2>5 DEF Track
    <3>2. list \in Seq(AckStatus)
      BY <1>1, TrimmedFacts DEF StatusType
    <3>3. PersistedEntries(status') = PersistedEntries(list)
      BY <3>1, <3>2, NewEntry
    <3>4. QED
      BY <3>3, <2>3
  <2>6. QED
    BY <1>13, <2>2, <2>4, <2>5, SendCases
<1>14. CASE ReconnectOnce \/ StartSession \/ Initialized
  BY <1>14, <1>5 DEF ReconnectOnce, StartSession, Disconnect, CleanUp,
     ForgetAcknowledgments, Initialized
<1>15. QED
  BY <1>6, <1>7, <1>8, <1>9, <1>10, <1>11, <1>12, <1>13, <1>14, StepCases DEF EnvStep

(***************************************************************************)
(* process_acknowledgments() never counts more fragments as persisted than *)
(* KVS has persisted on the connection it listens to, however many         *)
(* acknowledgments got lost in a full channel.                             *)
(***************************************************************************)
THEOREM PersistedIsSafe == Spec => []PersistedCountIsSafe
<1>1. Init => CountInv
  <2> SUFFICES ASSUME Init PROVE CountInv
    OBVIOUS
  <2>1. status = <<>> /\ acks = <<>> /\ kept = 0
    BY DEF Init
  <2>2. PersistedEntries(status) = {} /\ Places(acks, "Persisted") = {}
    BY <2>1 DEF PersistedEntries, Places
  <2>3. QED
    <3>1. Cardinality(PersistedEntries(status)) = 0
      BY <2>2, FS_EmptySet
    <3>2. Cardinality(Places(acks, "Persisted")) = 0
      BY <2>2, FS_EmptySet
    <3>3. QED
      BY <2>1, <3>1, <3>2 DEF CountInv
<1>2. TypeOK /\ CountInv => PersistedCountIsSafe
  <2> SUFFICES ASSUME TypeOK, CountInv PROVE PersistedCountIsSafe
    OBVIOUS
  <2>1. /\ Cardinality(PersistedEntries(status)) \in Nat
        /\ Cardinality(PersistedEntries(status)) <= MaxStatus
        /\ Cardinality(Places(acks, "Persisted")) \in Nat
        /\ kept \in 0..(MaxStatus + 1) /\ MaxStatus \in Nat
    BY TypeGroups, Countable, Limits DEF FateType
  <2>2. Cardinality(PersistedEntries(status)) <= kept
    BY <2>1 DEF CountInv
  <2>3. QED
    BY <2>2 DEF PersistedCountIsSafe, PersistedEntries
<1>3. QED
  BY <1>1, <1>2, CountStep, TypeCorrect, PTL DEF Spec

-----------------------------------------------------------------------------
(* Each fragment is in one place: still with the caller, in the channel    *)
(* once, or with KVS.                                                      *)

NotYetHandedOver == call = "put" => fate[frag] = "idle"

ChannelInv ==
    /\ \A i \in DOMAIN channel : channel[i] # Header => fate[channel[i]] = "handed"
    /\ \A i, j \in DOMAIN channel : channel[i] = channel[j] /\ channel[i] # Header => i = j

HandOverInv == NotYetHandedOver /\ ChannelInv

\* What happens around a call settles fragments and changes nothing else.
LEMMA EnvSettles ==
    ASSUME TypeOK, ChannelInv, EnvStep
    PROVE  \A f \in Fragments :
             fate'[f] # fate[f] => /\ fate[f] \in Underway
                                   /\ fate'[f] \in Underway \cup {"persisted", "lost"}
<1> USE DEF client, request, Underway
<1>1. /\ channel \in Seq(Fragments \cup {Header}) /\ fate \in [Fragments -> Fates]
      /\ Header \notin Fragments
  BY TypeGroups, Limits DEF ChannelType, FateType
<1>2. \A f \in ToSet(channel) : f # Header => f \in Fragments /\ fate[f] = "handed"
  BY <1>1 DEF ChannelInv, ToSet
<1>3. CASE KvsReads
  <2>1. channel # <<>> /\ Head(channel) \in ToSet(channel)
    BY <1>1, <1>3, ElementsTail DEF KvsReads
  <2>2. QED
    BY <1>1, <1>2, <1>3, <2>1 DEF KvsReads
<1>4. CASE \E f \in Fragments : KvsReceives(f) \/ KvsPersists(f) \/ KvsRejects(f)
  BY <1>1, <1>4 DEF KvsReceives, KvsPersists, KvsRejects, KvsStep
<1>5. CASE \E f \in Fragments : Settles(f)
  BY <1>1, <1>5 DEF Settles
<1>6. CASE BodyDropped
  BY <1>1, <1>2, <1>6 DEF BodyDropped
<1>7. CASE KvsIdle \/ Hang \/ Break \/ ResponseEnds
  BY <1>7 DEF KvsIdle, Hang, Break, ResponseEnds
<1>8. QED
  BY <1>3, <1>4, <1>5, <1>6, <1>7 DEF EnvStep

\* What is being put stays with the caller until it is handed over.
LEMMA NotYetHandedOverStep ==
    TypeInv /\ HandOverInv /\ [Next]_vars => NotYetHandedOver'
<1> SUFFICES ASSUME TypeInv, HandOverInv, [Next]_vars PROVE NotYetHandedOver'
  OBVIOUS
<1> USE DEF NotYetHandedOver, calling
<1>1. /\ CallType /\ CallAtPc /\ fate \in [Fragments -> Fates]
      /\ NotYetHandedOver /\ ChannelInv /\ TypeOK
  BY TypeGroups DEF TypeInv, FateType, HandOverInv
<1>2. ASSUME call' # "put" PROVE NotYetHandedOver'
  BY <1>2
<1>3. ASSUME UNCHANGED <<call, frag, fate>> PROVE NotYetHandedOver'
  BY <1>1, <1>3
<1>4. CASE EnvStep
  <2>1. UNCHANGED <<call, frag>>
    BY <1>4, EnvFrame
  <2>2. frag \in Fragments /\ call = "put" => fate'[frag] = "idle"
    BY <1>1, <1>4, EnvSettles DEF Underway
  <2>3. QED
    BY <1>1, <2>1, <2>2 DEF CallType
<1>5. CASE Put
  BY <1>1, <1>5 DEF Put, PutFragment
<1>6. CASE MovesOn
  <2>1. UNCHANGED fate
    BY <1>6, MovesOnFrame
  <2>2. call' # "put" \/ UNCHANGED <<call, frag>>
    BY <1>6 DEF MovesOn, ResetSession, ReconnectFails, BackOff, Cancel, Initialize,
       InitializeFails, Returns
  <2>3. QED
    BY <2>1, <2>2, <1>2, <1>3
<1>7. CASE ProcessAcknowledgment \/ Tick \/ UNCHANGED vars
  BY <1>7, <1>3 DEF ProcessAcknowledgment, Tick, vars
<1>8. CASE SendUnhealthy \/ SendFragment \/ RoomFound \/ RoomLost
  <2>1. CASE HandOver
    BY <2>1, <1>2 DEF HandOver, Returns
  <2>2. CASE SendFails
    BY <2>2, <1>2, <1>3 DEF SendFails, Returns
  <2>3. QED
    BY <1>8, <2>1, <2>2, <1>3, SendCases
<1>9. CASE ReconnectOnce \/ StartSession
  BY <1>9, <1>3 DEF ReconnectOnce, StartSession, Disconnect
<1>10. CASE Reconnected
  BY <1>10, <1>2, <1>3 DEF Reconnected, Returns
<1>11. CASE Initialized
  BY <1>11, <1>2 DEF Initialized, Returns
<1>12. QED
  BY <1>4, <1>5, <1>6, <1>7, <1>8, <1>9, <1>10, <1>11, StepCases

\* What is in the channel stays there until KVS reads it or it is dropped.
LEMMA ChannelStep == TypeInv /\ HandOverInv /\ [Next]_vars => ChannelInv'
<1> SUFFICES ASSUME TypeInv, HandOverInv, [Next]_vars PROVE ChannelInv'
  OBVIOUS
<1> USE DEF client, request
<1>1. /\ CallType /\ CallAtPc /\ fate \in [Fragments -> Fates]
      /\ channel \in Seq(Fragments \cup {Header}) /\ (first => channel = <<>>)
      /\ NotYetHandedOver /\ ChannelInv /\ Header \notin Fragments
  BY TypeGroups, Limits DEF TypeInv, FateType, ChannelType, HandOverInv
<1>2. ASSUME channel' = <<>> PROVE ChannelInv'
  BY <1>2 DEF ChannelInv
<1>3. ASSUME UNCHANGED channel, \A i \in DOMAIN channel : channel[i] # Header =>
                                   fate'[channel[i]] = "handed"
      PROVE  ChannelInv'
  BY <1>1, <1>3 DEF ChannelInv
<1>4. ASSUME UNCHANGED <<channel, fate>> PROVE ChannelInv'
  BY <1>1, <1>4 DEF ChannelInv
<1>5. CASE KvsReads
  <2>1. /\ channel # <<>> /\ channel' = Tail(channel)
        /\ fate' = IF Head(channel) = Header THEN fate
                   ELSE [fate EXCEPT ![Head(channel)] = "buffering"]
    BY <1>5 DEF KvsReads
  <2>2. /\ Head(channel) = channel[1] /\ 1 \in DOMAIN channel
        /\ \A i \in DOMAIN Tail(channel) :
              i \in Nat \ {0} /\ i + 1 \in DOMAIN channel
                  /\ Tail(channel)[i] = channel[i + 1]
        /\ \A i \in DOMAIN channel : channel[i] \in Fragments \cup {Header}
    BY <1>1, <2>1
  <2>3. \A i \in DOMAIN Tail(channel) :
          Tail(channel)[i] # Header => fate'[Tail(channel)[i]] = "handed"
    <3> SUFFICES ASSUME NEW i \in DOMAIN Tail(channel), Tail(channel)[i] # Header
                 PROVE  fate'[Tail(channel)[i]] = "handed"
      OBVIOUS
    <3>1. /\ i + 1 \in DOMAIN channel /\ i + 1 # 1 /\ Tail(channel)[i] = channel[i + 1]
          /\ channel[i + 1] \in Fragments
      BY <2>2
    <3>2. fate[channel[i + 1]] = "handed" /\ channel[i + 1] # channel[1]
      BY <1>1, <2>2, <3>1 DEF ChannelInv
    <3>3. QED
      BY <1>1, <2>1, <2>2, <3>1, <3>2
  <2>4. \A i, j \in DOMAIN Tail(channel) :
          Tail(channel)[i] = Tail(channel)[j] /\ Tail(channel)[i] # Header => i = j
    <3> SUFFICES ASSUME NEW i \in DOMAIN Tail(channel), NEW j \in DOMAIN Tail(channel),
                        Tail(channel)[i] = Tail(channel)[j], Tail(channel)[i] # Header
                 PROVE  i = j
      OBVIOUS
    <3>1. i + 1 = j + 1
      BY <1>1, <2>2 DEF ChannelInv
    <3>2. QED
      BY <2>2, <3>1
  <2>5. QED
    BY <2>1, <2>3, <2>4 DEF ChannelInv
<1>6. CASE \E f \in Fragments : KvsReceives(f) \/ KvsPersists(f) \/ KvsRejects(f)
  BY <1>1, <1>6, <1>3 DEF KvsReceives, KvsPersists, KvsRejects, KvsStep, ChannelInv
<1>7. CASE \E f \in Fragments : Settles(f)
  BY <1>1, <1>7, <1>3 DEF Settles, ChannelInv, ToSet
<1>8. CASE KvsIdle \/ Hang \/ Break \/ ResponseEnds
  BY <1>8, <1>4 DEF KvsIdle, Hang, Break, ResponseEnds
<1>9. CASE Put
  <2>1. PICK f \in Fragments : PutFragment(f)
    BY <1>9 DEF Put
  <2>2. \A i \in DOMAIN channel : channel[i] # f
    BY <1>1, <2>1 DEF ChannelInv, PutFragment, Underway
  <2>3. QED
    BY <1>1, <2>1, <2>2, <1>3 DEF PutFragment, ChannelInv
<1>10. CASE MovesOn \/ ProcessAcknowledgment \/ Reconnected \/ Tick \/ UNCHANGED vars
  BY <1>10, <1>4, MovesOnFrame DEF ProcessAcknowledgment, Reconnected, Tick, vars
<1>11. CASE ReconnectOnce \/ StartSession \/ Initialized \/ BodyDropped
  BY <1>11, <1>2 DEF ReconnectOnce, StartSession, Disconnect, Initialized, BodyDropped
<1>12. CASE SendUnhealthy \/ SendFragment \/ RoomFound \/ RoomLost
  <2>1. CASE HandOver
    <3>1. frag \in Fragments /\ fate[frag] = "idle"
              /\ fate' = [fate EXCEPT ![frag] = "handed"]
      BY <1>1, <1>12, <2>1, SendCases DEF HandOver, CallType, CallAtPc, NotYetHandedOver
    <3>2. \A i \in DOMAIN channel : channel[i] # frag
      BY <1>1, <3>1 DEF ChannelInv
    <3>3. CASE first
      <4>1. channel' = <<Header, frag>>
        BY <1>1, <2>1, <3>3 DEF HandOver, Items
      <4>2. DOMAIN channel' = {1, 2} /\ channel'[1] = Header /\ channel'[2] = frag
        BY <4>1
      <4>3. QED
        BY <1>1, <3>1, <4>2 DEF ChannelInv
    <3>4. CASE ~first
      <4> DEFINE t == channel \o <<frag>>
      <4>1. channel' = t
        BY <2>1, <3>4 DEF HandOver, Items
      <4>2. /\ DOMAIN t = DOMAIN channel \cup {Len(channel) + 1}
            /\ t[Len(channel) + 1] = frag
            /\ \A i \in DOMAIN channel : t[i] = channel[i]
        BY <1>1, <3>1
      <4> HIDE DEF t
      <4>3. \A i \in DOMAIN channel : channel[i] # Header => fate'[channel[i]] = "handed"
        BY <1>1, <3>1, <3>2 DEF ChannelInv
      <4>4. \A i \in DOMAIN t : t[i] # Header => fate'[t[i]] = "handed"
        BY <1>1, <3>1, <4>2, <4>3
      <4>5. \A i, j \in DOMAIN t : t[i] = t[j] /\ t[i] # Header => i = j
        BY <1>1, <3>2, <4>2 DEF ChannelInv
      <4>6. QED
        BY <4>1, <4>4, <4>5 DEF ChannelInv
    <3>5. QED
      BY <3>3, <3>4
  <2>2. CASE SendFails
    BY <2>2, <1>4 DEF SendFails
  <2>3. QED
    BY <1>12, <2>1, <2>2, <1>4, SendCases
<1>13. QED
  BY <1>5, <1>6, <1>7, <1>8, <1>9, <1>10, <1>11, <1>12, StepCases DEF EnvStep

\* So it is always.
LEMMA HandOverInvariant == Spec => []HandOverInv
<1>1. Init => HandOverInv
  BY DEF Init, HandOverInv, NotYetHandedOver, ChannelInv
<1>2. TypeInv /\ HandOverInv /\ [Next]_vars => HandOverInv'
  BY NotYetHandedOverStep, ChannelStep DEF HandOverInv
<1>3. QED
  BY <1>1, <1>2, TypeInvariant, PTL DEF Spec

-----------------------------------------------------------------------------
(* KvsConnection keeps what MediaUploader promises.                        *)

\* The fate of a fragment as callers see it.
Seen(g) == [f \in Fragments |-> IF g[f] \in Underway THEN "accepted" ELSE g[f]]

\* The initial state is one of the abstract uploader.
LEMMA UploaderInit == Init => Uploader!Init
  BY Limits DEF Init, Uploader!Init, Expired, Underway

\* The call returns, and nothing else changes that a caller can see.
LEMMA UploaderRefuses ==
    ASSUME TypeInv, HandOverInv, call \in {"put", "reset", "initialize"},
           call' = "none", frag' = NoFragment, UNCHANGED <<fate, sessionAge>>
    PROVE  Uploader!Next
<1>1. /\ call = "put" => frag \in Fragments /\ fate[frag] = "idle"
      /\ NoFragment \notin Fragments
  BY TypeGroups, Limits DEF TypeInv, CallType, HandOverInv, NotYetHandedOver
<1>2. Uploader!Returns
  BY <1>1 DEF Uploader!Returns
<1>3. UNCHANGED Seen(fate) /\ UNCHANGED Expired
  BY DEF Seen, Expired
<1>4. CASE call = "put"
  <2>1. Seen(fate)[frag] = "idle"
    BY <1>1, <1>4 DEF Seen, Underway
  <2>2. Uploader!Refuse
    BY <1>2, <1>3, <1>4, <2>1 DEF Uploader!Refuse, Seen
  <2>3. QED
    BY <2>2 DEF Uploader!Next
<1>5. CASE call = "reset"
  <2>1. Uploader!ResetFails
    BY <1>2, <1>3, <1>5 DEF Uploader!ResetFails, Seen
  <2>2. QED
    BY <2>1 DEF Uploader!Next
<1>6. CASE call = "initialize"
  <2>1. Expired' \in BOOLEAN
    BY DEF Expired
  <2>2. Uploader!InitializeReturns
    BY <1>2, <1>3, <1>6, <2>1 DEF Uploader!InitializeReturns, Seen
  <2>3. QED
    BY <2>2 DEF Uploader!Next
<1>7. QED
  BY <1>4, <1>5, <1>6

\* Nothing changes that a caller can see.
LEMMA UploaderStutters ==
    ASSUME UNCHANGED <<call, frag, fate, sessionAge>>
    PROVE  UNCHANGED <<call, frag, Seen(fate), Expired>>
  BY DEF Seen, Expired

\* Every step is one of the abstract uploader, or unseen.
LEMMA UploaderStep ==
    TypeInv /\ HandOverInv /\ [Next]_vars
      => [Uploader!Next]_<<call, frag, Seen(fate), Expired>>
<1> SUFFICES ASSUME TypeInv, HandOverInv, [Next]_vars
             PROVE  [Uploader!Next]_<<call, frag, Seen(fate), Expired>>
  OBVIOUS
<1> USE DEF calling, session
<1>1. /\ TypeOK /\ CallType /\ CallAtPc /\ fate \in [Fragments -> Fates]
      /\ sessionAge \in Nat /\ SessionMax \in Nat
      /\ NotYetHandedOver /\ ChannelInv /\ NoFragment \notin Fragments
  BY TypeGroups, Limits DEF TypeInv, FateType, SessionType, HandOverInv
<1>2. CASE Put
  <2>1. PICK f \in Fragments : PutFragment(f)
    BY <1>2 DEF Put
  <2>2. call = "none" /\ call' = "put" /\ frag' = f /\ UNCHANGED Expired
    BY <1>1, <2>1 DEF PutFragment, CallAtPc, Expired
  <2>3. Seen(fate)[f] # "accepted" /\ Seen(fate)' = [Seen(fate) EXCEPT ![f] = "idle"]
    BY <1>1, <2>1 DEF PutFragment, Seen, Fates, Underway
  <2>4. Uploader!Put(f)
    BY <2>2, <2>3 DEF Uploader!Put, Seen
  <2>5. QED
    BY <2>4 DEF Uploader!Next
<1>3. CASE ResetSession \/ Initialize
  <2>1. PICK c \in {"reset", "initialize"} :
          /\ call = "none" /\ call' = c /\ frag' \notin Fragments
          /\ UNCHANGED <<fate, sessionAge>>
    BY <1>1, <1>3 DEF ResetSession, Initialize, CallAtPc, CallType
  <2>2. Uploader!Ask(c)
    BY <2>1 DEF Uploader!Ask, Expired
  <2>3. QED
    BY <2>2 DEF Uploader!Next
<1>4. CASE ReconnectFails \/ BackOff \/ Cancel \/ InitializeFails
  <2>1. UNCHANGED <<fate, sessionAge>>
    BY <1>4, MovesOnFrame DEF MovesOn
  <2>2. call \in {"put", "reset", "initialize"}
    BY <1>1, <1>4 DEF ReconnectFails, BackOff, Cancel, InitializeFails, CallAtPc, Waiting
  <2>3. (call' = "none" /\ frag' = NoFragment) \/ UNCHANGED <<call, frag>>
    BY <1>4 DEF ReconnectFails, BackOff, Cancel, InitializeFails, Returns
  <2>4. QED
    BY <2>1, <2>2, <2>3, UploaderRefuses, UploaderStutters
<1>5. CASE ProcessAcknowledgment \/ UNCHANGED vars
  BY <1>5, UploaderStutters DEF ProcessAcknowledgment, vars
<1>6. CASE SendUnhealthy \/ SendFragment \/ RoomFound \/ RoomLost
  <2>1. call = "put" /\ frag \in Fragments /\ fate[frag] = "idle" /\ UNCHANGED sessionAge
    BY <1>1, <1>6, SendCases DEF CallAtPc, CallType, NotYetHandedOver
  <2>2. CASE HandOver
    <3>1. fate' = [fate EXCEPT ![frag] = "handed"] /\ call' = "none" /\ frag' = NoFragment
      BY <2>2 DEF HandOver, Returns
    <3>2. /\ Seen(fate)[frag] = "idle"
          /\ Seen(fate)' = [Seen(fate) EXCEPT ![frag] = "accepted"]
      BY <1>1, <2>1, <3>1 DEF Seen, Fates, Underway
    <3>3. Uploader!Accept
      BY <1>1, <2>1, <3>1, <3>2 DEF Uploader!Accept, Uploader!Returns, Seen, Expired
    <3>4. QED
      BY <3>3 DEF Uploader!Next
  <2>3. CASE SendFails
    <3>1. UNCHANGED fate
      BY <2>3 DEF SendFails
    <3>2. (call' = "none" /\ frag' = NoFragment) \/ UNCHANGED <<call, frag>>
      BY <2>3 DEF SendFails, Returns
    <3>3. QED
      BY <2>1, <3>1, <3>2, UploaderRefuses, UploaderStutters
  <2>4. QED
    BY <1>6, <2>1, <2>2, <2>3, UploaderStutters, SendCases
<1>7. CASE ReconnectOnce \/ StartSession
  BY <1>7, UploaderStutters DEF ReconnectOnce, StartSession, Disconnect, ExpiredUntilLive
<1>8. CASE Reconnected
  <2>1. UNCHANGED fate
    BY <1>8 DEF Reconnected
  <2>2. CASE call = "reset"
    <3>1. call' = "none" /\ frag' = NoFragment /\ sessionAge' = 0
      BY <1>8, <2>2 DEF Reconnected, Returns
    <3>2. Expired' = FALSE
      BY <1>1, <3>1 DEF Expired
    <3>3. Uploader!ResetSucceeds
      BY <1>1, <2>1, <2>2, <3>1, <3>2 DEF Uploader!ResetSucceeds, Uploader!Returns
    <3>4. QED
      BY <3>3 DEF Uploader!Next
  <2>3. CASE call # "reset"
    BY <1>8, <2>1, <2>3, UploaderStutters DEF Reconnected
  <2>4. QED
    BY <2>2, <2>3
<1>9. CASE Initialized
  <2>1. call = "initialize" /\ call' = "none" /\ frag' = NoFragment /\ UNCHANGED fate
    BY <1>1, <1>9 DEF Initialized, Returns, CallAtPc
  <2>2. Expired' \in BOOLEAN
    BY DEF Expired
  <2>3. Uploader!InitializeReturns
    BY <1>1, <2>1, <2>2 DEF Uploader!InitializeReturns, Uploader!Returns
  <2>4. QED
    BY <2>3 DEF Uploader!Next
<1>10. CASE EnvStep
  <2>1. UNCHANGED <<call, frag, sessionAge>>
    BY <1>10, EnvFrame
  <2>2. \A f \in Fragments :
          Seen(fate)'[f] # Seen(fate)[f] =>
             Seen(fate)[f] = "accepted" /\ Seen(fate)'[f] \in {"persisted", "lost"}
    BY <1>1, <1>10, EnvSettles DEF Seen, Underway
  <2>3. Uploader!Settle
    BY <2>1, <2>2 DEF Uploader!Settle, Seen, Expired
  <2>4. QED
    BY <2>3 DEF Uploader!Next
<1>11. CASE Tick
  <2>1. UNCHANGED <<call, frag, fate>>
    BY <1>11 DEF Tick
  <2>2. sessionAge' = sessionAge \/ sessionAge' = Older(sessionAge, SessionMax)
    BY <1>11 DEF Tick
  <2>3. Expired => Expired'
    BY <1>1, <2>2 DEF Expired, Older
  <2>4. CASE ~Expired /\ Expired'
    <3>1. Uploader!Expire
      BY <2>1, <2>4 DEF Uploader!Expire
    <3>2. QED
      BY <3>1 DEF Uploader!Next
  <2>5. CASE Expired <=> Expired'
    <3>1. UNCHANGED <<call, frag, Seen(fate), Expired>>
      BY <2>1, <2>5 DEF Seen, Expired
    <3>2. QED
      BY <3>1
  <2>6. QED
    BY <2>3, <2>4, <2>5
<1>12. QED
  BY <1>2, <1>3, <1>4, <1>5, <1>6, <1>7, <1>8, <1>9, <1>10, <1>11, StepCases DEF MovesOn

(***************************************************************************)
(* The real client keeps what SessionHandoff and the buffer manager expect *)
(* of an uploader: a fragment is handed over at most once per call and not *)
(* at all when put_fragment() fails or is cancelled, and an expired        *)
(* session stays expired until a reset has succeeded.                      *)
(***************************************************************************)
THEOREM ImplementsUploader == Spec => UploaderSpec
<1>1. Init => Uploader!Init
  BY UploaderInit
<1>2. TypeInv /\ HandOverInv /\ [Next]_vars
        => [Uploader!Next]_<<call, frag, Seen(fate), Expired>>
  BY UploaderStep
<1>3. QED
  BY <1>1, <1>2, TypeInvariant, HandOverInvariant, PTL DEF Spec, UploaderSpec,
     Uploader!Spec, Seen
=============================================================================
