----------------------- MODULE SessionHandoff_proofs -----------------------
(***************************************************************************)
(* Proofs about SessionHandoff, for every capacity of the queue and every  *)
(* number of triggers.  The inductive invariant joins to each property     *)
(* what the other process must not disturb: render() runs only while the   *)
(* element runs, the tag is in one place, the mark is in one place.        *)
(***************************************************************************)
EXTENDS SessionHandoff, TLAPS

-----------------------------------------------------------------------------
(* Types, one group of variables at a time: each step touches few groups.  *)

\* render_buffer() updates the duration only after it has applied a mode.
SwitchKnown == rpc = "switched" => local.pendingMode # NoMode

SinkType ==
    /\ phase \in Phases /\ waitingForKeyframe \in BOOLEAN
    /\ currentMode \in Modes /\ fragmentDuration \in Modes
    /\ pendingModeSwitch \in Modes \cup {NoMode}
    /\ pendingNewSession \in BOOLEAN
    /\ recoveryTask \in BOOLEAN
    /\ sessionResetInFlight \in BOOLEAN

StreamingType == rpc \in StreamingPc /\ local \in Locals

QueueType == queue \in Seq(UploadItem) /\ Len(queue) <= Capacity

WorkerType == wpc \in WorkerPc /\ item \in UploadItem

LocksType ==
    /\ uploaderLock \in {NoOne, "worker", "trigger"}
    /\ bufferLock \in {NoOne, "worker", "trigger"}
    /\ expired \in BOOLEAN

TriggerType ==
    /\ tpc \in TriggerPc /\ trigger \in [kind : Kinds, target : Modes]
    /\ triggers \in 0..MaxTriggers

GhostType ==
    /\ writerFresh \in BOOLEAN
    /\ probe \in {"unmarked", "travelling", "uploaded", "buffered", "dropped",
                  "writeFailed", "abandoned"}

\* The groups together are the type invariant.
LEMMA TypeGroups ==
    TypeOK <=> /\ SinkType /\ StreamingType /\ QueueType /\ WorkerType
               /\ LocksType /\ TriggerType /\ GhostType
  BY DEF TypeOK, SinkType, StreamingType, QueueType, WorkerType, LocksType,
     TriggerType, GhostType

\* The locals between two calls of render_buffer().
LEMMA NoLocalsType == NoLocals \in Locals
  BY DEF NoLocals, Locals, Modes, NoMode

\* What the worker holds between two fragments.
LEMMA NoItemType == NoItem \in UploadItem
  BY DEF NoItem, UploadItem, Modes

\* The item render() would enqueue now.
LEMMA EnqueuedItem ==
    ASSUME TypeOK
    PROVE  [mode |-> local.mode, startsNewSession |-> local.startsNewSession,
            first |-> writerFresh, marked |-> local.marked] \in UploadItem
  BY DEF TypeOK, Locals, UploadItem

\* State, Settings and the flag: written by every process.
LEMMA SinkTypeStep ==
    ASSUME SinkType, StreamingType, TriggerType, SwitchKnown, [Next]_vars
    PROVE  SinkType'
<1> USE DEF sink
<1>1. CASE \E m \in Modes : Start(m)
  BY <1>1 DEF Start, SinkType, Phases
<1>2. CASE FirstKeyframe \/ FinalizeFragment \/ RearmTag
  <2>1. local.startsNewSession \in BOOLEAN
    BY DEF StreamingType, Locals
  <2>2. QED
    BY <1>2, <2>1 DEF FirstKeyframe, FinalizeFragment, RearmTag, TagAfterTake,
       TagAfterDrop, SinkType
<1>3. CASE ApplySwitch \/ SetDuration
  <2>1. local.pendingMode \in Modes
    BY <1>3 DEF ApplySwitch, SetDuration, SwitchKnown, StreamingType, Locals
  <2>2. QED
    BY <1>3, <2>1 DEF ApplySwitch, SetDuration, SinkType
<1>4. CASE BeginSessionReset \/ ClearFlag
  BY <1>4 DEF BeginSessionReset, ClearFlag, FlagAfterReset, SinkType
<1>5. CASE FallBack \/ FallBackDuration \/ SpawnRecovery \/ RecoveryClearsHandle
  BY <1>5 DEF FallBack, FallBackDuration, SpawnRecovery, RecoveryClearsHandle,
     SinkType, Modes
<1>6. CASE ProcessEvents
  <2>1. trigger.target \in Modes
    BY DEF TriggerType
  <2>2. QED
    BY <1>6, <2>1 DEF ProcessEvents, SinkType
<1>7. CASE StopCancelsRecovery
  <2>1. /\ phase' = "stopping" /\ recoveryTask' = FALSE
        /\ UNCHANGED <<waitingForKeyframe, currentMode, pendingModeSwitch,
                       pendingNewSession, fragmentDuration, sessionResetInFlight>>
    BY <1>7 DEF StopCancelsRecovery
  <2>2. QED
    BY <2>1 DEF SinkType, Phases
<1>8. CASE StopClosesQueue \/ StopResets
  BY <1>8 DEF StopClosesQueue, StopResets, SinkType, Phases, Modes
<1>9. ASSUME UNCHANGED sink PROVE SinkType'
  BY <1>9 DEF SinkType
<1>10. CASE \/ SessionExpires \/ CheckExpiry \/ Eos \/ FinalizeFails
            \/ LoadFlags \/ CaptureMode \/ TrySend \/ SkipSwitch
  <2>1. UNCHANGED sink
    BY <1>10 DEF SessionExpires, CheckExpiry, Eos, FinalizeFails, LoadFlags,
       CaptureMode, TrySend, Enqueue, SkipSwitch
  <2>2. QED
    BY <1>9, <2>1
<1>11. CASE \/ WorkerRecv \/ WorkerEnds \/ LockForReset
            \/ (\E b \in BOOLEAN : ResetSession(b) \/ PutFails(b) \/ PushFragment(b))
            \/ LockForPut \/ PutSucceeds \/ CheckRecovery \/ LockForBuffer
            \/ AbortWorker
  <2>1. UNCHANGED sink
    BY <1>11 DEF WorkerRecv, WorkerEnds, LockForReset, ResetSession, LockForPut,
       PutSucceeds, PutFails, CheckRecovery, LockForBuffer, PushFragment, AbortWorker
  <2>2. QED
    BY <1>9, <2>1
<1>12. CASE \/ TriggerLocksBuffer \/ NextBuffered \/ TriggerLocksUploader
            \/ TriggerPuts \/ TriggerReturns \/ TriggerFails
            \/ (\E k \in TriggerKinds, m \in Modes : StartTrigger(k, m))
            \/ UNCHANGED vars
  <2>1. UNCHANGED sink
    BY <1>12 DEF TriggerLocksBuffer, NextBuffered, TriggerLocksUploader,
       TriggerPuts, TriggerReturns, TriggerFails, StartTrigger, vars
  <2>2. QED
    BY <1>9, <2>1
<1>13. QED
  BY <1>1, <1>2, <1>3, <1>4, <1>5, <1>6, <1>7, <1>8, <1>10, <1>11, <1>12
     DEF Next, StreamingStep, WorkerStep, TriggerStep

\* What the worker, a trigger and the clock leave alone.
LEMMA StreamingOnly ==
    ASSUME WorkerStep \/ TriggerStep \/ SessionExpires
           \/ (\E k \in TriggerKinds, m \in Modes : StartTrigger(k, m))
    PROVE  UNCHANGED <<rpc, local, pendingNewSession, writerFresh, phase>>
<1> USE DEF sink, streaming, worker, locks, triggering
<1>1. CASE WorkerStep
  BY <1>1 DEF WorkerStep, WorkerRecv, WorkerEnds, LockForReset, ResetSession,
     ClearFlag, LockForPut, PutSucceeds, PutFails, CheckRecovery, FallBack,
     FallBackDuration, SpawnRecovery, LockForBuffer, PushFragment
<1>2. CASE TriggerStep
  BY <1>2 DEF TriggerStep, TriggerLocksBuffer, NextBuffered,
     TriggerLocksUploader, TriggerPuts, TriggerReturns, TriggerFails, RecoveryClearsHandle,
     ProcessEvents
<1>3. QED
  BY <1>1, <1>2 DEF SessionExpires, StartTrigger

\* Only the streaming thread and stop() move render_buffer().
LEMMA StreamingTypeStep ==
    ASSUME SinkType, StreamingType, [Next]_vars
    PROVE  StreamingType'
<1> USE DEF StreamingType, streaming, StreamingPc
<1>1. CASE WorkerStep \/ TriggerStep \/ SessionExpires
           \/ (\E k \in TriggerKinds, m \in Modes : StartTrigger(k, m))
  BY <1>1, StreamingOnly
<1>2. CASE \/ (\E m \in Modes : Start(m)) \/ FirstKeyframe \/ StopCancelsRecovery
           \/ StopClosesQueue \/ AbortWorker \/ UNCHANGED vars
  BY <1>2 DEF Start, FirstKeyframe, StopCancelsRecovery, StopClosesQueue,
     AbortWorker, vars
<1>3. CASE ApplySwitch \/ BeginSessionReset \/ StopResets
  BY <1>3 DEF ApplySwitch, BeginSessionReset, StopResets
<1>4. CASE FinalizeFails \/ SkipSwitch \/ SetDuration
  BY <1>4, NoLocalsType DEF FinalizeFails, SkipSwitch, SetDuration
<1>5. CASE CheckExpiry
  <2>1. local' \in Locals
    BY <1>5, NoLocalsType DEF CheckExpiry, Locals
  <2>2. QED
    BY <1>5, <2>1 DEF CheckExpiry
<1>6. CASE Eos
  <2>1. local' \in Locals
    BY <1>6, NoLocalsType DEF Eos, Locals, SinkType
  <2>2. QED
    BY <1>6, <2>1 DEF Eos
<1>7. CASE LoadFlags
  <2>1. local' \in Locals
    BY <1>7 DEF LoadFlags, Locals, SinkType
  <2>2. QED
    BY <1>7, <2>1 DEF LoadFlags
<1>8. CASE CaptureMode
  <2>1. local' \in Locals
    BY <1>8 DEF CaptureMode, Locals, SinkType
  <2>2. QED
    BY <1>8, <2>1 DEF CaptureMode
<1>9. CASE FinalizeFragment
  <2>1. PICK marked \in BOOLEAN :
          local' = [local EXCEPT !.startsNewSession = pendingNewSession,
                                 !.marked = marked]
    BY <1>9 DEF FinalizeFragment
  <2>2. local' \in Locals
    BY <2>1 DEF Locals, SinkType
  <2>3. QED
    BY <1>9, <2>2 DEF FinalizeFragment
<1>10. CASE TrySend \/ RearmTag
  <2>1. local' \in Locals
    BY <1>10 DEF TrySend, Enqueue, RearmTag, Locals
  <2>2. QED
    BY <1>10, <2>1 DEF TrySend, Enqueue, RearmTag
<1>11. QED
  BY <1>1, <1>2, <1>3, <1>4, <1>5, <1>6, <1>7, <1>8, <1>9, <1>10
     DEF Next, StreamingStep

\* Only try_send() adds to the queue, and it finds room first.
LEMMA QueueTypeStep ==
    ASSUME TypeOK, QueueType, [Next]_vars
    PROVE  QueueType'
<1> USE DEF QueueType
<1>1. CASE TrySend
  <2>1. CASE HasRoom
    <3> DEFINE e == [mode |-> local.mode, startsNewSession |-> local.startsNewSession,
                     first |-> writerFresh, marked |-> local.marked]
    <3>1. e \in UploadItem
      BY EnqueuedItem
    <3>2. queue' = Append(queue, e)
      BY <1>1, <2>1 DEF TrySend, Enqueue
    <3> HIDE DEF e
    <3>3. QED
      BY <2>1, <3>1, <3>2, CapacityAssumption DEF HasRoom
  <2>2. CASE ~HasRoom
    BY <1>1, <2>2 DEF TrySend
  <2>3. QED
    BY <2>1, <2>2
<1>2. CASE WorkerRecv
  BY <1>2, CapacityAssumption DEF WorkerRecv
<1>3. CASE AbortWorker
  BY <1>3, CapacityAssumption DEF AbortWorker
<1>4. CASE \/ SessionExpires \/ FirstKeyframe \/ CheckExpiry \/ Eos
           \/ FinalizeFails \/ LoadFlags \/ CaptureMode \/ SkipSwitch
           \/ ApplySwitch \/ SetDuration \/ FinalizeFragment \/ RearmTag
           \/ BeginSessionReset \/ (\E m \in Modes : Start(m))
  <2>1. UNCHANGED queue
    BY <1>4 DEF SessionExpires, FirstKeyframe, CheckExpiry, Eos, FinalizeFails,
       LoadFlags, CaptureMode, SkipSwitch, ApplySwitch, SetDuration,
       FinalizeFragment, RearmTag, BeginSessionReset, Start
  <2>2. QED
    BY <2>1
<1>5. CASE \/ WorkerEnds \/ LockForReset \/ ClearFlag \/ LockForPut \/ PutSucceeds
           \/ (\E b \in BOOLEAN : ResetSession(b) \/ PutFails(b) \/ PushFragment(b))
           \/ CheckRecovery \/ FallBack \/ FallBackDuration \/ SpawnRecovery
           \/ LockForBuffer
  <2>1. UNCHANGED queue
    BY <1>5 DEF WorkerEnds, LockForReset, ResetSession, ClearFlag, LockForPut,
       PutSucceeds, PutFails, CheckRecovery, FallBack, FallBackDuration,
       SpawnRecovery, LockForBuffer, PushFragment
  <2>2. QED
    BY <2>1
<1>6. CASE \/ TriggerStep
           \/ (\E k \in TriggerKinds, m \in Modes : StartTrigger(k, m))
           \/ StopCancelsRecovery \/ StopClosesQueue \/ StopResets
           \/ UNCHANGED vars
  <2>1. UNCHANGED queue
    BY <1>6 DEF TriggerStep, StartTrigger, TriggerLocksBuffer, NextBuffered,
       TriggerLocksUploader, TriggerPuts, TriggerReturns, TriggerFails, RecoveryClearsHandle,
       ProcessEvents, StopCancelsRecovery, StopClosesQueue, StopResets, vars
  <2>2. QED
    BY <2>1
<1>7. QED
  BY <1>1, <1>2, <1>3, <1>4, <1>5, <1>6 DEF Next, StreamingStep, WorkerStep

\* The worker, start() and the abort in stop() move the worker.
LEMMA WorkerTypeStep ==
    ASSUME QueueType, WorkerType, [Next]_vars
    PROVE  WorkerType'
<1> USE DEF WorkerType, worker
<1>1. CASE WorkerRecv
  <2>1. Head(queue) \in UploadItem
    BY <1>1 DEF WorkerRecv, QueueType
  <2>2. item' = Head(queue) /\ wpc' \in {"resetLock", "putLock", "bufferLock"}
    BY <1>1 DEF WorkerRecv, Dispatch
  <2>3. QED
    BY <2>1, <2>2 DEF WorkerPc
<1>2. CASE \/ (\E m \in Modes : Start(m)) \/ WorkerEnds \/ LockForReset
           \/ (\E b \in BOOLEAN : ResetSession(b) \/ PutFails(b)) \/ ClearFlag
           \/ LockForPut \/ CheckRecovery \/ FallBack \/ FallBackDuration
           \/ SpawnRecovery \/ LockForBuffer
  <2>1. item' = item /\ wpc' \in WorkerPc
    BY <1>2 DEF Start, WorkerEnds, LockForReset, ResetSession, PutFails,
       AfterFailedPut, ClearFlag, Dispatch, LockForPut, CheckRecovery, FallBack,
       FallBackDuration, SpawnRecovery, LockForBuffer, WorkerPc
  <2>2. QED
    BY <2>1
<1>3. CASE PutSucceeds \/ (\E b \in BOOLEAN : PushFragment(b)) \/ AbortWorker
  <2>1. item' = NoItem /\ wpc' \in {"recv", "done"}
    BY <1>3 DEF PutSucceeds, PushFragment, AbortWorker
  <2>2. QED
    BY <2>1, NoItemType DEF WorkerPc
<1>4. CASE \/ SessionExpires \/ FirstKeyframe \/ CheckExpiry \/ Eos
           \/ FinalizeFails \/ StreamingStep
  <2>1. UNCHANGED worker
    BY <1>4 DEF SessionExpires, FirstKeyframe, CheckExpiry, Eos, FinalizeFails,
       StreamingStep, LoadFlags, CaptureMode, FinalizeFragment, TrySend, Enqueue,
       RearmTag, SkipSwitch, ApplySwitch, SetDuration, BeginSessionReset
  <2>2. QED
    BY <2>1
<1>5. CASE \/ TriggerStep
           \/ (\E k \in TriggerKinds, m \in Modes : StartTrigger(k, m))
           \/ StopCancelsRecovery \/ StopClosesQueue \/ StopResets
           \/ UNCHANGED vars
  <2>1. UNCHANGED worker
    BY <1>5 DEF TriggerStep, StartTrigger, TriggerLocksBuffer, NextBuffered,
       TriggerLocksUploader, TriggerPuts, TriggerReturns, TriggerFails, RecoveryClearsHandle,
       ProcessEvents, StopCancelsRecovery, StopClosesQueue, StopResets, vars
  <2>2. QED
    BY <2>1
<1>6. QED
  BY <1>1, <1>2, <1>3, <1>4, <1>5 DEF Next, WorkerStep

\* The two mutexes and the age of the session.
LEMMA LocksTypeStep ==
    ASSUME LocksType, [Next]_vars
    PROVE  LocksType'
<1> USE DEF LocksType, locks
<1>1. CASE WorkerStep
  BY <1>1 DEF WorkerStep, WorkerRecv, WorkerEnds, LockForReset, ResetSession,
     ClearFlag, LockForPut, PutSucceeds, PutFails, CheckRecovery, FallBack,
     FallBackDuration, SpawnRecovery, LockForBuffer, PushFragment
<1>2. CASE \/ TriggerStep
           \/ (\E k \in TriggerKinds, m \in Modes : StartTrigger(k, m))
  BY <1>2 DEF TriggerStep, StartTrigger, TriggerLocksBuffer, NextBuffered,
     TriggerLocksUploader, TriggerPuts, TriggerReturns, TriggerFails, RecoveryClearsHandle,
     ProcessEvents
<1>3. CASE \/ SessionExpires \/ FirstKeyframe \/ CheckExpiry \/ Eos
           \/ FinalizeFails \/ StreamingStep
  BY <1>3 DEF SessionExpires, FirstKeyframe, CheckExpiry, Eos, FinalizeFails,
     StreamingStep, LoadFlags, CaptureMode, FinalizeFragment, TrySend, Enqueue,
     RearmTag, SkipSwitch, ApplySwitch, SetDuration, BeginSessionReset
<1>4. CASE \/ (\E m \in Modes : Start(m)) \/ StopCancelsRecovery
           \/ StopClosesQueue \/ AbortWorker \/ StopResets \/ UNCHANGED vars
  BY <1>4 DEF Start, StopCancelsRecovery, StopClosesQueue, AbortWorker, StopResets,
     vars
<1>5. QED
  BY <1>1, <1>2, <1>3, <1>4 DEF Next

\* A trigger moves itself; stop() may abort the recovery task.
LEMMA TriggerTypeStep ==
    ASSUME TriggerType, [Next]_vars
    PROVE  TriggerType'
<1> USE DEF TriggerType, triggering
<1>1. CASE \E k \in TriggerKinds, m \in Modes : StartTrigger(k, m)
  <2>1. PICK k \in TriggerKinds, m \in Modes : StartTrigger(k, m)
    BY <1>1
  <2>2. k \in Kinds
    BY BoundsAssumption DEF Kinds
  <2>3. trigger' \in [kind : Kinds, target : Modes] /\ triggers' \in 0..MaxTriggers
    BY <2>1, <2>2, MaxTriggersAssumption DEF StartTrigger
  <2>4. QED
    BY <2>1, <2>3 DEF StartTrigger, TriggerPc
<1>2. CASE TriggerStep \/ StopCancelsRecovery
  <2>1. tpc' \in TriggerPc /\ UNCHANGED <<trigger, triggers>>
    BY <1>2 DEF TriggerStep, TriggerLocksBuffer, NextBuffered,
       TriggerLocksUploader, TriggerPuts, TriggerReturns, TriggerFails, RecoveryClearsHandle,
       ProcessEvents, StopCancelsRecovery, TriggerPc
  <2>2. QED
    BY <2>1
<1>3. CASE WorkerStep \/ AbortWorker
  <2>1. UNCHANGED triggering
    BY <1>3 DEF WorkerStep, WorkerRecv, WorkerEnds, LockForReset, ResetSession,
       ClearFlag, LockForPut, PutSucceeds, PutFails, CheckRecovery, FallBack,
       FallBackDuration, SpawnRecovery, LockForBuffer, PushFragment, AbortWorker
  <2>2. QED
    BY <2>1
<1>4. CASE \/ SessionExpires \/ FirstKeyframe \/ CheckExpiry \/ Eos
           \/ FinalizeFails \/ StreamingStep \/ (\E m \in Modes : Start(m))
           \/ StopClosesQueue \/ StopResets \/ UNCHANGED vars
  <2>1. UNCHANGED triggering
    BY <1>4 DEF SessionExpires, FirstKeyframe, CheckExpiry, Eos, FinalizeFails,
       StreamingStep, LoadFlags, CaptureMode, FinalizeFragment, TrySend, Enqueue,
       RearmTag, SkipSwitch, ApplySwitch, SetDuration, BeginSessionReset, Start,
       StopClosesQueue, StopResets, vars
  <2>2. QED
    BY <2>1
<1>5. QED
  BY <1>1, <1>2, <1>3, <1>4 DEF Next

\* The freshness of the writer, and the fate that is followed.
LEMMA GhostTypeStep ==
    ASSUME GhostType, [Next]_vars
    PROVE  GhostType'
<1> USE DEF GhostType
<1>1. CASE WorkerStep \/ AbortWorker
  BY <1>1 DEF WorkerStep, WorkerRecv, WorkerEnds, LockForReset, ResetSession,
     ClearFlag, LockForPut, PutSucceeds, PutFails, CheckRecovery, FallBack,
     FallBackDuration, SpawnRecovery, LockForBuffer, PushFragment, AbortWorker, Settle
<1>2. CASE StreamingStep
  BY <1>2 DEF StreamingStep, LoadFlags, CaptureMode, FinalizeFragment, TrySend,
     Enqueue, RearmTag, SkipSwitch, ApplySwitch, SetDuration, BeginSessionReset, Settle
<1>3. CASE \/ SessionExpires \/ FirstKeyframe \/ CheckExpiry \/ Eos
           \/ FinalizeFails \/ (\E m \in Modes : Start(m))
           \/ StopCancelsRecovery \/ StopClosesQueue \/ StopResets \/ UNCHANGED vars
  BY <1>3 DEF SessionExpires, FirstKeyframe, CheckExpiry, Eos, FinalizeFails,
     Start, StopCancelsRecovery, StopClosesQueue, StopResets, vars
<1>4. CASE \/ TriggerStep
           \/ (\E k \in TriggerKinds, m \in Modes : StartTrigger(k, m))
  BY <1>4 DEF TriggerStep, StartTrigger, TriggerLocksBuffer, NextBuffered,
     TriggerLocksUploader, TriggerPuts, TriggerReturns, TriggerFails, RecoveryClearsHandle,
     ProcessEvents
<1>5. QED
  BY <1>1, <1>2, <1>3, <1>4 DEF Next

\* Every step of every process keeps the types; the queue never overflows.
LEMMA TypeStep == TypeOK /\ SwitchKnown /\ [Next]_vars => TypeOK'
<1> SUFFICES ASSUME TypeOK, SwitchKnown, [Next]_vars PROVE TypeOK'
  OBVIOUS
<1>1. /\ SinkType /\ StreamingType /\ QueueType /\ WorkerType
      /\ LocksType /\ TriggerType /\ GhostType
  BY TypeGroups
<1>2. /\ SinkType' /\ StreamingType' /\ QueueType' /\ WorkerType'
      /\ LocksType' /\ TriggerType' /\ GhostType'
  BY <1>1, SinkTypeStep, StreamingTypeStep, QueueTypeStep, WorkerTypeStep,
     LocksTypeStep, TriggerTypeStep, GhostTypeStep
<1>3. QED
  BY <1>2 DEF TypeOK, SinkType, StreamingType, QueueType, WorkerType, LocksType,
     TriggerType, GhostType

-----------------------------------------------------------------------------
(* The session reset.                                                      *)

\* render_buffer() runs only in a running element: stop() comes after it.
RenderRuns == rpc \notin {"idle", "ended"} => phase = "running"

\* start() gets a flag that no earlier run has set.
FlagOfRun == phase \in {"new", "stopped"} => ~sessionResetInFlight

\* Once the tag is taken for a fragment it is nowhere else.
TagTaken == rpc \in {"finalized", "full"} => ~pendingNewSession

\* A reset writer that has nothing queued yet and the tag go together.
FreshMatchesTag ==
    writerFresh <=> \/ pendingNewSession
                    \/ rpc \in {"finalized", "full"} /\ local.startsNewSession

IInv == /\ TypeOK /\ SwitchKnown /\ RenderRuns /\ FlagOfRun /\ TagTaken
        /\ FreshMatchesTag /\ TagConserved /\ SessionsAligned

\* The streaming thread's own bookkeeping: what holds at each of its positions.
LEMMA StreamingStepInv ==
    ASSUME IInv, [Next]_vars
    PROVE  (SwitchKnown /\ RenderRuns /\ TagTaken /\ FreshMatchesTag)'
<1> USE DEF sink, streaming, SwitchKnown, RenderRuns, TagTaken, FreshMatchesTag
<1> USE DEF IInv
<1>1. CASE WorkerStep \/ TriggerStep \/ SessionExpires
           \/ (\E k \in TriggerKinds, m \in Modes : StartTrigger(k, m))
  BY <1>1, StreamingOnly
<1>2. CASE (\E m \in Modes : Start(m)) \/ FirstKeyframe
  BY <1>2 DEF Start, FirstKeyframe
<1>3. CASE CheckExpiry \/ Eos \/ FinalizeFails \/ LoadFlags \/ CaptureMode
  BY <1>3 DEF CheckExpiry, Eos, FinalizeFails, LoadFlags, CaptureMode
<1>4. CASE FinalizeFragment
  BY <1>4 DEF FinalizeFragment, TagAfterTake, TypeOK, Locals
<1>5. CASE TrySend
  BY <1>5 DEF TrySend, Enqueue, TypeOK, Locals
<1>6. CASE RearmTag
  BY <1>6 DEF RearmTag, TagAfterDrop, TypeOK, Locals
<1>7. CASE SkipSwitch \/ ApplySwitch \/ SetDuration \/ BeginSessionReset
  BY <1>7 DEF SkipSwitch, ApplySwitch, SetDuration, BeginSessionReset
<1>8. CASE StopCancelsRecovery \/ StopClosesQueue \/ AbortWorker \/ StopResets
  BY <1>8 DEF StopCancelsRecovery, StopClosesQueue, AbortWorker, StopResets
<1>9. CASE UNCHANGED vars
  BY <1>9 DEF vars
<1>10. QED
  BY <1>1, <1>2, <1>3, <1>4, <1>5, <1>6, <1>7, <1>8, <1>9 DEF Next, StreamingStep

\* The flag is raised by a running element and lowered before start().
LEMMA FlagOfRunStep == IInv /\ [Next]_vars => FlagOfRun'
<1> SUFFICES ASSUME IInv, [Next]_vars PROVE FlagOfRun'
  OBVIOUS
<1> USE DEF sink, streaming, IInv, FlagOfRun
<1>1. CASE WorkerStep \/ TriggerStep \/ SessionExpires
           \/ (\E k \in TriggerKinds, m \in Modes : StartTrigger(k, m))
  <2>1. sessionResetInFlight' = sessionResetInFlight \/ sessionResetInFlight' = FALSE
    BY <1>1 DEF SessionExpires, StartTrigger, WorkerStep, WorkerRecv, WorkerEnds,
       LockForReset, ResetSession, ClearFlag, FlagAfterReset, LockForPut,
       PutSucceeds, PutFails, CheckRecovery, FallBack, FallBackDuration,
       SpawnRecovery, LockForBuffer, PushFragment, TriggerStep,
       TriggerLocksBuffer, NextBuffered, TriggerLocksUploader, TriggerPuts,
       TriggerReturns, TriggerFails, RecoveryClearsHandle, ProcessEvents
  <2>2. QED
    BY <1>1, <2>1, StreamingOnly
<1>2. CASE BeginSessionReset
  BY <1>2 DEF BeginSessionReset, RenderRuns
<1>3. CASE \/ (\E m \in Modes : Start(m)) \/ FirstKeyframe \/ CheckExpiry \/ Eos
           \/ FinalizeFails \/ LoadFlags \/ CaptureMode \/ FinalizeFragment
           \/ TrySend \/ RearmTag \/ SkipSwitch \/ ApplySwitch \/ SetDuration
  BY <1>3 DEF Start, FirstKeyframe, CheckExpiry, Eos, FinalizeFails, LoadFlags,
     CaptureMode, FinalizeFragment, TrySend, Enqueue, RearmTag, SkipSwitch,
     ApplySwitch, SetDuration
<1>4. CASE StopCancelsRecovery \/ StopClosesQueue \/ AbortWorker \/ StopResets
  BY <1>4 DEF StopCancelsRecovery, StopClosesQueue, AbortWorker, StopResets
<1>5. CASE UNCHANGED vars
  BY <1>5 DEF vars
<1>6. QED
  BY <1>1, <1>2, <1>3, <1>4, <1>5 DEF Next, StreamingStep

\* What happens to the tags in the queue when an item is appended or taken.
LEMMA QueueTags ==
    ASSUME queue \in Seq(UploadItem)
    PROVE  /\ \A e \in UploadItem :
                /\ Append(queue, e) \in Seq(UploadItem)
                /\ DOMAIN Append(queue, e) = DOMAIN queue \cup {Len(queue) + 1}
                /\ Append(queue, e)[Len(queue) + 1] = e
                /\ \A i \in DOMAIN queue : Append(queue, e)[i] = queue[i]
           /\ queue # <<>> =>
                /\ Head(queue) = queue[1] /\ Head(queue) \in UploadItem
                /\ 1 \in DOMAIN queue
                /\ \A i \in DOMAIN Tail(queue) :
                     i + 1 \in DOMAIN queue /\ Tail(queue)[i] = queue[i + 1]
                /\ \A i \in DOMAIN queue :
                     i # 1 => /\ i - 1 \in DOMAIN Tail(queue)
                              /\ Tail(queue)[i - 1] = queue[i]
  OBVIOUS

\* A raised flag keeps its tag through finalization, drop, queue and worker.
LEMMA TagConservedStep == IInv /\ [Next]_vars => TagConserved'
<1> SUFFICES ASSUME IInv, [Next]_vars, sessionResetInFlight', wpc' # "done"
             PROVE  TagUnderway'
  BY DEF TagConserved
<1> USE DEF sink, streaming, worker, IInv, TagConserved, TagUnderway
<1>q. queue \in Seq(UploadItem)
  BY DEF TypeOK
<1>1. CASE \E m \in Modes : Start(m)
  BY <1>1 DEF Start, FlagOfRun
<1>2. CASE \/ SessionExpires \/ FirstKeyframe \/ CheckExpiry \/ Eos
           \/ FinalizeFails \/ LoadFlags \/ CaptureMode \/ SkipSwitch
           \/ ApplySwitch \/ SetDuration \/ StopCancelsRecovery
           \/ StopClosesQueue \/ StopResets
  BY <1>2 DEF SessionExpires, FirstKeyframe, CheckExpiry, Eos, FinalizeFails,
     LoadFlags, CaptureMode, SkipSwitch, ApplySwitch, SetDuration,
     StopCancelsRecovery, StopClosesQueue, StopResets
<1>3. CASE FinalizeFragment
  BY <1>3 DEF FinalizeFragment, TypeOK, Locals
<1>4. CASE TrySend
  <2>1. CASE HasRoom
    <3> DEFINE e == [mode |-> local.mode, marked |-> local.marked,
                     startsNewSession |-> local.startsNewSession,
                     first |-> writerFresh]
    <3>1. e \in UploadItem /\ e.startsNewSession = local.startsNewSession
      BY EnqueuedItem
    <3>2. /\ queue' = Append(queue, e) /\ rpc = "finalized" /\ wpc' = wpc
          /\ pendingNewSession' = pendingNewSession
          /\ sessionResetInFlight' = sessionResetInFlight
      BY <1>4, <2>1 DEF TrySend, Enqueue
    <3>3. QED
      BY <1>q, <3>1, <3>2, QueueTags
  <2>2. CASE ~HasRoom
    BY <1>4, <2>2 DEF TrySend
  <2>3. QED
    BY <2>1, <2>2
<1>5. CASE RearmTag
  BY <1>5 DEF RearmTag, TagAfterDrop
<1>6. CASE BeginSessionReset
  BY <1>6 DEF BeginSessionReset
<1>7. CASE WorkerRecv
  <2>1. /\ queue # <<>> /\ queue' = Tail(queue) /\ rpc' = rpc /\ local' = local
        /\ pendingNewSession' = pendingNewSession
        /\ sessionResetInFlight' = sessionResetInFlight
        /\ wpc = "recv"
        /\ Head(queue).startsNewSession => wpc' = "resetLock"
    BY <1>7 DEF WorkerRecv
  <2>2. CASE Head(queue).startsNewSession
    BY <2>1, <2>2
  <2>3. CASE ~Head(queue).startsNewSession /\ \E i \in DOMAIN queue : queue[i].startsNewSession
    <3>1. PICK i \in DOMAIN queue : queue[i].startsNewSession
      BY <2>3
    <3>2. i # 1
      BY <1>q, <2>1, <2>3, <3>1, QueueTags
    <3>3. i - 1 \in DOMAIN Tail(queue) /\ Tail(queue)[i - 1].startsNewSession
      BY <1>q, <2>1, <3>1, <3>2, QueueTags
    <3>4. QED
      BY <2>1, <3>3
  <2>4. CASE ~\E i \in DOMAIN queue : queue[i].startsNewSession
    BY <2>1, <2>4
  <2>5. QED
    BY <1>q, <2>1, <2>2, <2>3, <2>4, QueueTags
<1>8. CASE ClearFlag
  BY <1>8 DEF ClearFlag, FlagAfterReset
<1>9. CASE WorkerEnds \/ LockForReset \/ (\E b \in BOOLEAN : ResetSession(b))
  BY <1>9 DEF WorkerEnds, LockForReset, ResetSession
<1>10. CASE \/ LockForPut \/ PutSucceeds \/ (\E b \in BOOLEAN : PutFails(b))
            \/ CheckRecovery \/ FallBack \/ FallBackDuration \/ SpawnRecovery
            \/ LockForBuffer \/ (\E b \in BOOLEAN : PushFragment(b))
  BY <1>10 DEF LockForPut, PutSucceeds, PutFails, CheckRecovery, FallBack,
     FallBackDuration, SpawnRecovery, LockForBuffer, PushFragment
<1>11. CASE \/ TriggerStep
            \/ (\E k \in TriggerKinds, m \in Modes : StartTrigger(k, m))
  BY <1>11 DEF TriggerStep, StartTrigger, TriggerLocksBuffer, NextBuffered,
     TriggerLocksUploader, TriggerPuts, TriggerReturns, TriggerFails, RecoveryClearsHandle,
     ProcessEvents
<1>12. CASE AbortWorker
  BY <1>12 DEF AbortWorker
<1>13. CASE UNCHANGED vars
  BY <1>13 DEF vars
<1>14. QED
  BY <1>1, <1>2, <1>3, <1>4, <1>5, <1>6, <1>7, <1>8, <1>9, <1>10, <1>11,
     <1>12, <1>13 DEF Next, StreamingStep, WorkerStep

\* Tag and start of the MKV session stay on one fragment, also across drops.
LEMMA SessionsAlignedStep == IInv /\ [Next]_vars => SessionsAligned'
<1> SUFFICES ASSUME IInv, [Next]_vars PROVE SessionsAligned'
  OBVIOUS
<1> USE DEF sink, streaming, worker, IInv, SessionsAligned
<1>q. queue \in Seq(UploadItem)
  BY DEF TypeOK
<1>1. CASE TrySend
  <2>1. CASE HasRoom
    <3> DEFINE e == [mode |-> local.mode, startsNewSession |-> local.startsNewSession,
                     first |-> writerFresh, marked |-> local.marked]
    <3>1. e \in UploadItem
      BY EnqueuedItem
    <3>2. e.startsNewSession <=> e.first
      BY <1>1 DEF TrySend, TagTaken, FreshMatchesTag, TypeOK, Locals
    <3>3. queue' = Append(queue, e)
      BY <1>1, <2>1 DEF TrySend, Enqueue
    <3>4. QED
      BY <1>q, <3>1, <3>2, <3>3, QueueTags
  <2>2. CASE ~HasRoom
    BY <1>1, <2>2 DEF TrySend
  <2>3. QED
    BY <2>1, <2>2
<1>2. CASE WorkerRecv
  <2>1. queue # <<>> /\ queue' = Tail(queue)
    BY <1>2 DEF WorkerRecv
  <2>2. QED
    BY <1>q, <2>1, QueueTags
<1>3. CASE AbortWorker
  BY <1>3 DEF AbortWorker
<1>4. CASE \/ SessionExpires \/ FirstKeyframe \/ CheckExpiry \/ Eos
           \/ FinalizeFails \/ LoadFlags \/ CaptureMode \/ SkipSwitch
           \/ ApplySwitch \/ SetDuration \/ StopCancelsRecovery
           \/ StopClosesQueue \/ StopResets \/ FinalizeFragment \/ RearmTag
           \/ BeginSessionReset \/ (\E m \in Modes : Start(m))
  BY <1>4 DEF SessionExpires, FirstKeyframe, CheckExpiry, Eos, FinalizeFails,
     LoadFlags, CaptureMode, SkipSwitch, ApplySwitch, SetDuration,
     StopCancelsRecovery, StopClosesQueue, StopResets, FinalizeFragment,
     RearmTag, BeginSessionReset, Start
<1>5. CASE \/ WorkerEnds \/ LockForReset \/ (\E b \in BOOLEAN : ResetSession(b))
           \/ ClearFlag \/ LockForPut \/ PutSucceeds
           \/ (\E b \in BOOLEAN : PutFails(b)) \/ CheckRecovery \/ FallBack
           \/ FallBackDuration \/ SpawnRecovery \/ LockForBuffer
           \/ (\E b \in BOOLEAN : PushFragment(b))
  BY <1>5 DEF WorkerEnds, LockForReset, ResetSession, ClearFlag, LockForPut,
     PutSucceeds, PutFails, CheckRecovery, FallBack, FallBackDuration,
     SpawnRecovery, LockForBuffer, PushFragment
<1>6. CASE \/ TriggerStep
           \/ (\E k \in TriggerKinds, m \in Modes : StartTrigger(k, m))
  BY <1>6 DEF TriggerStep, StartTrigger, TriggerLocksBuffer, NextBuffered,
     TriggerLocksUploader, TriggerPuts, TriggerReturns, TriggerFails, RecoveryClearsHandle,
     ProcessEvents
<1>7. CASE UNCHANGED vars
  BY <1>7 DEF vars
<1>8. QED
  BY <1>1, <1>2, <1>3, <1>4, <1>5, <1>6, <1>7 DEF Next, StreamingStep, WorkerStep

\* The inductive invariant holds when the element is created.
LEMMA InitIInv == Init => IInv
<1>1. Init => TypeOK
  <2>1. NoItem \in UploadItem
    BY DEF NoItem, UploadItem, Modes
  <2>2. <<>> \in Seq(UploadItem) /\ Len(<<>>) <= Capacity /\ 0 \in 0..MaxTriggers
    BY CapacityAssumption, MaxTriggersAssumption
  <2>3. [kind |-> "signal", target |-> "Immediate"] \in [kind : Kinds, target : Modes]
    BY DEF Kinds, Modes
  <2>4. "BufferOnly" \in Modes
    BY DEF Modes
  <2>5. QED
    BY NoLocalsType, <2>1, <2>2, <2>3, <2>4
    DEF Init, TypeOK, Phases, StreamingPc, WorkerPc, TriggerPc
<1>2. QED
  BY <1>1 DEF Init, IInv, SwitchKnown, RenderRuns, FlagOfRun, TagTaken,
     FreshMatchesTag, TagConserved, SessionsAligned

\* Every step of every process keeps it.
LEMMA IInvStep == IInv /\ [Next]_vars => IInv'
  BY TypeStep, StreamingStepInv, FlagOfRunStep, TagConservedStep,
     SessionsAlignedStep DEF IInv

(***************************************************************************)
(* Types, tag and session boundaries hold together in every state of every *)
(* behaviour: each of them needs the others to survive a step.             *)
(***************************************************************************)
THEOREM Invariance == Spec => []IInv
  BY InitIInv, IInvStep, PTL DEF Spec

\* Every variable keeps its type; the queue never holds more than its capacity.
THEOREM TypeCorrect == Spec => []TypeOK
<1>1. IInv => TypeOK
  BY DEF IInv
<1>2. QED
  BY <1>1, Invariance, PTL

(***************************************************************************)
(* For every queue length: the flag that suppresses proactive resets is    *)
(* never up without a tag underway that gets it cleared.                   *)
(***************************************************************************)
THEOREM TagNeverLost == Spec => []TagConserved
<1>1. IInv => TagConserved
  BY DEF IInv
<1>2. QED
  BY <1>1, Invariance, PTL

(***************************************************************************)
(* For every queue length: the fragments that ask for a new KVS session    *)
(* are those that start a new MKV session.                                 *)
(***************************************************************************)
THEOREM SessionBoundariesAgree == Spec => []SessionsAligned
<1>1. IInv => SessionsAligned
  BY DEF IInv
<1>2. QED
  BY <1>1, Invariance, PTL

-----------------------------------------------------------------------------
(* The fate of a fragment: SessionHandoff implements FragmentFate.         *)

MarkInLocals == rpc \in {"finalized", "full"} /\ local.marked
MarkInQueue == \E i \in DOMAIN queue : queue[i].marked
MarkAtWorker == wpc \notin {"recv", "done"} /\ item.marked

(***************************************************************************)
(* The mark is in one place, exactly while the fragment is travelling.     *)
(***************************************************************************)
MarkInv ==
    /\ phase \in {"new", "stopped"} => wpc = "done"
    /\ local.marked => rpc \in {"finalized", "full"}
    /\ item.marked => wpc \notin {"recv", "done"}
    /\ MarkInLocals => ~MarkInQueue /\ ~MarkAtWorker
    /\ MarkInQueue => ~MarkAtWorker
    /\ \A i, j \in DOMAIN queue : queue[i].marked /\ queue[j].marked => i = j
    /\ probe = "travelling" <=> MarkInLocals \/ MarkInQueue \/ MarkAtWorker

FInv == IInv /\ MarkInv

\* Every step keeps the mark in one place, or settles it.
LEMMA MarkStep == FInv /\ [Next]_vars => MarkInv'
<1> SUFFICES ASSUME FInv, [Next]_vars PROVE MarkInv'
  OBVIOUS
<1> USE DEF sink, streaming, worker, FInv, MarkInv, MarkInLocals, MarkInQueue,
            MarkAtWorker
<1>q. queue \in Seq(UploadItem) /\ item \in UploadItem /\ local \in Locals
  BY DEF IInv, TypeOK
<1>1. CASE \/ SessionExpires \/ FirstKeyframe \/ ApplySwitch
           \/ BeginSessionReset \/ StopCancelsRecovery \/ StopClosesQueue
  <2>1. /\ phase' = phase \/ phase' \notin {"new", "stopped"}
        /\ UNCHANGED <<local, item, queue, wpc, probe>>
        /\ rpc' = rpc \/ {rpc, rpc'} \cap {"finalized", "full"} = {}
    BY <1>1 DEF SessionExpires, FirstKeyframe, ApplySwitch, BeginSessionReset,
       StopCancelsRecovery, StopClosesQueue
  <2>2. QED
    BY <2>1
<1>2. CASE \/ CheckExpiry \/ Eos \/ FinalizeFails \/ SkipSwitch \/ SetDuration
  <2>1. local'.marked = FALSE
    <3>1. CASE CheckExpiry
      BY <3>1 DEF CheckExpiry, NoLocals
    <3>2. CASE Eos
      BY <3>2 DEF Eos, NoLocals
    <3>3. CASE FinalizeFails \/ SkipSwitch \/ SetDuration
      BY <3>3 DEF FinalizeFails, SkipSwitch, SetDuration, NoLocals
    <3>4. QED
      BY <1>2, <3>1, <3>2, <3>3
  <2>2. /\ UNCHANGED <<phase, item, queue, wpc, probe>>
        /\ rpc \notin {"finalized", "full"} /\ rpc' \notin {"finalized", "full"}
    BY <1>2 DEF CheckExpiry, Eos, FinalizeFails, SkipSwitch, SetDuration
  <2>3. QED
    BY <2>1, <2>2
<1>3. CASE LoadFlags \/ CaptureMode
  <2>1. local'.marked = local.marked
    BY <1>3, <1>q DEF LoadFlags, CaptureMode, Locals
  <2>2. QED
    BY <1>3, <2>1 DEF LoadFlags, CaptureMode
<1>4. CASE FinalizeFragment
  <2>1. PICK marked \in {m \in BOOLEAN : m => Track /\ probe = "unmarked"} :
          /\ local' = [local EXCEPT !.startsNewSession = pendingNewSession,
                                    !.marked = marked]
          /\ probe' = IF marked THEN "travelling" ELSE probe
    BY <1>4 DEF FinalizeFragment
  <2>2. local'.marked = marked
    BY <2>1, <1>q DEF Locals
  <2>3. QED
    BY <1>4, <2>1, <2>2 DEF FinalizeFragment
<1>5. CASE TrySend
  <2>1. CASE HasRoom
    <3> DEFINE e == [mode |-> local.mode, startsNewSession |-> local.startsNewSession,
                     first |-> writerFresh, marked |-> local.marked]
    <3>1. e \in UploadItem /\ e.marked = local.marked
      BY EnqueuedItem DEF IInv
    <3>2. queue' = Append(queue, e) /\ rpc = "finalized" /\ rpc' = "sent"
          /\ wpc' = wpc /\ item' = item /\ probe' = probe /\ phase' = phase
      BY <1>5, <2>1 DEF TrySend, Enqueue
    <3>3. local'.marked = FALSE
      BY <1>5, <1>q, <2>1 DEF TrySend, Enqueue, Locals
    <3>4. /\ DOMAIN queue' = DOMAIN queue \cup {Len(queue) + 1}
          /\ queue'[Len(queue) + 1].marked = local.marked
          /\ \A i \in DOMAIN queue : queue'[i] = queue[i]
      BY <1>q, <3>1, <3>2, QueueTags
    <3>5. MarkInQueue' <=> MarkInQueue \/ local.marked
      BY <3>4
    <3>6. local.marked => \A i \in DOMAIN queue : ~queue[i].marked
      BY <3>2
    <3>7. \A i, j \in DOMAIN queue' : queue'[i].marked /\ queue'[j].marked => i = j
      BY <3>4, <3>6
    <3>8. QED
      BY <3>2, <3>3, <3>5, <3>7
  <2>2. CASE ~HasRoom
    BY <1>5, <2>2 DEF TrySend
  <2>3. QED
    BY <2>1, <2>2
<1>6. CASE RearmTag
  <2>1. local'.marked = FALSE
    BY <1>6, <1>q DEF RearmTag, Locals
  <2>2. QED
    BY <1>6, <2>1 DEF RearmTag, Settle
<1>7. CASE WorkerRecv
  <2>1. /\ queue # <<>> /\ queue' = Tail(queue) /\ item' = Head(queue)
        /\ rpc' = rpc /\ local' = local /\ probe' = probe
        /\ wpc = "recv" /\ wpc' \notin {"recv", "done"} /\ phase' = phase
    BY <1>7 DEF WorkerRecv, Dispatch
  <2>2. MarkInQueue <=> Head(queue).marked \/ \E i \in DOMAIN Tail(queue) : Tail(queue)[i].marked
    <3>1. ASSUME NEW i \in DOMAIN queue, queue[i].marked, ~Head(queue).marked
          PROVE  i - 1 \in DOMAIN Tail(queue) /\ Tail(queue)[i - 1].marked
      BY <1>q, <2>1, <3>1, QueueTags
    <3>2. ASSUME NEW i \in DOMAIN Tail(queue), Tail(queue)[i].marked
          PROVE  i + 1 \in DOMAIN queue /\ queue[i + 1].marked
      BY <1>q, <2>1, <3>2, QueueTags
    <3>3. Head(queue).marked => 1 \in DOMAIN queue /\ queue[1].marked
      BY <1>q, <2>1, QueueTags
    <3>4. QED
      BY <3>1, <3>2, <3>3
  <2>3. Head(queue).marked => \A i \in DOMAIN Tail(queue) : ~Tail(queue)[i].marked
    BY <1>q, <2>1, QueueTags
  <2>4. \A i, j \in DOMAIN Tail(queue) :
          Tail(queue)[i].marked /\ Tail(queue)[j].marked => i = j
    <3> SUFFICES ASSUME NEW i \in DOMAIN Tail(queue), NEW j \in DOMAIN Tail(queue),
                        Tail(queue)[i].marked, Tail(queue)[j].marked
                 PROVE  i = j
      OBVIOUS
    <3>1. i \in Nat /\ j \in Nat
      BY <1>q, <2>1
    <3>2. i + 1 = j + 1
      BY <1>q, <2>1, QueueTags
    <3>3. QED
      BY <3>1, <3>2
  <2>5. QED
    BY <2>1, <2>2, <2>3, <2>4
<1>8. CASE PutSucceeds
  BY <1>8 DEF PutSucceeds, Settle, NoItem
<1>9. CASE \E b \in BOOLEAN : PushFragment(b)
  BY <1>9 DEF PushFragment, Settle, NoItem
<1>10. CASE AbortWorker
  BY <1>10 DEF AbortWorker, NoItem, AwaitPoints
<1>11. CASE (\E m \in Modes : Start(m)) \/ StopResets
  BY <1>11 DEF Start, StopResets, IInv, RenderRuns
<1>12. CASE \/ WorkerEnds \/ LockForReset \/ (\E b \in BOOLEAN : ResetSession(b))
            \/ ClearFlag \/ LockForPut \/ (\E b \in BOOLEAN : PutFails(b))
            \/ CheckRecovery \/ FallBack \/ FallBackDuration \/ SpawnRecovery
            \/ LockForBuffer
  BY <1>12 DEF WorkerEnds, LockForReset, ResetSession, ClearFlag, Dispatch,
     LockForPut, PutFails, AfterFailedPut, CheckRecovery, FallBack,
     FallBackDuration, SpawnRecovery, LockForBuffer
<1>13. CASE \/ TriggerStep
            \/ (\E k \in TriggerKinds, m \in Modes : StartTrigger(k, m))
  BY <1>13 DEF TriggerStep, StartTrigger, TriggerLocksBuffer, NextBuffered,
     TriggerLocksUploader, TriggerPuts, TriggerReturns, TriggerFails, RecoveryClearsHandle,
     ProcessEvents
<1>14. CASE UNCHANGED vars
  BY <1>14 DEF vars
<1>15. QED
  BY <1>1, <1>2, <1>3, <1>4, <1>5, <1>6, <1>7, <1>8, <1>9, <1>10, <1>11,
     <1>12, <1>13, <1>14 DEF Next, StreamingStep, WorkerStep

\* A step leaves the fate alone, sends the fragment off, or ends its journey.
LEMMA ProbeStep ==
  FInv /\ [Next]_vars => \/ probe' = probe
                         \/ probe = "unmarked" /\ probe' = "travelling"
                         \/ probe = "travelling" /\ probe' \in Fate!Outcomes
<1> SUFFICES ASSUME FInv, [Next]_vars
             PROVE  \/ probe' = probe
                    \/ probe = "unmarked" /\ probe' = "travelling"
                    \/ probe = "travelling" /\ probe' \in Fate!Outcomes
  OBVIOUS
<1> USE DEF sink, streaming, worker, FInv, MarkInv, MarkInLocals, MarkInQueue,
            MarkAtWorker, Fate!Outcomes
<1>1. CASE FinalizeFragment
  BY <1>1 DEF FinalizeFragment
<1>2. CASE RearmTag \/ PutSucceeds \/ \E b \in BOOLEAN : PushFragment(b)
  BY <1>2 DEF RearmTag, PutSucceeds, PushFragment, Settle
<1>3. CASE AbortWorker
  BY <1>3 DEF AbortWorker, AwaitPoints
<1>4. CASE \/ \E m \in Modes : Start(m)
           \/ SessionExpires \/ FirstKeyframe \/ CheckExpiry \/ Eos
           \/ FinalizeFails \/ LoadFlags \/ CaptureMode \/ TrySend \/ SkipSwitch
           \/ ApplySwitch \/ SetDuration \/ BeginSessionReset
           \/ StopCancelsRecovery \/ StopClosesQueue \/ StopResets
  BY <1>4 DEF Start, SessionExpires, FirstKeyframe, CheckExpiry, Eos,
     FinalizeFails, LoadFlags, CaptureMode, TrySend, Enqueue, SkipSwitch,
     ApplySwitch, SetDuration, BeginSessionReset, StopCancelsRecovery,
     StopClosesQueue, StopResets
<1>5. CASE \/ WorkerRecv \/ WorkerEnds \/ LockForReset \/ ClearFlag
           \/ (\E b \in BOOLEAN : ResetSession(b) \/ PutFails(b))
           \/ LockForPut \/ CheckRecovery \/ FallBack \/ FallBackDuration
           \/ SpawnRecovery \/ LockForBuffer
  BY <1>5 DEF WorkerRecv, WorkerEnds, LockForReset, ResetSession, ClearFlag,
     LockForPut, PutFails, CheckRecovery, FallBack, FallBackDuration,
     SpawnRecovery, LockForBuffer
<1>6. CASE \/ TriggerStep
           \/ (\E k \in TriggerKinds, m \in Modes : StartTrigger(k, m))
  BY <1>6 DEF TriggerStep, StartTrigger, TriggerLocksBuffer, NextBuffered,
     TriggerLocksUploader, TriggerPuts, TriggerReturns, TriggerFails, RecoveryClearsHandle,
     ProcessEvents
<1>7. CASE UNCHANGED vars
  BY <1>7 DEF vars
<1>8. QED
  BY <1>1, <1>2, <1>3, <1>4, <1>5, <1>6, <1>7 DEF Next, StreamingStep, WorkerStep

\* While the mark is in one place nothing is lost: the mapped fate is the probe.
LEMMA NothingLost == FInv => ~(probe = "travelling" /\ ~InTransit)
  BY DEF FInv, MarkInv, MarkInLocals, MarkInQueue, MarkAtWorker, InTransit

(***************************************************************************)
(* For every queue length: each finalized fragment that is followed from   *)
(* the MKV writer through queue and worker ends exactly once, uploaded,    *)
(* buffered, or in a loss that is reported; no step mislays it.            *)
(***************************************************************************)
THEOREM FragmentsAccountedFor == Spec => FateSpec
<1> DEFINE fate == IF probe = "travelling" /\ ~InTransit THEN "lost" ELSE probe
<1>1. Init => FInv
  <2>1. Init => MarkInv
    BY DEF Init, MarkInv, MarkInLocals, MarkInQueue, MarkAtWorker, NoLocals, NoItem
  <2>2. QED
    BY <2>1, InitIInv DEF FInv
<1>2. FInv /\ [Next]_vars => FInv'
  BY IInvStep, MarkStep DEF FInv
<1>3. Init => Fate!Init
  BY DEF Init, Fate!Init
<1>4. FInv /\ FInv' /\ [Next]_vars => [Fate!Next]_fate
  <2>1. FInv' => ~(probe' = "travelling" /\ ~InTransit')
    BY DEF FInv, MarkInv, MarkInLocals, MarkInQueue, MarkAtWorker, InTransit
  <2>2. QED
    BY <2>1, NothingLost, ProbeStep DEF Fate!Next, Fate!Depart, Fate!Arrive
<1>5. QED
  BY <1>1, <1>2, <1>3, <1>4, PTL DEF Spec, FateSpec, Fate!Spec

-----------------------------------------------------------------------------
(* The two guards.                                                         *)

\* Where each guard is held: the worker has one of them at a time and never
\* waits with it, the trigger works under the buffer manager's to its end.
GuardsAtWork ==
    /\ phase \in {"new", "stopped"} => wpc = "done"
    /\ uploaderLock = "worker" <=> wpc \in {"resetting", "putting"}
    /\ uploaderLock = "trigger" <=> tpc = "putting"
    /\ bufferLock = "worker" <=> wpc = "pushing"
    /\ bufferLock = "trigger" <=>
         \/ tpc \in {"selecting", "uploaderLock", "putting", "recovered"}
         \/ tpc = "completed" /\ trigger.kind # "method"
    /\ tpc = "recovered" => trigger.kind = "recovery"

\* Every step, also one that fails or is aborted, drops the guards it must.
LEMMA GuardsStep == TypeOK /\ GuardsAtWork /\ [Next]_vars => GuardsAtWork'
<1> SUFFICES ASSUME TypeOK, GuardsAtWork, [Next]_vars PROVE GuardsAtWork'
  OBVIOUS
<1> USE DEF GuardsAtWork, sink, worker, locks, triggering, NoOne
<1>1. CASE \/ SessionExpires \/ FirstKeyframe \/ CheckExpiry \/ Eos
           \/ FinalizeFails \/ StreamingStep \/ UNCHANGED vars
  <2>1. UNCHANGED <<phase, worker, locks, triggering>>
    BY <1>1 DEF SessionExpires, FirstKeyframe, CheckExpiry, Eos, FinalizeFails,
       StreamingStep, LoadFlags, CaptureMode, FinalizeFragment, TrySend, Enqueue,
       RearmTag, SkipSwitch, ApplySwitch, SetDuration, BeginSessionReset, vars
  <2>2. QED
    BY <2>1
<1>2. CASE WorkerStep
  <2>1. UNCHANGED <<phase, triggering>>
    BY <1>2 DEF WorkerStep, WorkerRecv, WorkerEnds, LockForReset, ResetSession,
       ClearFlag, LockForPut, PutSucceeds, PutFails, CheckRecovery, FallBack,
       FallBackDuration, SpawnRecovery, LockForBuffer, PushFragment
  <2>2. CASE WorkerRecv \/ WorkerEnds \/ ClearFlag
    BY <2>1, <2>2 DEF WorkerRecv, WorkerEnds, ClearFlag, Dispatch
  <2>3. CASE LockForReset \/ LockForPut \/ LockForBuffer
    BY <2>1, <2>3 DEF LockForReset, LockForPut, LockForBuffer
  <2>4. CASE CheckRecovery \/ FallBack \/ FallBackDuration \/ SpawnRecovery
    BY <2>1, <2>4 DEF CheckRecovery, FallBack, FallBackDuration, SpawnRecovery
  <2>5. CASE \/ PutSucceeds
             \/ \E b \in BOOLEAN : ResetSession(b) \/ PutFails(b) \/ PushFragment(b)
    BY <2>1, <2>5 DEF PutSucceeds, ResetSession, PutFails, AfterFailedPut, PushFragment
  <2>6. QED
    BY <1>2, <2>2, <2>3, <2>4, <2>5 DEF WorkerStep
<1>3. CASE TriggerStep \/ (\E k \in TriggerKinds, m \in Modes : StartTrigger(k, m))
  <2>1. UNCHANGED <<phase, worker>>
    BY <1>3 DEF TriggerStep, StartTrigger, TriggerLocksBuffer, NextBuffered,
       TriggerLocksUploader, TriggerPuts, TriggerReturns, TriggerFails, RecoveryClearsHandle,
       ProcessEvents
  <2>2. CASE \E k \in TriggerKinds, m \in Modes : StartTrigger(k, m)
    BY <2>1, <2>2 DEF StartTrigger
  <2>3. CASE TriggerLocksBuffer \/ NextBuffered \/ TriggerLocksUploader \/ TriggerPuts
    BY <2>1, <2>3 DEF TriggerLocksBuffer, NextBuffered, TriggerLocksUploader, TriggerPuts
  <2>4. CASE TriggerReturns \/ TriggerFails \/ RecoveryClearsHandle \/ ProcessEvents
    <3>1. UNCHANGED <<trigger, uploaderLock>>
      BY <2>4 DEF TriggerReturns, TriggerFails, RecoveryClearsHandle, ProcessEvents
    <3>2. CASE TriggerReturns \/ TriggerFails
      BY <2>1, <3>1, <3>2 DEF TriggerReturns, TriggerFails
    <3>3. CASE RecoveryClearsHandle
      BY <2>1, <3>1, <3>3 DEF RecoveryClearsHandle
    <3>4. CASE ProcessEvents
      BY <2>1, <3>1, <3>4 DEF ProcessEvents
    <3>5. QED
      BY <2>4, <3>2, <3>3, <3>4
  <2>5. QED
    BY <1>3, <2>2, <2>3, <2>4 DEF TriggerStep
<1>4. CASE \E m \in Modes : Start(m)
  BY <1>4 DEF Start
<1>5. CASE StopCancelsRecovery
  BY <1>5 DEF StopCancelsRecovery, TriggerAwaitPoints
<1>6. CASE StopClosesQueue \/ AbortWorker \/ StopResets
  BY <1>6 DEF StopClosesQueue, AbortWorker, StopResets
<1>7. QED
  BY <1>1, <1>2, <1>3, <1>4, <1>5, <1>6 DEF Next

(***************************************************************************)
(* For every queue length and number of triggers: whoever keeps another    *)
(* waiting for the uploader or the buffer manager does not wait for it.    *)
(***************************************************************************)
THEOREM WaitsEnd == Spec => []NoCircularWait
<1>1. Init => GuardsAtWork
  BY DEF Init, GuardsAtWork, NoOne
<1>2. TypeOK /\ GuardsAtWork => NoCircularWait
  <2> SUFFICES ASSUME GuardsAtWork PROVE NoCircularWait
    OBVIOUS
  <2>1. WorkerAwaits = "trigger" =>
            \/ wpc \in {"resetLock", "putLock"} /\ uploaderLock = "trigger"
            \/ wpc = "bufferLock" /\ bufferLock = "trigger"
    BY DEF WorkerAwaits, NoOne
  <2>2. TriggerAwaits = "worker" =>
            \/ tpc = "uploaderLock" /\ uploaderLock = "worker"
            \/ tpc = "bufferLock" /\ bufferLock = "worker"
    BY DEF TriggerAwaits, NoOne
  <2>3. WorkerAwaits # "worker" /\ TriggerAwaits # "trigger"
    BY DEF WorkerAwaits, TriggerAwaits, GuardsAtWork, NoOne
  <2>4. QED
    BY <2>1, <2>2, <2>3 DEF NoCircularWait, GuardsAtWork
<1>3. QED
  BY <1>1, <1>2, TypeCorrect, GuardsStep, PTL DEF Spec
=============================================================================
