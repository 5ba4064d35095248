--------------------------- MODULE SessionHandoff ---------------------------
(***************************************************************************)
(* The hand-off of finalized fragments from the GStreamer streaming thread *)
(* to the Tokio upload worker (kvssink/imp.rs), with the two requests that *)
(* are deferred through it: a KVS session reset, carried by a tag on the   *)
(* next fragment, and a mode switch, carried by State::pending_mode_switch *)
(*                                                                         *)
(* Processes: the streaming thread (render, EOS), the upload worker, one   *)
(* upload trigger (signal, trigger_upload() or the recovery task: what     *)
(* holds the buffer manager and takes the uploader once per fragment), and *)
(* start()/stop().  A step is what runs under one lock, or what lies       *)
(* between two awaits.                                                     *)
(*                                                                         *)
(* Abstracted: frames (a fragment is ready at every keyframe boundary),    *)
(* fragment bytes, the files behind the buffer manager and the timers of   *)
(* the recovery task.                                                      *)
(***************************************************************************)
EXTENDS Naturals, Sequences

CONSTANTS
    Capacity,     \* FRAGMENT_QUEUE_CAPACITY
    MaxTriggers,  \* bound: upload triggers in one behaviour
    TriggerKinds, \* bound: who triggers them
    Track,        \* bound: whether the fate of a fragment is followed
    Restarts      \* bound: whether a stopped element is started again

ASSUME CapacityAssumption == Capacity \in Nat \ {0}
ASSUME MaxTriggersAssumption == MaxTriggers \in Nat
ASSUME BoundsAssumption ==
    TriggerKinds \subseteq {"signal", "method", "recovery"}
    /\ Track \in BOOLEAN /\ Restarts \in BOOLEAN

Modes == {"Immediate", "BufferOnly"}
NoMode == "none"
Kinds == {"signal", "method", "recovery"}
NoOne == "free"

VARIABLES
    phase,              \* life of the element: start() and the stages of stop()
    rpc, local,         \* streaming thread: position and locals of render_buffer()
    waitingForKeyframe, currentMode, pendingModeSwitch, pendingNewSession,
    recoveryTask,       \* State::recovery_task is Some
    fragmentDuration,   \* the mode Settings::fragment_duration was last set for
    sessionResetInFlight,
    queue,              \* the mpsc channel between render() and the worker
    wpc, item,          \* worker: position and the item it works on
    uploaderLock, bufferLock,
    expired,            \* MediaUploader::is_session_expired()
    tpc, trigger, triggers,
    writerFresh,        \* ghost: no fragment of the writer's MKV session is queued yet
    probe               \* ghost: fate of one fragment chosen at finalization

sink == <<phase, waitingForKeyframe, currentMode, pendingModeSwitch,
          pendingNewSession, recoveryTask, fragmentDuration, sessionResetInFlight>>
streaming == <<rpc, local>>
worker == <<wpc, item>>
locks == <<uploaderLock, bufferLock>>
triggering == <<tpc, trigger, triggers>>
vars == <<sink, streaming, queue, worker, locks, expired, triggering,
          writerFresh, probe>>

UploadItem == [mode : Modes, startsNewSession : BOOLEAN,
               first : BOOLEAN, marked : BOOLEAN]
Locals == [sessExpired : BOOLEAN, pendingMode : Modes \cup {NoMode},
           needsReset : BOOLEAN, mode : Modes, startsNewSession : BOOLEAN,
           marked : BOOLEAN, eos : BOOLEAN]

NoItem == [mode |-> "BufferOnly", startsNewSession |-> FALSE,
           first |-> FALSE, marked |-> FALSE]
NoLocals == [sessExpired |-> FALSE, pendingMode |-> NoMode,
             needsReset |-> FALSE, mode |-> "BufferOnly",
             startsNewSession |-> FALSE, marked |-> FALSE, eos |-> FALSE]

StreamingPc == {"idle", "checked", "snapshot", "captured", "finalized",
                "full", "sent", "switched", "resetting", "ended"}
WorkerPc == {"recv", "resetLock", "resetting", "clearing", "putLock",
             "putting", "failure", "failing", "retiming", "spawning",
             "bufferLock", "pushing", "done"}
TriggerPc == {"idle", "bufferLock", "selecting", "uploaderLock", "putting",
              "recovered", "completed"}
Phases == {"new", "stopped", "running", "stopping", "draining"}

\* The worker can be aborted only where it awaits.
AwaitPoints == {"recv", "resetLock", "resetting", "putLock", "putting",
                "bufferLock", "pushing"}
\* Where an aborted recovery task was still registered in State.
TriggerAwaitPoints == {"bufferLock", "selecting", "uploaderLock", "putting"}

\* render_buffer() holds the state lock from the expiry check to the load of the flag.
StateLockFree == rpc # "checked"

\* The worker's next position once the item's session reset is out of the way.
Dispatch(i) == IF i.mode = "Immediate" THEN "putLock" ELSE "bufferLock"

Settle(i, outcome) == probe' = IF i.marked THEN outcome ELSE probe

-----------------------------------------------------------------------------
Init ==
    /\ phase = "new"
    /\ rpc = "idle" /\ local = NoLocals
    /\ waitingForKeyframe = FALSE
    /\ currentMode = "BufferOnly"
    /\ pendingModeSwitch = NoMode
    /\ pendingNewSession = FALSE
    /\ recoveryTask = FALSE
    /\ fragmentDuration \in Modes
    /\ sessionResetInFlight = FALSE
    /\ queue = <<>>
    /\ wpc = "done" /\ item = NoItem
    /\ uploaderLock = NoOne /\ bufferLock = NoOne
    /\ expired = FALSE
    /\ tpc = "idle" /\ trigger = [kind |-> "signal", target |-> "Immediate"]
    /\ triggers = 0
    /\ writerFresh = FALSE
    /\ probe = "unmarked"

(***************************************************************************)
(* start(): a new connection, writer, channel, flag and worker.  Bound: no *)
(* trigger of an earlier run is left (it would work on the old manager).   *)
(***************************************************************************)
Start(initialMode) ==
    /\ phase = "new" \/ (phase = "stopped" /\ Restarts)
    /\ tpc = "idle"
    /\ phase' = "running"
    /\ waitingForKeyframe' = TRUE
    /\ currentMode' = initialMode
    /\ fragmentDuration' = initialMode
    /\ wpc' = "recv"
    /\ expired' = FALSE
    /\ UNCHANGED <<pendingModeSwitch, pendingNewSession, recoveryTask,
                   sessionResetInFlight, streaming, queue, item, locks,
                   triggering, writerFresh, probe>>

\* KvsConnection: session_start.elapsed() passes max_session_duration.
SessionExpires ==
    /\ phase \notin {"new", "stopped"} /\ ~expired
    /\ expired' = TRUE
    /\ UNCHANGED <<sink, streaming, queue, worker, locks, triggering,
                   writerFresh, probe>>

-----------------------------------------------------------------------------
(* The streaming thread: render_buffer() at a keyframe, and EOS.           *)

FirstKeyframe ==
    /\ phase = "running" /\ rpc = "idle" /\ waitingForKeyframe
    /\ waitingForKeyframe' = FALSE
    /\ UNCHANGED <<phase, currentMode, pendingModeSwitch, pendingNewSession,
                   recoveryTask, fragmentDuration, sessionResetInFlight,
                   streaming, queue, worker, locks, expired, triggering,
                   writerFresh, probe>>

(***************************************************************************)
(* A boundary: is_kvs_session_expired() with the state lock held.  A lock  *)
(* that try_lock() cannot get counts as "not expired".                     *)
(***************************************************************************)
CheckExpiry ==
    /\ phase = "running" /\ rpc = "idle" /\ ~waitingForKeyframe
    /\ rpc' = "checked"
    /\ local' = [NoLocals EXCEPT !.sessExpired = expired /\ uploaderLock = NoOne]
    /\ UNCHANGED <<sink, queue, worker, locks, expired, triggering,
                   writerFresh, probe>>

\* The rest of the block: pending mode, then the in-flight flag; unlock.
LoadFlags ==
    /\ rpc = "checked"
    /\ rpc' = "snapshot"
    /\ local' = [local EXCEPT
                   !.sessExpired = FALSE,
                   !.pendingMode = pendingModeSwitch,
                   !.needsReset = local.sessExpired /\ ~sessionResetInFlight]
    /\ UNCHANGED <<sink, queue, worker, locks, expired, triggering,
                   writerFresh, probe>>

\* finalize_and_enqueue_current_fragment(), first lock: the mode is captured.
CaptureMode ==
    /\ rpc = "snapshot"
    /\ rpc' = "captured"
    /\ local' = [local EXCEPT !.mode = currentMode]
    /\ UNCHANGED <<sink, queue, worker, locks, expired, triggering,
                   writerFresh, probe>>

(***************************************************************************)
(* EOS flushes the current fragment through the same function.  Bound: no  *)
(* flush reopens the stream afterwards, the next buffer comes after stop().*)
(***************************************************************************)
Eos ==
    /\ phase = "running" /\ rpc = "idle" /\ ~waitingForKeyframe
    /\ rpc' = "captured"
    /\ local' = [NoLocals EXCEPT !.mode = currentMode, !.eos = TRUE]
    /\ UNCHANGED <<sink, queue, worker, locks, expired, triggering,
                   writerFresh, probe>>

\* Mutant: the tag is read but not taken.
TagLeftBehind == pendingNewSession

TagAfterTake == FALSE

\* Second lock: the writer finalizes and the tag is taken.
FinalizeFragment ==
    /\ rpc = "captured"
    /\ rpc' = "finalized"
    /\ \E marked \in {m \in BOOLEAN : m => Track /\ probe = "unmarked"} :
         /\ local' = [local EXCEPT !.startsNewSession = pendingNewSession,
                                   !.marked = marked]
         /\ probe' = IF marked THEN "travelling" ELSE probe
    /\ pendingNewSession' = TagAfterTake
    /\ UNCHANGED <<phase, waitingForKeyframe, currentMode, pendingModeSwitch,
                   recoveryTask, fragmentDuration, sessionResetInFlight,
                   queue, worker, locks, expired, triggering, writerFresh>>

\* The MKV writer fails: FlowError::Error ends the stream, the tag is not taken.
FinalizeFails ==
    /\ rpc = "captured"
    /\ rpc' = "ended" /\ local' = NoLocals
    /\ UNCHANGED <<sink, queue, worker, locks, expired, triggering,
                   writerFresh, probe>>

\* Mutant: one item more than the channel holds.
HasRoomOffByOne == Len(queue) <= Capacity

HasRoom == Len(queue) < Capacity

Enqueue ==
    /\ queue' = Append(queue,
           [mode |-> local.mode, startsNewSession |-> local.startsNewSession,
            first |-> writerFresh, marked |-> local.marked])
    /\ writerFresh' = FALSE
    /\ rpc' = "sent"
    /\ local' = [local EXCEPT !.startsNewSession = FALSE, !.marked = FALSE]
    /\ UNCHANGED <<sink, worker, locks, expired, triggering, probe>>

\* Mutant: render() waits for room, send().await in place of try_send().
SendWaiting == rpc = "finalized" /\ HasRoom /\ Enqueue

\* sender.try_send(): the only producer of the queue never waits.
TrySend ==
    /\ rpc = "finalized"
    /\ IF HasRoom THEN Enqueue
       ELSE /\ rpc' = "full"
            /\ UNCHANGED <<sink, local, queue, worker, locks, expired,
                           triggering, writerFresh, probe>>

\* Mutant: the tag goes with the dropped fragment.
TagLostWithDrop == pendingNewSession

TagAfterDrop == pendingNewSession \/ local.startsNewSession

\* TrySendError::Full: the fragment is dropped and counted, its tag is not.
RearmTag ==
    /\ rpc = "full"
    /\ rpc' = "sent"
    /\ pendingNewSession' = TagAfterDrop
    /\ Settle(local, "dropped")
    /\ local' = [local EXCEPT !.startsNewSession = FALSE, !.marked = FALSE]
    /\ UNCHANGED <<phase, waitingForKeyframe, currentMode, pendingModeSwitch,
                   recoveryTask, fragmentDuration, sessionResetInFlight,
                   queue, worker, locks, expired, triggering, writerFresh>>

\* Back in render_buffer() with no mode switch in the snapshot, or in event().
SkipSwitch ==
    /\ rpc = "sent" /\ local.pendingMode = NoMode
    /\ rpc' = IF local.eos THEN "ended"
              ELSE IF local.needsReset THEN "resetting" ELSE "idle"
    /\ local' = NoLocals
    /\ UNCHANGED <<sink, queue, worker, locks, expired, triggering,
                   writerFresh, probe>>

\* The snapshot's mode is applied and whatever is pending now is cleared.
ApplySwitch ==
    /\ rpc = "sent" /\ local.pendingMode # NoMode
    /\ rpc' = "switched"
    /\ currentMode' = local.pendingMode
    /\ pendingModeSwitch' = NoMode
    /\ UNCHANGED <<phase, waitingForKeyframe, pendingNewSession, recoveryTask,
                   fragmentDuration, sessionResetInFlight, local, queue, worker,
                   locks, expired, triggering, writerFresh, probe>>

\* update_fragment_duration(): Settings is behind a lock of its own.
SetDuration ==
    /\ rpc = "switched"
    /\ fragmentDuration' = local.pendingMode
    /\ rpc' = IF local.pendingMode = "Immediate" THEN "resetting" ELSE "idle"
    /\ local' = NoLocals
    /\ UNCHANGED <<phase, waitingForKeyframe, currentMode, pendingModeSwitch,
                   pendingNewSession, recoveryTask, sessionResetInFlight, queue,
                   worker, locks, expired, triggering, writerFresh, probe>>

\* begin_session_reset(): the writer restarts, the tag and the flag are set.
BeginSessionReset ==
    /\ rpc = "resetting"
    /\ rpc' = "idle"
    /\ pendingNewSession' = TRUE
    /\ sessionResetInFlight' = TRUE
    /\ writerFresh' = TRUE
    /\ UNCHANGED <<phase, waitingForKeyframe, currentMode, pendingModeSwitch,
                   recoveryTask, fragmentDuration, local, queue, worker, locks,
                   expired, triggering, probe>>

StreamingStep ==
    \/ LoadFlags \/ CaptureMode \/ FinalizeFragment \/ TrySend \/ RearmTag
    \/ SkipSwitch \/ ApplySwitch \/ SetDuration \/ BeginSessionReset

-----------------------------------------------------------------------------
(* The upload worker.                                                      *)

WorkerRecv ==
    /\ wpc = "recv" /\ queue # <<>>
    /\ item' = Head(queue)
    /\ queue' = Tail(queue)
    /\ wpc' = IF Head(queue).startsNewSession THEN "resetLock"
              ELSE Dispatch(Head(queue))
    /\ UNCHANGED <<sink, streaming, locks, expired, triggering, writerFresh, probe>>

\* recv() returns None: stop() dropped the sender and the queue is drained.
WorkerEnds ==
    /\ wpc = "recv" /\ queue = <<>> /\ phase = "draining"
    /\ wpc' = "done"
    /\ UNCHANGED <<sink, streaming, queue, item, locks, expired, triggering,
                   writerFresh, probe>>

LockForReset ==
    /\ wpc = "resetLock" /\ uploaderLock = NoOne
    /\ uploaderLock' = "worker"
    /\ wpc' = "resetting"
    /\ UNCHANGED <<sink, streaming, queue, item, bufferLock, expired,
                   triggering, writerFresh, probe>>

\* reset_session() rebases the expiry clock only if it reconnects; drop(guard).
ResetSession(ok) ==
    /\ wpc = "resetting"
    /\ expired' = (expired /\ ~ok)
    /\ uploaderLock' = NoOne
    /\ wpc' = "clearing"
    /\ UNCHANGED <<sink, streaming, queue, item, bufferLock, triggering,
                   writerFresh, probe>>

\* Mutant: the flag is cleared by a successful reset only.
ClearedBySuccess == expired

FlagAfterReset == FALSE

\* The flag is cleared whether the reset succeeded or not.
ClearFlag ==
    /\ wpc = "clearing"
    /\ sessionResetInFlight' = FlagAfterReset
    /\ wpc' = Dispatch(item)
    /\ UNCHANGED <<phase, waitingForKeyframe, currentMode, pendingModeSwitch,
                   pendingNewSession, recoveryTask, fragmentDuration, streaming,
                   queue, item, locks, expired, triggering, writerFresh, probe>>

LockForPut ==
    /\ wpc = "putLock" /\ uploaderLock = NoOne
    /\ uploaderLock' = "worker"
    /\ wpc' = "putting"
    /\ UNCHANGED <<sink, streaming, queue, item, bufferLock, expired,
                   triggering, writerFresh, probe>>

\* put_fragment() and drop(guard), before the buffer manager is touched.
PutSucceeds ==
    /\ wpc = "putting"
    /\ uploaderLock' = NoOne
    /\ Settle(item, "uploaded")
    /\ wpc' = "recv" /\ item' = NoItem
    /\ UNCHANGED <<sink, streaming, queue, bufferLock, expired, triggering,
                   writerFresh>>

\* Mutant: an error that is not a network error is only logged.
OnlyNetworkBuffers(isNetworkError) == IF isNetworkError THEN "failure" ELSE "recv"

AfterFailedPut(isNetworkError) ==
    IF isNetworkError THEN "failure" ELSE "bufferLock"

\* Mutant: the uploader guard lives until the fragment is buffered.
PutFailsHoldingUploader(isNetworkError) ==
    /\ wpc = "putting"
    /\ wpc' = AfterFailedPut(isNetworkError)
    /\ UNCHANGED <<sink, streaming, queue, item, locks, expired, triggering,
                   writerFresh, probe>>

PutFails(isNetworkError) ==
    /\ wpc = "putting"
    /\ uploaderLock' = NoOne
    /\ wpc' = AfterFailedPut(isNetworkError)
    /\ UNCHANGED <<sink, streaming, queue, item, bufferLock, expired,
                   triggering, writerFresh, probe>>

\* handle_network_failure(): nothing is done while a recovery task is registered.
CheckRecovery ==
    /\ wpc = "failure" /\ StateLockFree
    /\ wpc' = IF recoveryTask THEN "bufferLock" ELSE "failing"
    /\ UNCHANGED <<sink, streaming, queue, item, locks, expired, triggering,
                   writerFresh, probe>>

FallBack ==
    /\ wpc = "failing" /\ StateLockFree
    /\ currentMode' = "BufferOnly"
    /\ wpc' = "retiming"
    /\ UNCHANGED <<phase, waitingForKeyframe, pendingModeSwitch,
                   pendingNewSession, recoveryTask, fragmentDuration,
                   sessionResetInFlight, streaming, queue, item, locks, expired,
                   triggering, writerFresh, probe>>

FallBackDuration ==
    /\ wpc = "retiming"
    /\ fragmentDuration' = "BufferOnly"
    /\ wpc' = "spawning"
    /\ UNCHANGED <<phase, waitingForKeyframe, currentMode, pendingModeSwitch,
                   pendingNewSession, recoveryTask, sessionResetInFlight,
                   streaming, queue, item, locks, expired, triggering,
                   writerFresh, probe>>

\* The task sleeps 30s before its first attempt: spawning and registering it are one step.
SpawnRecovery ==
    /\ wpc = "spawning" /\ StateLockFree
    /\ recoveryTask' = TRUE
    /\ wpc' = "bufferLock"
    /\ UNCHANGED <<phase, waitingForKeyframe, currentMode, pendingModeSwitch,
                   pendingNewSession, fragmentDuration, sessionResetInFlight,
                   streaming, queue, item, locks, expired, triggering,
                   writerFresh, probe>>

LockForBuffer ==
    /\ wpc = "bufferLock" /\ bufferLock = NoOne
    /\ bufferLock' = "worker"
    /\ wpc' = "pushing"
    /\ UNCHANGED <<sink, streaming, queue, item, uploaderLock, expired,
                   triggering, writerFresh, probe>>

\* push_fragment(): an error is only logged.
PushFragment(ok) ==
    /\ wpc = "pushing"
    /\ bufferLock' = NoOne
    /\ Settle(item, IF ok THEN "buffered" ELSE "writeFailed")
    /\ wpc' = "recv" /\ item' = NoItem
    /\ UNCHANGED <<sink, streaming, queue, uploaderLock, expired, triggering,
                   writerFresh>>

WorkerStep ==
    \/ WorkerRecv \/ WorkerEnds \/ LockForReset \/ ClearFlag \/ LockForPut
    \/ CheckRecovery \/ FallBack \/ FallBackDuration \/ SpawnRecovery
    \/ LockForBuffer \/ PutSucceeds
    \/ \E b \in BOOLEAN : ResetSession(b) \/ PutFails(b) \/ PushFragment(b)

-----------------------------------------------------------------------------
(* One upload trigger.  A recovery task triggers only while it is          *)
(* registered, and always asks for Immediate.                              *)

StartTrigger(kind, target) ==
    /\ tpc = "idle" /\ phase \notin {"new", "stopped"} /\ triggers < MaxTriggers
    /\ kind = "recovery" => recoveryTask
    /\ kind \in {"recovery", "method"} => target = "Immediate"
    /\ tpc' = "bufferLock"
    /\ trigger' = [kind |-> kind, target |-> target]
    /\ triggers' = triggers + 1
    /\ UNCHANGED <<sink, streaming, queue, worker, locks, expired,
                   writerFresh, probe>>

TriggerLocksBuffer ==
    /\ tpc = "bufferLock" /\ bufferLock = NoOne
    /\ bufferLock' = "trigger"
    /\ tpc' = "selecting"
    /\ UNCHANGED <<sink, streaming, queue, worker, uploaderLock, expired,
                   trigger, triggers, writerFresh, probe>>

\* trigger_upload_all() has one more buffered fragment to send.
NextBuffered ==
    /\ tpc = "selecting"
    /\ tpc' = "uploaderLock"
    /\ UNCHANGED <<sink, streaming, queue, worker, locks, expired, trigger,
                   triggers, writerFresh, probe>>

TriggerLocksUploader ==
    /\ tpc = "uploaderLock" /\ uploaderLock = NoOne
    /\ uploaderLock' = "trigger"
    /\ tpc' = "putting"
    /\ UNCHANGED <<sink, streaming, queue, worker, bufferLock, expired,
                   trigger, triggers, writerFresh, probe>>

TriggerPuts ==
    /\ tpc = "putting"
    /\ uploaderLock' = NoOne
    /\ tpc' = "selecting"
    /\ UNCHANGED <<sink, streaming, queue, worker, bufferLock, expired,
                   trigger, triggers, writerFresh, probe>>

\* trigger_upload_all() returns, its event sent: only trigger_upload() drops the guard now.
TriggerReturns ==
    /\ tpc = "selecting"
    /\ tpc' = IF trigger.kind = "recovery" THEN "recovered" ELSE "completed"
    /\ bufferLock' = IF trigger.kind = "method" THEN NoOne ELSE bufferLock
    /\ UNCHANGED <<sink, streaming, queue, worker, uploaderLock, expired,
                   trigger, triggers, writerFresh, probe>>

(***************************************************************************)
(* It fails: the guard is dropped and no event processed.  A recovery task *)
(* counts the failure, under the state lock, and tries again later.        *)
(***************************************************************************)
TriggerFails ==
    /\ tpc = "selecting"
    /\ trigger.kind = "recovery" => StateLockFree
    /\ tpc' = "idle" /\ bufferLock' = NoOne
    /\ UNCHANGED <<sink, streaming, queue, worker, uploaderLock, expired,
                   trigger, triggers, writerFresh, probe>>

\* The recovery task clears its own handle.
RecoveryClearsHandle ==
    /\ tpc = "recovered" /\ StateLockFree
    /\ tpc' = "completed"
    /\ recoveryTask' = FALSE
    /\ UNCHANGED <<phase, waitingForKeyframe, currentMode, pendingModeSwitch,
                   pendingNewSession, fragmentDuration, sessionResetInFlight,
                   streaming, queue, worker, locks, expired, trigger, triggers,
                   writerFresh, probe>>

(***************************************************************************)
(* process_buffer_events(): the switch is requested for the next boundary; *)
(* Immediate also cancels whatever recovery task is registered.  After     *)
(* stop() the event channel is gone and nothing is done.                   *)
(***************************************************************************)
ProcessEvents ==
    /\ tpc = "completed" /\ StateLockFree
    /\ tpc' = "idle"
    /\ bufferLock' = IF bufferLock = "trigger" THEN NoOne ELSE bufferLock
    /\ IF phase = "stopped"
       THEN UNCHANGED <<pendingModeSwitch, recoveryTask>>
       ELSE /\ pendingModeSwitch' = trigger.target
            /\ recoveryTask' = (recoveryTask /\ trigger.target # "Immediate")
    /\ UNCHANGED <<phase, waitingForKeyframe, currentMode, pendingNewSession,
                   fragmentDuration, sessionResetInFlight, streaming, queue,
                   worker, uploaderLock, expired, trigger, triggers,
                   writerFresh, probe>>

TriggerStep ==
    \/ TriggerLocksBuffer \/ NextBuffered \/ TriggerLocksUploader
    \/ TriggerPuts \/ TriggerReturns \/ TriggerFails \/ RecoveryClearsHandle \/ ProcessEvents

-----------------------------------------------------------------------------
(* stop(), after the streaming thread has left render().                   *)

\* cancel_recovery_task(): a registered task is aborted at its await point.
StopCancelsRecovery ==
    /\ phase = "running" /\ rpc \in {"idle", "ended"}
    /\ phase' = "stopping"
    /\ recoveryTask' = FALSE
    /\ IF trigger.kind = "recovery" /\ tpc \in TriggerAwaitPoints
       THEN /\ tpc' = "idle"
            /\ bufferLock' = IF tpc = "bufferLock" THEN bufferLock ELSE NoOne
            /\ uploaderLock' = IF tpc = "putting" THEN NoOne ELSE uploaderLock
       ELSE UNCHANGED <<tpc, locks>>
    /\ UNCHANGED <<waitingForKeyframe, currentMode, pendingModeSwitch,
                   pendingNewSession, fragmentDuration, sessionResetInFlight,
                   streaming, queue, worker, expired, trigger, triggers,
                   writerFresh, probe>>

\* The sender is dropped and the worker has WORKER_DRAIN_TIMEOUT to finish.
StopClosesQueue ==
    /\ phase = "stopping"
    /\ phase' = "draining"
    /\ UNCHANGED <<waitingForKeyframe, currentMode, pendingModeSwitch,
                   pendingNewSession, recoveryTask, fragmentDuration,
                   sessionResetInFlight, streaming, queue, worker, locks,
                   expired, triggering, writerFresh, probe>>

(***************************************************************************)
(* The timeout: the worker is aborted where it awaits, its guards are      *)
(* dropped, the fragments it holds and those still queued are abandoned.   *)
(***************************************************************************)
AbortWorker ==
    /\ phase = "draining" /\ wpc \in AwaitPoints
    /\ wpc' = "done" /\ item' = NoItem
    /\ queue' = <<>>
    /\ uploaderLock' = IF uploaderLock = "worker" THEN NoOne ELSE uploaderLock
    /\ bufferLock' = IF bufferLock = "worker" THEN NoOne ELSE bufferLock
    /\ probe' = IF item.marked \/ \E i \in DOMAIN queue : queue[i].marked
                THEN "abandoned" ELSE probe
    /\ UNCHANGED <<sink, streaming, expired, triggering, writerFresh>>

\* *state = State::default()
StopResets ==
    /\ phase = "draining" /\ wpc = "done"
    /\ phase' = "stopped"
    /\ waitingForKeyframe' = FALSE
    /\ currentMode' = "BufferOnly"
    /\ pendingModeSwitch' = NoMode
    /\ pendingNewSession' = FALSE
    /\ recoveryTask' = FALSE
    /\ sessionResetInFlight' = FALSE
    /\ writerFresh' = FALSE
    /\ rpc' = "idle"
    /\ UNCHANGED <<fragmentDuration, local, queue, worker, locks, expired,
                   triggering, probe>>

-----------------------------------------------------------------------------
Next ==
    \/ \E m \in Modes : Start(m)
    \/ SessionExpires
    \/ FirstKeyframe \/ CheckExpiry \/ Eos \/ FinalizeFails \/ StreamingStep
    \/ WorkerStep
    \/ \E k \in TriggerKinds, m \in Modes : StartTrigger(k, m)
    \/ TriggerStep
    \/ StopCancelsRecovery \/ StopClosesQueue \/ AbortWorker \/ StopResets

Spec == Init /\ [][Next]_vars

(***************************************************************************)
(* Fairness.  Keyframes keep coming and the streaming thread runs.  The    *)
(* worker and the trigger are polled and their network and disk calls      *)
(* return; strongly fair, because a lock they wait for is taken and freed  *)
(* again and again by the other: tokio's mutexes are FIFO, and nobody      *)
(* keeps the state lock.  Resets do not fail forever and the files of a    *)
(* trigger come to an end.  Nothing makes a session expire, a trigger      *)
(* start, EOS arrive, or stop() be called or time out.                     *)
(***************************************************************************)
FairSpec ==
    /\ Spec
    /\ WF_vars(FirstKeyframe \/ CheckExpiry \/ StreamingStep)
    /\ SF_vars(WorkerStep) /\ SF_vars(ResetSession(TRUE))
    /\ SF_vars(TriggerStep) /\ SF_vars(TriggerReturns)

-----------------------------------------------------------------------------
(* Properties.                                                             *)

\* Every variable has its type and the channel never holds more than it can.
TypeOK ==
    /\ phase \in Phases
    /\ rpc \in StreamingPc /\ local \in Locals
    /\ waitingForKeyframe \in BOOLEAN
    /\ currentMode \in Modes /\ fragmentDuration \in Modes
    /\ pendingModeSwitch \in Modes \cup {NoMode}
    /\ pendingNewSession \in BOOLEAN
    /\ recoveryTask \in BOOLEAN
    /\ sessionResetInFlight \in BOOLEAN
    /\ queue \in Seq(UploadItem) /\ Len(queue) <= Capacity
    /\ wpc \in WorkerPc /\ item \in UploadItem
    /\ uploaderLock \in {NoOne, "worker", "trigger"}
    /\ bufferLock \in {NoOne, "worker", "trigger"}
    /\ expired \in BOOLEAN
    /\ tpc \in TriggerPc /\ trigger \in [kind : Kinds, target : Modes]
    /\ triggers \in 0..MaxTriggers
    /\ writerFresh \in BOOLEAN
    /\ probe \in {"unmarked", "travelling", "uploaded", "buffered", "dropped",
                  "writeFailed", "abandoned"}

\* A reset request is somewhere on its way to the worker.
TagUnderway ==
    \/ pendingNewSession
    \/ rpc \in {"finalized", "full"} /\ local.startsNewSession
    \/ \E i \in DOMAIN queue : queue[i].startsNewSession
    \/ wpc \in {"resetLock", "resetting", "clearing"}

(***************************************************************************)
(* The flag that suppresses proactive resets never outlives the tag that   *)
(* gets it cleared: while it is set a tag is underway, also after drops    *)
(* ("losing the tag would suppress every future proactive reset",          *)
(* imp.rs:966).  Only an aborted worker leaves it set, and stop() then     *)
(* discards it.                                                            *)
(***************************************************************************)
TagConserved == sessionResetInFlight => TagUnderway \/ wpc = "done"

(***************************************************************************)
(* The MKV and the KVS session start at the same fragment: a queued        *)
(* fragment asks for a reset exactly when it is the first one queued since *)
(* the MKV writer was reset, whatever was dropped in between.              *)
(***************************************************************************)
SessionsAligned ==
    \A i \in DOMAIN queue : queue[i].startsNewSession <=> queue[i].first

(***************************************************************************)
(* render() is never blocked by the worker, the uploader or the disk       *)
(* (imp.rs:651): at a boundary of a running element, where it looks at the *)
(* uploader, and further on in render_buffer() it can always step.         *)
(***************************************************************************)
RenderNeverWaits ==
    /\ rpc \notin {"idle", "ended"} => ENABLED StreamingStep
    /\ rpc = "idle" /\ phase = "running" /\ ~waitingForKeyframe => ENABLED CheckExpiry

\* Where the marked fragment still is, between the writer and its end.
InTransit ==
    \/ rpc \in {"finalized", "full"} /\ local.marked
    \/ \E i \in DOMAIN queue : queue[i].marked
    \/ wpc \notin {"recv", "done"} /\ item.marked

Fate == INSTANCE FragmentFate WITH
    fate <- IF probe = "travelling" /\ ~InTransit THEN "lost" ELSE probe

\* No finalized fragment disappears and none meets two ends (FragmentFate).
FateSpec == Fate!Spec

(***************************************************************************)
(* Worker and trigger never wait for each other in a circle, nor for a     *)
(* guard that nobody will drop: the trigger keeps the buffer manager while *)
(* it asks for the uploader, so the worker must not do it the other way    *)
(* round (imp.rs:1054), on any error path, and aborts leave no guard.      *)
(***************************************************************************)
WorkerAwaits ==
    CASE wpc \in {"resetLock", "putLock"} -> uploaderLock
      [] wpc = "bufferLock" -> bufferLock
      [] OTHER -> NoOne
TriggerAwaits ==
    CASE tpc = "uploaderLock" -> uploaderLock
      [] tpc = "bufferLock" -> bufferLock
      [] OTHER -> NoOne

NoCircularWait ==
    /\ WorkerAwaits # "worker" /\ TriggerAwaits # "trigger"
    /\ ~(WorkerAwaits = "trigger" /\ TriggerAwaits = "worker")
    /\ "worker" \in {uploaderLock, bufferLock} => wpc \notin {"recv", "done"}
    /\ "trigger" \in {uploaderLock, bufferLock} => tpc # "idle"

(***************************************************************************)
(* The worker finishes every fragment it takes: the order in which worker  *)
(* and trigger take the buffer manager and the uploader cannot deadlock    *)
(* them (imp.rs:1054).                                                     *)
(***************************************************************************)
FragmentSettles == wpc \notin {"recv", "done"} ~> wpc \in {"recv", "done"}

Streaming == phase = "running" /\ rpc # "ended"

\* Proactive resets are never suppressed for good: the flag comes down again.
ResetResolves ==
    (Streaming /\ sessionResetInFlight) ~> (~Streaming \/ ~sessionResetInFlight)

(***************************************************************************)
(* An expired session is replaced as long as the stream runs, after any    *)
(* failed resets, if keyframe boundaries go on finding the uploader idle:  *)
(* is_kvs_session_expired() sees nothing while a call holds the uploader.  *)
(***************************************************************************)
ExpiredSessionReplaced ==
    []<><<CheckExpiry /\ uploaderLock = NoOne>>_vars
        => ((Streaming /\ expired) ~> (~Streaming \/ ~expired))
=============================================================================
