---------------------------- MODULE RecoverySink ----------------------------
(***************************************************************************)
(* Falling back to the disk buffer and coming back (imp.rs): the worker's  *)
(* handle_network_failure(), the recovery tasks it spawns, upload triggers *)
(* that end a recovery, the completion events, and mode switches at        *)
(* keyframe boundaries, over several runs of one element.  Tasks outlive   *)
(* the run they were started in: abort() works at an await only, the       *)
(* triggers are never cancelled, and a handle that is dropped detaches.    *)
(*                                                                         *)
(* A step is what is done under one lock or between two awaits.  Of the    *)
(* rest of the element SessionHandoff has the details, of the manager      *)
(* BufferManager: a fragment is its mode, a trigger is waiting for the     *)
(* manager, holding it, and a result.  Delays are steps, so that the count *)
(* of failures they are computed from is left out.                         *)
(***************************************************************************)
EXTENDS Naturals, SequencesExt

CONSTANTS
    Recoveries,     \* bound: recovery tasks alive at once, of all runs
    Methods, Signals, \* triggers by trigger_upload() and by the signal
    NoTask,
    Switches,       \* bound: what triggers ask for, TRUE to switch to streaming
    Capacity,       \* FRAGMENT_QUEUE_CAPACITY
    MaxRuns         \* bound: start() calls

Triggers == Methods \cup Signals
Tasks == Recoveries \cup Triggers
Runs == 1..MaxRuns

ASSUME TasksAssumption ==
    /\ NoTask \notin Tasks /\ Runs \cap (Tasks \cup {NoTask}) = {}
    /\ Recoveries \cap Triggers = {} /\ Methods \cap Signals = {}
ASSUME SwitchesAssumption == Switches \subseteq BOOLEAN
ASSUME BoundsAssumption == {Capacity, MaxRuns} \subseteq Nat \ {0}

VARIABLES
    phase, run,     \* of the element: where start() and stop() are, which run
    mode, pending, handle, \* State: current_mode, pending_mode_switch, recovery_task
    events,         \* buffer_event_rx: switch_to_streaming of each completion
    local,          \* render_buffer: a switch about to be executed
    queue, wpc, spawned, \* of each run's worker; spawned: handle not yet stored
    dying,          \* workers and tasks that have been aborted
    tpc, home, todo, \* of each task; home: the run whose manager it uses
    fellBack, cutOff \* ghost: see Stranded and NeverStranded

state == <<mode, pending, handle>>
worker == <<queue, wpc, spawned>>
tasks == <<tpc, home, todo>>
ghosts == <<fellBack, cutOff>>
vars == <<phase, run, state, events, local, worker, dying, tasks, ghosts>>

Modes == {"Immediate", "BufferOnly"}
NoSwitch == "none"
WorkerAwaits == {"recv", "put", "buffer"}
TaskAwaits == {"sleep", "lock", "upload"}
TaskTail == {"clear", "drain", "cancel", "switch", "cancelAgain"}

Init ==
    /\ phase = "stopped" /\ run = 0
    /\ mode = "BufferOnly" /\ pending = NoSwitch /\ handle = NoTask
    /\ events = <<>> /\ local = NoSwitch
    /\ queue = [r \in Runs |-> <<>>] /\ wpc = [r \in Runs |-> "gone"]
    /\ spawned = [r \in Runs |-> NoTask] /\ dying = {}
    /\ tpc = [t \in Tasks |-> "none"] /\ home = [t \in Tasks |-> 0]
    /\ todo = [t \in Tasks |-> <<>>]
    /\ fellBack = FALSE /\ cutOff = FALSE

\* abort(): nothing happens to a task that has ended.
Aborted(task) == IF task = NoTask THEN dying ELSE dying \cup {task}

\* Mutant: the task is aborted but stays registered.
AbortOnly == UNCHANGED handle /\ dying' = Aborted(handle)

\* cancel_recovery_task()
CancelRecovery == handle' = NoTask /\ dying' = Aborted(handle)

-----------------------------------------------------------------------------
(* start() and stop().                                                     *)

Start ==
    /\ phase = "stopped" /\ run < MaxRuns
    /\ phase' = "running" /\ run' = run + 1
    /\ mode' \in Modes
    /\ events' = <<>>
    /\ wpc' = [wpc EXCEPT ![run + 1] = "recv"]
    /\ fellBack' = FALSE /\ cutOff' = FALSE
    /\ UNCHANGED <<pending, handle, local, queue, spawned, dying, tasks>>

\* No render() is under way; the queue is closed.
Stop ==
    /\ phase = "running" /\ local = NoSwitch
    /\ phase' = "draining" /\ CancelRecovery
    /\ UNCHANGED <<run, mode, pending, events, local, worker, tasks, ghosts>>

\* The worker has ended, or it is aborted when the time is up but not waited
\* for.  Then *state = State::default().
Stopped ==
    /\ phase = "draining" /\ phase' = "stopped"
    /\ IF wpc[run] = "gone" THEN UNCHANGED dying ELSE dying' = dying \cup {run}
    /\ mode' = "BufferOnly" /\ pending' = NoSwitch /\ handle' = NoTask
    /\ events' = <<>>
    /\ UNCHANGED <<run, local, worker, tasks, ghosts>>

-----------------------------------------------------------------------------
(* render_buffer() at a keyframe boundary.                                 *)

\* Mutant: one fragment more than the queue holds.
HasRoomOffByOne == Len(queue[run]) <= Capacity

\* try_send() finds room.
HasRoom == Len(queue[run]) < Capacity

(***************************************************************************)
(* The pending switch is read, and the fragment queued in the old mode.    *)
(* The code takes the state lock three times for this (imp.rs:749, 908 and *)
(* 917); a switch that is requested after the first is met by ApplySwitch. *)
(***************************************************************************)
Boundary ==
    /\ phase = "running" /\ local = NoSwitch
    /\ local' = pending
    /\ queue' = IF HasRoom THEN [queue EXCEPT ![run] = Append(@, mode)] ELSE queue
    /\ UNCHANGED <<phase, run, state, events, wpc, spawned, dying, tasks, ghosts>>

(***************************************************************************)
(* It is executed, and what has been requested since is lost.  A switch to *)
(* BufferOnly that is executed ends fellBack, whatever it has swallowed.   *)
(***************************************************************************)
ApplySwitch ==
    /\ local # NoSwitch
    /\ mode' = local /\ pending' = NoSwitch /\ local' = NoSwitch
    /\ fellBack' = FALSE /\ cutOff' = FALSE
    /\ UNCHANGED <<phase, run, handle, events, worker, dying, tasks>>

-----------------------------------------------------------------------------
(* The upload worker of a run.                                             *)

Goes(r, pc) == wpc' = [wpc EXCEPT ![r] = pc]

Recv(r) ==
    /\ wpc[r] = "recv" /\ r \notin dying /\ queue[r] # <<>>
    /\ queue' = [queue EXCEPT ![r] = Tail(@)]
    /\ Goes(r, IF Head(queue[r]) = "Immediate" THEN "put" ELSE "buffer")
    /\ UNCHANGED <<phase, run, state, events, local, spawned, dying, tasks, ghosts>>

WorkerEnds(r) ==
    /\ wpc[r] = "recv" /\ queue[r] = <<>>
    /\ r < run \/ phase # "running"
    /\ Goes(r, "gone")
    /\ UNCHANGED <<phase, run, state, events, local, queue, spawned, dying, tasks, ghosts>>

WorkerAborted(r) ==
    /\ r \in dying /\ wpc[r] \in WorkerAwaits /\ Goes(r, "gone")
    /\ UNCHANGED <<phase, run, state, events, local, queue, spawned, dying, tasks, ghosts>>

Put(r, pc) ==
    /\ wpc[r] = "put" /\ r \notin dying /\ Goes(r, pc)
    /\ UNCHANGED <<phase, run, state, events, local, queue, spawned, dying, tasks, ghosts>>

PutSucceeds(r) == Put(r, "recv")

PutFails(r) == Put(r, "buffer")

\* is_network_error_str()
NetworkFails(r) == Put(r, "check") /\ \E t \in Recoveries : tpc[t] = "none"

\* handle_network_failure(), in four steps without an await.
CheckRecovery(r) ==
    /\ wpc[r] = "check" /\ Goes(r, IF handle = NoTask THEN "fall" ELSE "buffer")
    /\ UNCHANGED <<phase, run, state, events, local, queue, spawned, dying, tasks, ghosts>>

FallBack(r) ==
    /\ wpc[r] = "fall" /\ Goes(r, "spawn")
    /\ mode' = "BufferOnly" /\ fellBack' = TRUE /\ cutOff' = FALSE
    /\ UNCHANGED <<phase, run, pending, handle, events, local, queue, spawned, dying,
                   tasks>>

\* The task gets the manager there is now; between two runs there is none.
SpawnRecovery(r) ==
    /\ wpc[r] = "spawn"
    /\ IF phase = "stopped"
       THEN Goes(r, "buffer") /\ UNCHANGED <<spawned, tasks>>
       ELSE \E t \in Recoveries :
              /\ tpc[t] = "none"
              /\ tpc' = [tpc EXCEPT ![t] = "sleep"] /\ home' = [home EXCEPT ![t] = run]
              /\ spawned' = [spawned EXCEPT ![r] = t] /\ Goes(r, "store")
              /\ UNCHANGED todo
    /\ UNCHANGED <<phase, run, state, events, local, queue, dying, ghosts>>

\* A handle that is overwritten or cleared detaches its task.
StoreHandle(r) ==
    /\ wpc[r] = "store" /\ Goes(r, "buffer")
    /\ handle' = spawned[r] /\ spawned' = [spawned EXCEPT ![r] = NoTask]
    /\ UNCHANGED <<phase, run, mode, pending, events, local, queue, dying, tasks, ghosts>>

\* A task keeps the manager while it uploads; method triggers let go of it
\* before the events, the others, whose guard is a temporary, after them.
Holds(t) == tpc[t] = "upload" \/ (t \notin Methods /\ tpc[t] \in TaskTail)

ManagerFree(r) == \A t \in Tasks : home[t] = r => ~Holds(t)

BufferFragment(r) ==
    /\ wpc[r] = "buffer" /\ r \notin dying /\ ManagerFree(r) /\ Goes(r, "recv")
    /\ UNCHANGED <<phase, run, state, events, local, queue, spawned, dying, tasks, ghosts>>

-----------------------------------------------------------------------------
(* Recovery tasks and triggers.                                            *)

Steps(t, pc) == tpc' = [tpc EXCEPT ![t] = pc]

\* The end of a task is forgotten, that the name may serve again.
Ends(t) ==
    /\ Steps(t, "none") /\ home' = [home EXCEPT ![t] = 0]
    /\ dying' = dying \ {t}

StartTrigger(t) ==
    /\ phase # "stopped" /\ tpc[t] = "none"
    /\ Steps(t, "lock") /\ home' = [home EXCEPT ![t] = run]
    /\ UNCHANGED <<phase, run, state, events, local, worker, dying, todo, ghosts>>

TaskAborted(t) ==
    /\ t \in dying /\ tpc[t] \in TaskAwaits /\ Ends(t)
    /\ UNCHANGED <<phase, run, state, events, local, worker, todo, ghosts>>

\* Half a minute is longer than it takes to store a handle.
Wake(t) ==
    /\ tpc[t] = "sleep" /\ t \notin dying /\ \A r \in Runs : spawned[r] # t
    /\ Steps(t, "lock")
    /\ UNCHANGED <<phase, run, state, events, local, worker, dying, home, todo, ghosts>>

LockManager(t) ==
    /\ tpc[t] = "lock" /\ t \notin dying /\ ManagerFree(home[t])
    /\ Steps(t, "upload")
    /\ UNCHANGED <<phase, run, state, events, local, worker, dying, home, todo, ghosts>>

\* trigger_upload_all() returns Ok, whatever could be uploaded, and reports it
\* to the element while its run lasts.
UploadReturns(t, switchToStreaming) ==
    /\ tpc[t] = "upload" /\ t \notin dying
    /\ switchToStreaming \in (IF t \in Recoveries THEN {TRUE} ELSE Switches)
    /\ events' = IF home[t] = run /\ phase # "stopped"
                 THEN Append(events, switchToStreaming) ELSE events
    /\ Steps(t, IF t \in Recoveries THEN "clear" ELSE "drain")
    /\ UNCHANGED <<phase, run, state, local, worker, dying, home, todo, ghosts>>

\* Mutant: the recovery task gives up with the first error.
GivesUp(t) == Ends(t)

\* A recovery task tries again, a trigger does not.
AfterError(t) ==
    IF t \in Recoveries THEN Steps(t, "sleep") /\ UNCHANGED <<home, dying>> ELSE Ends(t)

UploadFails(t) ==
    /\ tpc[t] = "upload" /\ t \notin dying /\ AfterError(t)
    /\ UNCHANGED <<phase, run, state, events, local, worker, todo, ghosts>>

\* The recovery task forgets its handle, or whichever is there.
ClearHandle(t) ==
    /\ tpc[t] = "clear" /\ Steps(t, "drain")
    /\ handle' = NoTask
    /\ UNCHANGED <<phase, run, mode, pending, events, local, worker, dying, home, todo,
                   ghosts>>

\* process_buffer_events(): the events there are, whoever caused them.
Proceeds(t, list) ==
    /\ todo' = [todo EXCEPT ![t] = list]
    /\ IF list = <<>> THEN Ends(t)
       ELSE Steps(t, IF Head(list) THEN "cancel" ELSE "switch") /\ UNCHANGED <<home, dying>>

DrainEvents(t) ==
    /\ tpc[t] = "drain"
    /\ Proceeds(t, events) /\ events' = <<>>
    /\ UNCHANGED <<phase, run, state, local, worker, ghosts>>

EventCancels(t) ==
    /\ tpc[t] = "cancel" /\ Steps(t, "switch") /\ CancelRecovery
    /\ UNCHANGED <<phase, run, mode, pending, events, local, worker, home, todo, ghosts>>

\* switch_mode()
SwitchToImmediate(t) ==
    /\ tpc[t] = "switch" /\ Head(todo[t])
    /\ pending' = "Immediate" /\ Steps(t, "cancelAgain")
    /\ UNCHANGED <<phase, run, mode, handle, events, local, worker, dying, home, todo,
                   ghosts>>

SwitchToBufferOnly(t) ==
    /\ tpc[t] = "switch" /\ ~Head(todo[t])
    /\ pending' = "BufferOnly" /\ fellBack' = FALSE /\ cutOff' = FALSE
    /\ Proceeds(t, Tail(todo[t]))
    /\ UNCHANGED <<phase, run, mode, handle, events, local, worker>>

\* By now the switch may have been executed, and a new recovery spawned.
SwitchCancels(t) ==
    /\ tpc[t] = "cancelAgain" /\ handle' = NoTask
    /\ cutOff' = (cutOff \/ (handle # NoTask /\ pending # "Immediate"))
    /\ todo' = [todo EXCEPT ![t] = Tail(@)]
    /\ IF Tail(todo[t]) = <<>>
       THEN /\ Steps(t, "none") /\ home' = [home EXCEPT ![t] = 0]
            /\ dying' = Aborted(handle) \ {t}
       ELSE /\ Steps(t, IF Head(Tail(todo[t])) THEN "cancel" ELSE "switch")
            /\ dying' = Aborted(handle) /\ UNCHANGED home
    /\ UNCHANGED <<phase, run, mode, pending, events, local, worker, fellBack>>

-----------------------------------------------------------------------------
WorkerStep(r) ==
    \/ Recv(r) \/ WorkerEnds(r) \/ WorkerAborted(r)
    \/ PutSucceeds(r) \/ PutFails(r) \/ NetworkFails(r)
    \/ CheckRecovery(r) \/ FallBack(r) \/ SpawnRecovery(r) \/ StoreHandle(r)
    \/ BufferFragment(r)

TaskStep(t) ==
    \/ TaskAborted(t) \/ Wake(t) \/ LockManager(t)
    \/ (\E s \in BOOLEAN : UploadReturns(t, s)) \/ UploadFails(t)
    \/ ClearHandle(t) \/ DrainEvents(t)
    \/ EventCancels(t) \/ SwitchToImmediate(t) \/ SwitchToBufferOnly(t) \/ SwitchCancels(t)

Next ==
    \/ Start \/ Stop \/ Stopped \/ Boundary \/ ApplySwitch
    \/ \E r \in Runs : WorkerStep(r)
    \/ \E t \in Triggers : StartTrigger(t)
    \/ \E t \in Tasks : TaskStep(t)

Spec == Init /\ [][Next]_vars

(***************************************************************************)
(* Fairness.  Keyframes come while the element runs; a task goes on, also  *)
(* when the lock it waits for comes and goes, since Tokio's mutex serves   *)
(* its waiters in turn; a recovery's upload does not fail for ever.        *)
(* Nothing makes the element start or stop, a put fail, or a trigger be    *)
(* called.                                                                 *)
(***************************************************************************)
FairSpec ==
    /\ Spec
    /\ WF_vars(Boundary \/ ApplySwitch)
    /\ \A r \in Runs : SF_vars(WorkerStep(r))
    /\ \A t \in Tasks : SF_vars(TaskStep(t))
    /\ \A t \in Recoveries : SF_vars(UploadReturns(t, TRUE))

-----------------------------------------------------------------------------
(* Properties.                                                             *)

\* Every variable has its type, and a handle that is kept is that of a task.
TypeOK ==
    /\ phase \in {"stopped", "running", "draining"}
    /\ run \in 0..MaxRuns
    /\ mode \in Modes /\ {pending, local} \subseteq Modes \cup {NoSwitch}
    /\ handle \in Recoveries \cup {NoTask}
    /\ handle # NoTask => tpc[handle] # "none"
    /\ events \in Seq(BOOLEAN)
    /\ queue \in [Runs -> Seq(Modes)] /\ \A r \in Runs : Len(queue[r]) <= Capacity
    /\ wpc \in [Runs -> WorkerAwaits \cup {"gone", "check", "fall", "spawn", "store"}]
    /\ spawned \in [Runs -> Recoveries \cup {NoTask}]
    /\ dying \subseteq Runs \cup Recoveries
    /\ tpc \in [Tasks -> TaskAwaits \cup TaskTail \cup {"none"}]
    /\ home \in [Tasks -> 0..MaxRuns] /\ todo \in [Tasks -> Seq(BOOLEAN)]
    /\ {fellBack, cutOff} \subseteq BOOLEAN

Brings(t) ==
    \/ t \in Recoveries \ dying /\ tpc[t] \in TaskAwaits /\ home[t] = run
    \/ tpc[t] \in {"clear", "drain"} /\ TRUE \in ToSet(events)
    \/ tpc[t] \in {"cancel", "switch"} /\ TRUE \in ToSet(todo[t])

Stranded ==
    /\ phase = "running" /\ fellBack
    /\ "Immediate" \notin {pending, local}
    /\ \A r \in Runs : wpc[r] \notin {"spawn", "store"}
    /\ \A t \in Tasks : ~Brings(t)

(***************************************************************************)
(* handle_network_failure() promises "switching to BufferOnly mode and     *)
(* scheduling recovery attempts" (imp.rs:1121): an element that fell back  *)
(* is not left in BufferOnly with nobody to bring it back.  fellBack holds *)
(* until a switch is executed or a trigger with an end asks for BufferOnly.*)
(***************************************************************************)
RecoveryScheduled == ~Stranded

(***************************************************************************)
(* The same but for one race: switch_mode() cancels under a second lock    *)
(* (imp.rs:1360), when the switch it scheduled may have been executed and  *)
(* a newer recovery spawned.  No other interleaving of failures,           *)
(* recoveries, triggers, cancellations, stop() and start() strands it.     *)
(***************************************************************************)
NeverStranded == ~cutOff => ~Stranded

(***************************************************************************)
(* The handle for which handle_network_failure() returns early, leaving an *)
(* element in Immediate to fail fragment after fragment (imp.rs:1132), is  *)
(* that of a recovery that goes on: nobody has aborted it, and it has yet  *)
(* to forget the handle itself.  Over runs, cancellations and handles that *)
(* are overwritten or taken by others.                                     *)
(***************************************************************************)
HandleIsLive ==
    handle # NoTask => handle \notin dying /\ tpc[handle] \in TaskAwaits \cup {"clear"}

(***************************************************************************)
(* "Network recovery successful!" (imp.rs:1226): but for that race, an     *)
(* element that fell back executes a switch, unless it is stopped or asked *)
(* for BufferOnly.                                                         *)
(***************************************************************************)
ReturnsToImmediate ==
    fellBack ~> ~fellBack \/ cutOff \/ phase # "running"

(***************************************************************************)
(* An element whose puts go on failing goes on falling back: a recovery    *)
(* that is still registered makes handle_network_failure() return early    *)
(* (imp.rs:1132), but not for ever.                                        *)
(***************************************************************************)
FailureFallsBack ==
    []<><<\E r \in Runs : NetworkFails(r)>>_vars => []<>(mode = "BufferOnly")
=============================================================================
