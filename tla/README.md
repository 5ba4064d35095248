# gst-kvs-sink in TLA+

TLA+ models of the GStreamer sink in `src/` that publishes H.264 fragments to
AWS Kinesis Video Streams, TLC configurations that check them on small
instances, and proofs of their main theorems that TLAPS checks. Paths below are
relative to the repository; `imp.rs` is `src/kvssink/imp.rs`.

## The system

| Component | State it keeps | Operations | What is hard |
|---|---|---|---|
| `KvsSink`, streaming thread (`imp.rs` 648-1012) | `State` behind a mutex: mode, pending mode switch, pending session tag, in-flight flag, frames, sender of the queue | `render_buffer`, EOS, `finalize_and_enqueue_current_fragment`, `begin_session_reset` | may never block; state is read under one lock and used under the next; the queue may be full |
| `KvsSink`, upload worker (`imp.rs` 1014-1275) | the fragment in hand | reset the session, put or buffer a fragment, `handle_network_failure`, spawn the recovery task | two async mutexes taken in both orders with the trigger; abort at `stop()` |
| Upload triggers (`imp.rs` 176-220, 290-400, 1176-1265) | guard of the buffer manager | signal, method, recovery task: `trigger_upload_all`, then `process_buffer_events` | hold the manager for minutes; cancel one another |
| `start()` / `stop()` | all of `State` | create and drain the worker, abort it after 10s | steps of three tasks in any order |
| `BufferedUploadManager` (`buffered_upload_manager.rs`) | current file, list of finalized files, the directory | push, rotate, trigger, mark, clean up, scan | crash or error at every await; retries; order |
| `ClusterFileReader` (same file, 49-138) | bytes, offset | `next` | records cut short |
| `KvsConnection`, `KvsClient` (`kvs_client.rs`) | PutMedia connection, session clock, fragment number, status map | `put_fragment`, reconnect with back-off, acknowledgments, session reset | answers arrive later, out of order or never |
| `MkvWriter` (`mkv_writer.rs`) | PTS offset, wall-clock anchor, headers | `finalize_fragment`, `reset_for_new_session` | clock arithmetic, 16-bit timecodes |
| `MediaUploader` (`media_uploader.rs`) | - | the trait between sink, manager and client | says "await until Persisted" |
| `Fragment`, properties, signals, plugin entry | - | plumbing | - |

How they interact: the streaming thread hands finalized fragments to the worker
through a bounded channel (`try_send`, capacity 64). The worker takes the
uploader for a reset or a put, and the buffer manager for a push. A trigger
takes the manager and, inside it, the uploader once per fragment. Its completion
event comes back over an unbounded channel, and `process_buffer_events` turns it
into `pending_mode_switch`, which the streaming thread applies at the next
keyframe boundary. A session reset goes the other way: the streaming thread
restarts the MKV writer and tags the next fragment, and the worker reconnects
when it meets the tag.

What makes each part correct: the streaming thread never waits and loses no
request that it defers through a fragment; each finalized fragment meets exactly
one end; a disk-buffered fragment is never forgotten before it was sent; a
trigger sends in order; an expired session is replaced; an element that fell
back to the disk has somebody to bring it back; each PutMedia connection gets
its headers once and belongs to the session in force; every frame is read back
at its place on the wall clock.

## Modules

| Module | Models | Status |
|---|---|---|
| `FragmentFate` | abstract: the life of one finalized fragment | done |
| `SessionHandoff` | streaming thread, queue, worker, one trigger, start/stop | done |
| `SessionHandoff_proofs` | theorems about it | done |
| `MCHandoff` | its instances | done |
| `FragmentStore` | abstract: an at-least-once store with a retention window | done |
| `BufferManager` | files, push, trigger, scan, faults | done |
| `MCBuffer` | its instances | done |
| `RecoverySink` | failure fall-back, recovery tasks, triggers, mode switches, over several runs | done |
| `MCRecovery` | its instances | done |
| `MediaUploader` | abstract: what callers may expect of an uploader | done |
| `KvsConnection` | client calls, connection, acknowledgments, reconnect, session clock; KVS and the network around it | done |
| `MCKvs` | its instances | done |
| `MkvTimeline` | PTS, anchor, absolute and relative timecodes with their widths | done |
| `MCTimeline` | its instance | done |
| `SequenceFacts` | lemmas about lists the proofs share | done |
| `KvsConnection_proofs`, `RecoverySink_proofs`, `BufferManager_proofs`, `MkvTimeline_proofs` | theorems about these | done |

### SessionHandoff

A step is what the code does under one lock or between two awaits.

* Streaming thread (`rpc`): `CheckExpiry`, `LoadFlags` (one lock of
  `render_buffer`, two steps because the in-flight flag is an atomic that the
  worker clears without that lock), `CaptureMode`, `FinalizeFragment`,
  `TrySend`, `RearmTag` (the queue was full), `ApplySwitch`, `SetDuration` (the
  duration lives behind another lock), `BeginSessionReset`; `Eos` enters the
  same path from `event()`.
* Worker (`wpc`): `WorkerRecv`, `LockForReset`, `ResetSession(ok)`, `ClearFlag`,
  `LockForPut`, `PutSucceeds`, `PutFails(network)`, the three steps of
  `handle_network_failure` and `SpawnRecovery`, `LockForBuffer`,
  `PushFragment(ok)`.
* Trigger (`tpc`): takes the manager, then the uploader for each fragment, and
  processes the events, or fails (`TriggerFails`). Signal handler and recovery
  task keep the manager's guard until the events are processed (a temporary in a
  `match`), the method drops it before.
* `stop()`: cancel the recovery task, close the queue, drain or abort, reset.

Ghosts: `writerFresh` (the MKV writer was reset and nothing of the new session
is queued) and `probe`, which follows one fragment picked nondeterministically.

### BufferManager

`&mut self` behind an async mutex: one operation at a time, `pc` says where.
Every await is a step of its own, so that an error (`Faults`), `AbortTrigger`
(the recovery task is cancelled) and `Down` (stop or crash) can hit it. What an
interrupted write leaves (nothing, a torn record, all of it) is open. `disk`
survives, `current` and `files` do not; `Open` is the scan. File names are the
clock readings they are made from. The counter that triggers `Cleanup` every
100th push is a `static mut` shared by all managers of the process without
synchronisation, so that whether this push is the hundredth is open. Steps 5 and
6 of `trigger_upload_all` (the NEW file) are modelled as letting go of an empty
file: nobody can push while the lock is held, and `TypeOK` checks that the file
is empty until then. Its `.dat` file stays in the directory until a restart
finds it. `Readable` is the set of places of a file the reader gets to: those
before the first torn record. Where the lengths of the torn record survived, the
code's reader takes the bytes behind it into one more fragment, which is no
fragment anybody pushed, and goes on in the middle of a record; that garbage is
left out, and so is a reader that finds a record's start again by chance. A `remove_file()` that fails
leaves a file that nobody tracks (`RemoveFiles`, `MarkUploaded`). The scan works
or fails as a whole: single entries it skips (`buffered_upload_manager.rs`
226-247) are left out.

`StoreSpec` maps this to `FragmentStore`: accepted fragments are held until they
have been sent or, at most, until `max-buffer-hours` are over. What the code
does with the window is below.

### RecoverySink

The same element seen from the failures: what `SessionHandoff` leaves out is
here in full, and the other way round. A fragment is only the mode it was queued
in; a trigger is waiting for the manager, holding it, and a result.

* `State`: `mode`, `pending`, `handle` (the `recovery_task`), `events` (the
  receiver of the manager's completions). `local` is the pending switch that
  `render_buffer` has read (`Boundary`) and is about to execute (`ApplySwitch`).
* One worker per run (`wpc[r]`). `handle_network_failure()` is four steps,
  `CheckRecovery`, `FallBack`, `SpawnRecovery`, `StoreHandle`, each under its
  own lock and none of them at an await: an abort cannot stop a worker in the
  middle, and it works on the state there is, also that of the next run.
* Recovery tasks and triggers (`tpc[t]`): sleep, lock, upload, `ClearHandle`
  (recovery only), `DrainEvents`, and per event `EventCancels`,
  `SwitchToImmediate` or `SwitchToBufferOnly`, `SwitchCancels`. `home[t]` is the
  run whose manager the task was given. Handles that are overwritten or dropped
  detach their task; `dying` holds what has been aborted, and takes effect at an
  await. Two resources are shared: the lock of each run's manager and the events
  of the run in progress, which whoever drains first takes.
* `Start`, `Stop` (cancel, close the queue), `Stopped` (the worker has ended, or
  is aborted and not joined; then `State::default()`).

`Boundary` is three sections under the state lock (`imp.rs` 749, 908, 917) in
one step: a request for a switch or a fall-back that comes in between comes
before or after it, and before `ApplySwitch`.

`fellBack` is set by `FallBack` and cleared by an executed switch, a request for
BufferOnly or a start. `cutOff` marks the one race `NeverStranded` excepts.

### KvsConnection

`KvsClient` is a mutex around one `KvsConnection`: one call at a time (`call`,
`pc`), split where it may wait: `room` (the channel is full), `dial`
(`connect()`), `pause` (back-off), `dialNew` (`initialize()`). It can be
cancelled there. `ProcessAcknowledgment` is one turn of the loop in
`process_acknowledgments()`, during which the response task may send more;
`SendFragment` and `SendUnhealthy` are the rest of `send_fragment()` up to its
first wait, with `check_connection_health()`; `ReconnectOnce` and `StartSession` are the clean-up
that comes before connecting; `Reconnected` and `ReconnectFails` the outcomes.

Around it: the HTTP body and KVS (`KvsReads`, `KvsReceives`, `KvsPersists`,
`KvsRejects`, `KvsIdle`), which may settle fragments in any order; the response
task (`Ack`, dropped when the channel is full, and `ResponseEnds`); a request
that hangs without a word (`Hang`), breaks (`Break`), drops its body
(`BodyDropped`), or was given up and still goes on at KVS (`Settles`). Clocks
are ages that stop once they are over their limit. Acknowledgments carry KVS's
own fragment numbers and are credited to the oldest entry they fit, as in the
code. KVS is external and modelled from what the code must be prepared for.

`UploaderSpec` maps this to `MediaUploader`: a fragment answered Ok has been
handed over once, one answered Err or cancelled has not, and a session stays
expired until a reset succeeds. `SessionHandoff` and `BufferManager` use an
uploader with these outcomes and no others.

### MkvTimeline

A stream of frames with PTS and durations, cut into fragments at keyframes by
the duration in force (`Fragment`, `FragmentAndReset` for a switch to Immediate
or an expired session, `Eos`), and the clock of `MkvWriter`: `ptsOffset` and the
anchor of `finalize_fragment()`, taken when the first fragment of a session is
finalized. `cluster` is what a player finds: the timestamp, of which it gets as
many low bytes as were written (`ReadBack`), and a signed relative timecode per
frame. `FallBack` is
the worker changing the duration of the fragment under way; `FinalizeFails` the
empty frame that leaves an anchor behind. Words are narrow (4 bits for 16, bytes
of 2 bits), so that the limits are within reach of the run.

## Runs

| Run | Shows | States |
|---|---|---|
| `handoff` | types; `TagConserved`: the flag that suppresses resets is never up without a tag underway; `SessionsAligned`: KVS and MKV sessions start at the same fragment; `NoCircularWait`: worker and trigger never wait for each other or for a guard left behind; `RenderNeverWaits`: neither the expiry check nor what follows it waits for a lock of a task that waits itself; `FateSpec`: the hand-off implements `FragmentFate` | 4.0M |
| `handoff_live` | `FragmentSettles` (the waits of worker and trigger end), `ResetResolves`, `ExpiredSessionReplaced` | 176k |
| `buffer` | types; `StoreSpec`: the manager implements `FragmentStore` under every single fault; `TriggerSendsInOrder` | 3.1M |
| `buffer_live` | `BufferedIsSent` across restarts and failed uploads; `NothingForgotten`: the manager knows of every file with something to send; `TriggerSendsAll`: a trigger for everything in which no file fails leaves only files that are given up; `WindowSelects` | 185k |
| `recovery` | types; `NeverStranded`: over two runs, whatever is aborted, detached or left over, an element that fell back has a recovery, an event or a switch that brings it back, but for one race; `HandleIsLive`: a registered handle, which keeps a failure from falling back, is of a recovery still at work | 2.6M |
| `recovery_live` | `ReturnsToImmediate`, `FailureFallsBack`, with signal triggers that ask for either mode | 121k |
| `kvs` | types; `HeadersFirst`; `ConnectionOfSession`; `PersistedCountIsSafe`; `UploaderSpec`: the client implements `MediaUploader` | 1.9M |
| `kvs_live` | `CallReturns`, `DeadConnectionReplaced` | 109k |
| `timeline` | types; `BlocksOnTime`; `DelayBounded`; `ClustersContiguous` | 434k |
| `buffer_torn`, `recovery_stranded`, `kvs_outage` | each a statement of the source that the code does not keep, below | - |

Bounds. A queue of two holds a tagged and an untagged fragment and overflows;
one trigger is enough for both lock orders and for a switch that races a reset.
Method triggers and recoveries are in `handoff`, signal triggers, which hold the
manager as recoveries do, in `handoff_live`. Four keyframe boundaries in flight
are never needed: the state is cyclic and unbounded in time, only triggers are
counted. Three fragments with files of two give a rotated, a current and a NEW
file; three mishaps give a failure, a failed repair and a restart. `MaxTick`
lets files rotate by age and `MaxAge` lets uploaded ones, and ones that are not,
pass the retention window.

Two recovery tasks are the one that is cancelled or detached and the one that
replaces it; two runs let tasks and workers of the first act on the second;
triggers are in the live run, where one signal trigger competes with the
recovery for the manager and the events (`Methods` are for larger instances: a
method trigger lets go of the manager before it drains the events). Two
fragments on a connection whose channel holds two items fill it with headers and
cluster, and the next put waits; two tries are a failed one and the last; two
acknowledgments fill their channel and a third is dropped (one, in the live run,
whose status list has one entry). Ages have limit zero: one tick is over it.
Keyframes at most five units apart and durations of four and eight come within
one of the largest offset that four bits hold; `KeyframesAssumption` says what
keeps real encoders in reach of 16 bits (no keyframe later than about 17 seconds
after the 15 of BufferOnly are over). A run of 24 units has room for three
fragments and two resets.

Assumed by the bounds: one trigger at a time; a stopped element is started again
only after its trigger has ended (both in `SessionHandoff`; `RecoverySink`
assumes neither); EOS is the last thing a stream does; the clock moves on
between the creation of two files and is never set back. Deadlock is checked in
`handoff`, `kvs` and `kvs_live`; elsewhere the system may really stop (a stopped
element that is not restarted, all fragments pushed and the clock at its bound).

Fairness. The streaming thread runs while keyframes arrive (weak). Worker and
trigger are Tokio tasks that are polled and whose calls return; they are
strongly fair because the lock one waits for is taken and released again and
again by the other, and Tokio's mutexes queue their waiters. Resets do not fail
forever, a trigger's files come to an end. For the buffer: the running operation
goes on, the element is started again, triggers for everything keep coming; the
number of faults is bounded below the number of retries. Nothing forces a
session to expire, a trigger to start, EOS, `stop()` or its timeout. For
recoveries: keyframes come while the element runs, each task and worker goes on
(strong, for the same locks), a recovery's upload does not fail for ever; no
trigger, failure or restart is forced. For the client: a call is polled and its
network requests return one way or the other, a broken request is noticed by its
two ends, time goes on, puts keep coming, and KVS settles fragments of a request
that is over. The send is strongly fair: `process_acknowledgments()` may find one
acknowledgment after the other, but KVS does not send them faster than the
client reads, so that the channel is empty again and again. Nothing makes KVS read or answer, or a hanging request break, so
that `CallReturns` needs its premise: the wait for room in the channel has no
timeout (`kvs_client.rs` 331). `ExpiredSessionReplaced` has one more premise,
spelled out in the formula: boundaries go on finding the uploader idle, because
`is_kvs_session_expired` reads a lock it cannot take as "not expired".

## Where the code and its words differ

Three runs show such a difference each:

* `recovery_stranded`: `switch_mode()` schedules the switch under one lock and
  cancels the recovery task under another (`imp.rs` 1353 and 1360), the second
  cancel after the one in `process_buffer_events()` (1310). In between, the
  boundary can execute the switch, a put fail, and the worker fall back and
  spawn a new recovery. The cancel aborts that one: BufferOnly, with nobody to
  end it. With the second cancel left out the same instances never reach such a
  state, and `NeverStranded` needs no exception.
* `kvs_outage`: a put that gives up because it cannot connect returns "Internal
  error: Failed to reconnect after exhausting retries: ...", in which
  `is_network_error_str()` (`imp.rs` 1111) finds none of its words. The outage
  is not taken for one: the element stays in Immediate and each fragment waits
  for the whole back-off before it is buffered.
* `buffer_torn`: after a write that failed half-way, pushes to the same file
  return Ok for fragments that cannot be read back.

Met while modelling, visible in the modules, and not runs of their own:

* Retention. The buffer is "bounded by configurable retention" (`README.md` 11),
  `max-buffer-hours` is the "Retention window for buffered fragments" (84) and
  the "Maximum buffer duration in hours" (`properties.rs` 90), and the clean-up
  removes "files that exceed max buffer duration" (`buffered_upload_manager.rs`
  461). It removes those that have been uploaded as well (471; the FIXME above
  it doubts that condition) and stops at the first that has not: an element in
  trigger mode that nobody triggers, or one with a file that is given up, fills
  the disk. `Removable` is the code's condition. `StoreSpec` takes no side: it
  holds of the documented one (`Old`) too, because it allows what is too old to
  go. `NothingLost` and `BufferedIsSent` are of the code; with the documented
  condition they would hold of what is within its window only.
* `session_reset_in_flight` is documented to cover every queued reset (`imp.rs`
  98). A switch to Immediate queues a reset without asking the flag; with two
  queued the first to finish clears it. `TagConserved` is the direction that
  holds.
* A pending switch is read at 754 and cleared at 779, under different locks. One
  that is requested in between is never executed. `NeverStranded` shows that an
  element that fell back survives it, but not where the executed switch is to
  BufferOnly: that one is taken for a request to stay there.
* Mode and cluster duration (55-58) are set under different locks by streaming
  thread and worker and can stay apart until the next switch.
* Completion is announced, and taken by the recovery task for success, when
  every upload failed; the back-off starts anew each time.
* "Always arrive in chronological order" (`buffered_upload_manager.rs` 508) does
  not survive one failed file.
* Times of recovered files are never refined. `WindowSelects` is restricted for
  a second reason the model shows: an aborted upload leaves its NEW file
  current, and fragments older than the file's start go into it.
* A recovery that outlived its run clears the handle of the next run's when it
  succeeds. That one goes on, detached: the element comes back, perhaps with two
  recoveries at work.
* `put_fragment()` returns "when Persisted" (`media_uploader.rs` 27); it returns
  when the fragment is in the connection's channel, and what is lost after that
  nobody sends again. `MediaUploader` states what is left of the promise.
* The clock of a session is taken when its first fragment is finalized, so that
  a session is dated late by that fragment (`DelayBounded`): 2 seconds in
  Immediate mode, more after a fall-back. When a session after a late one is
  dated early, timestamps go back across the reset; `tests/kvs_integration.rs`
  (578-589) expects them to grow across sessions.
* `tests/network_recovery_tests.rs` (541-560) says that other than network
  errors should not trigger buffering, and asserts neither; the worker buffers
  the fragment after any error (`imp.rs` 1077-1083).

## Proofs

Every theorem holds for all values of the constants that the named assumptions
of the module admit; TLC evaluates these in every run.

| Module | Theorem | Property |
|---|---|---|
| `SessionHandoff_proofs` | `TypeCorrect`, `TagNeverLost`, `SessionBoundariesAgree`, `FragmentsAccountedFor`, `WaitsEnd` | `TypeOK`, `TagConserved`, `SessionsAligned`, `FateSpec`, `NoCircularWait` |
| `KvsConnection_proofs` | `TypeCorrect`, `HeadersComeFirst`, `ConnectionIsOfSession`, `PersistedIsSafe`, `ImplementsUploader` | `TypeOK`, `HeadersFirst`, `ConnectionOfSession`, `PersistedCountIsSafe`, `UploaderSpec` |
| `RecoverySink_proofs` | `TypeCorrect`, `RecoveryIsOnItsWay`, `RegisteredIsLive` | `TypeOK`, `NeverStranded`, `HandleIsLive` |
| `BufferManager_proofs` | `TypeCorrect`, `ImplementsStore`, `NothingLost`, `EveryFileIsKnown`, `TriggerIsComplete`, `SendsInOrder`, `WindowIsComplete` | `TypeOK`, `StoreSpec`, `NoSilentLoss`, `NothingForgotten`, `TriggerSendsAll`, `TriggerSendsInOrder`, `WindowSelects` |
| `MkvTimeline_proofs` | `TypeCorrect`, `BlocksAreOnTime`, `DelayIsBounded`, `ClustersFollow` | `TypeOK`, `BlocksOnTime`, `DelayBounded`, `ClustersContiguous` |

**SessionHandoff**, for every queue capacity and number of triggers. The
inductive invariant `IInv` joins to the properties: `SwitchKnown` (a step that
sets the duration has a mode to set), `RenderRuns` (inside `render_buffer` the
element is running, hence `stop()` cannot reset the state under it), `FlagOfRun`
(the flag is down unless the element runs), `TagTaken` (the tag travels in the
locals exactly when it has left the state) and `FreshMatchesTag` (the writer is
fresh exactly while tag or local tag is set). `TagConserved` alone is not
inductive: a step of `TrySend` needs `TagTaken`, and `SessionsAligned` needs
`FreshMatchesTag` at the moment a fragment is queued. For the refinement
`MarkInv` adds that the marked fragment is in one place: in the locals, at one
position of the queue or at the worker, and there exactly while it travels. Then
the mapped fate equals `probe`, and every step leaves it or moves it forward.
`WaitsEnd` is the safety half of `FragmentSettles`. Its invariant `GuardsAtWork`
says where each guard is held: the worker has the uploader's only while it puts
or resets and the manager's only while it pushes, and waits with neither; the
trigger has the manager's from its first file to its last event. An error path
or an abort that kept a guard would break it.

**KvsConnection**, for every set of fragments, every size of the channels and of
the status list, every time limit and number of tries.

* `TypeCorrect` needs `CallAtPc`: what `pc` allows follows from the call that is
  under way, and a call is under way exactly when it is not idle.
* `HeadersFirst` becomes inductive with: a connection is marked new exactly as
  long as KVS has heard nothing of it.
* `PersistedCountIsSafe` counts entries of the list. `CountInv` counts also the
  acknowledgments in the channel, because the next turn of the loop may credit
  one of them: marked entries and "Persisted" in the channel together are no
  more than KVS has kept. It needs no assumption on which entry an
  acknowledgment is credited to, only that it is one.
* The refinement of `MediaUploader` needs `NotYetHandedOver` (the fragment of
  the put under way is still idle) and `ChannelInv` (whatever is in the channel
  is a fragment handed over and not yet read, each in one place).

**RecoverySink**, for any number of recoveries, triggers and runs. `OnItsWay`
says where a recovery can be: a switch to Immediate pending or read, a worker
about to spawn a task or to store its handle, or a task that still has to
upload, to drain the events or to act on one. That it stays there under a
cancellation needs `HandleInv` (the stored handle is of a task that lives and
has not yet forgotten it), `SpawnedInv` (a handle not stored yet is its
worker's alone, its task asleep and not aborted) and `TodoInv` (a task that
handles an event has one). The exception of `NeverStranded`, `cutOff`, is set
by the one cancellation that hits a newer recovery. `TasksAssumption` says that
runs and tasks, which share the set of what is aborted, have different names.
`NeverStranded` is the safety half of `ReturnsToImmediate`, `HandleIsLive`
(`HandleInv` in the proof) that of `FailureFallsBack`.

**BufferManager**, for any limits, number of fragments and mishaps.

* `IInv` joins to the types: `NamesInv` (files are listed by age, and the one
  that is written to or being finalized is the newest of all), `PhaseInv` (what
  each step has to work on) and `TodoInv` (a trigger's files are tracked, each
  once, the oldest first, none tried too often). `DiskEffects` and
  `FilesEffects` reduce the actions to the four and the three things they can do
  to the directory and to the list.
* `ImplementsStore` and `NothingLost` add `SentInv` and `ReadInv` (what is
  marked uploaded, and what the reader has passed, has been sent) and `Whole`
  (the file that is written to has no torn record). `Whole` is where
  `"torn" \notin Faults` comes in, as a hypothesis of the theorems: `buffer_torn`
  shows that they are false without it. A crash or an abort may still tear a
  record; that file is never written to again.
  Every step is one of the store's that makes no use of its window (`StoreStep`,
  `LetsGoSent`: only what has been sent is let go), so that `NothingLost` follows
  as well.
* `EveryFileIsKnown` and `TriggerIsComplete` are the safety half of
  `BufferedIsSent`: the manager loses sight of no file, and a trigger in which
  no file fails leaves nothing but what is given up. They need `SendInv` without
  `Whole`, so torn records may occur; `Blank` (the file opened for an upload has
  nothing in it, so that letting go of it forgets nothing) and `TodoComplete`
  (until its first failure a trigger still has to try all that is left). The
  hypothesis excludes failing syncs, failing scans and aborts: each drops files
  until the next restart, and both theorems are false with any of them.
* `SendsInOrder` excludes no fault. `Numbered` and `InPushOrder` order the
  records within a file and across files by the age of the names; `Ahead` says
  that what a trigger has still to read was pushed after what it sent last. A
  torn record hides what follows it and does not disturb the order.
* `WindowIsComplete` assumes `"abort" \notin Faults`: an aborted upload leaves
  its NEW file current with a start that is too late. Otherwise the fragments
  of the current file, of the one being finalized and of every file finalized
  in this run lie between its two times (`CurrentCovers`, `ClosingCovers`,
  `FilesCover`), because a push carries the latest time so far (`OwnTimes`).

**MkvTimeline**, for any resolution of the clock, widths of timecodes and bytes,
fragment and frame durations and length of a run.

* `FramesInv`: the pending fragment goes from a keyframe without a gap to the
  next PTS, and its last keyframe came before it was long enough to be cut; it
  is hence shorter than `MaxFirst` (`PendingIs`). `KeyframesAssumption` makes
  that less than half the range of a timecode, so none wraps (`TimecodeIs`).
  For the real values it asks for a keyframe at least every 32.767 s less the
  fragment duration, which nothing in the code enforces.
* `AnchorInv`: the PTS half of the anchor and the offset it was normalized with
  add up to the first PTS of the session, and the wall-clock half was taken
  within `MaxFirst + MaxLag` of it. With `Rounding` it gives `BlocksOnTime` and
  `DelayBounded`, which are part of `IInv` since they speak of the last cluster.
* `PrevInv`: the last cluster ends where the pending fragment starts, and if
  both are of one session they have one anchor. `ClustersFollow` is that and a
  rounding.
* `ClockAssumption` says that the largest time fits eight bytes, as it does for
  millions of years. `ReadBackIs` needs it.

TLC checked these invariants on the instances of the runs before they were
proved.

Model-checked only: the liveness properties and `RenderNeverWaits` (fairness and
ENABLED are outside the prover's reach).

## Not modelled

Pure I/O and plumbing (properties, signals, plugin entry, AWS configuration,
caps, MKV headers, logging) stay outside. So does the byte format of records: a
file is a sequence of complete and torn records, and what the reader returns of
such a file is taken from `ClusterFileReader::next` as it
stands. The AWS calls of `connect()` are within one step that works or fails,
`dial`. Threads
of the runtime are not modelled: `start()` keeps two mutexes while it blocks on
`initialize()`. Frames without PTS, reordered frames and data after EOS are not
in `MkvTimeline`.

Every safety invariant and action property of the runs but `RenderNeverWaits` is
a theorem. Open are the hazards no property covers, above all frames without PTS
and data after EOS in `MkvTimeline`, and a file name given twice in
`BufferManager`.
