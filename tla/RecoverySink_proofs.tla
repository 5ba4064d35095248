------------------------ MODULE RecoverySink_proofs ------------------------
(***************************************************************************)
(* Proofs about RecoverySink, for any number of recoveries, triggers and   *)
(* runs and any capacity of the queue.                                     *)
(***************************************************************************)
EXTENDS RecoverySink, SequenceFacts

-----------------------------------------------------------------------------
(* The inductive invariant.                                                *)

\* Where a task is that a handle is kept of: before it forgets the handle.
Registered == TaskAwaits \cup {"clear"}

HandleInv ==
    handle # NoTask => handle \notin dying /\ tpc[handle] \in Registered

\* Only what is alive is aborted.
DyingInv == \A t \in Recoveries \cap dying : tpc[t] # "none"

\* A handle not stored yet is the worker's alone; its task is still asleep.
SpawnedInv ==
    \A r \in Runs :
       /\ wpc[r] = "store" <=> spawned[r] # NoTask
       /\ spawned[r] # NoTask =>
             /\ tpc[spawned[r]] = "sleep"
             /\ spawned[r] \notin dying /\ spawned[r] # handle
             /\ \A q \in Runs : spawned[q] = spawned[r] => q = r

\* A task that handles an event has it; it cancels for a switch to streaming.
TodoInv ==
    \A t \in Tasks :
       /\ tpc[t] \in {"cancel", "switch", "cancelAgain"} => todo[t] # <<>>
       /\ tpc[t] \in {"cancel", "cancelAgain"} => Head(todo[t])

\* A recovery on its way, for the run that fell back.
OnItsWay ==
    \/ "Immediate" \in {pending, local}
    \/ \E r \in Runs : wpc[r] = "spawn" \/ (wpc[r] = "store" /\ home[spawned[r]] = run)
    \/ \E t \in Tasks : Brings(t)

RecoveryInv == phase = "running" /\ fellBack /\ ~cutOff => OnItsWay

\* A run that has not been started has no worker yet.
RunInv ==
    /\ phase # "stopped" => run \in Runs
    /\ \A r \in Runs : r > run => wpc[r] = "gone"

IInv ==
    /\ TypeOK /\ RunInv
    /\ HandleInv /\ DyingInv /\ SpawnedInv /\ TodoInv
    /\ RecoveryInv

-----------------------------------------------------------------------------
(* Types, one group of variables at a time.                                *)

WorkerPcs == WorkerAwaits \cup {"gone", "check", "fall", "spawn", "store"}
TaskPcs == TaskAwaits \cup TaskTail \cup {"none"}

ElementType ==
    /\ phase \in {"stopped", "running", "draining"} /\ run \in 0..MaxRuns
    /\ mode \in Modes /\ pending \in Modes \cup {NoSwitch}
    /\ local \in Modes \cup {NoSwitch}
    /\ fellBack \in BOOLEAN /\ cutOff \in BOOLEAN

HandleType == handle \in Recoveries \cup {NoTask} /\ dying \subseteq Runs \cup Recoveries

EventsType == events \in Seq(BOOLEAN)

QueueType == queue \in [Runs -> Seq(Modes)] /\ \A r \in Runs : Len(queue[r]) <= Capacity

WorkerType == wpc \in [Runs -> WorkerPcs] /\ spawned \in [Runs -> Recoveries \cup {NoTask}]

TaskType == tpc \in [Tasks -> TaskPcs] /\ home \in [Tasks -> 0..MaxRuns]

TodoType == todo \in [Tasks -> Seq(BOOLEAN)]

\* The groups and the registered handle are the type invariant.
LEMMA TypeGroups ==
    TypeOK <=> /\ ElementType /\ HandleType /\ EventsType /\ QueueType
               /\ WorkerType /\ TaskType /\ TodoType
               /\ (handle # NoTask => tpc[handle] # "none")
<1>1. /\ {pending, local} \subseteq Modes \cup {NoSwitch}
           <=> pending \in Modes \cup {NoSwitch} /\ local \in Modes \cup {NoSwitch}
      /\ {fellBack, cutOff} \subseteq BOOLEAN
           <=> fellBack \in BOOLEAN /\ cutOff \in BOOLEAN
  BY Zenon
<1>2. QED
  BY <1>1 DEF TypeOK, ElementType, HandleType, EventsType, QueueType, WorkerType, TaskType,
     TodoType, WorkerPcs, TaskPcs

Types ==
    /\ ElementType /\ HandleType /\ EventsType /\ QueueType
    /\ WorkerType /\ TaskType /\ TodoType

\* A handle that is registered is that of a task, so the groups are enough.
LEMMA TypeOKFollows == Types /\ HandleInv => TypeOK
<1>1. Types /\ HandleInv => (handle # NoTask => tpc[handle] # "none")
  BY DEF HandleInv, Registered, TaskAwaits
<1>2. QED
  BY <1>1, TypeGroups DEF Types

\* The constants, one by one.
LEMMA Names ==
    /\ Recoveries \subseteq Tasks /\ Triggers \subseteq Tasks
    /\ Recoveries \cap Triggers = {} /\ NoTask \notin Tasks
    /\ Runs \cap (Tasks \cup {NoTask}) = {}
    /\ Capacity \in Nat \ {0} /\ MaxRuns \in Nat \ {0}
    /\ Runs = 1..MaxRuns /\ Switches \subseteq BOOLEAN
  BY TasksAssumption, SwitchesAssumption, BoundsAssumption DEF Tasks, Runs

-----------------------------------------------------------------------------
(* The steps, grouped by what they change.                                 *)

\* Steps of a worker that concern its own queue and fragment only.
WorkerMoves(r) ==
    \/ Recv(r) \/ WorkerEnds(r) \/ WorkerAborted(r)
    \/ PutSucceeds(r) \/ PutFails(r) \/ NetworkFails(r)
    \/ CheckRecovery(r) \/ BufferFragment(r)

\* Steps of the element itself.
ElementStep == Start \/ Stop \/ Stopped \/ Boundary \/ ApplySwitch

\* They touch nothing but the queue and where the worker is.
LEMMA WorkerMovesFrame ==
    ASSUME NEW r \in Runs, WorkerMoves(r)
    PROVE  /\ UNCHANGED <<phase, run, state, events, local, spawned, dying, tasks, ghosts>>
           /\ wpc[r] \in WorkerAwaits \cup {"check"}
           /\ \E pc \in WorkerAwaits \cup {"gone", "check", "fall"} : Goes(r, pc)
           /\ queue' = queue \/ (queue[r] # <<>> /\ queue' = [queue EXCEPT ![r] = Tail(@)])
<1> USE DEF WorkerAwaits, Goes
<1>1. CASE Recv(r)
  BY <1>1 DEF Recv
<1>2. CASE WorkerEnds(r) \/ WorkerAborted(r)
  BY <1>2 DEF WorkerEnds, WorkerAborted
<1>3. CASE PutSucceeds(r) \/ PutFails(r) \/ NetworkFails(r)
  BY <1>3 DEF PutSucceeds, PutFails, NetworkFails, Put
<1>4. CASE CheckRecovery(r) \/ BufferFragment(r)
  BY <1>4 DEF CheckRecovery, BufferFragment
<1>5. QED
  BY <1>1, <1>2, <1>3, <1>4 DEF WorkerMoves

\* What a step of a task does to itself, and to others by way of the handle.
TaskEffect(t) ==
    /\ UNCHANGED <<phase, run, mode, local, worker>>
    /\ \E pc \in TaskPcs : Steps(t, pc)
    /\ \E h \in {home[t], 0, run} : home' = [home EXCEPT ![t] = h]
    /\ \/ UNCHANGED handle /\ dying' \in {dying, dying \ {t}}
       \/ handle' = NoTask /\ dying' \in {dying, Aborted(handle), Aborted(handle) \ {t}}
    /\ tpc'[t] = "none" => t \notin dying'

\* All of a task's steps do no more than that.
LEMMA TaskEffects ==
    ASSUME Types, NEW t \in Tasks, TaskStep(t) \/ StartTrigger(t)
    PROVE  TaskEffect(t)
<1> USE DEF TaskEffect, Steps, TaskPcs, TaskAwaits, TaskTail, state, tasks, ghosts
<1>1. tpc \in [Tasks -> TaskPcs] /\ home \in [Tasks -> 0..MaxRuns]
  BY DEF Types, TaskType
<1>2. home = [home EXCEPT ![t] = home[t]]
  BY <1>1
<1>3. CASE StartTrigger(t)
  BY <1>1, <1>3 DEF StartTrigger
<1>4. CASE TaskAborted(t)
  BY <1>1, <1>4 DEF TaskAborted, Ends
<1>5. CASE Wake(t) \/ LockManager(t)
  BY <1>1, <1>2, <1>5 DEF Wake, LockManager
<1>6. CASE \E s \in BOOLEAN : UploadReturns(t, s)
  BY <1>1, <1>2, <1>6 DEF UploadReturns
<1>7. CASE UploadFails(t)
  BY <1>1, <1>2, <1>7 DEF UploadFails, AfterError, Ends
<1>8. CASE ClearHandle(t)
  BY <1>1, <1>2, <1>8 DEF ClearHandle
<1>9. CASE DrainEvents(t)
  BY <1>1, <1>2, <1>9 DEF DrainEvents, Proceeds, Ends
<1>10. CASE EventCancels(t)
  BY <1>1, <1>2, <1>10 DEF EventCancels, CancelRecovery
<1>11. CASE SwitchToImmediate(t)
  BY <1>1, <1>2, <1>11 DEF SwitchToImmediate
<1>12. CASE SwitchToBufferOnly(t)
  BY <1>1, <1>2, <1>12 DEF SwitchToBufferOnly, Proceeds, Ends
<1>13. CASE SwitchCancels(t)
  BY <1>1, <1>2, <1>13 DEF SwitchCancels
<1>14. QED
  BY <1>3, <1>4, <1>5, <1>6, <1>7, <1>8, <1>9, <1>10, <1>11, <1>12, <1>13 DEF TaskStep

\* A task whose handle is kept stays registered until the handle is forgotten.
LEMMA StaysRegistered ==
    ASSUME Types, NEW t \in Recoveries, TaskStep(t) \/ StartTrigger(t),
           t \notin dying, tpc[t] \in Registered
    PROVE  tpc'[t] \in Registered \/ handle' = NoTask
<1> USE DEF Steps, Registered, TaskAwaits, TaskTail
<1>1. tpc \in [Tasks -> TaskPcs] /\ t \in Tasks /\ t \notin Triggers
  BY Names DEF Types, TaskType
<1>2. CASE StartTrigger(t) \/ TaskAborted(t)
  BY <1>1, <1>2 DEF StartTrigger, TaskAborted
<1>3. CASE Wake(t) \/ LockManager(t)
  BY <1>1, <1>3 DEF Wake, LockManager
<1>4. CASE \E s \in BOOLEAN : UploadReturns(t, s)
  BY <1>1, <1>4 DEF UploadReturns
<1>5. CASE UploadFails(t)
  BY <1>1, <1>5 DEF UploadFails, AfterError
<1>6. CASE ClearHandle(t)
  BY <1>6 DEF ClearHandle
<1>7. CASE DrainEvents(t) \/ EventCancels(t) \/ SwitchToImmediate(t)
          \/ SwitchToBufferOnly(t)
           \/ SwitchCancels(t)
  BY <1>7 DEF DrainEvents, EventCancels, SwitchToImmediate, SwitchToBufferOnly,
      SwitchCancels
<1>8. QED
  BY <1>2, <1>3, <1>4, <1>5, <1>6, <1>7 DEF TaskStep

\* Nobody but its worker moves a task whose handle is not stored yet.
LEMMA SpawnedSleeps ==
    ASSUME SpawnedInv, NEW t \in Tasks, TaskStep(t) \/ StartTrigger(t),
           NEW r \in Runs, spawned[r] # NoTask
    PROVE  spawned[r] # t
<1>1. tpc[spawned[r]] = "sleep" /\ spawned[r] \notin dying
  BY DEF SpawnedInv
<1>2. tpc[t] # "sleep" \/ t \in dying \/ \A q \in Runs : spawned[q] # t
  BY DEF TaskStep, StartTrigger, TaskAborted, Wake, LockManager, UploadReturns, UploadFails,
     ClearHandle, DrainEvents, EventCancels, SwitchToImmediate, SwitchToBufferOnly,
     SwitchCancels
<1>3. QED
  BY <1>1, <1>2

\* Every step is one of these.
LEMMA StepCases ==
    ASSUME [Next]_vars
    PROVE  \/ ElementStep
           \/ \E r \in Runs : WorkerMoves(r) \/ FallBack(r) \/ SpawnRecovery(r)
               \/ StoreHandle(r)
           \/ \E t \in Tasks : TaskStep(t) \/ StartTrigger(t)
           \/ UNCHANGED vars
<1>1. CASE \E r \in Runs : WorkerStep(r)
  BY <1>1 DEF WorkerStep, WorkerMoves
<1>2. CASE \E t \in Triggers : StartTrigger(t)
  BY <1>2, Names
<1>3. QED
  BY <1>1, <1>2 DEF Next, ElementStep

-----------------------------------------------------------------------------
(* The parts of the invariant that tasks and workers share.                *)

\* A handle is that of a task that has neither been aborted nor come to its end.
LEMMA HandleStep == IInv /\ [Next]_vars => HandleInv'
<1> SUFFICES ASSUME IInv, [Next]_vars PROVE HandleInv'
  OBVIOUS
<1> USE DEF state, worker, tasks, ghosts
<1>1. /\ Types /\ HandleInv /\ SpawnedInv /\ handle \in Recoveries \cup {NoTask}
      /\ tpc \in [Tasks -> TaskPcs]
  BY TypeGroups DEF IInv, Types, HandleType, TaskType
<1>2. ASSUME handle' = NoTask PROVE HandleInv'
  BY <1>2 DEF HandleInv
<1>3. ASSUME UNCHANGED <<handle, dying, tpc>> PROVE HandleInv'
  BY <1>1, <1>3 DEF HandleInv
<1>4. CASE ElementStep
  <2>1. CASE Start \/ Boundary \/ ApplySwitch
    BY <2>1, <1>3 DEF Start, Boundary, ApplySwitch
  <2>2. CASE Stop \/ Stopped
    BY <2>2, <1>2 DEF Stop, Stopped, CancelRecovery
  <2>3. QED
    BY <1>4, <2>1, <2>2 DEF ElementStep
<1>5. ASSUME NEW r \in Runs, WorkerMoves(r) \/ FallBack(r) PROVE HandleInv'
  BY <1>5, <1>3, WorkerMovesFrame DEF FallBack
<1>6. ASSUME NEW r \in Runs, SpawnRecovery(r) PROVE HandleInv'
  <2>1. UNCHANGED <<handle, dying>>
    BY <1>6 DEF SpawnRecovery
  <2>2. handle # NoTask => tpc[handle] \in Registered /\ handle \in Tasks
    BY <1>1, Names DEF HandleInv
  <2>3. UNCHANGED tpc \/ \E t \in Recoveries :
            tpc[t] = "none" /\ tpc' = [tpc EXCEPT ![t] = "sleep"]
    BY <1>6 DEF SpawnRecovery
  <2>4. "none" \notin Registered
    BY DEF Registered, TaskAwaits
  <2>5. QED
    BY <1>1, <2>1, <2>2, <2>3, <2>4 DEF HandleInv
<1>7. ASSUME NEW r \in Runs, StoreHandle(r) PROVE HandleInv'
  <2>1. spawned[r] # NoTask /\ tpc[spawned[r]] = "sleep" /\ spawned[r] \notin dying
    BY <1>1, <1>7 DEF StoreHandle, SpawnedInv
  <2>2. QED
    BY <1>7, <2>1 DEF StoreHandle, HandleInv, Registered, TaskAwaits
<1>8. ASSUME NEW t \in Tasks, TaskStep(t) \/ StartTrigger(t) PROVE HandleInv'
  <2>1. TaskEffect(t)
    BY <1>1, <1>8, TaskEffects
  <2>2. CASE handle = NoTask
    BY <2>1, <2>2, <1>2 DEF TaskEffect
  <2>3. CASE UNCHANGED handle /\ handle # NoTask
    <3>1. dying' \subseteq dying
      BY <2>1, <2>3 DEF TaskEffect
    <3>2. handle \in Recoveries /\ handle \in Tasks /\ handle \notin dying
              /\ tpc[handle] \in Registered
      BY <1>1, <2>3, Names DEF HandleInv
    <3>3. CASE t = handle
      <4>1. tpc'[t] \in Registered
        BY <1>1, <1>8, <2>3, <3>2, <3>3, StaysRegistered
      <4>2. QED
        BY <2>3, <3>1, <3>2, <3>3, <4>1 DEF HandleInv
    <3>4. CASE t # handle
      <4>1. tpc'[handle] = tpc[handle]
        BY <1>1, <2>1, <3>2, <3>4 DEF TaskEffect, Steps
      <4>2. QED
        BY <2>3, <3>1, <3>2, <4>1 DEF HandleInv
    <3>5. QED
      BY <3>3, <3>4
  <2>4. QED
    BY <2>1, <2>2, <2>3, <1>2 DEF TaskEffect
<1>9. CASE UNCHANGED vars
  BY <1>9, <1>3 DEF vars
<1>10. QED
  BY <1>4, <1>5, <1>6, <1>7, <1>8, <1>9, StepCases

\* Aborting ends with the task; its name may then serve again.
LEMMA DyingStep == IInv /\ [Next]_vars => DyingInv'
<1> SUFFICES ASSUME IInv, [Next]_vars PROVE DyingInv'
  OBVIOUS
<1> USE DEF state, worker, tasks, ghosts
<1>1. /\ Types /\ HandleInv /\ DyingInv /\ RunInv /\ handle \in Recoveries \cup {NoTask}
      /\ tpc \in [Tasks -> TaskPcs]
  BY TypeGroups DEF IInv, Types, HandleType, TaskType
<1>2. handle # NoTask => tpc[handle] # "none"
  BY <1>1 DEF HandleInv, Registered, TaskAwaits
<1>3. ASSUME UNCHANGED tpc, dying' \subseteq dying PROVE DyingInv'
  BY <1>1, <1>3 DEF DyingInv
<1>4. CASE ElementStep
  <2>1. CASE Start \/ Boundary \/ ApplySwitch
    BY <2>1, <1>3 DEF Start, Boundary, ApplySwitch
  <2>2. CASE Stop
    BY <2>2, <1>1, <1>2 DEF Stop, CancelRecovery, Aborted, DyingInv
  <2>3. CASE Stopped
    <3>1. run \in Runs /\ run \notin Recoveries
      BY <1>1, <2>3, Names DEF RunInv, Stopped
    <3>2. UNCHANGED tpc /\ dying' \subseteq dying \cup {run}
      BY <2>3 DEF Stopped
    <3>3. QED
      BY <1>1, <3>1, <3>2 DEF DyingInv
  <2>4. QED
    BY <1>4, <2>1, <2>2, <2>3 DEF ElementStep
<1>5. ASSUME NEW r \in Runs, WorkerMoves(r) \/ FallBack(r) \/ StoreHandle(r) PROVE DyingInv'
  BY <1>5, <1>3, WorkerMovesFrame DEF FallBack, StoreHandle
<1>6. ASSUME NEW r \in Runs, SpawnRecovery(r) PROVE DyingInv'
  <2>1. /\ UNCHANGED dying
        /\ UNCHANGED tpc \/ \E t \in Recoveries : tpc' = [tpc EXCEPT ![t] = "sleep"]
    BY <1>6 DEF SpawnRecovery
  <2>2. QED
    BY <1>1, <2>1, Names DEF DyingInv
<1>7. ASSUME NEW t \in Tasks, TaskStep(t) \/ StartTrigger(t) PROVE DyingInv'
  <2>1. TaskEffect(t)
    BY <1>1, <1>7, TaskEffects
  <2>2. \A u \in Tasks : u # t => tpc'[u] = tpc[u]
    BY <1>1, <2>1 DEF TaskEffect, Steps
  <2>3. \A u \in dying' : u \in dying \/ (u = handle /\ handle # NoTask)
    BY <2>1 DEF TaskEffect, Aborted
  <2>4. tpc'[t] = "none" => t \notin dying'
    BY <2>1 DEF TaskEffect
  <2>5. QED
    BY <1>1, <1>2, <2>2, <2>3, <2>4, Names DEF DyingInv
<1>8. CASE UNCHANGED vars
  BY <1>8, <1>3 DEF vars
<1>9. QED
  BY <1>4, <1>5, <1>6, <1>7, <1>8, StepCases

\* A worker that has spawned a task stores its handle next.
LEMMA SpawnedStep == IInv /\ [Next]_vars => SpawnedInv'
<1> SUFFICES ASSUME IInv, [Next]_vars PROVE SpawnedInv'
  OBVIOUS
<1> USE DEF state, worker, tasks, ghosts
<1>1. /\ Types /\ HandleInv /\ DyingInv /\ RunInv /\ SpawnedInv
      /\ handle \in Recoveries \cup {NoTask}
      /\ tpc \in [Tasks -> TaskPcs] /\ wpc \in [Runs -> WorkerPcs]
      /\ spawned \in [Runs -> Recoveries \cup {NoTask}]
  BY TypeGroups DEF IInv, Types, HandleType, TaskType, WorkerType
<1>2. ASSUME UNCHANGED <<wpc, spawned>>,
             \A r \in Runs : spawned[r] # NoTask =>
                /\ tpc'[spawned[r]] = "sleep" /\ spawned[r] \notin dying'
                /\ spawned[r] # handle'
      PROVE  SpawnedInv'
  BY <1>1, <1>2 DEF SpawnedInv
<1>3. CASE ElementStep
  <2>1. CASE Start
    <3>1. /\ UNCHANGED <<spawned, tpc, dying, handle>>
          /\ wpc' = [wpc EXCEPT ![run + 1] = "recv"] /\ run < MaxRuns
      BY <2>1 DEF Start
    <3>2. run + 1 \in Runs => wpc[run + 1] = "gone"
      <4>1. run \in Nat
        BY <1>1 DEF Types, ElementType
      <4>2. QED
        BY <1>1, <4>1 DEF RunInv
    <3>3. \A r \in Runs : wpc'[r] = "store" <=> wpc[r] = "store"
      BY <1>1, <3>1, <3>2
    <3>4. QED
      BY <1>1, <3>1, <3>3 DEF SpawnedInv
  <2>2. CASE Boundary \/ ApplySwitch
    BY <1>1, <2>2 DEF Boundary, ApplySwitch, SpawnedInv
  <2>3. CASE Stop
    <3>1. UNCHANGED <<wpc, spawned, tpc>> /\ handle' = NoTask /\ dying' = Aborted(handle)
      BY <2>3 DEF Stop, CancelRecovery
    <3>2. QED
      BY <1>1, <3>1, <1>2 DEF SpawnedInv, Aborted
  <2>4. CASE Stopped
    <3>1. run \in Runs /\ run \notin Recoveries
      BY <1>1, <2>4, Names DEF RunInv, Stopped
    <3>2. /\ UNCHANGED <<wpc, spawned, tpc>> /\ handle' = NoTask
          /\ dying' \subseteq dying \cup {run}
      BY <2>4 DEF Stopped
    <3>3. QED
      BY <1>1, <3>1, <3>2, <1>2 DEF SpawnedInv
  <2>5. QED
    BY <1>3, <2>1, <2>2, <2>3, <2>4 DEF ElementStep
<1>4. ASSUME NEW r \in Runs, WorkerMoves(r) \/ FallBack(r) PROVE SpawnedInv'
  <2>1. UNCHANGED <<spawned, tpc, dying, handle>>
    BY <1>4, WorkerMovesFrame DEF FallBack
  <2>2. \A q \in Runs : wpc'[q] = "store" <=> wpc[q] = "store"
    <3>1. CASE WorkerMoves(r)
      <4>1. wpc[r] # "store"
        BY <3>1, WorkerMovesFrame DEF WorkerAwaits
      <4>2. PICK pc \in WorkerAwaits \cup {"gone", "check", "fall"} :
                wpc' = [wpc EXCEPT ![r] = pc]
        BY <3>1, WorkerMovesFrame DEF Goes
      <4>3. pc # "store"
        BY DEF WorkerAwaits
      <4>4. QED
        BY <1>1, <4>1, <4>2, <4>3
    <3>2. CASE FallBack(r)
      BY <1>1, <3>2 DEF FallBack, Goes
    <3>3. QED
      BY <1>4, <3>1, <3>2
  <2>3. QED
    BY <1>1, <2>1, <2>2 DEF SpawnedInv
<1>5. ASSUME NEW r \in Runs, SpawnRecovery(r) PROVE SpawnedInv'
  <2>1. wpc[r] = "spawn" /\ UNCHANGED <<dying, handle>>
    BY <1>5 DEF SpawnRecovery
  <2>2. CASE phase = "stopped"
    <3>1. wpc' = [wpc EXCEPT ![r] = "buffer"] /\ UNCHANGED <<spawned, tpc>>
      BY <1>5, <2>2 DEF SpawnRecovery, Goes
    <3>2. \A q \in Runs : wpc'[q] = "store" <=> wpc[q] = "store"
      BY <1>1, <2>1, <3>1
    <3>3. QED
      BY <1>1, <2>1, <3>1, <3>2 DEF SpawnedInv
  <2>3. CASE phase # "stopped"
    <3>1. PICK t \in Recoveries :
            /\ tpc[t] = "none" /\ tpc' = [tpc EXCEPT ![t] = "sleep"]
            /\ spawned' = [spawned EXCEPT ![r] = t] /\ wpc' = [wpc EXCEPT ![r] = "store"]
      BY <1>5, <2>3 DEF SpawnRecovery, Goes
    <3>2. /\ t \notin dying /\ t # handle /\ t \in Tasks /\ t # NoTask
          /\ \A q \in Runs : spawned[q] # t
      BY <1>1, <3>1, Names DEF DyingInv, HandleInv, SpawnedInv, Registered, TaskAwaits
    <3>3. /\ tpc'[t] = "sleep" /\ \A u \in Tasks : u # t => tpc'[u] = tpc[u]
          /\ spawned'[r] = t /\ \A q \in Runs : q # r => spawned'[q] = spawned[q]
          /\ wpc'[r] = "store" /\ \A q \in Runs : q # r => wpc'[q] = wpc[q]
      BY <1>1, <3>1, <3>2
    <3>4. \A q \in Runs : spawned[q] # NoTask => spawned[q] \in Tasks
      BY <1>1, Names
    <3>5. ASSUME NEW q \in Runs
          PROVE  /\ wpc'[q] = "store" <=> spawned'[q] # NoTask
                 /\ spawned'[q] # NoTask =>
                       /\ tpc'[spawned'[q]] = "sleep"
                       /\ spawned'[q] \notin dying' /\ spawned'[q] # handle'
                       /\ \A o \in Runs : spawned'[o] = spawned'[q] => o = q
      <4>1. CASE q = r
        BY <2>1, <3>2, <3>3, <4>1
      <4>2. CASE q # r
        BY <1>1, <2>1, <3>2, <3>3, <3>4, <4>2 DEF SpawnedInv
      <4>3. QED
        BY <4>1, <4>2
    <3>6. QED
      BY <3>5 DEF SpawnedInv
  <2>4. QED
    BY <2>2, <2>3
<1>6. ASSUME NEW r \in Runs, StoreHandle(r) PROVE SpawnedInv'
  <2>1. /\ UNCHANGED <<tpc, dying>> /\ handle' = spawned[r] /\ wpc[r] = "store"
        /\ spawned'[r] = NoTask /\ \A q \in Runs : q # r => spawned'[q] = spawned[q]
        /\ wpc'[r] = "buffer" /\ \A q \in Runs : q # r => wpc'[q] = wpc[q]
    BY <1>1, <1>6 DEF StoreHandle, Goes
  <2>2. ASSUME NEW q \in Runs
        PROVE  /\ wpc'[q] = "store" <=> spawned'[q] # NoTask
               /\ spawned'[q] # NoTask =>
                     /\ tpc'[spawned'[q]] = "sleep"
                     /\ spawned'[q] \notin dying' /\ spawned'[q] # handle'
                     /\ \A o \in Runs : spawned'[o] = spawned'[q] => o = q
    <3>1. CASE q = r
      BY <2>1, <3>1
    <3>2. CASE q # r
      BY <1>1, <2>1, <3>2 DEF SpawnedInv
    <3>3. QED
      BY <3>1, <3>2
  <2>3. QED
    BY <2>2 DEF SpawnedInv
<1>7. ASSUME NEW t \in Tasks, TaskStep(t) \/ StartTrigger(t) PROVE SpawnedInv'
  <2>1. TaskEffect(t)
    BY <1>1, <1>7, TaskEffects
  <2>2. UNCHANGED <<wpc, spawned>> /\ handle' \in {handle, NoTask}
    BY <2>1 DEF TaskEffect
  <2>3. \A u \in dying' : u \in dying \/ (u = handle /\ handle # NoTask)
    BY <2>1 DEF TaskEffect, Aborted
  <2>4. \A u \in Tasks : u # t => tpc'[u] = tpc[u]
    BY <1>1, <2>1 DEF TaskEffect, Steps
  <2>5. \A r \in Runs : spawned[r] # NoTask => spawned[r] # t /\ spawned[r] \in Tasks
    BY <1>1, <1>7, SpawnedSleeps, Names
  <2>6. QED
    BY <1>1, <2>2, <2>3, <2>4, <2>5, <1>2 DEF SpawnedInv
<1>8. CASE UNCHANGED vars
  BY <1>1, <1>8 DEF vars, SpawnedInv
<1>9. QED
  BY <1>3, <1>4, <1>5, <1>6, <1>7, <1>8, StepCases

\* What process_buffer_events() goes on with.
LEMMA ProceedsFacts ==
    ASSUME Types, NEW t \in Tasks, NEW list \in Seq(BOOLEAN), Proceeds(t, list)
    PROVE  /\ \A u \in Tasks : u # t => todo'[u] = todo[u] /\ tpc'[u] = tpc[u]
           /\ todo'[t] = list /\ todo' \in [Tasks -> Seq(BOOLEAN)]
           /\ \/ list = <<>> /\ tpc'[t] = "none"
              \/ list # <<>> /\ Head(list) /\ tpc'[t] = "cancel"
              \/ list # <<>> /\ ~Head(list) /\ tpc'[t] = "switch"
<1>1. tpc \in [Tasks -> TaskPcs] /\ todo \in [Tasks -> Seq(BOOLEAN)]
  BY DEF Types, TaskType, TodoType
<1>2. todo' = [todo EXCEPT ![t] = list]
  BY DEF Proceeds
<1>3. CASE list = <<>>
  BY <1>1, <1>2, <1>3 DEF Proceeds, Ends, Steps
<1>4. CASE list # <<>>
  <2>1. tpc' = [tpc EXCEPT ![t] = IF Head(list) THEN "cancel" ELSE "switch"]
    BY <1>4 DEF Proceeds, Steps
  <2>2. QED
    BY <1>1, <1>2, <1>4, <2>1
<1>5. QED
  BY <1>3, <1>4

\* Events are handled one after the other, each by the steps it calls for.
LEMMA TodoStep == IInv /\ [Next]_vars => TodoInv' /\ TodoType'
<1> SUFFICES ASSUME IInv, [Next]_vars PROVE TodoInv' /\ TodoType'
  OBVIOUS
<1> USE DEF state, worker, tasks, ghosts, TodoType
<1>1. /\ Types /\ TodoInv /\ TodoType /\ EventsType
      /\ tpc \in [Tasks -> TaskPcs]
  BY TypeGroups DEF IInv, Types, TaskType
<1>2. ASSUME UNCHANGED <<tpc, todo>> PROVE TodoInv' /\ TodoType'
  BY <1>1, <1>2 DEF TodoInv
<1>3. ASSUME NEW t \in Tasks, UNCHANGED todo,
             NEW pc \in TaskAwaits \cup {"none", "clear", "drain"}, Steps(t, pc)
      PROVE  TodoInv' /\ TodoType'
  <2>1. pc \notin {"cancel", "switch", "cancelAgain"}
    BY DEF TaskAwaits
  <2>2. QED
    BY <1>1, <1>3, <2>1 DEF TodoInv, Steps
<1>4. CASE ElementStep
  BY <1>4, <1>2 DEF ElementStep, Start, Stop, Stopped, Boundary, ApplySwitch
<1>5. ASSUME NEW r \in Runs, WorkerMoves(r) \/ FallBack(r) \/ StoreHandle(r)
      PROVE  TodoInv' /\ TodoType'
  BY <1>5, <1>2, WorkerMovesFrame DEF FallBack, StoreHandle
<1>6. ASSUME NEW r \in Runs, SpawnRecovery(r) PROVE TodoInv' /\ TodoType'
  <2>1. \/ UNCHANGED <<tpc, todo>>
        \/ UNCHANGED todo /\ \E t \in Recoveries : Steps(t, "sleep")
    BY <1>6 DEF SpawnRecovery, Steps
  <2>2. QED
    BY <2>1, <1>2, <1>3, Names DEF TaskAwaits
<1>7. ASSUME NEW t \in Tasks, TaskStep(t) \/ StartTrigger(t) PROVE TodoInv' /\ TodoType'
  <2>1. CASE StartTrigger(t) \/ Wake(t) \/ LockManager(t)
    BY <2>1, <1>3 DEF StartTrigger, Wake, LockManager, TaskAwaits
  <2>2. CASE TaskAborted(t) \/ ClearHandle(t)
    BY <2>2, <1>3 DEF TaskAborted, ClearHandle, Ends
  <2>3. CASE \E s \in BOOLEAN : UploadReturns(t, s)
    BY <2>3, <1>3 DEF UploadReturns
  <2>4. CASE UploadFails(t)
    BY <2>4, <1>3 DEF UploadFails, AfterError, Ends, TaskAwaits
  <2>5. CASE DrainEvents(t)
    <3>1. Proceeds(t, events) /\ events \in Seq(BOOLEAN)
      BY <1>1, <2>5 DEF DrainEvents, EventsType
    <3>2. QED
      BY <1>1, <3>1, ProceedsFacts DEF TodoInv
  <2>6. CASE EventCancels(t)
    BY <1>1, <2>6 DEF EventCancels, Steps, TodoInv
  <2>7. CASE SwitchToImmediate(t)
    BY <1>1, <2>7 DEF SwitchToImmediate, Steps, TodoInv
  <2>8. CASE SwitchToBufferOnly(t)
    <3>1. Proceeds(t, Tail(todo[t])) /\ tpc[t] = "switch"
      BY <2>8 DEF SwitchToBufferOnly
    <3>2. Tail(todo[t]) \in Seq(BOOLEAN)
      <4>1. todo[t] \in Seq(BOOLEAN) /\ todo[t] # <<>>
        BY <1>1, <3>1 DEF TodoInv
      <4>2. QED
        BY <4>1, ElementsTail
    <3>3. QED
      BY <1>1, <3>1, <3>2, ProceedsFacts DEF TodoInv
  <2>9. CASE SwitchCancels(t)
    <3> DEFINE rest == Tail(todo[t])
    <3>1. tpc[t] = "cancelAgain" /\ todo' = [todo EXCEPT ![t] = rest]
      BY <2>9 DEF SwitchCancels
    <3>2. rest \in Seq(BOOLEAN)
      <4>1. todo[t] \in Seq(BOOLEAN) /\ todo[t] # <<>>
        BY <1>1, <3>1 DEF TodoInv
      <4>2. QED
        BY <4>1, ElementsTail
    <3>3. tpc' = [tpc EXCEPT ![t] = IF rest = <<>> THEN "none"
                                   ELSE IF Head(rest) THEN "cancel" ELSE "switch"]
      BY <2>9 DEF SwitchCancels, Steps
    <3> HIDE DEF rest
    <3>4. QED
      BY <1>1, <3>1, <3>2, <3>3 DEF TodoInv
  <2>10. QED
    BY <1>7, <2>1, <2>2, <2>3, <2>4, <2>5, <2>6, <2>7, <2>8, <2>9 DEF TaskStep
<1>8. CASE UNCHANGED vars
  BY <1>8, <1>2 DEF vars
<1>9. QED
  BY <1>4, <1>5, <1>6, <1>7, <1>8, StepCases

\* A worker comes with its run.
LEMMA RunStep == IInv /\ [Next]_vars => RunInv'
<1> SUFFICES ASSUME IInv, [Next]_vars PROVE RunInv'
  OBVIOUS
<1> USE DEF state, worker, tasks, ghosts
<1>1. /\ Types /\ RunInv /\ wpc \in [Runs -> WorkerPcs] /\ run \in 0..MaxRuns
      /\ MaxRuns \in Nat /\ Runs = 1..MaxRuns
  BY TypeGroups, Names DEF IInv, Types, WorkerType, ElementType
<1>2. ASSUME UNCHANGED <<run, wpc>>, phase' = "stopped" \/ phase # "stopped"
          \/ phase' = phase
      PROVE  RunInv'
  BY <1>1, <1>2 DEF RunInv
<1>3. ASSUME NEW r \in Runs, NEW pc, UNCHANGED <<phase, run>>, wpc[r] # "gone", Goes(r, pc)
      PROVE  RunInv'
  BY <1>1, <1>3 DEF RunInv, Goes
<1>4. CASE ElementStep
  <2>1. CASE Start
    BY <1>1, <2>1 DEF Start, RunInv
  <2>2. CASE Stop \/ Stopped \/ Boundary \/ ApplySwitch
    BY <2>2, <1>2 DEF Stop, Stopped, Boundary, ApplySwitch
  <2>3. QED
    BY <1>4, <2>1, <2>2 DEF ElementStep
<1>5. ASSUME NEW r \in Runs, WorkerMoves(r) PROVE RunInv'
  BY <1>5, <1>3, WorkerMovesFrame DEF WorkerAwaits
<1>6. ASSUME NEW r \in Runs, FallBack(r) \/ SpawnRecovery(r) \/ StoreHandle(r) PROVE RunInv'
  <2>1. UNCHANGED <<phase, run>> /\ wpc[r] # "gone"
    BY <1>6 DEF FallBack, SpawnRecovery, StoreHandle
  <2>2. \E pc \in {"spawn", "buffer", "store"} : Goes(r, pc)
    BY <1>6 DEF FallBack, SpawnRecovery, StoreHandle
  <2>3. QED
    BY <2>1, <2>2, <1>3
<1>7. ASSUME NEW t \in Tasks, TaskStep(t) \/ StartTrigger(t) PROVE RunInv'
  <2>1. TaskEffect(t)
    BY <1>1, <1>7, TaskEffects
  <2>2. QED
    BY <2>1, <1>2 DEF TaskEffect
<1>8. CASE UNCHANGED vars
  BY <1>8, <1>2 DEF vars
<1>9. QED
  BY <1>4, <1>5, <1>6, <1>7, <1>8, StepCases

-----------------------------------------------------------------------------
(* Types.                                                                  *)

\* Each group of variables keeps its type.
LEMMA ElementTypeStep == IInv /\ [Next]_vars => ElementType'
<1> SUFFICES ASSUME IInv, [Next]_vars PROVE ElementType'
  OBVIOUS
<1> USE DEF state, worker, tasks, ghosts, ElementType, Modes
<1>1. /\ Types /\ ElementType /\ MaxRuns \in Nat
  BY TypeGroups, Names DEF IInv, Types
<1>2. ASSUME UNCHANGED <<phase, run, mode, pending, local, fellBack, cutOff>>
      PROVE  ElementType'
  BY <1>1, <1>2
<1>3. CASE ElementStep
  <2>1. CASE Start
    <3>1. /\ phase' = "running" /\ run' = run + 1 /\ run < MaxRuns /\ mode' \in Modes
          /\ UNCHANGED <<pending, local>>
      BY <2>1 DEF Start
    <3>2. fellBack' \in BOOLEAN /\ cutOff' \in BOOLEAN
      BY <2>1, Zenon DEF Start
    <3>3. QED
      BY <1>1, <3>1, <3>2
  <2>2. CASE Stop \/ Stopped
    BY <1>1, <2>2 DEF Stop, Stopped, CancelRecovery
  <2>3. CASE Boundary
    BY <1>1, <2>3 DEF Boundary
  <2>4. CASE ApplySwitch
    BY <1>1, <2>4 DEF ApplySwitch
  <2>5. QED
    BY <1>3, <2>1, <2>2, <2>3, <2>4 DEF ElementStep
<1>4. ASSUME NEW r \in Runs, WorkerMoves(r) PROVE ElementType'
  BY <1>4, <1>2, WorkerMovesFrame
<1>5. ASSUME NEW r \in Runs, FallBack(r) PROVE ElementType'
  BY <1>1, <1>5 DEF FallBack
<1>6. ASSUME NEW r \in Runs, SpawnRecovery(r) \/ StoreHandle(r) PROVE ElementType'
  BY <1>6, <1>2 DEF SpawnRecovery, StoreHandle
<1>7. ASSUME NEW t \in Tasks, TaskStep(t) \/ StartTrigger(t) PROVE ElementType'
  <2>1. UNCHANGED <<phase, run, mode, local>>
    BY <1>1, <1>7, TaskEffects DEF TaskEffect
  <2>2. pending' \in Modes \cup {NoSwitch} /\ fellBack' \in BOOLEAN /\ cutOff' \in BOOLEAN
    <3>1. CASE TaskAborted(t) \/ Wake(t) \/ LockManager(t) \/ UploadFails(t)
              \/ ClearHandle(t)
               \/ DrainEvents(t) \/ EventCancels(t) \/ StartTrigger(t)
               \/ \E s \in BOOLEAN : UploadReturns(t, s)
      BY <1>1, <3>1 DEF TaskAborted, Wake, LockManager, UploadFails, ClearHandle,
         DrainEvents, EventCancels, StartTrigger, UploadReturns
    <3>2. CASE SwitchToImmediate(t) \/ SwitchToBufferOnly(t) \/ SwitchCancels(t)
      BY <1>1, <3>2 DEF SwitchToImmediate, SwitchToBufferOnly, SwitchCancels
    <3>3. QED
      BY <1>7, <3>1, <3>2 DEF TaskStep
  <2>3. QED
    BY <1>1, <2>1, <2>2
<1>8. CASE UNCHANGED vars
  BY <1>8, <1>2 DEF vars
<1>9. QED
  BY <1>3, <1>4, <1>5, <1>6, <1>7, <1>8, StepCases

\* Handles are those of recovery tasks, stored or not.
LEMMA HandleTypeStep == IInv /\ [Next]_vars => HandleType'
<1> SUFFICES ASSUME IInv, [Next]_vars PROVE HandleType'
  OBVIOUS
<1> USE DEF state, worker, tasks, ghosts, HandleType
<1>1. Types /\ HandleType /\ WorkerType /\ RunInv
  BY TypeGroups DEF IInv, Types
<1>2. ASSUME UNCHANGED <<handle, dying>> PROVE HandleType'
  BY <1>1, <1>2
<1>3. Aborted(handle) \subseteq Runs \cup Recoveries
  BY <1>1 DEF Aborted
<1>4. CASE ElementStep
  BY <1>1, <1>3, <1>4 DEF ElementStep, Start, Stop, Stopped, Boundary, ApplySwitch,
     CancelRecovery, RunInv
<1>5. ASSUME NEW r \in Runs, WorkerMoves(r) \/ FallBack(r) \/ SpawnRecovery(r)
      PROVE  HandleType'
  BY <1>5, <1>2, WorkerMovesFrame DEF FallBack, SpawnRecovery
<1>6. ASSUME NEW r \in Runs, StoreHandle(r) PROVE HandleType'
  BY <1>1, <1>6 DEF StoreHandle, WorkerType
<1>7. ASSUME NEW t \in Tasks, TaskStep(t) \/ StartTrigger(t) PROVE HandleType'
  BY <1>1, <1>3, <1>7, TaskEffects DEF TaskEffect
<1>8. CASE UNCHANGED vars
  BY <1>8, <1>2 DEF vars
<1>9. QED
  BY <1>4, <1>5, <1>6, <1>7, <1>8, StepCases

\* Events come and go.
LEMMA EventsTypeStep == IInv /\ [Next]_vars => EventsType'
<1> SUFFICES ASSUME IInv, [Next]_vars PROVE EventsType'
  OBVIOUS
<1> USE DEF state, worker, tasks, ghosts, EventsType
<1>1. Types /\ EventsType
  BY TypeGroups DEF IInv, Types
<1>2. ASSUME events' = events \/ events' = <<>> PROVE EventsType'
  <2>1. <<>> \in Seq(BOOLEAN)
    OBVIOUS
  <2>2. QED
    BY <1>1, <1>2, <2>1, Zenon
<1>3. CASE ElementStep
  BY <1>2, <1>3 DEF ElementStep, Start, Stop, Stopped, Boundary, ApplySwitch
<1>4. ASSUME NEW r \in Runs, WorkerMoves(r) \/ FallBack(r) \/ SpawnRecovery(r)
          \/ StoreHandle(r)
      PROVE  EventsType'
  BY <1>4, <1>2, WorkerMovesFrame DEF FallBack, SpawnRecovery, StoreHandle
<1>5. ASSUME NEW t \in Tasks, TaskStep(t) \/ StartTrigger(t) PROVE EventsType'
  <2>1. CASE \E s \in BOOLEAN : UploadReturns(t, s)
    <3>1. PICK s \in BOOLEAN : UploadReturns(t, s)
      BY <2>1
    <3>2. Append(events, s) \in Seq(BOOLEAN)
      BY <1>1
    <3>3. events' = Append(events, s) \/ events' = events
      BY <3>1 DEF UploadReturns
    <3>4. QED
      BY <3>2, <3>3, <1>2, Zenon
  <2>2. CASE TaskAborted(t) \/ Wake(t) \/ LockManager(t) \/ UploadFails(t) \/ ClearHandle(t)
             \/ DrainEvents(t) \/ StartTrigger(t)
    BY <2>2, <1>2 DEF TaskAborted, Wake, LockManager, UploadFails, ClearHandle, DrainEvents,
       StartTrigger
  <2>3. CASE EventCancels(t) \/ SwitchToImmediate(t) \/ SwitchToBufferOnly(t)
            \/ SwitchCancels(t)
    BY <2>3, <1>2 DEF EventCancels, SwitchToImmediate, SwitchToBufferOnly, SwitchCancels
  <2>4. QED
    BY <1>5, <2>1, <2>2, <2>3 DEF TaskStep
<1>6. CASE UNCHANGED vars
  BY <1>6, <1>2 DEF vars
<1>7. QED
  BY <1>3, <1>4, <1>5, <1>6, StepCases

\* try_send() drops what a full queue has no room for.
LEMMA QueueTypeStep == IInv /\ [Next]_vars => QueueType'
<1> SUFFICES ASSUME IInv, [Next]_vars PROVE QueueType'
  OBVIOUS
<1> USE DEF state, worker, tasks, ghosts, QueueType
<1>1. /\ Types /\ QueueType /\ RunInv /\ mode \in Modes /\ Capacity \in Nat
  BY TypeGroups, Names DEF IInv, Types, ElementType
<1>2. ASSUME UNCHANGED queue PROVE QueueType'
  BY <1>1, <1>2
<1>3. ASSUME NEW r \in Runs, NEW q \in Seq(Modes), Len(q) <= Capacity,
             queue' = [queue EXCEPT ![r] = q]
      PROVE  QueueType'
  BY <1>1, <1>3
<1>4. CASE ElementStep
  <2>1. CASE Start \/ Stop \/ Stopped \/ ApplySwitch
    BY <2>1, <1>2 DEF Start, Stop, Stopped, ApplySwitch
  <2>2. CASE Boundary
    <3>1. CASE HasRoom
      <4>1. run \in Runs /\ queue' = [queue EXCEPT ![run] = Append(queue[run], mode)]
        BY <1>1, <2>2, <3>1 DEF Boundary, RunInv
      <4>2. queue[run] \in Seq(Modes) /\ Len(queue[run]) < Capacity
        BY <1>1, <3>1, <4>1 DEF HasRoom
      <4>3. /\ Append(queue[run], mode) \in Seq(Modes)
            /\ Len(Append(queue[run], mode)) <= Capacity
        BY <1>1, <4>2
      <4>4. QED
        BY <4>1, <4>3, <1>3
    <3>2. CASE ~HasRoom
      BY <2>2, <3>2, <1>2 DEF Boundary
    <3>3. QED
      BY <3>1, <3>2
  <2>3. QED
    BY <1>4, <2>1, <2>2 DEF ElementStep
<1>5. ASSUME NEW r \in Runs, WorkerMoves(r) PROVE QueueType'
  <2>1. CASE queue[r] # <<>> /\ queue' = [queue EXCEPT ![r] = Tail(@)]
    <3>1. queue[r] \in Seq(Modes) /\ Len(queue[r]) <= Capacity /\ Len(queue[r]) \in Nat
      BY <1>1
    <3>2. Tail(queue[r]) \in Seq(Modes) /\ Len(Tail(queue[r])) = Len(queue[r]) - 1
      BY <2>1, <3>1
    <3>3. Len(Tail(queue[r])) <= Capacity
      BY <1>1, <3>1, <3>2
    <3>4. QED
      BY <2>1, <3>2, <3>3, <1>3
  <2>2. QED
    BY <1>5, <2>1, <1>2, WorkerMovesFrame
<1>6. ASSUME NEW r \in Runs, FallBack(r) \/ SpawnRecovery(r) \/ StoreHandle(r)
      PROVE  QueueType'
  BY <1>6, <1>2 DEF FallBack, SpawnRecovery, StoreHandle
<1>7. ASSUME NEW t \in Tasks, TaskStep(t) \/ StartTrigger(t) PROVE QueueType'
  BY <1>1, <1>7, <1>2, TaskEffects DEF TaskEffect
<1>8. CASE UNCHANGED vars
  BY <1>8, <1>2 DEF vars
<1>9. QED
  BY <1>4, <1>5, <1>6, <1>7, <1>8, StepCases

\* A worker is somewhere in its loop.
LEMMA WorkerTypeStep == IInv /\ [Next]_vars => WorkerType'
<1> SUFFICES ASSUME IInv, [Next]_vars PROVE WorkerType'
  OBVIOUS
<1> USE DEF state, worker, tasks, ghosts, WorkerType
<1>1. Types /\ WorkerType
  BY TypeGroups DEF IInv, Types
<1>2. ASSUME UNCHANGED <<wpc, spawned>> PROVE WorkerType'
  BY <1>1, <1>2
<1>3. ASSUME NEW r \in Runs, NEW pc \in WorkerPcs, Goes(r, pc)
      PROVE  wpc' \in [Runs -> WorkerPcs]
  BY <1>1, <1>3 DEF Goes
<1>4. {"recv", "gone", "check", "fall", "spawn", "store", "buffer"} \subseteq WorkerPcs
  BY DEF WorkerPcs, WorkerAwaits
<1>5. CASE ElementStep
  <2>1. CASE Start
    BY <1>1, <1>4, <2>1 DEF Start
  <2>2. CASE Stop \/ Stopped \/ Boundary \/ ApplySwitch
    BY <2>2, <1>2 DEF Stop, Stopped, Boundary, ApplySwitch
  <2>3. QED
    BY <1>5, <2>1, <2>2 DEF ElementStep
<1>6. ASSUME NEW r \in Runs, WorkerMoves(r) PROVE WorkerType'
  <2>1. \E pc \in WorkerPcs : Goes(r, pc)
    BY <1>6, WorkerMovesFrame DEF WorkerPcs
  <2>2. UNCHANGED spawned
    BY <1>6, WorkerMovesFrame
  <2>3. QED
    BY <1>1, <2>1, <2>2, <1>3
<1>7. ASSUME NEW r \in Runs, FallBack(r) PROVE WorkerType'
  BY <1>1, <1>3, <1>4, <1>7 DEF FallBack
<1>8. ASSUME NEW r \in Runs, SpawnRecovery(r) PROVE WorkerType'
  <2>1. Goes(r, "buffer") \/ Goes(r, "store")
    BY <1>8 DEF SpawnRecovery
  <2>2. spawned' = spawned \/ \E t \in Recoveries : spawned' = [spawned EXCEPT ![r] = t]
    BY <1>8 DEF SpawnRecovery
  <2>3. QED
    BY <1>1, <1>3, <1>4, <2>1, <2>2
<1>9. ASSUME NEW r \in Runs, StoreHandle(r) PROVE WorkerType'
  BY <1>1, <1>3, <1>4, <1>9 DEF StoreHandle
<1>10. ASSUME NEW t \in Tasks, TaskStep(t) \/ StartTrigger(t) PROVE WorkerType'
  BY <1>1, <1>10, <1>2, TaskEffects DEF TaskEffect
<1>11. CASE UNCHANGED vars
  BY <1>11, <1>2 DEF vars
<1>12. QED
  BY <1>5, <1>6, <1>7, <1>8, <1>9, <1>10, <1>11, StepCases

\* A task is somewhere in its life.
LEMMA TaskTypeStep == IInv /\ [Next]_vars => TaskType'
<1> SUFFICES ASSUME IInv, [Next]_vars PROVE TaskType'
  OBVIOUS
<1> USE DEF state, worker, tasks, ghosts, TaskType
<1>1. Types /\ TaskType /\ run \in 0..MaxRuns /\ MaxRuns \in Nat
  BY TypeGroups, Names DEF IInv, Types, ElementType
<1>2. ASSUME UNCHANGED <<tpc, home>> PROVE TaskType'
  BY <1>1, <1>2
<1>3. CASE ElementStep
  BY <1>3, <1>2 DEF ElementStep, Start, Stop, Stopped, Boundary, ApplySwitch
<1>4. ASSUME NEW r \in Runs, WorkerMoves(r) \/ FallBack(r) \/ StoreHandle(r) PROVE TaskType'
  BY <1>4, <1>2, WorkerMovesFrame DEF FallBack, StoreHandle
<1>5. ASSUME NEW r \in Runs, SpawnRecovery(r) PROVE TaskType'
  <2>1. \/ UNCHANGED <<tpc, home>>
        \/ \E t \in Recoveries : /\ tpc' = [tpc EXCEPT ![t] = "sleep"]
                                /\ home' = [home EXCEPT ![t] = run]
    BY <1>5 DEF SpawnRecovery
  <2>2. QED
    BY <1>1, <2>1, Names DEF TaskPcs, TaskAwaits
<1>6. ASSUME NEW t \in Tasks, TaskStep(t) \/ StartTrigger(t) PROVE TaskType'
  <2>1. PICK pc \in TaskPcs, h \in {home[t], 0, run} :
          tpc' = [tpc EXCEPT ![t] = pc] /\ home' = [home EXCEPT ![t] = h]
    BY <1>1, <1>6, TaskEffects DEF TaskEffect, Steps
  <2>2. QED
    BY <1>1, <2>1
<1>7. CASE UNCHANGED vars
  BY <1>7, <1>2 DEF vars
<1>8. QED
  BY <1>3, <1>4, <1>5, <1>6, <1>7, StepCases

-----------------------------------------------------------------------------
(* A recovery stays on its way.                                            *)

\* Steps that leave the element, the events and the aborted tasks alone.
LEMMA StaysOnItsWay ==
    ASSUME OnItsWay, UNCHANGED <<run, events, dying, tasks>>,
           "Immediate" \in {pending, local} => "Immediate" \in {pending', local'},
           \A r \in Runs :
              (wpc[r] = "spawn" => wpc'[r] = "spawn")
              /\ (wpc[r] = "store" => wpc'[r] = "store" /\ spawned'[r] = spawned[r])
    PROVE  OnItsWay'
<1> USE DEF tasks
<1>1. \A t \in Tasks : Brings(t) => Brings(t)'
  BY DEF Brings
<1>2. QED
  BY <1>1 DEF OnItsWay

\* A worker that falls back sees to it.
LEMMA WorkerKeepsRecovery ==
    ASSUME IInv, NEW r \in Runs, phase = "running" /\ fellBack /\ ~cutOff => OnItsWay,
           WorkerMoves(r) \/ FallBack(r) \/ SpawnRecovery(r) \/ StoreHandle(r)
    PROVE  RecoveryInv'
<1> USE DEF state, worker, tasks, ghosts
<1>1. /\ Types /\ SpawnedInv /\ wpc \in [Runs -> WorkerPcs]
      /\ spawned \in [Runs -> Recoveries \cup {NoTask}]
      /\ tpc \in [Tasks -> TaskPcs] /\ home \in [Tasks -> 0..MaxRuns]
  BY TypeGroups DEF IInv, Types, WorkerType, TaskType
<1>2. CASE WorkerMoves(r)
  <2>1. UNCHANGED <<phase, run, state, events, local, spawned, dying, tasks, ghosts>>
    BY <1>2, WorkerMovesFrame
  <2>2. wpc[r] \notin {"spawn", "store"}
    BY <1>2, WorkerMovesFrame DEF WorkerAwaits
  <2>3. \A q \in Runs : q # r => wpc'[q] = wpc[q]
    BY <1>1, <1>2, WorkerMovesFrame DEF Goes
  <2>4. OnItsWay => OnItsWay'
    BY <2>1, <2>2, <2>3, StaysOnItsWay
  <2>5. QED
    BY <2>1, <2>4 DEF RecoveryInv
<1>3. CASE FallBack(r)
  <2>1. wpc'[r] = "spawn"
    BY <1>1, <1>3 DEF FallBack, Goes
  <2>2. QED
    BY <2>1 DEF RecoveryInv, OnItsWay
<1>4. CASE SpawnRecovery(r)
  <2>1. wpc[r] = "spawn" /\ UNCHANGED <<phase, run, state, events, local, dying, ghosts>>
    BY <1>4 DEF SpawnRecovery
  <2>2. CASE phase = "stopped"
    BY <2>1, <2>2 DEF RecoveryInv
  <2>3. CASE phase # "stopped"
    <3>1. PICK t \in Recoveries :
            /\ home' = [home EXCEPT ![t] = run] /\ spawned' = [spawned EXCEPT ![r] = t]
            /\ wpc' = [wpc EXCEPT ![r] = "store"]
      BY <1>4, <2>3 DEF SpawnRecovery, Goes
    <3>2. wpc'[r] = "store" /\ spawned'[r] = t /\ home'[t] = run'
      BY <1>1, <2>1, <3>1, Names
    <3>3. QED
      BY <3>2 DEF RecoveryInv, OnItsWay
  <2>4. QED
    BY <2>2, <2>3
<1>5. CASE StoreHandle(r)
  <2>1. /\ wpc[r] = "store"
        /\ UNCHANGED <<phase, run, pending, events, local, dying, tasks, ghosts>>
        /\ \A q \in Runs : q # r => wpc'[q] = wpc[q] /\ spawned'[q] = spawned[q]
    BY <1>1, <1>5 DEF StoreHandle, Goes
  <2>2. \A t \in Tasks : Brings(t) => Brings(t)'
    BY <2>1 DEF Brings
  <2>3. CASE home[spawned[r]] = run
    <3>1. /\ spawned[r] \in Recoveries \ dying /\ tpc[spawned[r]] = "sleep"
          /\ spawned[r] \in Tasks
      BY <1>1, <2>1, Names DEF SpawnedInv
    <3>2. Brings(spawned[r])
      BY <2>3, <3>1 DEF Brings, TaskAwaits
    <3>3. OnItsWay'
      BY <2>2, <3>1, <3>2 DEF OnItsWay
    <3>4. QED
      BY <3>3 DEF RecoveryInv
  <2>4. CASE home[spawned[r]] # run
    <3>1. OnItsWay => OnItsWay'
      BY <2>1, <2>2, <2>4 DEF OnItsWay
    <3>2. QED
      BY <2>1, <3>1 DEF RecoveryInv
  <2>5. QED
    BY <2>3, <2>4
<1>6. QED
  BY <1>2, <1>3, <1>4, <1>5

\* A task that brings the element back goes on doing so while another one
\* moves, if it is neither aborted nor robbed of the events.
LEMMA OthersBring ==
    ASSUME Types, NEW t \in Tasks, TaskEffect(t),
           \A u \in Tasks : u # t => todo'[u] = todo[u],
           TRUE \in ToSet(events) => TRUE \in ToSet(events'),
           dying' \subseteq dying,
           NEW u \in Tasks, u # t, Brings(u)
    PROVE  Brings(u)'
<1>1. /\ tpc \in [Tasks -> TaskPcs] /\ home \in [Tasks -> 0..MaxRuns]
  BY DEF Types, TaskType
<1>2. tpc'[u] = tpc[u] /\ home'[u] = home[u] /\ todo'[u] = todo[u] /\ UNCHANGED run
  BY <1>1 DEF TaskEffect, Steps
<1>3. QED
  BY <1>2 DEF Brings

\* Of the other reasons, only the handling of a switch takes one away.
LEMMA OtherReasons ==
    ASSUME IInv, NEW t \in Tasks, TaskStep(t) \/ StartTrigger(t),
           "Immediate" \in {pending, local} => "Immediate" \in {pending', local'},
           OnItsWay, \A u \in Tasks : Brings(u) => \E v \in Tasks : Brings(v)'
    PROVE  OnItsWay'
<1> USE DEF worker
<1>1. /\ Types /\ SpawnedInv /\ TaskEffect(t) /\ tpc \in [Tasks -> TaskPcs]
      /\ home \in [Tasks -> 0..MaxRuns] /\ spawned \in [Runs -> Recoveries \cup {NoTask}]
  BY TypeGroups, TaskEffects DEF IInv, Types, TaskType, WorkerType
<1>2. UNCHANGED <<run, wpc, spawned>>
  BY <1>1 DEF TaskEffect
<1>3. ASSUME NEW r \in Runs, wpc[r] = "store", home[spawned[r]] = run
      PROVE  home'[spawned[r]] = run
  <2>1. spawned[r] # NoTask /\ spawned[r] \in Tasks
    BY <1>1, <1>3, Names DEF SpawnedInv
  <2>2. spawned[r] # t
    BY <1>1, <2>1, SpawnedSleeps
  <2>3. QED
    BY <1>1, <1>3, <2>1, <2>2 DEF TaskEffect
<1>4. QED
  BY <1>2, <1>3 DEF OnItsWay

\* What a list of events holds after one more, or none, came in.
LEMMA EventsGrow ==
    ASSUME NEW t, NEW s \in BOOLEAN, EventsType, UploadReturns(t, s)
    PROVE  /\ TRUE \in ToSet(events) => TRUE \in ToSet(events')
           /\ home[t] = run /\ phase # "stopped" /\ s = TRUE => TRUE \in ToSet(events')
<1>1. ToSet(Append(events, s)) = ToSet(events) \cup {s}
  BY ElementsAppend DEF EventsType
<1>2. /\ home[t] = run /\ phase # "stopped" => events' = Append(events, s)
      /\ events' = events \/ events' = Append(events, s)
  BY DEF UploadReturns
<1>3. QED
  BY <1>1, <1>2, Zenon

\* Whatever a task does, a recovery on its way stays on its way, or hands over.
LEMMA TaskKeepsRecovery ==
    ASSUME IInv, NEW t \in Tasks, TaskStep(t) \/ StartTrigger(t) PROVE RecoveryInv'
<1> USE DEF state, worker, tasks, ghosts
<1>1. /\ Types /\ HandleInv /\ SpawnedInv /\ TodoInv /\ RecoveryInv /\ TaskEffect(t)
      /\ EventsType /\ tpc \in [Tasks -> TaskPcs] /\ home \in [Tasks -> 0..MaxRuns]
      /\ todo \in [Tasks -> Seq(BOOLEAN)] /\ Recoveries \cap Triggers = {}
  BY TypeGroups, TaskEffects, Names DEF IInv, Types, TaskType, TodoType
<1>2. UNCHANGED <<phase, run, mode, local>>
  BY <1>1 DEF TaskEffect
<1>3. ASSUME UNCHANGED <<pending, fellBack, cutOff>>,
             phase = "running" => \A u \in Tasks : Brings(u) => \E v \in Tasks : Brings(v)'
      PROVE  RecoveryInv'
  BY <1>1, <1>2, <1>3, OtherReasons DEF RecoveryInv
<1>4. ASSUME UNCHANGED <<pending, fellBack, cutOff, todo>>, dying' \subseteq dying,
             TRUE \in ToSet(events) => TRUE \in ToSet(events'),
             phase = "running" /\ Brings(t) => Brings(t)'
      PROVE  RecoveryInv'
  BY <1>1, <1>3, <1>4, OthersBring
<1>5. CASE StartTrigger(t)
  <2>1. ~Brings(t)
    BY <1>5 DEF StartTrigger, Brings, TaskAwaits
  <2>2. QED
    BY <1>5, <2>1, <1>4 DEF StartTrigger
<1>6. CASE TaskAborted(t)
  <2>1. ~Brings(t)
    BY <1>6 DEF TaskAborted, Brings, TaskAwaits
  <2>2. QED
    BY <1>6, <2>1, <1>4 DEF TaskAborted, Ends
<1>7. CASE Wake(t) \/ LockManager(t)
  <2>1. tpc'[t] \in TaskAwaits /\ tpc[t] \in {"sleep", "lock"}
    BY <1>1, <1>7 DEF Wake, LockManager, Steps, TaskAwaits
  <2>2. Brings(t) => Brings(t)'
    BY <1>7, <2>1 DEF Brings, Wake, LockManager
  <2>3. QED
    BY <1>7, <2>2, <1>4 DEF Wake, LockManager
<1>8. CASE \E s \in BOOLEAN : UploadReturns(t, s)
  <2>1. PICK s \in BOOLEAN : UploadReturns(t, s)
    BY <1>8
  <2>2. phase = "running" /\ Brings(t) => Brings(t)'
    <3>1. SUFFICES ASSUME phase = "running", Brings(t) PROVE Brings(t)'
      OBVIOUS
    <3>2. tpc[t] = "upload"
      BY <2>1 DEF UploadReturns
    <3>3. t \in Recoveries /\ home[t] = run
      BY <3>1, <3>2 DEF Brings
    <3>4. s = TRUE /\ tpc'[t] = "clear"
      BY <1>1, <2>1, <3>3 DEF UploadReturns, Steps
    <3>5. TRUE \in ToSet(events')
      BY <1>1, <2>1, <3>1, <3>3, <3>4, EventsGrow
    <3>6. QED
      BY <3>4, <3>5 DEF Brings
  <2>3. TRUE \in ToSet(events) => TRUE \in ToSet(events')
    BY <1>1, <2>1, EventsGrow
  <2>4. QED
    BY <2>1, <2>2, <2>3, <1>4 DEF UploadReturns
<1>9. CASE UploadFails(t)
  <2>1. dying' \subseteq dying /\ UNCHANGED <<pending, fellBack, cutOff, todo, events>>
    BY <1>9 DEF UploadFails, AfterError, Ends
  <2>2. Brings(t) => Brings(t)'
    <3>1. SUFFICES ASSUME Brings(t) PROVE Brings(t)'
      OBVIOUS
    <3>2. t \in Recoveries \ dying /\ home[t] = run
      BY <1>9, <3>1 DEF Brings, UploadFails
    <3>3. tpc'[t] = "sleep" /\ UNCHANGED <<home, dying>>
      BY <1>1, <1>9, <3>2 DEF UploadFails, AfterError, Steps
    <3>4. QED
      BY <1>2, <3>2, <3>3 DEF Brings, TaskAwaits
  <2>3. QED
    BY <2>1, <2>2, <1>4
<1>10. CASE ClearHandle(t)
  <2>1. tpc[t] = "clear" /\ tpc'[t] = "drain" /\ UNCHANGED events
    BY <1>1, <1>10 DEF ClearHandle, Steps
  <2>2. Brings(t) => Brings(t)'
    BY <2>1 DEF Brings, TaskAwaits
  <2>3. QED
    BY <1>10, <2>2, <1>4 DEF ClearHandle
<1>11. CASE DrainEvents(t)
  <2>1. tpc[t] = "drain" /\ Proceeds(t, events) /\ UNCHANGED <<pending, fellBack, cutOff>>
    BY <1>11 DEF DrainEvents
  <2>2. /\ \A u \in Tasks : u # t => todo'[u] = todo[u] /\ tpc'[u] = tpc[u]
        /\ todo'[t] = events
        /\ \/ events = <<>> /\ tpc'[t] = "none"
           \/ events # <<>> /\ tpc'[t] \in {"cancel", "switch"}
    BY <1>1, <2>1, ProceedsFacts DEF EventsType
  <2>3. dying' \subseteq dying /\ \A u \in Tasks : u # t => home'[u] = home[u]
    BY <1>1, <1>11 DEF DrainEvents, Proceeds, Ends, TaskEffect
  <2>4. CASE TRUE \in ToSet(events)
    <3>1. events # <<>>
      <4>1. \E i \in DOMAIN events : events[i] = TRUE
        BY <2>4, Zenon DEF ToSet
      <4>2. DOMAIN <<>> = {}
        OBVIOUS
      <4>3. QED
        BY <4>1, <4>2, Zenon
    <3>2. Brings(t)'
      BY <2>2, <2>4, <3>1 DEF Brings
    <3>3. QED
      BY <2>1, <3>2, <1>3
  <2>5. CASE TRUE \notin ToSet(events)
    <3>1. ~Brings(t)
      BY <2>1, <2>5 DEF Brings, TaskAwaits
    <3>2. \A u \in Tasks : Brings(u) => Brings(u)'
      BY <1>1, <2>2, <2>3, <2>5, <3>1, OthersBring
    <3>3. QED
      BY <2>1, <3>2, <1>3
  <2>6. QED
    BY <2>4, <2>5
<1>12. CASE EventCancels(t)
  <2>1. /\ tpc[t] = "cancel" /\ tpc'[t] = "switch"
        /\ UNCHANGED <<todo, pending, fellBack, cutOff>>
    BY <1>1, <1>12 DEF EventCancels, Steps
  <2>2. todo[t] \in Seq(BOOLEAN) /\ todo[t] # <<>> /\ Head(todo[t]) = TRUE
    BY <1>1, <2>1 DEF TodoInv
  <2>3. TRUE \in ToSet(todo[t])
    BY <2>2, ElementsTail
  <2>4. Brings(t)'
    BY <2>1, <2>3 DEF Brings
  <2>5. QED
    BY <2>1, <2>4, <1>3
<1>13. CASE SwitchToImmediate(t)
  BY <1>13 DEF SwitchToImmediate, RecoveryInv, OnItsWay
<1>14. CASE SwitchToBufferOnly(t)
  BY <1>14 DEF SwitchToBufferOnly, RecoveryInv
<1>15. CASE SwitchCancels(t)
  <2>1. /\ tpc[t] = "cancelAgain" /\ UNCHANGED <<pending, fellBack, events>>
        /\ cutOff' = (cutOff \/ (handle # NoTask /\ pending # "Immediate"))
        /\ todo' = [todo EXCEPT ![t] = Tail(@)]
    BY <1>15 DEF SwitchCancels
  <2>2. CASE pending = "Immediate"
    BY <2>1, <2>2 DEF RecoveryInv, OnItsWay
  <2>3. CASE pending # "Immediate" /\ handle # NoTask
    BY <2>1, <2>3 DEF RecoveryInv
  <2>4. CASE handle = NoTask
    <3>1. dying' \subseteq dying
      BY <1>1, <2>4 DEF TaskEffect, Aborted
    <3>2. ~Brings(t)
      BY <2>1 DEF Brings, TaskAwaits
    <3>3. \A u \in Tasks : u # t => todo'[u] = todo[u]
      BY <1>1, <2>1
    <3>4. \A u \in Tasks : Brings(u) => Brings(u)'
      BY <1>1, <2>1, <3>1, <3>2, <3>3, OthersBring
    <3>5. cutOff' = cutOff
      <4>1. cutOff \in BOOLEAN
        BY <1>1 DEF Types, ElementType
      <4>2. QED
        BY <2>1, <2>4, <4>1, Zenon
    <3>6. QED
      BY <2>1, <3>4, <3>5, <1>3
  <2>5. QED
    BY <2>2, <2>3, <2>4
<1>16. QED
  BY <1>5, <1>6, <1>7, <1>8, <1>9, <1>10, <1>11, <1>12, <1>13, <1>14, <1>15 DEF TaskStep

\* An element that fell back has a recovery on its way, until it is stopped.
LEMMA RecoveryStep == IInv /\ [Next]_vars => RecoveryInv'
<1> SUFFICES ASSUME IInv, [Next]_vars PROVE RecoveryInv'
  OBVIOUS
<1> USE DEF state, worker, tasks, ghosts
<1>1. RecoveryInv
  BY DEF IInv
<1>2. CASE ElementStep
  <2>1. CASE Start \/ ApplySwitch
    BY <2>1 DEF Start, ApplySwitch, RecoveryInv
  <2>2. CASE Stop \/ Stopped
    BY <2>2 DEF Stop, Stopped, RecoveryInv
  <2>3. CASE Boundary
    <3>1. /\ UNCHANGED <<phase, run, state, events, wpc, spawned, dying, tasks, ghosts>>
          /\ local' = pending /\ local = NoSwitch
      BY <2>3 DEF Boundary
    <3>2. OnItsWay => OnItsWay'
      BY <3>1, StaysOnItsWay DEF NoSwitch
    <3>3. QED
      BY <1>1, <3>1, <3>2 DEF RecoveryInv
  <2>4. QED
    BY <1>2, <2>1, <2>2, <2>3 DEF ElementStep
<1>3. ASSUME NEW r \in Runs, WorkerMoves(r) \/ FallBack(r) \/ SpawnRecovery(r)
          \/ StoreHandle(r)
      PROVE  RecoveryInv'
  BY <1>1, <1>3, WorkerKeepsRecovery DEF RecoveryInv
<1>4. ASSUME NEW t \in Tasks, TaskStep(t) \/ StartTrigger(t) PROVE RecoveryInv'
  BY <1>4, TaskKeepsRecovery
<1>5. CASE UNCHANGED vars
  <2>1. OnItsWay => OnItsWay'
    BY <1>5, StaysOnItsWay DEF vars
  <2>2. QED
    BY <1>1, <1>5, <2>1 DEF vars, RecoveryInv
<1>6. QED
  BY <1>2, <1>3, <1>4, <1>5, StepCases

-----------------------------------------------------------------------------
(* The results.                                                            *)

\* The initial state.
LEMMA InvInit == Init => IInv
<1> SUFFICES ASSUME Init PROVE IInv
  OBVIOUS
<1>1. ElementType
  <2>1. phase = "stopped" /\ run = 0 /\ mode = "BufferOnly" /\ pending = NoSwitch
            /\ local = NoSwitch
    BY DEF Init
  <2>2. fellBack \in BOOLEAN /\ cutOff \in BOOLEAN
    BY Zenon DEF Init
  <2>3. QED
    BY <2>1, <2>2, Names DEF ElementType, Modes
<1>2. HandleType /\ HandleInv /\ DyingInv
  BY DEF Init, HandleType, HandleInv, DyingInv
<1>3. EventsType /\ TodoType
  BY DEF Init, EventsType, TodoType
<1>4. QueueType
  BY Names DEF Init, QueueType
<1>5. WorkerType /\ SpawnedInv
  BY DEF Init, WorkerType, WorkerPcs, SpawnedInv
<1>6. TaskType /\ TodoInv
  <2>1. tpc = [t \in Tasks |-> "none"] /\ home = [t \in Tasks |-> 0]
    BY DEF Init
  <2>2. "none" \in TaskPcs /\ 0 \in 0..MaxRuns
    BY Names DEF TaskPcs
  <2>3. TaskType
    BY <2>1, <2>2 DEF TaskType
  <2>4. QED
    BY <2>1, <2>3 DEF TodoInv
<1>7. RunInv /\ RecoveryInv
  BY DEF Init, RunInv, RecoveryInv
<1>8. TypeOK
  BY <1>1, <1>2, <1>3, <1>4, <1>5, <1>6, TypeOKFollows DEF Types
<1>9. QED
  BY <1>2, <1>5, <1>6, <1>7, <1>8 DEF IInv

\* Every step.
LEMMA InvStep == IInv /\ [Next]_vars => IInv'
<1> SUFFICES ASSUME IInv, [Next]_vars PROVE IInv'
  OBVIOUS
<1>1. HandleInv' /\ DyingInv' /\ SpawnedInv' /\ TodoInv' /\ RunInv' /\ RecoveryInv'
  BY HandleStep, DyingStep, SpawnedStep, TodoStep, RunStep, RecoveryStep
<1>2. Types'
  BY ElementTypeStep, HandleTypeStep, EventsTypeStep, QueueTypeStep, WorkerTypeStep,
     TaskTypeStep, TodoStep DEF Types
<1>3. (Types /\ HandleInv => TypeOK)'
  BY TypeOKFollows, PTL
<1>4. QED
  BY <1>1, <1>2, <1>3 DEF IInv

\* So it is always.
LEMMA Invariant == Spec => []IInv
  BY InvInit, InvStep, PTL DEF Spec

(***************************************************************************)
(* Every variable of the element, its workers and its tasks keeps its      *)
(* type, the queue keeps within its capacity, and a handle that is kept is *)
(* that of a task.                                                         *)
(***************************************************************************)
THEOREM TypeCorrect == Spec => []TypeOK
<1>1. IInv => TypeOK
  BY DEF IInv
<1>2. QED
  BY <1>1, Invariant, PTL

(***************************************************************************)
(* But for the race in switch_mode() (imp.rs:1360), an element that fell   *)
(* back after a network failure is never left in BufferOnly with nobody to *)
(* bring it back, whatever recoveries, triggers, cancellations, stops and  *)
(* starts come in between.                                                 *)
(***************************************************************************)
THEOREM RecoveryIsOnItsWay == Spec => []NeverStranded
<1>1. IInv => NeverStranded
  BY DEF IInv, RecoveryInv, OnItsWay, NeverStranded, Stranded
<1>2. QED
  BY <1>1, Invariant, PTL

(***************************************************************************)
(* For any number of recoveries, triggers and runs: a recovery that is     *)
(* registered, and keeps a network failure from falling back, is neither   *)
(* aborted nor past the point where it forgets its handle.                 *)
(***************************************************************************)
THEOREM RegisteredIsLive == Spec => []HandleIsLive
<1>1. IInv => HandleIsLive
  BY DEF IInv, HandleInv, Registered, HandleIsLive
<1>2. QED
  BY <1>1, Invariant, PTL
=============================================================================
