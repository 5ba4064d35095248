---------------------------- MODULE BufferManager ----------------------------
(***************************************************************************)
(* BufferedUploadManager (buffered_upload_manager.rs): fragments appended  *)
(* to mega-cluster files on disk, rotation, upload on a trigger, retries,  *)
(* deletion, and the scan that finds the files again after a restart.      *)
(*                                                                         *)
(* The manager lives behind an async mutex, so one operation runs at a     *)
(* time; it is split at its awaits, where the task that runs it can be     *)
(* aborted, the element stopped or the process killed.  Any file operation *)
(* may fail that the instance lists in Faults.                             *)
(*                                                                         *)
(* Abstracted: a fragment is its number in push order, a file the sequence *)
(* of its records, a file name the clock reading that makes it unique.  A  *)
(* record cut short is Torn.                                               *)
(***************************************************************************)
EXTENDS Naturals, SequencesExt

CONSTANTS
    MaxRetries,     \* MAX_UPLOAD_RETRIES
    RotateSize,     \* MEGA_CLUSTER_MAX_SIZE, in records
    RotateAge,      \* MEGA_CLUSTER_DURATION
    MaxAge,         \* max_buffer_duration
    Faults,         \* bound: what may go wrong
    Ranges,         \* bound: time ranges triggers ask for
    MaxLag,         \* bound: age of a fragment when it is pushed
    MaxFragments, MaxTick, MaxMishaps \* bounds: pushes, idle time, and what goes wrong

NoTime == 0
All == [from |-> NoTime, to |-> NoTime]

ASSUME LimitsAssumption ==
    /\ {MaxRetries, RotateSize, RotateAge} \subseteq Nat \ {0}
    /\ {MaxAge, MaxLag, MaxFragments, MaxTick, MaxMishaps} \subseteq Nat
ASSUME FaultsAssumption ==
    Faults \subseteq
        {"create", "sync", "write", "torn", "read", "put", "delete", "scan", "abort",
         "down"}
ASSUME RangesAssumption == Ranges \subseteq [from : Nat, to : Nat]

VARIABLES
    clock,          \* SystemTime::now()
    disk,           \* the directory: file name -> records and modification time
    current,        \* current_mega_cluster
    files,          \* mega_cluster_files
    pc, closing,    \* the operation under way; the file it finalizes
    range, todo, pos, \* trigger: its range, files_to_upload, reader position
    event,          \* the last event sent to the sink
    stamps,         \* timestamp of each fragment pushed so far
    buffered,       \* ghost: fragments push_fragment() returned Ok for
    sent, lastSent, \* ghost: fragments put_fragment() returned Ok for
    mishaps         \* how many things have gone wrong

store == <<disk, current, files>>
operation == <<pc, closing, range, todo, pos>>
ghost == <<buffered, sent, lastSent>>
vars == <<clock, store, operation, event, stamps, ghost, mishaps>>

Torn == 0
NoFile == [name |-> 0, start |-> 0, last |-> 0, count |-> 0]
IsFile(c) == c.name # 0

Tracked == [name : Nat, start : Nat, end : Nat, count : Nat,
            uploaded : BOOLEAN, attempts : Nat]

Mishap(kind) == kind \in Faults /\ mishaps < MaxMishaps /\ mishaps' = mishaps + 1

WithFile(name, records, modified) ==
    [n \in DOMAIN disk \cup {name} |->
        IF n = name THEN [records |-> records, mtime |-> modified] ELSE disk[n]]
WithoutFile(name) == [n \in DOMAIN disk \ {name} |-> disk[n]]

(***************************************************************************)
(* ClusterFileReader: the places of the complete records, up to the first  *)
(* incomplete one.  Bytes after a torn record are no longer aligned: the   *)
(* reader stops at a length it cannot satisfy or, if the lengths were      *)
(* complete, takes what follows for the rest of the record and goes on in  *)
(* the middle of another.  Either way no fragment behind it comes out as   *)
(* it was written; the garbage itself is left out.                         *)
(***************************************************************************)
Readable(records) == {i \in DOMAIN records : \A j \in 1..i : records[j] # Torn}

InFile(name) == {disk[name].records[i] : i \in Readable(disk[name].records)}

\* The elements of a set of numbers in their order.
Ascending(S) ==
    LET n == Cardinality(S)
    IN  {f \in [1..n -> S] : \A i, j \in 1..n : i < j => f[i] < f[j]}

-----------------------------------------------------------------------------
Init ==
    /\ clock = 1
    /\ disk = [n \in {} |-> [records |-> <<>>, mtime |-> 0]]
    /\ current = NoFile /\ files = <<>>
    /\ pc = "idle" /\ closing = NoFile
    /\ range = All /\ todo = <<>> /\ pos = 1
    /\ event = "none" /\ stamps = <<>>
    /\ buffered = {} /\ sent = {} /\ lastSent = 0
    /\ mishaps = 0

Tick ==
    /\ clock < MaxTick
    /\ clock' = clock + 1
    /\ UNCHANGED <<store, operation, event, stamps, ghost, mishaps>>

-----------------------------------------------------------------------------
(* File operations shared by push_fragment() and trigger_upload_all().     *)

\* Mutant: the list keeps the file finalized last only.
TrackedOnly(c) ==
    <<[name |-> c.name, start |-> c.start, end |-> c.last,
       count |-> c.count, uploaded |-> FALSE, attempts |-> 0]>>

TrackedLast(c) ==
    Append(files, [name |-> c.name, start |-> c.start, end |-> c.last,
                   count |-> c.count, uploaded |-> FALSE, attempts |-> 0])

\* finalize_mega_cluster_file(): without the sync the file is on disk but not tracked.
Finalize(then) ==
    /\ closing' = NoFile
    /\ \/ files' = TrackedLast(closing) /\ pc' = then /\ UNCHANGED mishaps
       \/ Mishap("sync") /\ pc' = "idle" /\ UNCHANGED files
    /\ UNCHANGED <<clock, disk, current, range, todo, pos, event, stamps, ghost>>

(***************************************************************************)
(* start_new_mega_cluster_file(): File::create truncates what is there.    *)
(* Bound: the clock moves on with every creation and is never set back, so *)
(* that nothing is there.                                                  *)
(***************************************************************************)
Create(start, then) ==
    \/ /\ disk' = WithFile(clock, <<>>, clock)
       /\ current' = [name |-> clock, start |-> start, last |-> start, count |-> 0]
       /\ clock' = clock + 1
       /\ pc' = then
       /\ UNCHANGED <<files, closing, range, todo, pos, event, stamps, ghost, mishaps>>
    \/ /\ Mishap("create") /\ pc' = "idle" /\ todo' = <<>>
       /\ UNCHANGED <<clock, store, closing, range, pos, event, stamps, ghost>>

-----------------------------------------------------------------------------
(* push_fragment().                                                        *)

Frag == Len(stamps)

\* Mutant: a file that has reached its size takes one more record.
RotatesLate ==
    \/ ~IsFile(current)
    \/ clock >= current.name + RotateAge
    \/ current.count > RotateSize

\* should_rotate_mega_cluster_file(): no file, too old or too large.
ShouldRotate ==
    \/ ~IsFile(current)
    \/ clock >= current.name + RotateAge
    \/ current.count >= RotateSize

\* The next fragment arrives; its timestamp is not before those pushed so far.
PushFragment(stamp) ==
    /\ pc = "idle" /\ Frag < MaxFragments
    /\ stamp <= clock /\ clock <= stamp + MaxLag
    /\ \A i \in DOMAIN stamps : stamp >= stamps[i]
    /\ stamps' = Append(stamps, stamp)
    /\ IF ShouldRotate
       THEN /\ pc' = IF IsFile(current) THEN "rotating" ELSE "creating"
            /\ closing' = current /\ current' = NoFile
       ELSE /\ pc' = "appending"
            /\ UNCHANGED <<closing, current>>
    /\ range' = All /\ event' = "none" /\ lastSent' = 0
    /\ UNCHANGED <<clock, disk, files, todo, pos, buffered, sent, mishaps>>

FinalizeRotated == pc = "rotating" /\ Finalize("creating")

CreateNext == pc = "creating" /\ Create(stamps[Frag], "appending")

\* Header, MKV headers and cluster are written and flushed.
AppendRecord ==
    /\ pc = "appending"
    /\ disk' = WithFile(current.name, Append(disk[current.name].records, Frag), clock)
    /\ current' = [current EXCEPT !.last = stamps[Frag], !.count = @ + 1]
    /\ buffered' = buffered \cup {Frag}
    /\ pc' = "cleaning"
    /\ UNCHANGED <<clock, files, closing, range, todo, pos, event, stamps,
                   sent, lastSent, mishaps>>

\* The write fails, with nothing or a part of the record on disk.
AppendFails ==
    /\ pc = "appending" /\ Mishap("write")
    /\ disk' \in {disk} \cup
         {WithFile(current.name, Append(disk[current.name].records, Torn), clock) :
            torn \in {"torn"} \cap Faults}
    /\ pc' = "idle"
    /\ UNCHANGED <<clock, current, files, closing, range, todo, pos, event,
                   stamps, ghost>>

\* Longer there than max_buffer_duration.
Old(f) == clock > f.start + MaxAge

(***************************************************************************)
(* The docs know no second condition (README.md:84, "Retention window for  *)
(* buffered fragments"; buffered_upload_manager.rs:461), and a FIXME       *)
(* doubts it.                                                              *)
(***************************************************************************)
Removable(f) == Old(f) /\ f.uploaded

\* remove_file() on each: one that fails is logged, and its file stays.
RemoveFiles(names) ==
    \E gone \in SUBSET (names \cap DOMAIN disk) :
       /\ disk' = [n \in DOMAIN disk \ gone |-> disk[n]]
       /\ IF gone = names \cap DOMAIN disk THEN UNCHANGED mishaps ELSE Mishap("delete")

(***************************************************************************)
(* cleanup_old_mega_cluster_files() removes from the front; it runs after  *)
(* every 100th push, by a counter that all managers of the process share   *)
(* without synchronisation: whether it runs now is open.                   *)
(***************************************************************************)
Cleanup ==
    /\ pc = "cleaning"
    /\ \/ UNCHANGED <<disk, files, mishaps>>
       \/ \E k \in 0..Len(files) :
             /\ \A i \in 1..k : Removable(files[i])
             /\ k < Len(files) => ~Removable(files[k + 1])
             /\ files' = SubSeq(files, k + 1, Len(files))
             /\ RemoveFiles({files[i].name : i \in 1..k})
    /\ pc' = "idle"
    /\ UNCHANGED <<clock, current, closing, range, todo, pos, event, stamps, ghost>>

-----------------------------------------------------------------------------
(* trigger_upload_all(start, end).                                         *)

\* Mutant: a file that ends where the range starts is left out.
OverlapsStrictly(f, r) ==
    /\ r.from # NoTime => f.end > r.from
    /\ r.to # NoTime => f.start <= r.to

Overlaps(f, r) ==
    /\ r.from # NoTime => f.end >= r.from
    /\ r.to # NoTime => f.start <= r.to

\* Mutant: the last permitted attempt is not made.
GivesUpEarly(f, r) == ~f.uploaded /\ f.attempts + 1 < MaxRetries /\ Overlaps(f, r)

Eligible(f, r) == ~f.uploaded /\ f.attempts < MaxRetries /\ Overlaps(f, r)

\* HistoricalUploadComplete { switch_to_streaming }
Complete == IF range.to = NoTime THEN "switch" ELSE "stay"

TriggerUploadAll(r) ==
    /\ pc = "idle"
    /\ range' = r /\ event' = "none" /\ lastSent' = 0
    /\ pc' = IF IsFile(current) THEN "finalizing" ELSE "selecting"
    /\ closing' = current /\ current' = NoFile
    /\ UNCHANGED <<clock, disk, files, todo, pos, stamps, buffered, sent,
                   mishaps>>

FinalizeCurrent == pc = "finalizing" /\ Finalize("selecting")

SelectFiles ==
    /\ pc = "selecting"
    /\ \E at \in Ascending({i \in DOMAIN files : Eligible(files[i], range)}) :
         todo' = [k \in DOMAIN at |-> files[at[k]].name]
    /\ IF todo' = <<>> THEN pc' = "idle" /\ event' = Complete
       ELSE pc' = "starting" /\ UNCHANGED event
    /\ UNCHANGED <<clock, store, closing, range, pos, stamps, ghost, mishaps>>

\* A NEW file for the fragments that arrive meanwhile (none can: the lock is held).
CreateDuringUpload == pc = "starting" /\ Create(clock, "opening")

\* The entry of a file, found by its path.
Entry(name) == CHOOSE i \in DOMAIN files :
    files[i].name = name /\ \A j \in 1..(i - 1) : files[j].name # name

\* mark_mega_cluster_failed(), an UploadError, and on to the next file.
FileFails ==
    /\ files' = [files EXCEPT ![Entry(Head(todo))].attempts = @ + 1]
    /\ todo' = Tail(todo) /\ pos' = 1 /\ pc' = "opening"
    /\ event' = "error"

\* ClusterFileReader::from_path() reads the whole file.
OpenFile ==
    /\ pc = "opening" /\ todo # <<>>
    /\ \/ /\ Head(todo) \in DOMAIN disk
          /\ pc' = "putting"
          /\ UNCHANGED <<files, todo, pos, event, mishaps>>
       \/ /\ IF Head(todo) \in DOMAIN disk THEN Mishap("read") ELSE UNCHANGED mishaps
          /\ FileFails
    /\ UNCHANGED <<clock, disk, current, closing, range, stamps, ghost>>

Records == disk[Head(todo)].records

PutFragment ==
    /\ pc = "putting" /\ pos \in Readable(Records)
    /\ sent' = sent \cup {Records[pos]} /\ lastSent' = Records[pos]
    /\ pos' = pos + 1
    /\ UNCHANGED <<clock, store, pc, closing, range, todo, event, stamps,
                   buffered, mishaps>>

\* Mutant: the loop over the fragments is left as if the file had come to its end.
FailureEndsFile ==
    /\ pc = "putting" /\ pos \in Readable(Records)
    /\ Mishap("put")
    /\ files' = [files EXCEPT ![Entry(Head(todo))].uploaded = TRUE]
    /\ disk' = WithoutFile(Head(todo))
    /\ todo' = Tail(todo) /\ pos' = 1 /\ pc' = "opening"
    /\ UNCHANGED <<clock, current, closing, range, event, stamps, ghost>>

PutFragmentFails ==
    /\ pc = "putting" /\ pos \in Readable(Records)
    /\ Mishap("put")
    /\ FileFails
    /\ UNCHANGED <<clock, disk, current, closing, range, stamps, ghost>>

\* mark_mega_cluster_uploaded(): the file goes; that it could not is only logged.
MarkUploaded ==
    /\ pc = "putting" /\ pos \notin Readable(Records)
    /\ files' = [files EXCEPT ![Entry(Head(todo))].uploaded = TRUE]
    /\ \/ disk' = WithoutFile(Head(todo)) /\ UNCHANGED mishaps
       \/ Mishap("delete") /\ UNCHANGED disk
    /\ todo' = Tail(todo) /\ pos' = 1 /\ pc' = "opening"
    /\ UNCHANGED <<clock, current, closing, range, event, stamps, ghost>>

\* The NEW file is let go: it is empty, so steps 5 and 6 find nothing to upload.
FinishUpload ==
    /\ pc = "opening" /\ todo = <<>>
    /\ current' = NoFile
    /\ event' = Complete
    /\ pc' = "idle"
    /\ UNCHANGED <<clock, disk, files, closing, range, todo, pos, stamps, ghost,
                   mishaps>>

-----------------------------------------------------------------------------
(* Aborts, stops and crashes.                                              *)

\* A file operation that was interrupted may be done, half done or not done.
Interrupted ==
    \/ UNCHANGED disk
    \/ pc \in {"creating", "starting"} /\ disk' = WithFile(clock, <<>>, clock)
    \/ /\ pc = "appending"
       /\ \E r \in {Frag, Torn} :
            disk' = WithFile(current.name, Append(disk[current.name].records, r), clock)

\* The recovery task is aborted where it awaits; the manager lives on.
AbortTrigger ==
    /\ pc \in {"finalizing", "starting", "opening", "putting"}
    /\ pc = "opening" => todo # <<>>
    /\ Mishap("abort")
    /\ Interrupted
    /\ clock' = IF disk' = disk THEN clock ELSE clock + 1
    /\ pc' = "idle" /\ closing' = NoFile /\ todo' = <<>> /\ pos' = 1
    /\ UNCHANGED <<current, files, range, event, stamps, ghost>>

\* The element is stopped, or the process killed, anywhere: the memory is lost.
Down ==
    /\ pc # "down" /\ Mishap("down")
    /\ Interrupted
    /\ clock' = IF disk' = disk THEN clock ELSE clock + 1
    /\ pc' = "down" /\ closing' = NoFile
    /\ current' = NoFile /\ files' = <<>>
    /\ range' = All /\ todo' = <<>> /\ pos' = 1
    /\ event' = "none" /\ lastSent' = 0
    /\ UNCHANGED <<stamps, buffered, sent>>

\* Mutant: the newest file comes first.
NewestFirst(S) ==
    LET n == Cardinality(S)
    IN  {f \in [1..n -> S] : \A i, j \in 1..n : i < j => f[i] > f[j]}

ByName(S) == Ascending(S)

\* new(): scan_existing_mega_cluster_files(); a recovered file has one time only.
\* The scan fails as a whole: that it can skip single entries is left out.
Open ==
    /\ pc = "down"
    /\ pc' = "idle"
    /\ \/ /\ \E names \in ByName(DOMAIN disk) :
              files' =
                [i \in DOMAIN names |->
                   [name |-> names[i],
                    start |-> disk[names[i]].mtime, end |-> disk[names[i]].mtime,
                    count |-> 0, uploaded |-> FALSE, attempts |-> 0]]
          /\ UNCHANGED mishaps
       \/ Mishap("scan") /\ files' = <<>>
    /\ UNCHANGED <<clock, disk, current, closing, range, todo, pos, event,
                   stamps, ghost>>

-----------------------------------------------------------------------------
Push == FinalizeRotated \/ CreateNext \/ AppendRecord \/ Cleanup

Upload ==
    \/ FinalizeCurrent \/ SelectFiles \/ CreateDuringUpload \/ OpenFile
    \/ PutFragment \/ MarkUploaded \/ FinishUpload

Next ==
    \/ Tick
    \/ \E t \in 1..clock : PushFragment(t)
    \/ Push \/ AppendFails
    \/ \E r \in Ranges : TriggerUploadAll(r)
    \/ Upload \/ PutFragmentFails
    \/ AbortTrigger \/ Down \/ Open

Spec == Init /\ [][Next]_vars

(***************************************************************************)
(* Fairness.  The task that runs an operation is polled, the disk and the  *)
(* network answer; the element is started again and all that is buffered   *)
(* is asked for again and again.                                           *)
(***************************************************************************)
FairSpec ==
    /\ Spec
    /\ WF_vars(Push \/ Upload) /\ WF_vars(Open)
    /\ SF_vars(TriggerUploadAll(All))

-----------------------------------------------------------------------------
(* Properties.                                                             *)

Fragments == 1..MaxFragments

\* Every variable has its type; files stay in their size and no file is tried
\* more often than allowed; the file opened for an upload stays empty.
TypeOK ==
    /\ clock \in Nat \ {0}
    /\ DOMAIN disk \subseteq 1..clock
    /\ \A n \in DOMAIN disk : /\ disk[n].records \in Seq(Fragments \cup {Torn})
                              /\ disk[n].mtime \in 1..clock
    /\ current \in [name : Nat, start : Nat, last : Nat, count : Nat]
    /\ IsFile(current) => current.name \in DOMAIN disk
    /\ files \in Seq(Tracked)
    /\ current.count <= RotateSize
    /\ \A i \in DOMAIN files : /\ files[i].count <= RotateSize
                              /\ files[i].attempts <= MaxRetries
    /\ pc \in {"idle", "rotating", "creating", "appending", "cleaning",
               "finalizing", "selecting", "starting", "opening", "putting", "down"}
    /\ pc \in {"opening", "putting"} => IsFile(current) /\ current.count = 0
    /\ closing \in [name : Nat, start : Nat, last : Nat, count : Nat]
    /\ range \in [from : Nat, to : Nat]
    /\ todo \in Seq(Nat) /\ pos \in Nat
    /\ event \in {"none", "error", "switch", "stay"}
    /\ stamps \in Seq(Nat) /\ buffered \subseteq Fragments /\ sent \subseteq Fragments

OnDisk == UNION {InFile(n) : n \in DOMAIN disk}

(***************************************************************************)
(* A fragment push_fragment() has accepted is readable on disk until it    *)
(* has been sent, across rotations, aborted uploads, restarts and retries. *)
(* As the code is, retention does not take it away either (Removable).     *)
(***************************************************************************)
NoSilentLoss == buffered \subseteq OnDisk \cup sent

\* Fragments of files on the list that are past their retention.
Overdue ==
    UNION {InFile(files[i].name) :
             i \in {j \in DOMAIN files : Old(files[j]) /\ files[j].name \in DOMAIN disk}}

Store == INSTANCE FragmentStore WITH
    accepted <- buffered, held <- OnDisk, delivered <- sent, overdue <- Overdue

(***************************************************************************)
(* The buffer is an at-least-once store (FragmentStore): over failures,    *)
(* aborts and restarts what was accepted stays until it has been sent or,  *)
(* at most, until max-buffer-hours are over (README.md:84).  The code does *)
(* not make use of the second; one that did would implement it as well.    *)
(***************************************************************************)
StoreSpec == Store!Spec

(***************************************************************************)
(* Within one trigger the fragments are sent in the order they were pushed *)
(* (buffered_upload_manager.rs:571), whatever was rotated, recovered from  *)
(* an earlier run or left over by a failed upload.                         *)
(***************************************************************************)
TriggerSendsInOrder == [][lastSent' > lastSent \/ lastSent' \in {0, lastSent}]_vars

Within(t, r) == (r.from # NoTime => t >= r.from) /\ (r.to # NoTime => t <= r.to)

\* The tracked file still holds a fragment of the range that it may upload.
Wanted(f, r) ==
    /\ ~f.uploaded /\ f.attempts < MaxRetries /\ f.name \in DOMAIN disk
    /\ \E n \in InFile(f.name) : Within(stamps[n], r)

(***************************************************************************)
(* A windowed trigger leaves out no file with a fragment of the window, if *)
(* this run of the element has written the file and no aborted upload has  *)
(* left its NEW file, which starts when the upload did, to be appended to. *)
(***************************************************************************)
WindowSelects ==
    [][SelectFiles => \A i \in DOMAIN files :
         Wanted(files[i], range) /\ files[i].count > 0
            => \E j \in DOMAIN todo' : todo'[j] = files[i].name]_vars

Tracks(name) == \E i \in DOMAIN files : files[i].name = name /\ ~files[i].uploaded
GivenUp(name) ==
    \E i \in DOMAIN files : files[i].name = name /\ files[i].attempts = MaxRetries

(***************************************************************************)
(* The manager knows of every file that holds a fragment still to be sent: *)
(* it writes to it, finalizes it or tracks it, across rotations, uploads,  *)
(* clean-ups and the scan of a restart.  This is for instances without     *)
(* failing syncs and scans and without aborts: the current file is taken   *)
(* before the awaits that finalize it (buffered_upload_manager.rs:325), a  *)
(* failed scan is only logged (217).                                       *)
(***************************************************************************)
NothingForgotten ==
    pc # "down" => \A n \in DOMAIN disk :
        InFile(n) \subseteq sent \/ n \in {current.name, closing.name} \/ Tracks(n)

(***************************************************************************)
(* A trigger for everything during which no file failed has left nothing   *)
(* unsent on disk but the files that are given up, in the same instances.  *)
(***************************************************************************)
TriggerSendsAll ==
    [][(SelectFiles \/ FinishUpload) /\ pc' = "idle" /\ range = All /\ event = "none"
         => \A n \in DOMAIN disk : InFile(n) \subseteq sent \/ GivenUp(n)]_vars

(***************************************************************************)
(* As long as triggers keep coming and puts fail less often than a file is *)
(* retried, every buffered fragment reaches KVS, also across restarts.     *)
(* This is the code as it is: with the retention of the docs a file could  *)
(* outlive its window first.                                               *)
(***************************************************************************)
BufferedIsSent == \A f \in Fragments : f \in buffered ~> f \in sent
=============================================================================
