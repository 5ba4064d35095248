------------------------ MODULE BufferManager_proofs ------------------------
(***************************************************************************)
(* Proofs about BufferManager, for any limits, any number of fragments and *)
(* mishaps, and any faults unless a theorem excludes one.                  *)
(***************************************************************************)
EXTENDS BufferManager, SequenceFacts

-----------------------------------------------------------------------------
(* The inductive invariant.                                                *)

\* Names are creation times: files are listed by age.
Listed ==
    /\ \A i \in DOMAIN files : files[i].name # 0 /\ files[i].name < clock
    /\ \A i, j \in DOMAIN files : i < j => files[i].name < files[j].name

\* The file that is written to, or that is being finalized, is the newest of all.
Newest(c) ==
    IsFile(c) => /\ c.name \in DOMAIN disk
                 /\ \A n \in DOMAIN disk : n <= c.name
                 /\ \A i \in DOMAIN files : files[i].name < c.name

NamesInv == Listed /\ Newest(current) /\ Newest(closing)

\* What each step of an operation has to work on.
PhaseInv ==
    /\ IsFile(closing) <=> pc \in {"rotating", "finalizing"}
    /\ pc \in {"rotating", "creating", "finalizing", "selecting", "starting", "down"}
         => ~IsFile(current)
    /\ pc = "appending" => IsFile(current) /\ current.count < RotateSize
    /\ pc \in {"opening", "putting"} => IsFile(current) /\ current.count = 0
    /\ pc \in {"rotating", "creating", "appending"} => stamps # <<>>
    /\ pc = "putting" => todo # <<>> /\ Head(todo) \in DOMAIN disk

\* The files of a trigger: tracked, each once, by age, none tried too often.
TodoInv ==
    /\ todo # <<>> => pc \in {"starting", "opening", "putting"}
    /\ \A k \in DOMAIN todo : \E i \in DOMAIN files :
         files[i].name = todo[k] /\ files[i].attempts < MaxRetries
    /\ \A k, l \in DOMAIN todo : k < l => todo[k] < todo[l]

\* The reader starts with the first record of each file.
ReaderInv == pc # "putting" => pos = 1

\* What has been uploaded has been sent, file by file,
SentInv ==
    \A i \in DOMAIN files :
       files[i].uploaded /\ files[i].name \in DOMAIN disk => InFile(files[i].name) \subseteq sent

\* and of the file that is being read, record by record.
ReadInv == pc = "putting" => \A i \in Readable(Records) : i < pos => Records[i] \in sent

\* The file that is written to has no torn record (no write stopped half-way).
Whole ==
    IsFile(current) => \A i \in DOMAIN disk[current.name].records :
                          disk[current.name].records[i] # Torn

SendInv == ReaderInv /\ SentInv /\ ReadInv
StoreInv == SendInv /\ Whole

-----------------------------------------------------------------------------
(* Types, one group of variables at a time.                                *)

Entries == Fragments \cup {Torn}

\* CurrentMegaClusterFile.
FileInfo == [name : Nat, start : Nat, last : Nat, count : Nat]
Phases == {"idle", "rotating", "creating", "appending", "cleaning", "finalizing",
           "selecting", "starting", "opening", "putting", "down"}

DiskType ==
    /\ clock \in Nat \ {0}
    /\ \A n \in DOMAIN disk : /\ n \in Nat \ {0} /\ n < clock
                              /\ disk[n].records \in Seq(Entries)
                              /\ disk[n].mtime \in 1..clock

CurrentType ==
    /\ current \in FileInfo /\ current.count <= RotateSize
    /\ closing \in FileInfo /\ closing.count <= RotateSize

FilesType ==
    /\ files \in Seq(Tracked)
    /\ \A i \in DOMAIN files : /\ files[i].count <= RotateSize
                               /\ files[i].attempts <= MaxRetries

OperationType ==
    /\ pc \in Phases /\ range \in [from : Nat, to : Nat]
    /\ todo \in Seq(Nat) /\ pos \in Nat \ {0}
    /\ event \in {"none", "error", "switch", "stay"}

GhostType ==
    /\ stamps \in Seq(Nat) /\ Len(stamps) <= MaxFragments
    /\ buffered \subseteq Fragments /\ sent \subseteq Fragments /\ lastSent \in Nat

Types == DiskType /\ CurrentType /\ FilesType /\ OperationType /\ GhostType

IInv == Types /\ NamesInv /\ PhaseInv /\ TodoInv

\* The groups are at least as strong as the type invariant.
LEMMA TypeOKFollows == IInv => TypeOK
<1> SUFFICES ASSUME IInv PROVE TypeOK
  OBVIOUS
<1>1. /\ clock \in Nat \ {0} /\ DOMAIN disk \subseteq 1..clock
      /\ \A n \in DOMAIN disk : /\ disk[n].records \in Seq(Fragments \cup {Torn})
                                /\ disk[n].mtime \in 1..clock
  BY DEF IInv, Types, DiskType, Entries
<1>2. /\ current \in FileInfo /\ current.count <= RotateSize /\ closing \in FileInfo
      /\ IsFile(current) => current.name \in DOMAIN disk
      /\ pc \in {"opening", "putting"} => IsFile(current) /\ current.count = 0
  BY DEF IInv, Types, CurrentType, NamesInv, Newest, PhaseInv
<1>3. FilesType /\ OperationType /\ GhostType
  BY DEF IInv, Types
<1>4. QED
  BY <1>1, <1>2, <1>3 DEF TypeOK, FileInfo, FilesType, OperationType, GhostType, Phases

\* The constants, one by one.
LEMMA Limits ==
    /\ MaxRetries \in Nat \ {0} /\ RotateSize \in Nat \ {0} /\ RotateAge \in Nat \ {0}
    /\ MaxAge \in Nat /\ MaxFragments \in Nat
    /\ Ranges \subseteq [from : Nat, to : Nat]
<1>1. MaxRetries \in Nat \ {0} /\ RotateSize \in Nat \ {0} /\ RotateAge \in Nat \ {0}
  BY LimitsAssumption, Zenon
<1>2. MaxAge \in Nat /\ MaxFragments \in Nat
  BY LimitsAssumption, Zenon
<1>3. QED
  BY <1>1, <1>2, RangesAssumption

-----------------------------------------------------------------------------
(* The operators of the module.                                            *)

\* In their order, and all of them, for a finite set.
LEMMA AscendingIs ==
    ASSUME NEW S, IsFiniteSet(S), NEW f \in Ascending(S), S \subseteq Int
    PROVE  /\ f \in [1..Cardinality(S) -> S] /\ f \in Seq(S)
           /\ \A i, j \in DOMAIN f : i < j => f[i] < f[j]
           /\ \A x \in S : \E i \in DOMAIN f : f[i] = x
<1> DEFINE n == Cardinality(S)
<1>1. n \in Nat
  BY FS_CardinalityType
<1>2. f \in [1..n -> S] /\ \A i, j \in 1..n : i < j => f[i] < f[j]
  BY DEF Ascending
<1>3. IsFiniteSet(1..n) /\ Cardinality(1..n) = n
  <2>1. 1 \in Int /\ n \in Int
    BY <1>1
  <2> HIDE DEF n
  <2>2. /\ IsFiniteSet(1..n)
        /\ Cardinality(1..n) = IF 1 > n THEN 0 ELSE n - 1 + 1
    BY <2>1, FS_Interval, Zenon
  <2>3. QED
    BY <1>1, <2>2
<1> HIDE DEF n
<1>4. f \in Injection(1..n, S)
  <2>1. \A i \in 1..n : f[i] \in Int
    BY <1>2
  <2>2. ASSUME NEW i \in 1..n, NEW j \in 1..n, i # j PROVE f[i] # f[j]
    <3>1. (i < j \/ j < i) /\ f[i] \in Int /\ f[j] \in Int
      BY <1>1, <2>1, <2>2
    <3>2. QED
      BY <1>2, <3>1
  <2>3. QED
    BY <1>2, <2>2 DEF Injection, IsInjective
<1>5. \A x \in S : \E i \in 1..n : f[i] = x
  <2>1. f \in Surjection(1..n, S)
    BY <1>3, <1>4, FS_Injection DEF n
  <2>2. QED
    BY <2>1 DEF Surjection
<1>6. QED
  BY <1>1, <1>2, <1>5 DEF n

-----------------------------------------------------------------------------
(* The steps, by what they do to the directory.                            *)

\* A step leaves the directory alone, adds an empty file under a new name, adds
\* a record to the current file or takes files away.
NewFile == disk' = WithFile(clock, <<>>, clock) /\ clock' = clock + 1
NewRecord(r) ==
    /\ pc = "appending" /\ r \in {Frag, Torn}
    /\ disk' = WithFile(current.name, Append(disk[current.name].records, r), clock)
Removed(S) == disk' = [n \in DOMAIN disk \ S |-> disk[n]]

DiskEffect ==
    \/ disk' = disk /\ clock' \in {clock, clock + 1}
    \/ NewFile
    \/ (\E r \in {Frag, Torn} : NewRecord(r)) /\ clock' \in {clock, clock + 1}
    \/ (\E S : Removed(S)) /\ clock' = clock

\* What an interrupted operation may leave behind.
LEMMA InterruptedEffect ==
    ASSUME DiskType, Interrupted, clock' = IF disk' = disk THEN clock ELSE clock + 1
    PROVE  /\ DiskEffect
           /\ \/ disk' = disk
              \/ NewFile /\ pc \in {"creating", "starting"}
              \/ \E r \in {Frag, Torn} : NewRecord(r)
<1>1. clock \notin DOMAIN disk
  BY DEF DiskType
<1>2. WithFile(clock, <<>>, clock) # disk
  BY <1>1 DEF WithFile
<1>3. CASE UNCHANGED disk
  BY <1>3 DEF DiskEffect
<1>4. CASE pc \in {"creating", "starting"} /\ disk' = WithFile(clock, <<>>, clock)
  BY <1>2, <1>4 DEF DiskEffect, NewFile
<1>5. CASE /\ pc = "appending"
           /\ \E r \in {Frag, Torn} :
                disk' = WithFile(current.name, Append(disk[current.name].records, r), clock)
  BY <1>5 DEF DiskEffect, NewRecord
<1>6. QED
  BY <1>3, <1>4, <1>5 DEF Interrupted

\* Every step has one of these effects.
LEMMA DiskEffects == DiskType /\ [Next]_vars => DiskEffect
<1> SUFFICES ASSUME DiskType, [Next]_vars PROVE DiskEffect
  OBVIOUS
<1> USE DEF store, operation, ghost
<1>1. CASE UNCHANGED <<clock, disk>>
  BY <1>1 DEF DiskEffect
<1>2. CASE Tick
  BY <1>2 DEF Tick, DiskEffect
<1>3. ASSUME NEW t \in 1..clock, PushFragment(t) PROVE DiskEffect
  BY <1>1, <1>3 DEF PushFragment
<1>4. CASE FinalizeRotated \/ FinalizeCurrent
  BY <1>1, <1>4 DEF FinalizeRotated, FinalizeCurrent, Finalize
<1>5. CASE CreateNext \/ CreateDuringUpload
  BY <1>5 DEF CreateNext, CreateDuringUpload, Create, DiskEffect, NewFile
<1>6. CASE AppendRecord
  BY <1>6 DEF AppendRecord, DiskEffect, NewRecord
<1>7. CASE AppendFails
  BY <1>7 DEF AppendFails, DiskEffect, NewRecord
<1>8. CASE Cleanup
  <2>1. clock' = clock
    BY <1>8 DEF Cleanup
  <2>2. disk' = disk \/ \E S : Removed(S)
    BY <1>8 DEF Cleanup, RemoveFiles, Removed
  <2>3. QED
    BY <2>1, <2>2 DEF DiskEffect
<1>9. ASSUME NEW r \in Ranges, TriggerUploadAll(r) PROVE DiskEffect
  BY <1>1, <1>9 DEF TriggerUploadAll
<1>10. CASE SelectFiles \/ FinishUpload
  BY <1>1, <1>10 DEF SelectFiles, FinishUpload
<1>11. CASE OpenFile \/ PutFragment \/ PutFragmentFails
  BY <1>1, <1>11 DEF OpenFile, PutFragment, PutFragmentFails
<1>12. CASE MarkUploaded
  <2>1. clock' = clock
    BY <1>12 DEF MarkUploaded
  <2>2. disk' = disk \/ Removed({Head(todo)})
    BY <1>12 DEF MarkUploaded, WithoutFile, Removed
  <2>3. QED
    BY <2>1, <2>2 DEF DiskEffect
<1>13. CASE AbortTrigger
  BY <1>13, InterruptedEffect DEF AbortTrigger
<1>14. CASE Down
  BY <1>14, InterruptedEffect DEF Down
<1>15. CASE Open
  BY <1>1, <1>15 DEF Open
<1>16. CASE UNCHANGED vars
  BY <1>1, <1>16 DEF vars
<1>17. QED
  BY <1>2, <1>3, <1>4, <1>5, <1>6, <1>7, <1>8, <1>9, <1>10, <1>11, <1>12, <1>13, <1>14,
     <1>15, <1>16 DEF Next, Push, Upload

\* A record that is added is one of the fragments, or torn.
LEMMA NewRecordIs ==
    ASSUME IInv, NEW r, NewRecord(r)
    PROVE  /\ r \in Entries /\ current.name \in DOMAIN disk /\ DOMAIN disk' = DOMAIN disk
           /\ LET old == disk[current.name].records
                  new == disk'[current.name].records
              IN  /\ old \in Seq(Entries) /\ new \in Seq(Entries)
                  /\ new = Append(old, r)
                  /\ DOMAIN new = DOMAIN old \cup {Len(old) + 1}
                  /\ new[Len(old) + 1] = r /\ Len(old) + 1 \notin DOMAIN old
                  /\ \A i \in DOMAIN old : new[i] = old[i]
           /\ disk'[current.name].mtime = clock
           /\ \A n \in DOMAIN disk \ {current.name} : disk'[n] = disk[n]
<1>1. IsFile(current) /\ stamps # <<>>
  BY DEF IInv, PhaseInv, NewRecord
<1>2. Len(stamps) \in Fragments
  BY <1>1, Limits DEF IInv, Types, GhostType, Fragments
<1>3. r \in Entries /\ current.name \in DOMAIN disk
  BY <1>1, <1>2 DEF IInv, NamesInv, Newest, NewRecord, Frag, Entries
<1>4. disk[current.name].records \in Seq(Entries)
  BY <1>3 DEF IInv, Types, DiskType
<1>5. /\ DOMAIN disk' = DOMAIN disk \cup {current.name}
      /\ disk'[current.name].records = Append(disk[current.name].records, r)
      /\ disk'[current.name].mtime = clock
      /\ \A n \in DOMAIN disk \ {current.name} : disk'[n] = disk[n]
  BY DEF NewRecord, WithFile
<1> DEFINE old == disk[current.name].records
<1>6. /\ Append(old, r) \in Seq(Entries)
      /\ DOMAIN Append(old, r) = DOMAIN old \cup {Len(old) + 1}
      /\ Append(old, r)[Len(old) + 1] = r /\ Len(old) + 1 \notin DOMAIN old
      /\ \A i \in DOMAIN old : Append(old, r)[i] = old[i]
  <2> HIDE DEF old
  <2>1. old \in Seq(Entries)
    BY <1>4 DEF old
  <2>2. QED
    BY <1>3, <2>1
<1>7. DOMAIN disk' = DOMAIN disk
  BY <1>3, <1>5
<1>8. QED
  BY <1>3, <1>4, <1>5, <1>6, <1>7

\* A new file is empty and has a name of its own.
LEMMA NewFileIs ==
    ASSUME DiskType, NewFile
    PROVE  /\ clock \notin DOMAIN disk /\ DOMAIN disk' = DOMAIN disk \cup {clock}
           /\ disk'[clock].records = <<>> /\ disk'[clock].mtime = clock
           /\ \A n \in DOMAIN disk : disk'[n] = disk[n]
<1>1. clock \notin DOMAIN disk
  BY DEF DiskType
<1>2. QED
  BY <1>1 DEF NewFile, WithFile

\* The directory: names lie in the past, records are fragments or torn.
LEMMA DiskTypeStep == IInv /\ [Next]_vars => DiskType'
<1> SUFFICES ASSUME IInv, [Next]_vars PROVE DiskType'
  OBVIOUS
<1>1. DiskType /\ DiskEffect
  BY DiskEffects DEF IInv, Types
<1>2. clock' \in Nat \ {0} /\ clock' >= clock /\ clock \in Nat \ {0}
  BY <1>1 DEF DiskType, DiskEffect, NewFile
<1>3. CASE disk' = disk
  BY <1>1, <1>2, <1>3 DEF DiskType
<1>4. CASE NewFile
  <2>1. clock' = clock + 1
    BY <1>4 DEF NewFile
  <2>2. \A n \in DOMAIN disk' : n = clock \/ (n \in DOMAIN disk /\ disk'[n] = disk[n])
    BY <1>1, <1>4, NewFileIs
  <2>3. disk'[clock].records \in Seq(Entries) /\ disk'[clock].mtime = clock
    <3>1. disk'[clock].records = <<>> /\ disk'[clock].mtime = clock
      BY <1>1, <1>4, NewFileIs
    <3>2. <<>> \in Seq(Entries)
      OBVIOUS
    <3>3. QED
      BY <3>1, <3>2, Zenon
  <2>4. ASSUME NEW n \in DOMAIN disk'
        PROVE  /\ n \in Nat \ {0} /\ n < clock' /\ disk'[n].records \in Seq(Entries)
               /\ disk'[n].mtime \in 1..clock'
    <3>1. CASE n = clock
      BY <1>2, <2>1, <2>3, <3>1
    <3>2. CASE n \in DOMAIN disk /\ disk'[n] = disk[n]
      BY <1>1, <1>2, <2>1, <3>2 DEF DiskType
    <3>3. QED
      BY <2>2, <3>1, <3>2
  <2>5. QED
    BY <1>2, <2>4 DEF DiskType
<1>5. ASSUME NEW r, NewRecord(r) PROVE DiskType'
  <2>1. \A n \in DOMAIN disk' : /\ n \in DOMAIN disk
                                /\ n = current.name \/ disk'[n] = disk[n]
    BY <1>5, NewRecordIs
  <2>2. disk'[current.name].records \in Seq(Entries) /\ disk'[current.name].mtime = clock
    BY <1>5, NewRecordIs
  <2>3. QED
    BY <1>1, <1>2, <2>1, <2>2 DEF DiskType
<1>6. ASSUME NEW S, Removed(S) PROVE DiskType'
  <2>1. \A n \in DOMAIN disk' : n \in DOMAIN disk /\ disk'[n] = disk[n]
    BY <1>6 DEF Removed
  <2>2. QED
    BY <1>1, <1>2, <2>1 DEF DiskType
<1>7. QED
  BY <1>1, <1>3, <1>4, <1>5, <1>6 DEF DiskEffect

-----------------------------------------------------------------------------
(* The types of the other groups.                                          *)

\* The fragment that is being pushed, and its timestamp.
LEMMA FragIs ==
    ASSUME GhostType, stamps # <<>>
    PROVE  Frag \in Fragments /\ Frag \in DOMAIN stamps /\ stamps[Frag] \in Nat
<1>1. Len(stamps) \in Nat \ {0} /\ Len(stamps) \in DOMAIN stamps
  BY DEF GhostType
<1>2. stamps[Len(stamps)] \in Nat
  BY <1>1 DEF GhostType
<1>3. QED
  BY <1>1, <1>2, Limits DEF GhostType, Frag, Fragments

\* The two files in work keep their type and their size.
LEMMA CurrentTypeStep == IInv /\ [Next]_vars => CurrentType'
<1> SUFFICES ASSUME IInv, [Next]_vars PROVE CurrentType'
  OBVIOUS
<1> USE DEF store, operation, ghost
<1>1. CurrentType /\ NoFile \in FileInfo /\ NoFile.count <= RotateSize
  BY Limits DEF IInv, Types, FileInfo, NoFile
<1>2. ASSUME current' \in {current, NoFile}, closing' \in {closing, current, NoFile}
      PROVE  CurrentType'
  BY <1>1, <1>2 DEF CurrentType
<1>3. CASE Tick \/ FinalizeRotated \/ FinalizeCurrent
  BY <1>2, <1>3 DEF Tick, FinalizeRotated, FinalizeCurrent, Finalize
<1>4. ASSUME NEW t \in 1..clock, PushFragment(t) PROVE CurrentType'
  BY <1>2, <1>4 DEF PushFragment
<1>5. ASSUME NEW start \in Nat, NEW then, Create(start, then) PROVE CurrentType'
  <2>1. CASE UNCHANGED store
    BY <1>2, <1>5, <2>1 DEF Create
  <2>2. CASE current' = [name |-> clock, start |-> start, last |-> start, count |-> 0]
    <3>1. current' \in FileInfo /\ current'.count <= RotateSize
      BY <2>2, Limits DEF FileInfo, IInv, Types, DiskType
    <3>2. closing' = closing
      BY <1>5 DEF Create
    <3>3. QED
      BY <1>1, <3>1, <3>2 DEF CurrentType
  <2>3. QED
    BY <1>5, <2>1, <2>2 DEF Create
<1>6. CASE CreateNext \/ CreateDuringUpload
  <2>1. pc = "creating" => stamps[Frag] \in Nat
    BY FragIs DEF IInv, Types, PhaseInv
  <2>2. clock \in Nat
    BY DEF IInv, Types, DiskType
  <2>3. QED
    BY <1>5, <1>6, <2>1, <2>2 DEF CreateNext, CreateDuringUpload
<1>7. CASE AppendRecord
  <2>1. stamps[Frag] \in Nat /\ current.count < RotateSize /\ current \in FileInfo
    BY <1>7, FragIs DEF AppendRecord, IInv, Types, PhaseInv, CurrentType
  <2>2. current' = [current EXCEPT !.last = stamps[Frag], !.count = @ + 1]
    BY <1>7 DEF AppendRecord
  <2>3. current' \in FileInfo /\ current'.count <= RotateSize
    <3>1. current.name \in Nat /\ current.start \in Nat /\ current.count \in Nat
      BY <2>1 DEF FileInfo
    <3>2. current' = [name |-> current.name, start |-> current.start,
                      last |-> stamps[Frag], count |-> current.count + 1]
      BY <2>1, <2>2 DEF FileInfo
    <3>3. QED
      BY <2>1, <3>1, <3>2, Limits DEF FileInfo
  <2>4. QED
    BY <1>1, <1>7, <2>3 DEF AppendRecord, CurrentType
<1>8. CASE AppendFails \/ Cleanup
  BY <1>2, <1>8 DEF AppendFails, Cleanup
<1>9. ASSUME NEW r \in Ranges, TriggerUploadAll(r) PROVE CurrentType'
  BY <1>2, <1>9 DEF TriggerUploadAll
<1>10. CASE SelectFiles \/ OpenFile \/ PutFragment \/ PutFragmentFails
  BY <1>2, <1>10 DEF SelectFiles, OpenFile, PutFragment, PutFragmentFails
<1>11. CASE MarkUploaded \/ FinishUpload
  BY <1>2, <1>11 DEF MarkUploaded, FinishUpload
<1>12. CASE AbortTrigger \/ Down \/ Open
  BY <1>2, <1>12 DEF AbortTrigger, Down, Open
<1>13. CASE UNCHANGED vars
  BY <1>2, <1>13 DEF vars
<1>14. QED
  BY <1>3, <1>4, <1>6, <1>7, <1>8, <1>9, <1>10, <1>11, <1>12, <1>13
     DEF Next, Push, Upload

\* The file a trigger works on is tracked, under one entry.
LEMMA EntryIs ==
    ASSUME IInv, todo # <<>>
    PROVE  /\ Entry(Head(todo)) \in DOMAIN files
           /\ files[Entry(Head(todo))].name = Head(todo)
           /\ files[Entry(Head(todo))].attempts < MaxRetries
           /\ \A i \in DOMAIN files : files[i].name = Head(todo) => i = Entry(Head(todo))
<1>1. 1 \in DOMAIN todo /\ Head(todo) = todo[1]
  BY DEF IInv, Types, OperationType
<1>2. PICK i \in DOMAIN files : /\ files[i].name = Head(todo)
                                /\ files[i].attempts < MaxRetries
  BY <1>1 DEF IInv, TodoInv
<1>3. /\ files \in Seq(Tracked)
      /\ \A j, k \in DOMAIN files : j < k => files[j].name < files[k].name
  BY DEF IInv, Types, FilesType, NamesInv, Listed
<1>4. \A j, k \in DOMAIN files : files[j].name = files[k].name => j = k
  <2>1. \A j \in DOMAIN files : j \in Nat /\ files[j].name \in Nat
    <3>1. \A j \in DOMAIN files : j \in Nat /\ files[j] \in Tracked
      BY <1>3
    <3>2. QED
      BY <3>1 DEF Tracked
  <2>2. ASSUME NEW j \in DOMAIN files, NEW k \in DOMAIN files, j # k
        PROVE  files[j].name # files[k].name
    <3>1. j < k \/ k < j
      BY <2>1, <2>2
    <3>2. QED
      BY <1>3, <2>1, <3>1
  <2>3. QED
    BY <2>2
<1>5. \A j \in 1..(i - 1) : j \in DOMAIN files /\ j # i
  BY <1>3
<1>6. files[i].name = Head(todo) /\ \A j \in 1..(i - 1) : files[j].name # Head(todo)
  BY <1>2, <1>4, <1>5
<1>7. Entry(Head(todo)) \in DOMAIN files /\ files[Entry(Head(todo))].name = Head(todo)
  BY <1>6 DEF Entry
<1>8. QED
  BY <1>2, <1>4, <1>7

\* What is left of a list is part of it, in its order.
LEMMA SubSeqIs ==
    ASSUME NEW E, NEW s \in Seq(E), NEW k \in 0..Len(s)
    PROVE  LET rest == SubSeq(s, k + 1, Len(s)) IN
           /\ rest \in Seq(E)
           /\ \A i \in DOMAIN rest : i + k \in DOMAIN s /\ rest[i] = s[i + k]
           /\ \A i \in DOMAIN s : i > k => i - k \in DOMAIN rest /\ rest[i - k] = s[i]
  OBVIOUS

\* What the scan of the directory yields.
Recovered(names) ==
    [i \in DOMAIN names |->
       [name |-> names[i],
        start |-> disk[names[i]].mtime, end |-> disk[names[i]].mtime,
        count |-> 0, uploaded |-> FALSE, attempts |-> 0]]

\* The scan lists each file of the directory once, the oldest first.
LEMMA ScanIs ==
    ASSUME DiskType, NEW names \in ByName(DOMAIN disk)
    PROVE  /\ names \in Seq(DOMAIN disk)
           /\ \A i, j \in DOMAIN names : i < j => names[i] < names[j]
           /\ \A n \in DOMAIN disk : \E i \in DOMAIN names : names[i] = n
           /\ Recovered(names) \in Seq(Tracked)
<1>1. DOMAIN disk \subseteq 1..clock /\ clock \in Nat /\ DOMAIN disk \subseteq Int
  BY DEF DiskType
<1>2. IsFiniteSet(DOMAIN disk)
  <2> DEFINE n == clock
  <2>1. 1 \in Int /\ n \in Int
    BY <1>1
  <2> HIDE DEF n
  <2>2. IsFiniteSet(1..n)
    BY <2>1, FS_Interval, Zenon
  <2>3. QED
    BY <1>1, <2>2, FS_Subset DEF n
<1>3. names \in Ascending(DOMAIN disk)
  BY DEF ByName
<1>4. /\ names \in Seq(DOMAIN disk)
      /\ \A i, j \in DOMAIN names : i < j => names[i] < names[j]
      /\ \A n \in DOMAIN disk : \E i \in DOMAIN names : names[i] = n
  BY <1>1, <1>2, <1>3, AscendingIs
<1>5. \A i \in DOMAIN names : names[i] \in DOMAIN disk
  BY <1>4
<1>6. \A i \in DOMAIN names : Recovered(names)[i] \in Tracked
  BY <1>1, <1>5 DEF DiskType, Recovered, Tracked
<1>7. DOMAIN Recovered(names) = 1..Len(names) /\ Len(names) \in Nat
  BY <1>4 DEF Recovered
<1>8. Recovered(names) \in Seq(Tracked)
  BY <1>6, <1>7 DEF Recovered
<1>9. QED
  BY <1>4, <1>8

\* A step changes the list of files in one of these ways.
FilesKept ==
    \/ files' \in {files, <<>>}
    \/ todo # <<>> /\ files' = [files EXCEPT ![Entry(Head(todo))].attempts = @ + 1]
    \/ /\ MarkUploaded /\ todo # <<>>
       /\ files' = [files EXCEPT ![Entry(Head(todo))].uploaded = TRUE]
    \/ \E k \in 0..Len(files) : files' = SubSeq(files, k + 1, Len(files))

Finalized ==
    /\ IsFile(closing) /\ ~IsFile(current) /\ disk' = disk
    /\ files' = TrackedLast(closing) /\ closing' = NoFile /\ current' = current

Scanned ==
    /\ ~IsFile(closing) /\ ~IsFile(current) /\ disk' = disk
    /\ \E names \in ByName(DOMAIN disk) : files' = Recovered(names)
    /\ closing' = closing /\ current' = current

FilesEffect == FilesKept \/ Finalized \/ Scanned

\* Every step has one of these effects.
LEMMA FilesEffects == PhaseInv /\ [Next]_vars => FilesEffect
<1> SUFFICES ASSUME PhaseInv, [Next]_vars PROVE FilesEffect
  OBVIOUS
<1> USE DEF store, operation, ghost
<1>1. ASSUME files' \in {files, <<>>} PROVE FilesEffect
  BY <1>1 DEF FilesEffect, FilesKept
<1>2. CASE Tick
  BY <1>1, <1>2 DEF Tick
<1>3. ASSUME NEW t \in 1..clock, PushFragment(t) PROVE FilesEffect
  BY <1>1, <1>3 DEF PushFragment
<1>4. CASE FinalizeRotated \/ FinalizeCurrent
  <2>1. IsFile(closing) /\ ~IsFile(current)
    BY <1>4 DEF PhaseInv, FinalizeRotated, FinalizeCurrent
  <2>2. /\ files' = files \/ files' = TrackedLast(closing)
        /\ closing' = NoFile /\ UNCHANGED <<disk, current>>
    BY <1>4 DEF FinalizeRotated, FinalizeCurrent, Finalize
  <2>3. QED
    BY <1>1, <2>1, <2>2 DEF FilesEffect, Finalized
<1>5. CASE CreateNext \/ CreateDuringUpload
  BY <1>1, <1>5 DEF CreateNext, CreateDuringUpload, Create
<1>6. CASE AppendRecord \/ AppendFails
  BY <1>1, <1>6 DEF AppendRecord, AppendFails
<1>7. CASE Cleanup
  BY <1>7 DEF Cleanup, FilesEffect, FilesKept
<1>8. ASSUME NEW r \in Ranges, TriggerUploadAll(r) PROVE FilesEffect
  BY <1>1, <1>8 DEF TriggerUploadAll
<1>9. CASE SelectFiles \/ FinishUpload \/ PutFragment
  BY <1>1, <1>9 DEF SelectFiles, FinishUpload, PutFragment
<1>10. CASE OpenFile \/ PutFragmentFails
  <2>1. todo # <<>> /\ (files' = files \/ FileFails)
    BY <1>10 DEF PhaseInv, OpenFile, PutFragmentFails
  <2>2. QED
    BY <2>1, <1>1 DEF FileFails, FilesEffect, FilesKept
<1>11. CASE MarkUploaded
  BY <1>11 DEF PhaseInv, MarkUploaded, FilesEffect, FilesKept
<1>12. CASE AbortTrigger \/ Down
  BY <1>1, <1>12 DEF AbortTrigger, Down
<1>13. CASE Open
  <2>1. ~IsFile(closing) /\ ~IsFile(current) /\ UNCHANGED <<disk, current, closing>>
    BY <1>13 DEF PhaseInv, Open
  <2>2. files' = <<>> \/ \E names \in ByName(DOMAIN disk) : files' = Recovered(names)
    BY <1>13 DEF Open, Recovered
  <2>3. QED
    BY <1>1, <2>1, <2>2 DEF FilesEffect, Scanned
<1>14. CASE UNCHANGED vars
  BY <1>1, <1>14 DEF vars
<1>15. QED
  BY <1>2, <1>3, <1>4, <1>5, <1>6, <1>7, <1>8, <1>9, <1>10, <1>11, <1>12, <1>13, <1>14
     DEF Next, Push, Upload

\* A file that is finalized is the last of the list from then on.
LEMMA TrackedLastIs ==
    ASSUME CurrentType, FilesType
    PROVE  LET last == [name |-> closing.name, start |-> closing.start,
                        end |-> closing.last, count |-> closing.count,
                        uploaded |-> FALSE, attempts |-> 0]
           IN  /\ last \in Tracked
               /\ TrackedLast(closing) \in Seq(Tracked)
               /\ DOMAIN TrackedLast(closing) = DOMAIN files \cup {Len(files) + 1}
               /\ TrackedLast(closing)[Len(files) + 1] = last
               /\ \A i \in DOMAIN files : TrackedLast(closing)[i] = files[i]
<1> DEFINE last == [name |-> closing.name, start |-> closing.start,
                    end |-> closing.last, count |-> closing.count,
                    uploaded |-> FALSE, attempts |-> 0]
<1>1. last \in Tracked
  BY DEF CurrentType, FileInfo, Tracked
<1>2. files \in Seq(Tracked) /\ TrackedLast(closing) = Append(files, last)
  BY DEF FilesType, TrackedLast
<1> HIDE DEF last
<1>3. /\ Append(files, last) \in Seq(Tracked)
      /\ DOMAIN Append(files, last) = DOMAIN files \cup {Len(files) + 1}
      /\ Append(files, last)[Len(files) + 1] = last
      /\ \A i \in DOMAIN files : Append(files, last)[i] = files[i]
  BY <1>1, <1>2
<1>4. QED
  BY <1>1, <1>2, <1>3 DEF last

\* An entry is changed in place.
LEMMA EntryFields ==
    ASSUME NEW f \in Tracked
    PROVE  /\ f.name \in Nat /\ f.start \in Nat /\ f.end \in Nat /\ f.count \in Nat
           /\ f.uploaded \in BOOLEAN /\ f.attempts \in Nat
  BY DEF Tracked

Same(f, g) ==
    f.name = g.name /\ f.start = g.start /\ f.end = g.end /\ f.count = g.count

\* The entry of the file a trigger works on.
Tried == Entry(Head(todo))

\* It is there, under one entry, and may still be tried.
LEMMA TriedIs ==
    ASSUME IInv, todo # <<>>
    PROVE  /\ Tried \in DOMAIN files /\ files[Tried].name = Head(todo)
           /\ files[Tried] \in Tracked /\ files[Tried].attempts < MaxRetries
           /\ files \in Seq(Tracked)
           /\ \A i \in DOMAIN files : files[i].name = Head(todo) => i = Tried
<1>1. files \in Seq(Tracked)
  BY DEF IInv, Types, FilesType
<1>2. QED
  BY <1>1, EntryIs DEF Tried

\* An entry of a sequence is replaced.
LEMMA Replaced ==
    ASSUME NEW E, NEW list \in Seq(E), NEW e \in DOMAIN list, NEW g \in E
    PROVE  [list EXCEPT ![e] = g] \in Seq(E)
  OBVIOUS

\* Its attempt has failed: one more, and nothing else.
LEMMA FailedIs ==
    ASSUME IInv, todo # <<>>,
           files' = [files EXCEPT ![Entry(Head(todo))].attempts = @ + 1]
    PROVE  /\ files' \in Seq(Tracked) /\ DOMAIN files' = DOMAIN files
           /\ Same(files'[Tried], files[Tried])
           /\ files'[Tried].uploaded = files[Tried].uploaded
           /\ files'[Tried].attempts = files[Tried].attempts + 1
           /\ \A i \in DOMAIN files \ {Tried} : files'[i] = files[i]
<1> DEFINE f == files[Tried]
           g == [f EXCEPT !.attempts = @ + 1]
<1>1. files' = [files EXCEPT ![Tried] = g]
  BY DEF Tried
<1>2. f \in Tracked /\ Tried \in DOMAIN files /\ files \in Seq(Tracked)
  BY TriedIs
<1> HIDE DEF f
<1>3. f.attempts + 1 \in Nat
  BY <1>2, EntryFields
<1>4. g \in Tracked
  BY <1>2, <1>3 DEF Tracked
<1>5. Same(g, f)
  BY <1>2 DEF Tracked, Same
<1>6. g.uploaded = f.uploaded /\ g.attempts = f.attempts + 1
  BY <1>2 DEF Tracked
<1> HIDE DEF g
<1>7. /\ files' \in Seq(Tracked) /\ DOMAIN files' = DOMAIN files /\ files'[Tried] = g
      /\ \A i \in DOMAIN files \ {Tried} : files'[i] = files[i]
  <2>1. DOMAIN files' = DOMAIN files /\ DOMAIN files = 1..Len(files) /\ Len(files) \in Nat
    BY <1>1, <1>2
  <2>2. files'[Tried] = g /\ \A i \in DOMAIN files \ {Tried} : files'[i] = files[i]
    BY <1>1, <1>2
  <2>3. [files EXCEPT ![Tried] = g] \in Seq(Tracked)
    BY <1>1, <1>2, <1>4, Replaced, Zenon
  <2>4. QED
    BY <1>1, <2>1, <2>2, <2>3, Zenon
<1>8. QED
  BY <1>5, <1>6, <1>7 DEF f

\* It is marked uploaded.
LEMMA MarkedIs ==
    ASSUME IInv, todo # <<>>,
           files' = [files EXCEPT ![Entry(Head(todo))].uploaded = TRUE]
    PROVE  /\ files' \in Seq(Tracked) /\ DOMAIN files' = DOMAIN files
           /\ Same(files'[Tried], files[Tried])
           /\ files'[Tried].attempts = files[Tried].attempts /\ files'[Tried].uploaded
           /\ \A i \in DOMAIN files \ {Tried} : files'[i] = files[i]
<1> DEFINE f == files[Tried]
           g == [f EXCEPT !.uploaded = TRUE]
<1>1. files' = [files EXCEPT ![Tried] = g]
  BY DEF Tried
<1>2. f \in Tracked /\ Tried \in DOMAIN files /\ files \in Seq(Tracked)
  BY TriedIs
<1> HIDE DEF f
<1>3. g \in Tracked
  BY <1>2 DEF Tracked
<1>4. Same(g, f)
  BY <1>2 DEF Tracked, Same
<1>5. g.attempts = f.attempts /\ g.uploaded
  BY <1>2 DEF Tracked
<1> HIDE DEF g
<1>6. /\ files' \in Seq(Tracked) /\ DOMAIN files' = DOMAIN files /\ files'[Tried] = g
      /\ \A i \in DOMAIN files \ {Tried} : files'[i] = files[i]
  <2>1. DOMAIN files' = DOMAIN files /\ DOMAIN files = 1..Len(files) /\ Len(files) \in Nat
    BY <1>1, <1>2
  <2>2. files'[Tried] = g /\ \A i \in DOMAIN files \ {Tried} : files'[i] = files[i]
    BY <1>1, <1>2
  <2>3. [files EXCEPT ![Tried] = g] \in Seq(Tracked)
    BY <1>1, <1>2, <1>3, Replaced, Zenon
  <2>4. QED
    BY <1>1, <2>1, <2>2, <2>3, Zenon
<1>7. QED
  BY <1>4, <1>5, <1>6 DEF f

\* The list keeps its type; sizes and attempts stay within their limits.
LEMMA FilesTypeStep == IInv /\ [Next]_vars => FilesType'
<1> SUFFICES ASSUME IInv, [Next]_vars PROVE FilesType'
  OBVIOUS
<1>1. FilesType /\ CurrentType /\ DiskType /\ FilesEffect
  BY FilesEffects DEF IInv, Types
<1>2. files \in Seq(Tracked) /\ Len(files) \in Nat /\ \A i \in DOMAIN files : i \in Nat
  BY <1>1 DEF FilesType
<1>3. CASE files' \in {files, <<>>}
  <2>1. CASE files' = files
    BY <1>1, <2>1 DEF FilesType
  <2>2. CASE files' = <<>>
    BY <2>2 DEF FilesType
  <2>3. QED
    BY <1>3, <2>1, <2>2
<1>4. CASE files' = TrackedLast(closing)
  <2>1. files' \in Seq(Tracked)
    BY <1>1, <1>4, TrackedLastIs
  <2>2. \A i \in DOMAIN files' : \/ i \in DOMAIN files /\ files'[i] = files[i]
                                 \/ files'[i].count = closing.count /\ files'[i].attempts = 0
    BY <1>1, <1>4, TrackedLastIs
  <2>3. QED
    BY <1>1, <2>1, <2>2, Limits DEF FilesType, CurrentType
<1>5. ASSUME todo # <<>>, files' = [files EXCEPT ![Entry(Head(todo))].attempts = @ + 1]
      PROVE  FilesType'
  <2>1. /\ files' \in Seq(Tracked) /\ DOMAIN files' = DOMAIN files
        /\ files'[Tried].count = files[Tried].count
        /\ files'[Tried].attempts = files[Tried].attempts + 1
        /\ \A i \in DOMAIN files \ {Tried} : files'[i] = files[i]
    BY <1>5, FailedIs DEF Same
  <2>2. files[Tried].attempts \in Nat /\ files[Tried].attempts < MaxRetries
    BY <1>5, TriedIs, EntryFields
  <2>3. ASSUME NEW i \in DOMAIN files
        PROVE  files'[i].count <= RotateSize /\ files'[i].attempts <= MaxRetries
    <3>1. CASE i = Tried
      BY <1>1, <2>1, <2>2, <3>1, Limits DEF FilesType
    <3>2. CASE i # Tried
      BY <1>1, <2>1, <3>2 DEF FilesType
    <3>3. QED
      BY <3>1, <3>2
  <2>4. QED
    BY <2>1, <2>3 DEF FilesType
<1>6. ASSUME todo # <<>>, files' = [files EXCEPT ![Entry(Head(todo))].uploaded = TRUE]
      PROVE  FilesType'
  <2>1. /\ files' \in Seq(Tracked) /\ DOMAIN files' = DOMAIN files
        /\ files'[Tried].count = files[Tried].count
        /\ files'[Tried].attempts = files[Tried].attempts
        /\ \A i \in DOMAIN files \ {Tried} : files'[i] = files[i]
    BY <1>6, MarkedIs DEF Same
  <2>2. QED
    BY <1>1, <2>1 DEF FilesType
<1>7. ASSUME NEW k \in 0..Len(files), files' = SubSeq(files, k + 1, Len(files))
      PROVE  FilesType'
  <2>1. /\ files' \in Seq(Tracked)
        /\ \A i \in DOMAIN files' : i + k \in DOMAIN files /\ files'[i] = files[i + k]
    BY <1>2, <1>7, SubSeqIs
  <2>2. QED
    BY <1>1, <2>1 DEF FilesType
<1>8. ASSUME NEW names \in ByName(DOMAIN disk), files' = Recovered(names)
      PROVE  FilesType'
  <2>1. files' \in Seq(Tracked)
    BY <1>1, <1>8, ScanIs
  <2>2. \A i \in DOMAIN files' : files'[i].count = 0 /\ files'[i].attempts = 0
    BY <1>8 DEF Recovered
  <2>3. QED
    BY <2>1, <2>2, Limits DEF FilesType
<1>9. QED
  BY <1>1, <1>3, <1>4, <1>5, <1>6, <1>7, <1>8 DEF FilesEffect, FilesKept, Finalized, Scanned

\* The files a trigger chooses are all the eligible ones, in their order.
LEMMA SelectIs ==
    ASSUME IInv, SelectFiles
    PROVE  \E at \in Seq(DOMAIN files) :
             /\ todo' = [k \in DOMAIN at |-> files[at[k]].name]
             /\ \A k, l \in DOMAIN at : k < l => at[k] < at[l]
             /\ \A k \in DOMAIN at : at[k] \in DOMAIN files /\ Eligible(files[at[k]], range)
             /\ \A i \in DOMAIN files :
                    Eligible(files[i], range) => \E k \in DOMAIN at : at[k] = i
<1> DEFINE S == {i \in DOMAIN files : Eligible(files[i], range)}
<1>1. PICK at \in Ascending(S) : todo' = [k \in DOMAIN at |-> files[at[k]].name]
  BY DEF SelectFiles
<1>2. files \in Seq(Tracked) /\ S \subseteq DOMAIN files
  BY DEF IInv, Types, FilesType
<1>3. IsFiniteSet(S) /\ S \subseteq Int
  <2> HIDE DEF S
  <2>1. DOMAIN files \subseteq Int
    BY <1>2
  <2>2. QED
    BY <1>2, <2>1, PlacesFinite
<1>4. /\ at \in Seq(S) /\ \A k, l \in DOMAIN at : k < l => at[k] < at[l]
      /\ \A i \in S : \E k \in DOMAIN at : at[k] = i
  BY <1>1, <1>3, AscendingIs
<1>5. \A k \in DOMAIN at : at[k] \in S
  BY <1>4
<1>6. at \in Seq(DOMAIN files)
  <2> HIDE DEF S
  <2>1. QED
    BY <1>2, <1>4
<1>7. QED
  BY <1>1, <1>4, <1>5, <1>6

\* The operation under way: its place, range, files and reader.
LEMMA OperationTypeStep == IInv /\ [Next]_vars => OperationType'
<1> SUFFICES ASSUME IInv, [Next]_vars PROVE OperationType'
  OBVIOUS
<1> USE DEF store, operation, ghost
<1>1. OperationType
  BY DEF IInv, Types
<1>2. ASSUME pc' \in Phases, range' \in {range, All} \cup Ranges,
             todo' \in {todo, <<>>} \/ (todo # <<>> /\ todo' = Tail(todo)),
             pos' \in {pos, 1, pos + 1},
             event' \in {event, "none", "error", "switch", "stay"}
      PROVE  OperationType'
  <2>1. range' \in [from : Nat, to : Nat]
    <3>1. All \in [from : Nat, to : Nat]
      BY DEF All, NoTime
    <3>2. QED
      BY <1>1, <1>2, <3>1, Limits DEF OperationType
  <2>2. todo' \in Seq(Nat)
    <3>1. todo \in Seq(Nat) /\ <<>> \in Seq(Nat)
      BY <1>1 DEF OperationType
    <3>2. todo # <<>> => Tail(todo) \in Seq(Nat)
      BY <3>1
    <3>3. QED
      BY <1>2, <3>1, <3>2
  <2>3. pos' \in Nat \ {0}
    BY <1>1, <1>2 DEF OperationType
  <2>4. QED
    BY <1>1, <1>2, <2>1, <2>2, <2>3 DEF OperationType
<1>3. pc \in Phases
  BY <1>1 DEF OperationType
<1>4. CASE Tick
  BY <1>2, <1>3, <1>4 DEF Tick
<1>5. ASSUME NEW t \in 1..clock, PushFragment(t) PROVE OperationType'
  BY <1>2, <1>5 DEF PushFragment, Phases
<1>6. CASE FinalizeRotated \/ FinalizeCurrent
  BY <1>2, <1>6 DEF FinalizeRotated, FinalizeCurrent, Finalize, Phases
<1>7. CASE CreateNext \/ CreateDuringUpload
  BY <1>2, <1>7 DEF CreateNext, CreateDuringUpload, Create, Phases
<1>8. CASE AppendRecord \/ AppendFails \/ Cleanup
  BY <1>2, <1>8 DEF AppendRecord, AppendFails, Cleanup, Phases
<1>9. ASSUME NEW r \in Ranges, TriggerUploadAll(r) PROVE OperationType'
  BY <1>2, <1>9 DEF TriggerUploadAll, Phases
<1>10. CASE SelectFiles
  <2>1. todo' \in Seq(Nat)
    <3>1. PICK at \in Seq(DOMAIN files) : todo' = [k \in DOMAIN at |-> files[at[k]].name]
      BY <1>10, SelectIs
    <3>2. \A k \in DOMAIN at : files[at[k]] \in Tracked
      BY <3>1 DEF IInv, Types, FilesType
    <3>3. \A k \in DOMAIN at : files[at[k]].name \in Nat
      BY <3>2, EntryFields
    <3>4. QED
      BY <3>1, <3>3
  <2>2. pc' \in Phases
    BY <1>10 DEF SelectFiles, Phases
  <2>3. event' \in {event, "switch", "stay"}
    BY <1>10 DEF SelectFiles, Complete
  <2>4. range' = range /\ pos' = pos
    BY <1>10 DEF SelectFiles
  <2>5. QED
    BY <1>1, <2>1, <2>2, <2>3, <2>4 DEF OperationType
<1>11. CASE OpenFile \/ PutFragmentFails
  <2>1. todo # <<>>
    BY <1>11 DEF OpenFile, PutFragmentFails, IInv, PhaseInv
  <2>2. QED
    BY <2>1, <1>2, <1>3, <1>11 DEF OpenFile, PutFragmentFails, FileFails, Phases
<1>12. CASE PutFragment
  BY <1>2, <1>3, <1>12 DEF PutFragment
<1>13. CASE MarkUploaded
  <2>1. todo # <<>>
    BY <1>13 DEF MarkUploaded, IInv, PhaseInv
  <2>2. QED
    BY <2>1, <1>2, <1>13 DEF MarkUploaded, Phases
<1>14. CASE FinishUpload
  BY <1>2, <1>14 DEF FinishUpload, Complete, Phases
<1>15. CASE AbortTrigger \/ Down \/ Open
  BY <1>2, <1>15 DEF AbortTrigger, Down, Open, Phases
<1>16. CASE UNCHANGED vars
  BY <1>2, <1>3, <1>16 DEF vars
<1>17. QED
  BY <1>4, <1>5, <1>6, <1>7, <1>8, <1>9, <1>10, <1>11, <1>12, <1>13, <1>14, <1>15, <1>16
     DEF Next, Push, Upload

\* A record that is read is a fragment.
LEMMA ReadIs ==
    ASSUME DiskType, NEW n \in DOMAIN disk, NEW i \in Readable(disk[n].records)
    PROVE  disk[n].records[i] \in Fragments
<1>1. /\ disk[n].records \in Seq(Entries) /\ i \in DOMAIN disk[n].records
      /\ \A j \in 1..i : disk[n].records[j] # Torn
  BY DEF DiskType, Readable
<1>2. i \in 1..i /\ disk[n].records[i] \in Entries
  BY <1>1
<1>3. QED
  BY <1>1, <1>2 DEF Entries

\* The timestamps and the ghosts.
LEMMA GhostTypeStep == IInv /\ [Next]_vars => GhostType'
<1> SUFFICES ASSUME IInv, [Next]_vars PROVE GhostType'
  OBVIOUS
<1> USE DEF store, operation, ghost
<1>1. GhostType
  BY DEF IInv, Types
<1>2. ASSUME UNCHANGED <<stamps, buffered, sent>>, lastSent' \in {lastSent, 0}
      PROVE  GhostType'
  BY <1>1, <1>2 DEF GhostType
<1>3. CASE Tick
  BY <1>2, <1>3 DEF Tick
<1>4. ASSUME NEW t \in 1..clock, PushFragment(t) PROVE GhostType'
  <2>1. t \in Nat /\ stamps' = Append(stamps, t) /\ Len(stamps) < MaxFragments
    BY <1>4 DEF PushFragment, Frag, IInv, Types, DiskType
  <2>2. stamps' \in Seq(Nat) /\ Len(stamps') <= MaxFragments
    BY <1>1, <2>1, Limits DEF GhostType
  <2>3. QED
    BY <1>1, <1>4, <2>2 DEF GhostType, PushFragment
<1>5. CASE FinalizeRotated \/ FinalizeCurrent
  BY <1>2, <1>5 DEF FinalizeRotated, FinalizeCurrent, Finalize
<1>6. CASE CreateNext \/ CreateDuringUpload
  BY <1>2, <1>6 DEF CreateNext, CreateDuringUpload, Create
<1>7. CASE AppendRecord
  <2>1. Frag \in Fragments
    BY <1>7, FragIs DEF IInv, Types, PhaseInv, AppendRecord
  <2>2. QED
    BY <1>1, <1>7, <2>1 DEF GhostType, AppendRecord
<1>8. CASE AppendFails \/ Cleanup
  BY <1>2, <1>8 DEF AppendFails, Cleanup
<1>9. ASSUME NEW r \in Ranges, TriggerUploadAll(r) PROVE GhostType'
  BY <1>2, <1>9 DEF TriggerUploadAll
<1>10. CASE SelectFiles \/ OpenFile \/ PutFragmentFails
  BY <1>2, <1>10 DEF SelectFiles, OpenFile, PutFragmentFails
<1>11. CASE PutFragment
  <2>1. Records[pos] \in Fragments
    BY <1>11, ReadIs DEF PutFragment, Records, IInv, Types, PhaseInv
  <2>2. Records[pos] \in Nat
    BY <2>1, Limits DEF Fragments
  <2>3. QED
    BY <1>1, <1>11, <2>1, <2>2 DEF GhostType, PutFragment
<1>12. CASE MarkUploaded \/ FinishUpload
  BY <1>2, <1>12 DEF MarkUploaded, FinishUpload
<1>13. CASE AbortTrigger \/ Down \/ Open
  BY <1>2, <1>13 DEF AbortTrigger, Down, Open
<1>14. CASE UNCHANGED vars
  BY <1>2, <1>14 DEF vars
<1>15. QED
  BY <1>3, <1>4, <1>5, <1>6, <1>7, <1>8, <1>9, <1>10, <1>11, <1>12, <1>13, <1>14
     DEF Next, Push, Upload

-----------------------------------------------------------------------------
(* The names.                                                              *)

\* A step leaves the files listed by age.
LEMMA ListedStep == IInv /\ [Next]_vars => Listed'
<1> SUFFICES ASSUME IInv, [Next]_vars PROVE Listed'
  OBVIOUS
<1>1. Listed /\ FilesEffect /\ DiskEffect /\ CurrentType /\ FilesType /\ DiskType
  BY FilesEffects, DiskEffects DEF IInv, Types, NamesInv
<1>2. clock' >= clock /\ clock \in Nat /\ clock' \in Nat
  BY <1>1 DEF DiskType, DiskEffect, NewFile
<1>3. /\ files \in Seq(Tracked) /\ Len(files) \in Nat
      /\ \A i \in DOMAIN files : i \in Nat /\ i <= Len(files) /\ files[i].name \in Nat
  <2>1. files \in Seq(Tracked)
    BY <1>1 DEF FilesType
  <2>2. \A i \in DOMAIN files : i \in Nat /\ i <= Len(files) /\ files[i] \in Tracked
    BY <2>1
  <2>3. QED
    BY <2>1, <2>2, EntryFields
<1>4. ASSUME DOMAIN files' = DOMAIN files,
             \A i \in DOMAIN files : files'[i].name = files[i].name
      PROVE  Listed'
  BY <1>1, <1>2, <1>3, <1>4 DEF Listed
<1>5. CASE files' \in {files, <<>>}
  <2>1. CASE files' = files
    BY <1>4, <2>1
  <2>2. CASE files' = <<>>
    BY <2>2 DEF Listed
  <2>3. QED
    BY <1>5, <2>1, <2>2
<1>6. ASSUME IsFile(closing), files' = TrackedLast(closing) PROVE Listed'
  <2>1. /\ DOMAIN files' = DOMAIN files \cup {Len(files) + 1}
        /\ files'[Len(files) + 1].name = closing.name
        /\ \A i \in DOMAIN files : files'[i] = files[i]
    BY <1>1, <1>6, TrackedLastIs
  <2>2. /\ closing.name \in Nat \ {0} /\ closing.name < clock
        /\ \A i \in DOMAIN files : files[i].name < closing.name
    BY <1>1, <1>6 DEF IInv, NamesInv, Newest, DiskType
  <2>3. ASSUME NEW i \in DOMAIN files' PROVE files'[i].name # 0 /\ files'[i].name < clock'
    BY <1>1, <1>2, <1>3, <2>1, <2>2 DEF Listed
  <2>4. ASSUME NEW i \in DOMAIN files', NEW j \in DOMAIN files', i < j
        PROVE  files'[i].name < files'[j].name
    <3>1. i \in DOMAIN files /\ files'[i] = files[i]
      BY <1>3, <2>1, <2>4
    <3>2. CASE j \in DOMAIN files
      BY <1>1, <2>1, <2>4, <3>1, <3>2 DEF Listed
    <3>3. CASE j = Len(files) + 1
      BY <2>1, <2>2, <3>1, <3>3
    <3>4. QED
      BY <2>1, <3>2, <3>3
  <2>5. QED
    BY <2>3, <2>4 DEF Listed
<1>7. ASSUME todo # <<>>, files' = [files EXCEPT ![Entry(Head(todo))].attempts = @ + 1]
      PROVE  Listed'
  BY <1>4, <1>7, FailedIs DEF Same
<1>8. ASSUME todo # <<>>, files' = [files EXCEPT ![Entry(Head(todo))].uploaded = TRUE]
      PROVE  Listed'
  BY <1>4, <1>8, MarkedIs DEF Same
<1>9. ASSUME NEW k \in 0..Len(files), files' = SubSeq(files, k + 1, Len(files))
      PROVE  Listed'
  <2>1. /\ files' \in Seq(Tracked)
        /\ \A i \in DOMAIN files' : i + k \in DOMAIN files /\ files'[i] = files[i + k]
    BY <1>3, <1>9, SubSeqIs
  <2>2. \A i, j \in DOMAIN files' : i < j => i + k < j + k
    BY <2>1
  <2>3. QED
    BY <1>1, <1>2, <1>3, <2>1, <2>2 DEF Listed
<1>10. ASSUME NEW names \in ByName(DOMAIN disk), files' = Recovered(names)
       PROVE  Listed'
  <2>1. /\ names \in Seq(DOMAIN disk)
        /\ \A i, j \in DOMAIN names : i < j => names[i] < names[j]
    BY <1>1, ScanIs
  <2>2. \A i \in DOMAIN names : names[i] \in DOMAIN disk
    BY <2>1
  <2>3. DOMAIN files' = DOMAIN names /\ \A i \in DOMAIN names : files'[i].name = names[i]
    BY <1>10 DEF Recovered
  <2>4. QED
    BY <1>1, <1>2, <2>1, <2>2, <2>3 DEF Listed, DiskType
<1>11. QED
  BY <1>1, <1>5, <1>6, <1>7, <1>8, <1>9, <1>10 DEF FilesEffect, FilesKept, Finalized, Scanned

\* The files on the list after a step that finalizes nothing and is not a scan.
LEMMA KeptFiles ==
    ASSUME IInv, FilesKept
    PROVE  \A i \in DOMAIN files' : \E j \in DOMAIN files :
              /\ Same(files'[i], files[j])
              /\ files'[i].uploaded = files[j].uploaded
                 \/ (MarkUploaded /\ files[j].name = Head(todo))
<1>1. files \in Seq(Tracked)
  BY DEF IInv, Types, FilesType
<1>2. CASE files' \in {files, <<>>}
  BY <1>2 DEF Same
<1>3. CASE todo # <<>> /\ files' = [files EXCEPT ![Entry(Head(todo))].attempts = @ + 1]
  BY <1>3, FailedIs DEF Same
<1>4. CASE /\ MarkUploaded /\ todo # <<>>
           /\ files' = [files EXCEPT ![Entry(Head(todo))].uploaded = TRUE]
  BY <1>4, MarkedIs, TriedIs DEF Same
<1>5. ASSUME NEW k \in 0..Len(files), files' = SubSeq(files, k + 1, Len(files)),
             NEW i \in DOMAIN files'
      PROVE  \E j \in DOMAIN files : files'[i] = files[j]
  BY <1>1, <1>5, SubSeqIs
<1>6. QED
  BY <1>2, <1>3, <1>4, <1>5 DEF FilesKept, Same

\* Of the two files in work, the newest stays the newest.
LEMMA NewestStep == IInv /\ [Next]_vars => Newest(current)' /\ Newest(closing)'
<1> SUFFICES ASSUME IInv, [Next]_vars PROVE Newest(current)' /\ Newest(closing)'
  OBVIOUS
<1> USE DEF store, operation, ghost
<1>1. /\ Newest(current) /\ Newest(closing) /\ Listed /\ FilesEffect /\ PhaseInv
      /\ DiskType /\ OperationType
  BY FilesEffects DEF IInv, Types, NamesInv
<1>2. ~IsFile(NoFile)
  BY DEF IsFile, NoFile
<1>3. ASSUME DOMAIN disk' \subseteq DOMAIN disk,
             \A c \in {current, closing} : IsFile(c) => c.name \in DOMAIN disk',
             current' \in {current, NoFile} \/ current'.name = current.name,
             closing' \in {current, closing, NoFile}
      PROVE  Newest(current)' /\ Newest(closing)'
  <2>1. CASE FilesKept
    <3>1. \A i \in DOMAIN files' : \E j \in DOMAIN files : files'[i].name = files[j].name
      BY <2>1, KeptFiles DEF Same
    <3>2. Newest(current)'
      BY <1>1, <1>2, <1>3, <3>1 DEF Newest, IsFile
    <3>3. Newest(closing)'
      BY <1>1, <1>2, <1>3, <3>1 DEF Newest, IsFile
    <3>4. QED
      BY <3>2, <3>3
  <2>2. CASE Finalized \/ Scanned
    BY <1>2, <2>2 DEF Finalized, Scanned, Newest, IsFile
  <2>3. QED
    BY <1>1, <2>1, <2>2 DEF FilesEffect
<1>4. ASSUME UNCHANGED disk, current' \in {current, NoFile} \/ current'.name = current.name,
             closing' \in {current, closing, NoFile}
      PROVE  Newest(current)' /\ Newest(closing)'
  BY <1>1, <1>3, <1>4 DEF Newest
<1>5. CASE Tick
  BY <1>4, <1>5 DEF Tick
<1>6. ASSUME NEW t \in 1..clock, PushFragment(t) PROVE Newest(current)' /\ Newest(closing)'
  BY <1>4, <1>6 DEF PushFragment
<1>7. CASE FinalizeRotated \/ FinalizeCurrent
  BY <1>4, <1>7 DEF FinalizeRotated, FinalizeCurrent, Finalize
<1>8. ASSUME NEW start, NEW then, Create(start, then), ~IsFile(closing)
      PROVE  Newest(current)' /\ Newest(closing)'
  <2>1. CASE UNCHANGED store
    BY <1>4, <1>8, <2>1 DEF Create
  <2>2. CASE NewFile /\ current'.name = clock /\ UNCHANGED <<files, closing>>
    <3>1. DOMAIN disk' = DOMAIN disk \cup {clock}
      BY <1>1, <2>2, NewFileIs
    <3>2. Newest(current)'
      BY <1>1, <2>2, <3>1 DEF Newest, DiskType, Listed
    <3>3. Newest(closing)'
      BY <1>8, <2>2 DEF Newest
    <3>4. QED
      BY <3>2, <3>3
  <2>3. QED
    BY <1>8, <2>1, <2>2 DEF Create, NewFile
<1>9. CASE CreateNext \/ CreateDuringUpload
  <2>1. ~IsFile(closing)
    BY <1>1, <1>9 DEF PhaseInv, CreateNext, CreateDuringUpload
  <2>2. QED
    BY <1>8, <1>9, <2>1 DEF CreateNext, CreateDuringUpload
<1>10. CASE AppendRecord
  <2>1. NewRecord(Frag) /\ current' = [current EXCEPT !.last = stamps[Frag], !.count = @ + 1]
    BY <1>10 DEF AppendRecord, NewRecord
  <2>2. DOMAIN disk' = DOMAIN disk
    BY <2>1, NewRecordIs
  <2>3. current'.name = current.name /\ closing' = closing
    <3>1. current \in FileInfo
      BY DEF IInv, Types, CurrentType
    <3>2. QED
      BY <1>10, <2>1, <3>1 DEF AppendRecord, FileInfo
  <2>4. QED
    BY <1>1, <1>3, <2>2, <2>3 DEF Newest
<1>11. CASE AppendFails
  <2>1. disk' = disk \/ NewRecord(Torn)
    BY <1>11 DEF AppendFails, NewRecord
  <2>2. DOMAIN disk' = DOMAIN disk
    BY <2>1, NewRecordIs
  <2>3. UNCHANGED <<current, closing>>
    BY <1>11 DEF AppendFails
  <2>4. QED
    BY <1>1, <1>3, <2>2, <2>3 DEF Newest
<1>12. CASE Cleanup
  <2>1. UNCHANGED <<current, closing>>
    BY <1>12 DEF Cleanup
  <2>2. CASE UNCHANGED disk
    BY <1>4, <2>1, <2>2
  <2>3. ASSUME NEW k \in 0..Len(files), NEW gone \in SUBSET {files[i].name : i \in 1..k},
               disk' = [n \in DOMAIN disk \ gone |-> disk[n]]
        PROVE  Newest(current)' /\ Newest(closing)'
    <3>1. \A i \in 1..k : i \in DOMAIN files
      BY DEF IInv, Types, FilesType
    <3>2. \A c \in {current, closing} : IsFile(c) =>
              c.name \in DOMAIN disk /\ c.name \notin gone
      <4>1. ASSUME NEW c \in {current, closing}, IsFile(c), NEW i \in 1..k
            PROVE  files[i].name # c.name
        <5>1. files[i].name < c.name /\ c.name \in Nat
          BY <1>1, <3>1, <4>1 DEF Newest, DiskType
        <5>2. QED
          BY <5>1
      <4>2. QED
        BY <1>1, <2>3, <4>1 DEF Newest
    <3>3. DOMAIN disk' = DOMAIN disk \ gone
      BY <2>3
    <3>4. QED
      BY <1>3, <2>1, <3>2, <3>3
  <2>4. QED
    BY <1>12, <2>2, <2>3 DEF Cleanup, RemoveFiles
<1>13. ASSUME NEW r \in Ranges, TriggerUploadAll(r)
       PROVE  Newest(current)' /\ Newest(closing)'
  BY <1>4, <1>13 DEF TriggerUploadAll
<1>14. CASE SelectFiles \/ OpenFile \/ PutFragment \/ PutFragmentFails \/ FinishUpload
  BY <1>4, <1>14 DEF SelectFiles, OpenFile, PutFragment, PutFragmentFails, FinishUpload
<1>15. CASE MarkUploaded
  <2>1. UNCHANGED <<current, closing>> /\ todo # <<>>
    BY <1>1, <1>15 DEF MarkUploaded, PhaseInv
  <2>2. Tried \in DOMAIN files /\ files[Tried].name = Head(todo)
    BY <2>1, TriedIs
  <2>3. \A c \in {current, closing} : IsFile(c) => c.name \in DOMAIN disk /\ Head(todo) # c.name
    BY <1>1, <2>2 DEF Newest, DiskType
  <2>4. disk' = disk \/ DOMAIN disk' = DOMAIN disk \ {Head(todo)}
    BY <1>15 DEF MarkUploaded, WithoutFile
  <2>5. QED
    BY <1>3, <2>1, <2>3, <2>4
<1>16. CASE AbortTrigger
  <2>1. /\ closing' = NoFile /\ current' = current
        /\ pc \in {"finalizing", "starting", "opening", "putting"}
    BY <1>16 DEF AbortTrigger
  <2>2. disk' = disk \/ pc = "starting"
    BY <1>1, <1>16, <2>1, InterruptedEffect DEF AbortTrigger, NewRecord
  <2>3. CASE pc = "starting"
    BY <1>1, <1>2, <2>1, <2>3 DEF PhaseInv, Newest
  <2>4. QED
    BY <1>4, <2>1, <2>2, <2>3
<1>17. CASE Down
  BY <1>2, <1>17 DEF Down, Newest
<1>18. CASE Open
  BY <1>4, <1>18 DEF Open
<1>19. CASE UNCHANGED vars
  BY <1>4, <1>19 DEF vars
<1>20. QED
  BY <1>5, <1>6, <1>7, <1>9, <1>10, <1>11, <1>12, <1>13, <1>14, <1>15, <1>16, <1>17,
     <1>18, <1>19 DEF Next, Push, Upload

-----------------------------------------------------------------------------
(* The operation under way.                                                *)

\* Every step of an operation finds what it works on.
LEMMA PhaseStep == IInv /\ [Next]_vars => PhaseInv'
<1> SUFFICES ASSUME IInv, [Next]_vars PROVE PhaseInv'
  OBVIOUS
<1> USE DEF store, operation, ghost, PhaseInv
<1>1. PhaseInv /\ OperationType
  BY DEF IInv, Types
<1>2. ~IsFile(NoFile)
  BY DEF IsFile, NoFile
<1>3. CASE Tick
  BY <1>1, <1>3 DEF Tick
<1>4. ASSUME NEW t \in 1..clock, PushFragment(t) PROVE PhaseInv'
  <2>1. stamps' # <<>>
    <3>1. stamps \in Seq(Nat) /\ t \in Nat /\ stamps' = Append(stamps, t)
      BY <1>4 DEF PushFragment, IInv, Types, GhostType, DiskType
    <3>2. QED
      BY <3>1
  <2>2. CASE ShouldRotate
    BY <1>1, <1>2, <1>4, <2>1, <2>2 DEF PushFragment
  <2>3. CASE ~ShouldRotate
    <3>1. IsFile(current) /\ current.count < RotateSize
      BY <2>3, Limits DEF ShouldRotate, IInv, Types, CurrentType, FileInfo
    <3>2. pc' = "appending" /\ UNCHANGED <<closing, current>>
      BY <1>4, <2>3 DEF PushFragment
    <3>3. ~IsFile(closing)
      BY <1>1, <1>4 DEF PushFragment
    <3>4. QED
      BY <2>1, <3>1, <3>2, <3>3
  <2>4. QED
    BY <2>2, <2>3
<1>5. CASE FinalizeRotated \/ FinalizeCurrent
  <2>1. ~IsFile(closing') /\ UNCHANGED <<current, stamps>> /\ ~IsFile(current)
    BY <1>1, <1>2, <1>5 DEF FinalizeRotated, FinalizeCurrent, Finalize
  <2>2. pc' \in {"creating", "selecting", "idle"} /\ (pc' = "creating" => stamps # <<>>)
    BY <1>1, <1>5 DEF FinalizeRotated, FinalizeCurrent, Finalize
  <2>3. QED
    BY <2>1, <2>2
<1>6. ASSUME NEW start, NEW then \in {"appending", "opening"}, Create(start, then),
             pc \in {"creating", "starting"}, then = "appending" => stamps # <<>>
      PROVE  PhaseInv'
  <2>1. UNCHANGED <<closing, stamps>> /\ ~IsFile(closing)
    BY <1>1, <1>6 DEF Create
  <2>2. CASE pc' = "idle"
    BY <2>1, <2>2
  <2>3. CASE /\ pc' = then
             /\ current' = [name |-> clock, start |-> start, last |-> start, count |-> 0]
    <3>1. IsFile(current') /\ current'.count = 0
      BY <2>3 DEF IsFile, IInv, Types, DiskType
    <3>2. QED
      BY <1>6, <2>1, <2>3, <3>1, Limits
  <2>4. QED
    BY <1>6, <2>2, <2>3 DEF Create
<1>7. CASE CreateNext \/ CreateDuringUpload
  BY <1>1, <1>6, <1>7 DEF CreateNext, CreateDuringUpload
<1>8. CASE AppendRecord \/ AppendFails \/ Cleanup
  BY <1>1, <1>8 DEF AppendRecord, AppendFails, Cleanup
<1>9. ASSUME NEW r \in Ranges, TriggerUploadAll(r) PROVE PhaseInv'
  BY <1>1, <1>2, <1>9 DEF TriggerUploadAll
<1>10. CASE SelectFiles
  BY <1>1, <1>10 DEF SelectFiles
<1>11. ASSUME pc \in {"opening", "putting"}, pc' = "opening", UNCHANGED <<closing, current>>
       PROVE  PhaseInv'
  BY <1>1, <1>11
<1>12. CASE OpenFile
  <2>1. CASE pc' = "putting"
    <3>1. /\ todo # <<>> /\ Head(todo) \in DOMAIN disk /\ pc = "opening"
          /\ UNCHANGED <<todo, disk, closing, current>>
      BY <1>12, <2>1 DEF OpenFile, FileFails
    <3>2. QED
      BY <1>1, <2>1, <3>1
  <2>2. CASE FileFails
    BY <1>11, <1>12, <2>2 DEF OpenFile, FileFails
  <2>3. QED
    BY <1>12, <2>1, <2>2 DEF OpenFile
<1>13. CASE PutFragment
  BY <1>1, <1>13 DEF PutFragment
<1>14. CASE PutFragmentFails \/ MarkUploaded
  BY <1>11, <1>14 DEF PutFragmentFails, FileFails, MarkUploaded
<1>15. CASE FinishUpload
  BY <1>1, <1>2, <1>15 DEF FinishUpload
<1>16. CASE AbortTrigger \/ Down
  BY <1>2, <1>16 DEF AbortTrigger, Down
<1>17. CASE Open
  BY <1>1, <1>17 DEF Open
<1>18. CASE UNCHANGED vars
  BY <1>1, <1>18 DEF vars
<1>19. QED
  BY <1>3, <1>4, <1>5, <1>7, <1>8, <1>9, <1>10, <1>12, <1>13, <1>14, <1>15, <1>16, <1>17,
     <1>18 DEF Next, Push, Upload

\* What is left of the files of a trigger when the first is done.
LEMMA TodoTail ==
    ASSUME IInv, todo # <<>>
    PROVE  /\ Tail(todo) \in Seq(Nat) /\ 1 \in DOMAIN todo /\ Head(todo) = todo[1]
           /\ \A k \in DOMAIN Tail(todo) : k + 1 \in DOMAIN todo /\ Tail(todo)[k] = todo[k + 1]
           /\ \A k \in DOMAIN Tail(todo) : Head(todo) < Tail(todo)[k]
           /\ \A k, l \in DOMAIN Tail(todo) : k < l => Tail(todo)[k] < Tail(todo)[l]
<1>1. todo \in Seq(Nat) /\ \A k, l \in DOMAIN todo : k < l => todo[k] < todo[l]
  BY DEF IInv, Types, OperationType, TodoInv
<1>2. /\ Tail(todo) \in Seq(Nat) /\ 1 \in DOMAIN todo /\ Head(todo) = todo[1]
      /\ \A k \in DOMAIN Tail(todo) : /\ k \in Nat \ {0} /\ k + 1 \in DOMAIN todo
                                      /\ Tail(todo)[k] = todo[k + 1]
  BY <1>1
<1>3. \A k \in DOMAIN Tail(todo) : 1 < k + 1
  BY <1>2
<1>4. \A k, l \in DOMAIN Tail(todo) : k < l => k + 1 < l + 1
  BY <1>2
<1>5. QED
  BY <1>1, <1>2, <1>3, <1>4

\* The files of a trigger stay tracked and are each tried once.
LEMMA TodoStep == IInv /\ [Next]_vars => TodoInv'
<1> SUFFICES ASSUME IInv, [Next]_vars PROVE TodoInv'
  OBVIOUS
<1> USE DEF store, operation, ghost
<1>1. TodoInv /\ PhaseInv /\ OperationType /\ files \in Seq(Tracked)
  BY DEF IInv, Types, FilesType
<1>2. ASSUME todo' = <<>> PROVE TodoInv'
  BY <1>2 DEF TodoInv
<1>3. ASSUME UNCHANGED <<todo, files>>, todo # <<>> => pc' \in {"starting", "opening", "putting"}
      PROVE  TodoInv'
  BY <1>1, <1>3 DEF TodoInv
<1>4. ASSUME todo = <<>>, UNCHANGED todo PROVE TodoInv'
  BY <1>2, <1>4
<1>5. CASE pc \notin {"starting", "opening", "putting"} /\ pc # "selecting"
  <2>1. todo = <<>>
    BY <1>1, <1>5 DEF TodoInv
  <2>2. todo' \in {todo, <<>>}
    BY <1>5 DEF Next, vars, Push, Upload, Tick, PushFragment, FinalizeRotated, FinalizeCurrent,
       Finalize, CreateNext, CreateDuringUpload, Create, AppendRecord, AppendFails, Cleanup,
       TriggerUploadAll, SelectFiles, OpenFile, PutFragment, PutFragmentFails, MarkUploaded,
       FinishUpload, AbortTrigger, Down, Open
  <2>3. QED
    BY <1>2, <2>1, <2>2
<1>6. CASE Tick
  BY <1>1, <1>3, <1>6 DEF Tick, TodoInv
<1>7. CASE SelectFiles
  <2>1. PICK at \in Seq(DOMAIN files) :
             /\ todo' = [k \in DOMAIN at |-> files[at[k]].name]
             /\ \A k, l \in DOMAIN at : k < l => at[k] < at[l]
             /\ \A k \in DOMAIN at : at[k] \in DOMAIN files /\ Eligible(files[at[k]], range)
    BY <1>7, SelectIs
  <2>2. DOMAIN todo' = DOMAIN at /\ files' = files
    BY <1>7, <2>1 DEF SelectFiles
  <2>3. \A k \in DOMAIN todo' : /\ at[k] \in DOMAIN files /\ files[at[k]].name = todo'[k]
                                /\ files[at[k]].attempts < MaxRetries
    BY <2>1, <2>2 DEF Eligible
  <2>4. \A k, l \in DOMAIN todo' : k < l => todo'[k] < todo'[l]
    BY <2>1, <2>2, <2>3 DEF IInv, NamesInv, Listed
  <2>5. todo' # <<>> => pc' = "starting"
    BY <1>7 DEF SelectFiles
  <2>6. QED
    BY <2>2, <2>3, <2>4, <2>5 DEF TodoInv
<1>8. CASE CreateDuringUpload
  BY <1>2, <1>3, <1>8 DEF CreateDuringUpload, Create
<1>9. ASSUME todo # <<>>, todo' = Tail(todo), pc' = "opening",
             DOMAIN files' = DOMAIN files, files'[Tried].name = files[Tried].name,
             \A i \in DOMAIN files \ {Tried} : files'[i] = files[i]
      PROVE  TodoInv'
  <2>1. /\ \A k \in DOMAIN todo' : k + 1 \in DOMAIN todo /\ todo'[k] = todo[k + 1]
        /\ \A k \in DOMAIN todo' : Head(todo) < todo'[k]
        /\ \A k, l \in DOMAIN todo' : k < l => todo'[k] < todo'[l]
        /\ todo' \in Seq(Nat) /\ Head(todo) \in Nat
    BY <1>1, <1>9, TodoTail
  <2>2. ASSUME NEW k \in DOMAIN todo'
        PROVE  \E i \in DOMAIN files' :
                  files'[i].name = todo'[k] /\ files'[i].attempts < MaxRetries
    <3>1. PICK i \in DOMAIN files : /\ files[i].name = todo'[k]
                                    /\ files[i].attempts < MaxRetries
      BY <1>1, <2>1 DEF TodoInv
    <3>2. files[Tried].name = Head(todo) /\ Head(todo) # todo'[k]
      BY <1>9, <2>1, TriedIs
    <3>3. i # Tried
      BY <3>1, <3>2
    <3>4. QED
      BY <1>9, <3>1, <3>3
  <2>3. QED
    BY <1>9, <2>1, <2>2 DEF TodoInv
<1>10. CASE FileFails /\ todo # <<>>
  BY <1>9, <1>10, FailedIs DEF FileFails, Same
<1>11. CASE OpenFile
  <2>1. CASE FileFails
    BY <1>10, <1>11, <2>1 DEF OpenFile
  <2>2. CASE pc' = "putting" /\ UNCHANGED <<files, todo>>
    BY <1>3, <2>2
  <2>3. QED
    BY <1>11, <2>1, <2>2 DEF OpenFile
<1>12. CASE PutFragment
  BY <1>3, <1>12 DEF PutFragment
<1>13. CASE PutFragmentFails
  BY <1>1, <1>10, <1>13 DEF PutFragmentFails, PhaseInv
<1>14. CASE MarkUploaded
  BY <1>1, <1>9, <1>14, MarkedIs DEF MarkUploaded, PhaseInv, Same
<1>15. CASE FinishUpload \/ AbortTrigger \/ Down
  BY <1>2, <1>4, <1>15 DEF FinishUpload, AbortTrigger, Down
<1>16. CASE UNCHANGED vars
  BY <1>1, <1>3, <1>16 DEF vars, TodoInv
<1>17. CASE pc \in {"starting", "opening", "putting", "selecting"}
  BY <1>6, <1>7, <1>8, <1>11, <1>12, <1>13, <1>14, <1>15, <1>16, <1>17
     DEF Next, Push, Upload, PushFragment, FinalizeRotated, FinalizeCurrent, CreateNext,
         AppendRecord, AppendFails, Cleanup, TriggerUploadAll, Open
<1>18. QED
  BY <1>5, <1>17

-----------------------------------------------------------------------------
(* Type correctness.                                                       *)

\* The inductive invariant holds at first,
LEMMA InitIInv == Init => IInv
<1> SUFFICES ASSUME Init PROVE IInv
  OBVIOUS
<1>1. DiskType
  BY DEF Init, DiskType
<1>2. CurrentType
  BY Limits DEF Init, CurrentType, FileInfo, NoFile
<1>3. FilesType
  BY DEF Init, FilesType
<1>4. OperationType
  BY DEF Init, OperationType, Phases, All, NoTime
<1>5. GhostType
  BY Limits DEF Init, GhostType
<1>6. NamesInv
  BY DEF Init, NamesInv, Listed, Newest, IsFile, NoFile
<1>7. PhaseInv /\ TodoInv
  BY DEF Init, PhaseInv, TodoInv, IsFile, NoFile
<1>8. QED
  BY <1>1, <1>2, <1>3, <1>4, <1>5, <1>6, <1>7 DEF IInv, Types

\* every step keeps it,
LEMMA IInvStep == IInv /\ [Next]_vars => IInv'
  BY DiskTypeStep, CurrentTypeStep, FilesTypeStep, OperationTypeStep, GhostTypeStep,
     ListedStep, NewestStep, PhaseStep, TodoStep DEF IInv, Types, NamesInv

\* and so it holds always.
LEMMA Invariance == Spec => []IInv
  BY InitIInv, IInvStep, PTL DEF Spec

(***************************************************************************)
(* TypeOK: no file grows beyond its size, none is tried more often than    *)
(* allowed, and the file opened for an upload stays empty until it is let  *)
(* go, whatever fails, is aborted or restarted.                            *)
(***************************************************************************)
THEOREM TypeCorrect == Spec => []TypeOK
  BY Invariance, TypeOKFollows, PTL

-----------------------------------------------------------------------------
(* The store.                                                              *)

\* A file that is neither written to nor removed stays as it is.
LEMMA FileStays ==
    ASSUME IInv, DiskEffect, NEW n \in DOMAIN disk', n # clock,
           pc # "appending" \/ n # current.name
    PROVE  n \in DOMAIN disk /\ disk'[n] = disk[n]
<1>1. CASE disk' = disk
  BY <1>1
<1>2. CASE NewFile
  BY <1>2, NewFileIs DEF IInv, Types
<1>3. ASSUME NEW r, NewRecord(r) PROVE n \in DOMAIN disk /\ disk'[n] = disk[n]
  BY <1>3, NewRecordIs DEF NewRecord
<1>4. ASSUME NEW S, Removed(S) PROVE n \in DOMAIN disk /\ disk'[n] = disk[n]
  BY <1>4 DEF Removed
<1>5. QED
  BY <1>1, <1>2, <1>3, <1>4 DEF DiskEffect

\* Whoever leaves a file, in whatever way, starts the next one anew.
LEMMA ReaderStep == IInv /\ ReaderInv /\ [Next]_vars => ReaderInv'
<1> SUFFICES ASSUME IInv, ReaderInv, [Next]_vars PROVE ReaderInv'
  OBVIOUS
<1> USE DEF store, operation, ghost, ReaderInv
<1>1. CASE Tick \/ UNCHANGED vars
  BY <1>1 DEF Tick, vars
<1>2. ASSUME NEW t \in 1..clock, PushFragment(t) PROVE ReaderInv'
  BY <1>2 DEF PushFragment
<1>3. CASE Push \/ AppendFails
  BY <1>3 DEF Push, FinalizeRotated, Finalize, CreateNext, Create, AppendRecord, Cleanup,
     AppendFails
<1>4. ASSUME NEW r \in Ranges, TriggerUploadAll(r) PROVE ReaderInv'
  BY <1>4 DEF TriggerUploadAll
<1>5. CASE FinalizeCurrent \/ SelectFiles \/ CreateDuringUpload \/ FinishUpload
  BY <1>5 DEF FinalizeCurrent, Finalize, SelectFiles, CreateDuringUpload, Create, FinishUpload
<1>6. CASE OpenFile \/ PutFragment \/ PutFragmentFails \/ MarkUploaded
  BY <1>6 DEF OpenFile, PutFragment, PutFragmentFails, FileFails, MarkUploaded
<1>7. CASE AbortTrigger \/ Down \/ Open
  BY <1>7 DEF AbortTrigger, Down, Open
<1>8. QED
  BY <1>1, <1>2, <1>3, <1>4, <1>5, <1>6, <1>7 DEF Next, Upload

\* Nothing that was sent is forgotten to have been.
LEMMA SentGrows == [Next]_vars => sent \subseteq sent'
<1> SUFFICES ASSUME [Next]_vars PROVE sent \subseteq sent'
  OBVIOUS
<1> USE DEF store, operation, ghost
<1>1. CASE PutFragment
  BY <1>1 DEF PutFragment
<1>2. CASE ~PutFragment
  <2>1. sent' = sent
    BY <1>2 DEF Next, vars, Push, Upload, Tick, PushFragment, FinalizeRotated, FinalizeCurrent,
       Finalize, CreateNext, CreateDuringUpload, Create, AppendRecord, AppendFails, Cleanup,
       TriggerUploadAll, SelectFiles, OpenFile, PutFragmentFails, MarkUploaded, FinishUpload,
       AbortTrigger, Down, Open
  <2>2. QED
    BY <2>1
<1>3. QED
  BY <1>1, <1>2

\* The reader has come to its end: all of the file has been sent.
LEMMA AllSent ==
    ASSUME IInv, ReadInv, MarkUploaded
    PROVE  todo # <<>> /\ Head(todo) \in DOMAIN disk /\ InFile(Head(todo)) \subseteq sent
<1>1. pc = "putting" /\ pos \notin Readable(Records)
  BY DEF MarkUploaded
<1>2. todo # <<>> /\ Head(todo) \in DOMAIN disk /\ pos \in Nat \ {0}
  BY <1>1 DEF IInv, PhaseInv, Types, OperationType
<1>3. Records \in Seq(Entries)
  BY <1>2 DEF Records, IInv, Types, DiskType
<1>4. ASSUME NEW i \in Readable(Records) PROVE i < pos
  <2>1. i \in DOMAIN Records /\ \A j \in 1..i : Records[j] # Torn
    BY DEF Readable
  <2>2. SUFFICES ASSUME pos <= i PROVE FALSE
    BY <1>2, <1>3, <2>1
  <2>3. pos \in DOMAIN Records /\ \A j \in 1..pos : j \in 1..i
    BY <1>2, <1>3, <2>1, <2>2
  <2>4. QED
    BY <1>1, <2>1, <2>3 DEF Readable
<1>5. \A i \in Readable(Records) : Records[i] \in sent
  BY <1>1, <1>4 DEF ReadInv
<1>6. QED
  BY <1>2, <1>5 DEF InFile, Records

\* A file is marked uploaded when all that can be read of it has been sent.
LEMMA SentStep == IInv /\ SendInv /\ [Next]_vars => SentInv'
<1> SUFFICES ASSUME IInv, SendInv, [Next]_vars PROVE SentInv'
  OBVIOUS
<1>1. /\ FilesEffect /\ DiskEffect /\ sent \subseteq sent' /\ SentInv /\ ReadInv
      /\ Listed /\ Newest(current) /\ PhaseInv /\ DiskType
  BY FilesEffects, DiskEffects, SentGrows DEF IInv, Types, NamesInv, SendInv
<1>2. ASSUME NEW n \in DOMAIN disk', NEW j \in DOMAIN files, n = files[j].name,
             files[j].uploaded \/ (MarkUploaded /\ n = Head(todo))
      PROVE  InFile(n)' \subseteq sent'
  <2>1. n < clock /\ clock \in Nat /\ (pc = "appending" => n < current.name)
    BY <1>1, <1>2 DEF Listed, DiskType, Newest, PhaseInv
  <2>2. n # clock /\ (pc # "appending" \/ n # current.name)
    <3>1. pc = "appending" => current.name \in Nat
      BY <1>1 DEF PhaseInv, Newest, DiskType
    <3>2. files \in Seq(Tracked)
      BY DEF IInv, Types, FilesType
    <3>3. files[j] \in Tracked
      BY <3>2
    <3>4. n \in Nat
      BY <1>2, <3>3, EntryFields
    <3>5. QED
      BY <2>1, <3>1, <3>4
  <2>3. n \in DOMAIN disk /\ disk'[n] = disk[n]
    BY <1>1, <1>2, <2>2, FileStays
  <2>4. InFile(n) \subseteq sent
    BY <1>1, <1>2, <2>3, AllSent DEF SentInv
  <2>5. InFile(n)' = InFile(n)
    BY <2>3 DEF InFile
  <2>6. QED
    BY <1>1, <2>4, <2>5
<1>3. CASE FilesKept
  <2>1. ASSUME NEW i \in DOMAIN files', files'[i].uploaded, files'[i].name \in DOMAIN disk'
        PROVE  InFile(files[i].name)' \subseteq sent'
    <3>1. PICK j \in DOMAIN files :
              /\ Same(files'[i], files[j])
              /\ files'[i].uploaded = files[j].uploaded
                 \/ (MarkUploaded /\ files[j].name = Head(todo))
      BY <1>3, KeptFiles
    <3>2. files'[i].name = files[j].name
      BY <3>1 DEF Same
    <3>3. PICK n \in DOMAIN disk' : n = files'[i].name
      BY <2>1
    <3>4. InFile(n)' \subseteq sent'
      BY <1>2, <2>1, <3>1, <3>2, <3>3
    <3>5. QED
      BY <3>3, <3>4 DEF InFile
  <2>2. QED
    BY <2>1 DEF SentInv
<1>4. CASE Finalized
  <2>1. \A i \in DOMAIN files' : \/ i \in DOMAIN files /\ files'[i] = files[i]
                                 \/ files'[i].uploaded = FALSE
    BY <1>4, TrackedLastIs DEF Finalized, IInv, Types
  <2>2. disk' = disk
    BY <1>4 DEF Finalized
  <2>3. QED
    BY <1>1, <2>1, <2>2 DEF SentInv, InFile
<1>5. CASE Scanned
  <2>1. PICK names \in ByName(DOMAIN disk) : files' = Recovered(names)
    BY <1>5 DEF Scanned
  <2>2. \A i \in DOMAIN files' : files'[i].uploaded = FALSE
    BY <2>1 DEF Recovered
  <2>3. QED
    BY <2>2 DEF SentInv
<1>6. QED
  BY <1>1, <1>3, <1>4, <1>5 DEF FilesEffect

\* The records before the reader's position have been sent.
LEMMA ReadStep == IInv /\ SendInv /\ [Next]_vars => ReadInv'
<1> SUFFICES ASSUME IInv, SendInv, [Next]_vars PROVE ReadInv'
  OBVIOUS
<1> USE DEF store, operation, ghost
<1>1. ReadInv /\ ReaderInv /\ OperationType /\ DiskType
  BY DEF IInv, Types, SendInv
<1>2. CASE pc' # "putting"
  BY <1>2 DEF ReadInv
<1>3. CASE UNCHANGED <<disk, todo, pos, pc, sent>>
  BY <1>1, <1>3 DEF ReadInv, Records
<1>4. CASE OpenFile /\ pc' = "putting"
  <2>1. pos' = 1
    BY <1>1, <1>4 DEF OpenFile, FileFails, ReaderInv
  <2>2. ASSUME NEW i \in Readable(Records)' PROVE ~(i < 1)
    <3>1. i \in DOMAIN disk'[Head(todo')].records /\ Head(todo') \in DOMAIN disk'
      BY <1>4 DEF Readable, Records, OpenFile, FileFails
    <3>2. disk'[Head(todo')].records \in Seq(Entries)
      BY <1>1, <1>4, <3>1 DEF DiskType, OpenFile
    <3>3. QED
      BY <3>1, <3>2
  <2>3. QED
    BY <2>1, <2>2 DEF ReadInv
<1>5. CASE PutFragment
  <2>1. /\ UNCHANGED <<disk, todo>> /\ sent' = sent \cup {Records[pos]} /\ pos' = pos + 1
        /\ pc = "putting"
    BY <1>5 DEF PutFragment
  <2>2. Records' = Records /\ Readable(Records)' = Readable(Records)
    BY <2>1 DEF Records, Readable
  <2>3. \A i \in Readable(Records) : i \in Nat
    <3>1. Records \in Seq(Entries)
      BY <2>1 DEF Records, IInv, PhaseInv, Types, DiskType
    <3>2. QED
      BY <3>1 DEF Readable
  <2>4. ASSUME NEW i \in Readable(Records), i < pos + 1 PROVE Records[i] \in sent'
    <3>1. i < pos \/ i = pos
      BY <1>1, <2>3, <2>4 DEF OperationType
    <3>2. QED
      BY <1>1, <2>1, <3>1 DEF ReadInv
  <2>5. QED
    BY <2>1, <2>2, <2>4 DEF ReadInv
<1>6. CASE UNCHANGED vars \/ Tick
  BY <1>3, <1>6 DEF vars, Tick
<1>7. CASE ~OpenFile /\ ~PutFragment /\ ~Tick /\ ~UNCHANGED vars
  <2>1. pc' # "putting"
    BY <1>7 DEF Next, Push, Upload, PushFragment, FinalizeRotated, FinalizeCurrent,
       Finalize, CreateNext, CreateDuringUpload, Create, AppendRecord, AppendFails, Cleanup,
       TriggerUploadAll, SelectFiles, PutFragmentFails, FileFails, MarkUploaded, FinishUpload,
       AbortTrigger, Down, Open
  <2>2. QED
    BY <1>2, <2>1
<1>8. QED
  BY <1>2, <1>4, <1>5, <1>6, <1>7

\* No record of the current file is torn, when no write fails half-way: what an
\* interrupted write leaves is never written to again.
LEMMA WholeStep ==
    ASSUME "torn" \notin Faults
    PROVE  IInv /\ Whole /\ [Next]_vars => Whole'
<1> SUFFICES ASSUME IInv, Whole, [Next]_vars PROVE Whole'
  OBVIOUS
<1> USE DEF store, operation, ghost
<1>1. Newest(current) /\ PhaseInv /\ DiskType
  BY DEF IInv, Types, NamesInv
<1>2. CASE ~IsFile(current')
  BY <1>2 DEF Whole, IsFile
<1>3. CASE UNCHANGED <<disk, current>>
  BY <1>3 DEF Whole, IsFile
<1>4. CASE pc = "appending"
  <2>1. CASE AppendRecord
    <3>1. NewRecord(Frag)
      BY <2>1 DEF AppendRecord, NewRecord
    <3>2. current'.name = current.name
      <4>1. current \in FileInfo
        BY DEF IInv, Types, CurrentType
      <4>2. QED
        BY <2>1, <4>1 DEF AppendRecord, FileInfo
    <3>3. Frag # Torn
      BY <1>1, <1>4, FragIs DEF IInv, Types, PhaseInv, Fragments, Torn
    <3>4. /\ DOMAIN disk'[current.name].records
               = DOMAIN disk[current.name].records \cup {Len(disk[current.name].records) + 1}
          /\ disk'[current.name].records[Len(disk[current.name].records) + 1] = Frag
          /\ \A i \in DOMAIN disk[current.name].records :
                disk'[current.name].records[i] = disk[current.name].records[i]
      BY <3>1, NewRecordIs
    <3>5. \A i \in DOMAIN disk[current.name].records : disk[current.name].records[i] # Torn
      BY <1>1, <1>4 DEF Whole, PhaseInv
    <3>6. \A i \in DOMAIN disk'[current.name].records : disk'[current.name].records[i] # Torn
      BY <3>3, <3>4, <3>5
    <3>7. QED
      BY <3>2, <3>6 DEF Whole
  <2>2. CASE AppendFails
    BY <1>3, <2>2 DEF AppendFails
  <2>3. CASE Down
    BY <1>2, <2>3 DEF Down, IsFile, NoFile
  <2>4. CASE Tick \/ UNCHANGED vars
    BY <1>3, <2>4 DEF Tick, vars
  <2>5. QED
    BY <1>4, <2>1, <2>2, <2>3, <2>4 DEF Next, Push, Upload, PushFragment, FinalizeRotated,
       CreateNext, Cleanup, TriggerUploadAll, FinalizeCurrent, SelectFiles,
       CreateDuringUpload, OpenFile, PutFragment, PutFragmentFails, MarkUploaded,
       FinishUpload, AbortTrigger, Open
<1>5. CASE CreateNext \/ CreateDuringUpload
  <2>1. \/ UNCHANGED <<disk, current>>
        \/ NewFile /\ current'.name = clock
    BY <1>5 DEF CreateNext, CreateDuringUpload, Create, NewFile
  <2>2. CASE NewFile /\ current'.name = clock
    <3>1. disk'[current'.name].records = <<>>
      BY <1>1, <2>2, NewFileIs
    <3>2. QED
      BY <3>1 DEF Whole
  <2>3. QED
    BY <1>3, <2>1, <2>2
<1>6. CASE pc # "appending" /\ ~CreateNext /\ ~CreateDuringUpload
  <2>1. current' \in {current, NoFile}
    BY <1>6 DEF Next, vars, Push, Upload, Tick, PushFragment, FinalizeRotated,
       FinalizeCurrent, Finalize, AppendRecord, AppendFails, Cleanup, TriggerUploadAll,
       SelectFiles, OpenFile, PutFragment, PutFragmentFails, MarkUploaded, FinishUpload,
       AbortTrigger, Down, Open
  <2>2. CASE current' = current /\ IsFile(current)
    <3>1. current.name \in DOMAIN disk' /\ current.name # clock
      <4>1. Newest(current)'
        BY NewestStep
      <4>2. current.name < clock /\ current.name \in Nat
        BY <1>1, <2>2 DEF Newest, DiskType
      <4>3. QED
        BY <1>1, <2>2, <4>1, <4>2 DEF Newest, IsFile, DiskType
    <3>2. disk'[current.name] = disk[current.name]
      BY <1>1, <1>6, <3>1, FileStays, DiskEffects
    <3>3. QED
      BY <2>2, <3>2 DEF Whole, IsFile
  <2>3. QED
    BY <1>2, <2>1, <2>2 DEF IsFile, NoFile
<1>7. QED
  BY <1>4, <1>5, <1>6

\* What is on disk, fragment by fragment.
LEMMA OnDiskIs ==
    /\ \A x : x \in OnDisk <=> \E n \in DOMAIN disk : x \in InFile(n)
    /\ \A x : x \in OnDisk' <=> \E n \in DOMAIN disk' : x \in InFile(n)'
<1>1. \A x : x \in OnDisk <=> \E n \in DOMAIN disk : x \in InFile(n)
  BY DEF OnDisk
<1>2. \A x : x \in OnDisk' <=> \E n \in DOMAIN disk' : x \in InFile(n)'
  BY DEF OnDisk
<1>3. QED
  BY <1>1, <1>2

\* A file that stays as it is keeps its fragments.
LEMMA SameInFile ==
    ASSUME NEW n, disk'[n] = disk[n]
    PROVE  InFile(n)' = InFile(n)
  BY DEF InFile

\* An empty file adds none.
LEMMA OnDiskNewFile ==
    ASSUME IInv, NewFile
    PROVE  OnDisk' = OnDisk
<1>1. PICK c : c = clock
  OBVIOUS
<1>2. /\ DOMAIN disk' = DOMAIN disk \cup {c} /\ disk'[c].records = <<>>
      /\ \A n \in DOMAIN disk : disk'[n] = disk[n]
  BY <1>1, NewFileIs DEF IInv, Types
<1>3. \A n \in DOMAIN disk : InFile(n)' = InFile(n)
  BY <1>2, SameInFile
<1>4. InFile(c)' = {}
  BY <1>2 DEF InFile, Readable
<1>5. \A x : x \in OnDisk' <=> x \in OnDisk
  <2>1. ASSUME NEW x, x \in OnDisk PROVE x \in OnDisk'
    <3>1. PICK n \in DOMAIN disk : x \in InFile(n)
      BY <2>1, OnDiskIs
    <3>2. n \in DOMAIN disk' /\ x \in InFile(n)'
      BY <1>2, <1>3, <3>1
    <3>3. QED
      BY <3>2, OnDiskIs
  <2>2. ASSUME NEW x, x \in OnDisk' PROVE x \in OnDisk
    <3>1. PICK n \in DOMAIN disk' : x \in InFile(n)'
      BY <2>2, OnDiskIs
    <3>2. n \in DOMAIN disk
      BY <1>2, <1>4, <3>1
    <3>3. x \in InFile(n)
      BY <1>3, <3>1, <3>2
    <3>4. QED
      BY <3>2, <3>3, OnDiskIs
  <2>3. QED
    BY <2>1, <2>2
<1>6. QED
  BY <1>5

\* A torn record adds none, and any other record is readable if all before it are.
LEMMA OnDiskNewRecord ==
    ASSUME IInv, NEW r, NewRecord(r), r = Torn \/ Whole
    PROVE  OnDisk' = IF r = Torn THEN OnDisk ELSE OnDisk \cup {r}
<1>1. PICK c : c = current.name
  OBVIOUS
<1>2. PICK old : old = disk[c].records
  OBVIOUS
<1>3. PICK new : new = disk'[c].records
  OBVIOUS
<1>4. /\ c \in DOMAIN disk /\ DOMAIN disk' = DOMAIN disk
      /\ DOMAIN new = DOMAIN old \cup {Len(old) + 1} /\ old \in Seq(Entries)
      /\ new[Len(old) + 1] = r /\ Len(old) + 1 \notin DOMAIN old
      /\ \A i \in DOMAIN old : new[i] = old[i]
      /\ \A n \in DOMAIN disk \ {c} : disk'[n] = disk[n]
  BY <1>1, <1>2, <1>3, NewRecordIs
<1>5. \A n \in DOMAIN disk \ {c} : InFile(n)' = InFile(n)
  BY <1>4, SameInFile
<1>6. /\ InFile(c) = {old[i] : i \in Readable(old)}
      /\ InFile(c)' = {new[i] : i \in Readable(new)}
  BY <1>2, <1>3 DEF InFile
<1>7. DOMAIN old = 1..Len(old) /\ Len(old) \in Nat
  BY <1>4
<1>8. CASE r = Torn
  <2>1. Readable(new) = Readable(old)
    <3>1. Len(old) + 1 \in 1..(Len(old) + 1)
      BY <1>7
    <3>2. \A i \in DOMAIN old : \A j \in 1..i : new[j] = old[j]
      BY <1>4, <1>7
    <3>3. QED
      BY <1>4, <1>8, <3>1, <3>2 DEF Readable
  <2>2. \A i \in Readable(old) : new[i] = old[i]
    BY <1>4 DEF Readable
  <2>3. InFile(c)' = InFile(c)
    BY <1>6, <2>1, <2>2
  <2>4. \A n \in DOMAIN disk : InFile(n)' = InFile(n)
    BY <1>4, <1>5, <2>3
  <2>5. \A x : x \in OnDisk' <=> x \in OnDisk
    BY <1>4, <2>4, OnDiskIs
  <2>6. OnDisk' = OnDisk
    BY <2>5
  <2>7. QED
    BY <1>8, <2>6
<1>9. CASE r # Torn
  <2>1. \A i \in DOMAIN old : old[i] # Torn
    <3>1. IsFile(current)
      BY DEF NewRecord, IInv, PhaseInv
    <3>2. QED
      BY <1>1, <1>2, <1>9, <3>1 DEF Whole
  <2>2. Readable(old) = DOMAIN old
    BY <1>7, <2>1 DEF Readable
  <2>3. Readable(new) = DOMAIN new
    <3>1. \A i \in DOMAIN new : new[i] # Torn
      BY <1>4, <1>9, <2>1
    <3>2. \A i \in DOMAIN new : \A j \in 1..i : j \in DOMAIN new
      BY <1>4, <1>7
    <3>3. QED
      BY <3>1, <3>2 DEF Readable
  <2>4. InFile(c)' = InFile(c) \cup {r}
    BY <1>4, <1>6, <2>2, <2>3
  <2>5. QED
    BY <1>4, <1>5, <1>9, <2>4, OnDiskIs
<1>10. QED
  BY <1>8, <1>9

\* Files that go take along what only they hold.
LEMMA OnDiskRemoved ==
    ASSUME NEW S, Removed(S)
    PROVE  /\ OnDisk' \subseteq OnDisk
           /\ \A x \in OnDisk \ OnDisk' : \E n \in DOMAIN disk \cap S : x \in InFile(n)
<1>1. DOMAIN disk' = DOMAIN disk \ S /\ \A n \in DOMAIN disk' : disk'[n] = disk[n]
  BY DEF Removed
<1>2. \A n \in DOMAIN disk' : InFile(n)' = InFile(n)
  BY <1>1, SameInFile
<1>3. QED
  BY <1>1, <1>2, OnDiskIs

-----------------------------------------------------------------------------
(* The manager is an at-least-once store.                                  *)

\* Files go, and whatever only they held has been sent.
LetsGoSent ==
    OnDisk' \subseteq OnDisk /\ OnDisk \ OnDisk' \subseteq sent /\ UNCHANGED <<buffered, sent>>

\* A step of the store that makes no use of the retention window.
StoreStep ==
    \/ Store!Accept \/ Store!Keep \/ Store!Deliver \/ LetsGoSent
    \/ UNCHANGED <<buffered, OnDisk, sent>>

\* Every step of the manager is such a step of the store, or none.
LEMMA ImplementsStep ==
    ASSUME "torn" \notin Faults, IInv, StoreInv, [Next]_vars
    PROVE  StoreStep
<1> USE DEF store, operation, ghost, StoreStep
<1>1. Whole /\ SentInv /\ ReadInv /\ DiskType /\ PhaseInv
  BY DEF StoreInv, SendInv, IInv, Types
<1>2. ASSUME UNCHANGED <<disk, buffered, sent>> PROVE StoreStep
  BY <1>2 DEF OnDisk, InFile
<1>3. ASSUME UNCHANGED <<buffered, sent>>, NewFile PROVE StoreStep
  BY <1>3, OnDiskNewFile
<1>4. CASE Tick \/ UNCHANGED vars
  BY <1>2, <1>4 DEF Tick, vars
<1>5. ASSUME NEW t \in 1..clock, PushFragment(t) PROVE StoreStep
  BY <1>2, <1>5 DEF PushFragment
<1>6. CASE FinalizeRotated \/ FinalizeCurrent
  BY <1>2, <1>6 DEF FinalizeRotated, FinalizeCurrent, Finalize
<1>7. CASE CreateNext \/ CreateDuringUpload
  <2>1. UNCHANGED <<buffered, sent>> /\ (UNCHANGED disk \/ NewFile)
    BY <1>7 DEF CreateNext, CreateDuringUpload, Create, NewFile
  <2>2. QED
    BY <1>2, <1>3, <2>1
<1>8. CASE AppendRecord
  <2>1. NewRecord(Frag) /\ buffered' = buffered \cup {Frag} /\ sent' = sent /\ Frag \in Fragments
    BY <1>1, <1>8, FragIs DEF AppendRecord, NewRecord, IInv, Types, PhaseInv
  <2>2. OnDisk' = OnDisk \cup {Frag}
    BY <1>1, <2>1, OnDiskNewRecord DEF Fragments, Torn
  <2>3. Store!Accept
    BY <2>1, <2>2 DEF Store!Accept
  <2>4. QED
    BY <2>3
<1>9. CASE AppendFails
  BY <1>2, <1>9 DEF AppendFails
<1>10. CASE Cleanup
  <2>1. UNCHANGED <<buffered, sent>>
    BY <1>10 DEF Cleanup
  <2>2. CASE UNCHANGED disk
    BY <1>2, <2>1, <2>2
  <2>3. ASSUME NEW k \in 0..Len(files), \A i \in 1..k : Removable(files[i]),
               NEW gone \in SUBSET {files[i].name : i \in 1..k},
               disk' = [n \in DOMAIN disk \ gone |-> disk[n]]
        PROVE  StoreStep
    <3>1. Removed(gone)
      BY <2>3 DEF Removed
    <3>2. \A i \in 1..k : i \in DOMAIN files
      BY DEF IInv, Types, FilesType
    <3>3. \A n \in DOMAIN disk \cap gone : InFile(n) \subseteq sent
      BY <1>1, <2>3, <3>2 DEF SentInv, Removable
    <3>4. OnDisk' \subseteq OnDisk /\ OnDisk \ OnDisk' \subseteq sent
      BY <3>1, <3>3, OnDiskRemoved
    <3>5. LetsGoSent
      BY <2>1, <3>4 DEF LetsGoSent
    <3>6. QED
      BY <3>5
  <2>4. QED
    BY <1>10, <2>2, <2>3 DEF Cleanup, RemoveFiles
<1>11. ASSUME NEW r \in Ranges, TriggerUploadAll(r) PROVE StoreStep
  BY <1>2, <1>11 DEF TriggerUploadAll
<1>12. CASE SelectFiles \/ OpenFile \/ PutFragmentFails \/ FinishUpload \/ Open
  BY <1>2, <1>12 DEF SelectFiles, OpenFile, PutFragmentFails, FinishUpload, Open
<1>13. CASE PutFragment
  <2>1. /\ Head(todo) \in DOMAIN disk /\ pos \in Readable(Records)
        /\ sent' = sent \cup {Records[pos]} /\ UNCHANGED <<disk, buffered>>
    BY <1>1, <1>13 DEF PutFragment, PhaseInv
  <2>2. Records[pos] \in OnDisk
    BY <2>1, OnDiskIs DEF InFile, Records
  <2>3. OnDisk' = OnDisk
    BY <2>1 DEF OnDisk, InFile
  <2>4. Store!Deliver
    BY <2>1, <2>2, <2>3 DEF Store!Deliver
  <2>5. QED
    BY <2>4
<1>14. CASE MarkUploaded
  <2>1. UNCHANGED <<buffered, sent>>
    BY <1>14 DEF MarkUploaded
  <2>2. CASE UNCHANGED disk
    BY <1>2, <2>1, <2>2
  <2>3. CASE disk' = WithoutFile(Head(todo))
    <3>1. Removed({Head(todo)}) /\ InFile(Head(todo)) \subseteq sent
      BY <1>1, <1>14, <2>3, AllSent DEF Removed, WithoutFile
    <3>2. OnDisk' \subseteq OnDisk /\ OnDisk \ OnDisk' \subseteq sent
      BY <3>1, OnDiskRemoved
    <3>3. LetsGoSent
      BY <2>1, <3>2 DEF LetsGoSent
    <3>4. QED
      BY <3>3
  <2>4. QED
    BY <1>14, <2>2, <2>3 DEF MarkUploaded
<1>15. CASE AbortTrigger \/ Down
  <2>1. UNCHANGED <<buffered, sent>>
    BY <1>15 DEF AbortTrigger, Down
  <2>2. disk' = disk \/ NewFile \/ \E r \in {Frag, Torn} : NewRecord(r)
    BY <1>1, <1>15, InterruptedEffect DEF AbortTrigger, Down
  <2>3. ASSUME NEW r, NewRecord(r) PROVE StoreStep
    <3>1. CASE r = Torn
      <4>1. OnDisk' = OnDisk
        BY <2>3, <3>1, OnDiskNewRecord
      <4>2. QED
        BY <2>1, <4>1
    <3>2. CASE r # Torn
      <4>1. OnDisk' = OnDisk \cup {r}
        BY <1>1, <2>3, <3>2, OnDiskNewRecord
      <4>2. Store!Keep
        BY <2>1, <4>1 DEF Store!Keep
      <4>3. QED
        BY <4>2
    <3>3. QED
      BY <3>1, <3>2
  <2>4. QED
    BY <1>2, <1>3, <2>1, <2>2, <2>3
<1>16. QED
  BY <1>4, <1>5, <1>6, <1>7, <1>8, <1>9, <1>10, <1>11, <1>12, <1>13, <1>14, <1>15
     DEF Next, Push, Upload

\* The invariant the refinement needs, as long as no write stops half-way.
LEMMA StoreInvariance ==
    ASSUME "torn" \notin Faults
    PROVE  Spec => [](IInv /\ StoreInv)
<1>1. Init => StoreInv
  BY DEF Init, StoreInv, SendInv, ReaderInv, SentInv, ReadInv, Whole, IsFile, NoFile
<1>2. IInv /\ StoreInv /\ [Next]_vars => StoreInv'
  BY ReaderStep, SentStep, ReadStep, WholeStep DEF StoreInv, SendInv
<1>3. QED
  BY <1>1, <1>2, InitIInv, IInvStep, PTL DEF Spec

(***************************************************************************)
(* The disk buffer implements FragmentStore, whatever fails, is aborted or *)
(* restarted: a fragment push_fragment() accepted is let go only when it   *)
(* has been sent - the code makes no use of the retention window that the  *)
(* store could let go by.  The one failure excepted is a write that stops  *)
(* half-way and leaves the file in use                                     *)
(* (buffered_upload_manager.rs:344-364).                                   *)
(***************************************************************************)
THEOREM ImplementsStore ==
    ASSUME "torn" \notin Faults
    PROVE  Spec => StoreSpec
<1>1. Init => Store!Init
  <2>1. Init => OnDisk = {}
    BY DEF Init, OnDisk
  <2>2. QED
    BY <2>1 DEF Init, Store!Init
<1>2. LetsGoSent => Store!LetGo
  BY DEF LetsGoSent, Store!LetGo
<1>3. IInv /\ StoreInv /\ [Next]_vars => [Store!Next]_<<buffered, OnDisk, sent>>
  BY <1>2, ImplementsStep DEF StoreStep, Store!Next
<1>4. QED
  BY <1>1, <1>3, StoreInvariance, PTL DEF Spec, StoreSpec, Store!Spec

(***************************************************************************)
(* NoSilentLoss: what has been accepted can be read back or has been sent, *)
(* under the same exception.                                               *)
(***************************************************************************)
THEOREM NothingLost ==
    ASSUME "torn" \notin Faults
    PROVE  Spec => []NoSilentLoss
<1>1. Init => NoSilentLoss
  BY DEF Init, NoSilentLoss
<1>2. NoSilentLoss /\ IInv /\ StoreInv /\ [Next]_vars => NoSilentLoss'
  <2> SUFFICES ASSUME NoSilentLoss, IInv, StoreInv, [Next]_vars PROVE NoSilentLoss'
    OBVIOUS
  <2>1. StoreStep
    BY ImplementsStep
  <2>2. QED
    BY <2>1 DEF StoreStep, LetsGoSent, NoSilentLoss, Store!Accept, Store!Keep,
       Store!Deliver
<1>3. QED
  BY <1>1, <1>2, StoreInvariance, PTL DEF Spec

-----------------------------------------------------------------------------
(* What the manager knows of, and what a trigger leaves behind.            *)

\* The file opened for an upload has nothing in it.
Blank == pc \in {"opening", "putting"} => disk[current.name].records = <<>>

\* Until its first failure a trigger for everything has still to try each file
\* it has not uploaded and that is not given up.
TodoComplete ==
    pc \in {"starting", "opening", "putting"} /\ range = All /\ event = "none"
      => \A i \in DOMAIN files : \/ files[i].uploaded \/ files[i].attempts = MaxRetries
                                 \/ \E k \in DOMAIN todo : todo[k] = files[i].name

KnownInv == NothingForgotten /\ Blank /\ TodoComplete

\* Nothing is written to the file opened for an upload.
LEMMA BlankStep == IInv /\ Blank /\ [Next]_vars => Blank'
<1> SUFFICES ASSUME IInv, Blank, [Next]_vars, pc' \in {"opening", "putting"}
             PROVE  disk'[current'.name].records = <<>>
  BY DEF Blank
<1> USE DEF store, operation, ghost
<1>1. PhaseInv /\ DiskType /\ Newest(current)'
  BY NewestStep DEF IInv, Types
<1>2. CASE UNCHANGED <<disk, current>> /\ pc \in {"opening", "putting"}
  BY <1>2 DEF Blank
<1>3. CASE Tick \/ UNCHANGED vars
  BY <1>2, <1>3 DEF Tick, vars
<1>4. CASE OpenFile \/ PutFragment \/ PutFragmentFails
  BY <1>2, <1>4 DEF OpenFile, PutFragment, PutFragmentFails
<1>5. CASE CreateDuringUpload
  <2>1. NewFile /\ current'.name = clock
    BY <1>5 DEF CreateDuringUpload, Create, NewFile
  <2>2. QED
    BY <1>1, <2>1, NewFileIs
<1>6. CASE MarkUploaded
  <2>1. pc = "putting" /\ current' = current /\ IsFile(current)
    BY <1>1, <1>6 DEF MarkUploaded, PhaseInv
  <2>2. PICK n : n = current.name
    OBVIOUS
  <2>3. n \in DOMAIN disk'
    BY <1>1, <2>1, <2>2 DEF Newest, IsFile
  <2>4. disk'[n] = disk[n]
    BY <1>6, <2>3 DEF MarkUploaded, WithoutFile
  <2>5. QED
    BY <2>1, <2>2, <2>4 DEF Blank
<1>7. ASSUME ~Tick, ~UNCHANGED vars, ~OpenFile, ~PutFragment, ~PutFragmentFails,
             ~CreateDuringUpload, ~MarkUploaded
      PROVE  pc' \notin {"opening", "putting"}
  BY <1>7 DEF Next, Push, Upload, PushFragment, FinalizeRotated, FinalizeCurrent, Finalize,
     CreateNext, Create, AppendRecord, AppendFails, Cleanup, TriggerUploadAll, SelectFiles,
     FinishUpload, AbortTrigger, Down, Open
<1>8. QED
  BY <1>3, <1>4, <1>5, <1>6, <1>7

\* A file the manager knows of stays known until all of it has been sent.
Known(n) == n \in {current.name, closing.name} \/ Tracks(n)

\* Steps that leave the list as it is.
LEMMA KnownKept ==
    ASSUME NEW n, Known(n), files' = files,
           n = current.name => n \in {current'.name, closing'.name},
           n = closing.name => n = closing'.name
    PROVE  Known(n)'
  BY DEF Known, Tracks

\* No step makes the manager forget a file.
LEMMA KnownStep ==
    ASSUME {"sync", "scan", "abort"} \cap Faults = {},
           IInv, SendInv, NothingForgotten, Blank, [Next]_vars
    PROVE  NothingForgotten'
<1> SUFFICES ASSUME pc' # "down", NEW n \in DOMAIN disk'
             PROVE  InFile(n)' \subseteq sent' \/ Known(n)'
  BY DEF NothingForgotten, Known
<1> USE DEF store, operation, ghost
<1>1. /\ PhaseInv /\ DiskType /\ CurrentType /\ FilesType /\ SentInv /\ ReadInv
      /\ sent \subseteq sent' /\ files \in Seq(Tracked)
  BY SentGrows DEF IInv, Types, FilesType, SendInv
<1>2. ASSUME pc # "down", n \in DOMAIN disk, disk'[n] = disk[n],
             Known(n) => Known(n)' \/ InFile(n) \subseteq sent
      PROVE  InFile(n)' \subseteq sent' \/ Known(n)'
  <2>1. InFile(n) \subseteq sent \/ Known(n)'
    BY <1>2 DEF NothingForgotten, Known
  <2>2. InFile(n)' = InFile(n)
    BY <1>2, SameInFile
  <2>3. QED
    BY <1>1, <2>1, <2>2
<1>3. ASSUME pc # "down", n \in DOMAIN disk, disk'[n] = disk[n], files' = files,
             n = current.name => n \in {current'.name, closing'.name},
             n = closing.name => n = closing'.name
      PROVE  InFile(n)' \subseteq sent' \/ Known(n)'
  BY <1>2, <1>3, KnownKept
<1>4. n \in DOMAIN disk => n # 0
  BY <1>1 DEF DiskType
<1>5. CASE UNCHANGED vars
  <2>1. UNCHANGED <<disk, files, current, closing, pc>>
    BY <1>5 DEF vars
  <2>2. QED
    BY <1>3, <2>1
<1>6. CASE Tick
  <2>1. UNCHANGED <<disk, files, current, closing, pc>>
    BY <1>6 DEF Tick
  <2>2. QED
    BY <1>3, <2>1
<1>7. CASE \/ \E t \in 1..clock : PushFragment(t)
           \/ \E r \in Ranges : TriggerUploadAll(r)
  <2>1. /\ pc = "idle" /\ UNCHANGED <<disk, files>>
        /\ UNCHANGED <<closing, current>> \/ closing' = current
    BY <1>7 DEF PushFragment, TriggerUploadAll
  <2>2. closing.name = 0
    BY <1>1, <2>1 DEF PhaseInv, IsFile
  <2>3. QED
    BY <1>3, <1>4, <2>1, <2>2
<1>8. CASE FinalizeRotated \/ FinalizeCurrent
  <2>1. pc # "down" /\ disk' = disk /\ current' = current /\ files' = TrackedLast(closing)
    BY <1>8 DEF FinalizeRotated, FinalizeCurrent, Finalize, Mishap
  <2>2. /\ Len(files) + 1 \in DOMAIN files' /\ files'[Len(files) + 1].name = closing.name
        /\ files'[Len(files) + 1].uploaded = FALSE
        /\ \A i \in DOMAIN files : i \in DOMAIN files' /\ files'[i] = files[i]
    BY <1>1, <2>1, TrackedLastIs
  <2>3. Known(n) => Known(n)'
    BY <2>1, <2>2 DEF Known, Tracks
  <2>4. QED
    BY <1>2, <2>1, <2>3
<1>9. CASE CreateNext \/ CreateDuringUpload
  <2>1. /\ pc # "down" /\ UNCHANGED <<files, closing>>
        /\ UNCHANGED <<disk, current>> \/ (NewFile /\ current'.name = clock)
    BY <1>9 DEF CreateNext, CreateDuringUpload, Create, NewFile
  <2>2. current.name = 0
    BY <1>1, <1>9 DEF PhaseInv, CreateNext, CreateDuringUpload, IsFile
  <2>3. CASE UNCHANGED <<disk, current>>
    BY <1>3, <2>1, <2>3
  <2>4. CASE NewFile /\ current'.name = clock
    <3>1. CASE n = clock
      BY <2>4, <3>1 DEF Known
    <3>2. CASE n # clock
      <4>1. n \in DOMAIN disk /\ disk'[n] = disk[n]
        BY <1>1, <2>4, <3>2, NewFileIs
      <4>2. QED
        BY <1>3, <1>4, <2>1, <2>2, <4>1
    <3>3. QED
      BY <3>1, <3>2
  <2>5. QED
    BY <2>1, <2>3, <2>4
<1>10. CASE AppendRecord \/ AppendFails
  <2>1. pc = "appending" /\ UNCHANGED <<files, closing>> /\ current'.name = current.name
    BY <1>1, <1>10 DEF AppendRecord, AppendFails, CurrentType, FileInfo
  <2>2. CASE n = current.name
    BY <2>1, <2>2 DEF Known
  <2>3. CASE n # current.name
    <3>1. disk' = disk \/ \E r \in {Frag, Torn} : NewRecord(r)
      BY <1>10 DEF AppendRecord, AppendFails, NewRecord
    <3>2. n \in DOMAIN disk /\ disk'[n] = disk[n]
      BY <2>3, <3>1, NewRecordIs
    <3>3. QED
      BY <1>3, <2>1, <2>3, <3>2
  <2>4. QED
    BY <2>2, <2>3
<1>11. CASE Cleanup
  <2>1. pc # "down" /\ UNCHANGED <<current, closing>>
    BY <1>11 DEF Cleanup
  <2>2. CASE UNCHANGED <<disk, files>>
    BY <1>3, <2>1, <2>2
  <2>3. ASSUME NEW k \in 0..Len(files), \A i \in 1..k : Removable(files[i]),
               files' = SubSeq(files, k + 1, Len(files)),
               NEW gone \in SUBSET {files[i].name : i \in 1..k},
               disk' = [m \in DOMAIN disk \ gone |-> disk[m]]
        PROVE  InFile(n)' \subseteq sent' \/ Known(n)'
    <3>1. n \in DOMAIN disk /\ disk'[n] = disk[n]
      BY <2>3
    <3>2. \A i \in DOMAIN files : i > k => i - k \in DOMAIN files' /\ files'[i - k] = files[i]
      BY <1>1, <2>3, SubSeqIs
    <3>3. ASSUME NEW i \in DOMAIN files, ~files[i].uploaded PROVE i > k
      <4>1. i \in Nat \ {0} /\ k \in Nat /\ i \notin 1..k
        BY <1>1, <2>3, <3>3 DEF Removable
      <4>2. QED
        BY <4>1
    <3>4. Tracks(n) => Tracks(n)'
      BY <3>2, <3>3 DEF Tracks
    <3>5. QED
      BY <1>2, <2>1, <3>1, <3>4 DEF Known
  <2>4. QED
    BY <1>11, <2>2, <2>3 DEF Cleanup, RemoveFiles
<1>12. CASE SelectFiles \/ PutFragment
  <2>1. pc # "down" /\ UNCHANGED <<disk, files, current, closing>>
    BY <1>12 DEF SelectFiles, PutFragment
  <2>2. QED
    BY <1>3, <2>1
<1>13. CASE OpenFile \/ PutFragmentFails
  <2>1. /\ pc # "down" /\ UNCHANGED <<disk, current, closing>> /\ todo # <<>>
        /\ files' = files \/ FileFails
    BY <1>1, <1>13 DEF OpenFile, PutFragmentFails, PhaseInv
  <2>2. CASE files' = files
    BY <1>3, <2>1, <2>2
  <2>3. CASE FileFails
    <3>1. /\ DOMAIN files' = DOMAIN files /\ Same(files'[Tried], files[Tried])
          /\ files'[Tried].uploaded = files[Tried].uploaded
          /\ \A i \in DOMAIN files \ {Tried} : files'[i] = files[i]
      BY <2>1, <2>3, FailedIs DEF FileFails
    <3>2. \A i \in DOMAIN files : /\ files'[i].name = files[i].name
                                  /\ files'[i].uploaded = files[i].uploaded
      BY <3>1 DEF Same
    <3>3. Known(n) => Known(n)'
      BY <2>1, <3>1, <3>2 DEF Known, Tracks
    <3>4. QED
      BY <1>2, <2>1, <3>3
  <2>4. QED
    BY <2>1, <2>2, <2>3
<1>14. CASE MarkUploaded
  <2>1. /\ pc # "down" /\ UNCHANGED <<current, closing>> /\ n \in DOMAIN disk
        /\ disk'[n] = disk[n]
    BY <1>14 DEF MarkUploaded, WithoutFile
  <2>2. todo # <<>> /\ InFile(Head(todo)) \subseteq sent
    BY <1>1, <1>14, AllSent
  <2>3. /\ DOMAIN files' = DOMAIN files /\ files[Tried].name = Head(todo)
        /\ \A i \in DOMAIN files \ {Tried} : files'[i] = files[i]
    BY <1>14, <2>2, MarkedIs, TriedIs DEF MarkUploaded
  <2>4. CASE n = Head(todo)
    BY <1>2, <2>1, <2>2, <2>4
  <2>5. CASE n # Head(todo)
    <3>1. Known(n) => Known(n)'
      BY <2>1, <2>3, <2>5 DEF Known, Tracks
    <3>2. QED
      BY <1>2, <2>1, <3>1
  <2>6. QED
    BY <2>4, <2>5
<1>15. CASE FinishUpload
  <2>1. /\ pc = "opening" /\ UNCHANGED <<disk, files, closing>>
    BY <1>15 DEF FinishUpload
  <2>2. CASE n = current.name
    <3>1. InFile(n) = {}
      BY <2>1, <2>2 DEF Blank, InFile, Readable
    <3>2. QED
      BY <1>2, <2>1, <3>1
  <2>3. CASE n # current.name
    BY <1>3, <2>1, <2>3
  <2>4. QED
    BY <2>2, <2>3
<1>16. CASE AbortTrigger \/ Down
  BY <1>16 DEF AbortTrigger, Down, Mishap
<1>17. CASE Open
  <2>1. disk' = disk /\ \E names \in ByName(DOMAIN disk) : files' = Recovered(names)
    BY <1>17 DEF Open, Recovered, Mishap
  <2>2. PICK names \in ByName(DOMAIN disk) : files' = Recovered(names)
    BY <2>1
  <2>3. PICK i \in DOMAIN names : names[i] = n
    BY <1>1, <2>1, <2>2, ScanIs
  <2>4. i \in DOMAIN files' /\ files'[i].name = n /\ files'[i].uploaded = FALSE
    BY <2>2, <2>3 DEF Recovered
  <2>5. QED
    BY <2>4 DEF Known, Tracks
<1>18. QED
  BY <1>5, <1>6, <1>7, <1>8, <1>9, <1>10, <1>11, <1>12, <1>13, <1>14, <1>15, <1>16, <1>17
     DEF Next, Push, Upload

\* A file leaves the list of a trigger uploaded or failed.
LEMMA TodoCompleteStep == IInv /\ TodoComplete /\ [Next]_vars => TodoComplete'
<1> SUFFICES ASSUME IInv, TodoComplete, [Next]_vars PROVE TodoComplete'
  OBVIOUS
<1> USE DEF store, operation, ghost
<1>1. PhaseInv /\ FilesType /\ files \in Seq(Tracked)
  BY DEF IInv, Types, FilesType
<1>2. CASE pc' \notin {"starting", "opening", "putting"} \/ event' = "error"
  BY <1>2 DEF TodoComplete
<1>3. CASE pc \in {"starting", "opening", "putting"} /\ UNCHANGED <<range, event, files, todo>>
  BY <1>3 DEF TodoComplete
<1>4. CASE Tick \/ UNCHANGED vars
  BY <1>2, <1>3, <1>4 DEF Tick, vars
<1>5. CASE SelectFiles
  <2>1. files' = files /\ range' = range
    BY <1>5 DEF SelectFiles
  <2>2. ASSUME range = All, NEW i \in DOMAIN files,
               ~files[i].uploaded, files[i].attempts # MaxRetries
        PROVE  \E k \in DOMAIN todo' : todo'[k] = files[i].name
    <3>1. files[i].attempts < MaxRetries
      <4>1. files[i].attempts \in Nat
        BY <1>1, EntryFields
      <4>2. QED
        BY <1>1, <2>2, <4>1, Limits DEF FilesType
    <3>2. Eligible(files[i], range)
      BY <2>2, <3>1 DEF Eligible, Overlaps, All
    <3>3. QED
      BY <1>5, <3>2, SelectIs
  <2>3. QED
    BY <2>1, <2>2 DEF TodoComplete
<1>6. CASE CreateDuringUpload
  BY <1>2, <1>3, <1>6 DEF CreateDuringUpload, Create
<1>7. CASE OpenFile \/ PutFragmentFails
  BY <1>2, <1>3, <1>7 DEF OpenFile, PutFragmentFails, FileFails
<1>8. CASE PutFragment
  BY <1>3, <1>8 DEF PutFragment
<1>9. CASE MarkUploaded
  <2>1. todo # <<>> /\ pc = "putting" /\ UNCHANGED <<range, event>> /\ todo' = Tail(todo)
    BY <1>1, <1>9 DEF MarkUploaded, PhaseInv
  <2>2. /\ DOMAIN files' = DOMAIN files /\ files'[Tried].uploaded
        /\ \A i \in DOMAIN files \ {Tried} : /\ files'[i] = files[i]
                                             /\ files[i].name # Head(todo)
    BY <1>9, <2>1, MarkedIs, TriedIs DEF MarkUploaded
  <2>3. /\ Head(todo) = todo[1]
        /\ \A k \in DOMAIN todo : k # 1 => k - 1 \in DOMAIN Tail(todo)
                                           /\ Tail(todo)[k - 1] = todo[k]
    <3>1. todo \in Seq(Nat)
      BY DEF IInv, Types, OperationType
    <3>2. QED
      BY <2>1, <3>1
  <2>4. ASSUME range = All, event = "none", NEW i \in DOMAIN files, i # Tried,
               ~files[i].uploaded, files[i].attempts # MaxRetries
        PROVE  \E k \in DOMAIN todo' : todo'[k] = files[i].name
    <3>1. PICK k \in DOMAIN todo : todo[k] = files[i].name
      BY <2>1, <2>4 DEF TodoComplete
    <3>2. files[i].name # Head(todo)
      BY <2>2, <2>4
    <3>3. k # 1
      BY <2>3, <3>1, <3>2
    <3>4. k - 1 \in DOMAIN todo' /\ todo'[k - 1] = files[i].name
      BY <2>1, <2>3, <3>1, <3>3
    <3>5. QED
      BY <3>4
  <2>5. QED
    BY <2>1, <2>2, <2>4 DEF TodoComplete
<1>10. ASSUME ~Tick, ~UNCHANGED vars, ~SelectFiles, ~CreateDuringUpload, ~OpenFile,
              ~PutFragment, ~PutFragmentFails, ~MarkUploaded
       PROVE  pc' \notin {"starting", "opening", "putting"}
  BY <1>10 DEF Next, Push, Upload, PushFragment, FinalizeRotated, FinalizeCurrent, Finalize,
     CreateNext, Create, AppendRecord, AppendFails, Cleanup, TriggerUploadAll,
     FinishUpload, AbortTrigger, Down, Open
<1>11. QED
  BY <1>2, <1>4, <1>5, <1>6, <1>7, <1>8, <1>9, <1>10

\* The invariant, as long as no file is dropped half-way.
LEMMA KnownInvariance ==
    ASSUME {"sync", "scan", "abort"} \cap Faults = {}
    PROVE  Spec => [](IInv /\ SendInv /\ KnownInv)
<1>1. Init => SendInv /\ KnownInv
  BY DEF Init, SendInv, ReaderInv, SentInv, ReadInv, KnownInv, NothingForgotten, Blank,
     TodoComplete
<1>2. IInv /\ SendInv /\ KnownInv /\ [Next]_vars => SendInv' /\ KnownInv'
  BY ReaderStep, SentStep, ReadStep, KnownStep, BlankStep, TodoCompleteStep
     DEF SendInv, KnownInv
<1>3. QED
  BY <1>1, <1>2, InitIInv, IInvStep, PTL DEF Spec

(***************************************************************************)
(* NothingForgotten: no file with a fragment to be sent drops out of the   *)
(* manager's sight, whatever writes, reads, puts and deletions fail and    *)
(* whatever a crash leaves.  Failing syncs and scans and aborts, which     *)
(* drop the file in hand (buffered_upload_manager.rs:325), are excepted.   *)
(***************************************************************************)
THEOREM EveryFileIsKnown ==
    ASSUME {"sync", "scan", "abort"} \cap Faults = {}
    PROVE  Spec => []NothingForgotten
<1>1. IInv /\ SendInv /\ KnownInv => NothingForgotten
  BY DEF KnownInv
<1>2. QED
  BY <1>1, KnownInvariance, PTL

(***************************************************************************)
(* TriggerSendsAll: a trigger for everything during which no file failed   *)
(* has sent all there is, but for the files that are given up, under the   *)
(* same exceptions: the safety half of BufferedIsSent.                     *)
(***************************************************************************)
THEOREM TriggerIsComplete ==
    ASSUME {"sync", "scan", "abort"} \cap Faults = {}
    PROVE  Spec => TriggerSendsAll
<1>1. ASSUME IInv, KnownInv, SelectFiles \/ FinishUpload, pc' = "idle", range = All,
             event = "none", NEW n \in DOMAIN disk
      PROVE  InFile(n) \subseteq sent \/ GivenUp(n)
  <2>1. /\ n # 0 /\ PhaseInv /\ FilesType /\ files \in Seq(Tracked) /\ NothingForgotten
        /\ Blank /\ TodoComplete
    BY <1>1 DEF IInv, Types, DiskType, FilesType, KnownInv
  <2>2. pc \in {"selecting", "opening"}
    BY <1>1 DEF SelectFiles, FinishUpload
  <2>3. n # closing.name
    BY <2>1, <2>2 DEF PhaseInv, IsFile
  <2>4. CASE n = current.name
    <3>1. pc = "opening"
      BY <2>1, <2>2, <2>4 DEF PhaseInv, IsFile
    <3>2. InFile(n) = {}
      BY <2>1, <2>4, <3>1 DEF Blank, InFile, Readable
    <3>3. QED
      BY <3>2
  <2>5. ASSUME NEW i \in DOMAIN files, files[i].name = n, ~files[i].uploaded
        PROVE  files[i].attempts = MaxRetries
    <3>1. CASE SelectFiles
      <4>1. todo' = <<>>
        BY <1>1, <3>1 DEF SelectFiles
      <4>2. ~Eligible(files[i], range)
        BY <1>1, <3>1, <4>1, SelectIs
      <4>3. ~(files[i].attempts < MaxRetries)
        BY <1>1, <2>5, <4>2 DEF Eligible, Overlaps, All
      <4>4. files[i].attempts \in Nat
        BY <2>1, EntryFields
      <4>5. QED
        BY <2>1, <4>3, <4>4, Limits DEF FilesType
    <3>2. CASE FinishUpload
      <4>1. pc = "opening" /\ todo = <<>>
        BY <3>2 DEF FinishUpload
      <4>2. QED
        BY <1>1, <2>1, <2>5, <4>1 DEF TodoComplete
    <3>3. QED
      BY <1>1, <3>1, <3>2
  <2>6. QED
    BY <2>1, <2>2, <2>3, <2>4, <2>5 DEF NothingForgotten, Tracks, GivenUp
<1>2. IInv /\ SendInv /\ KnownInv /\ [Next]_vars
        => [(SelectFiles \/ FinishUpload) /\ pc' = "idle" /\ range = All /\ event = "none"
              => \A n \in DOMAIN disk : InFile(n) \subseteq sent \/ GivenUp(n)]_vars
  BY <1>1
<1>3. QED
  BY <1>2, KnownInvariance, PTL DEF Spec, TriggerSendsAll

-----------------------------------------------------------------------------
(* The order of a trigger.                                                 *)

Pushing == {"rotating", "creating", "appending"}

\* No record is of a fragment that is still to be written.
Numbered ==
    \A n \in DOMAIN disk : \A i \in DOMAIN disk[n].records :
       /\ disk[n].records[i] <= Frag
       /\ pc \in Pushing => disk[n].records[i] < Frag

\* Within a file, and from an older file to a newer one, fragments are in the
\* order they were pushed.
Comes(n, i, m, j) == n < m \/ (n = m /\ i < j)
InPushOrder ==
    \A n, m \in DOMAIN disk : \A i \in DOMAIN disk[n].records, j \in DOMAIN disk[m].records :
       Comes(n, i, m, j) /\ disk[m].records[j] # Torn
          => disk[n].records[i] < disk[m].records[j]

\* What a trigger has still to read was pushed after what it sent last.
Remaining(k) ==
    {i \in Readable(disk[todo[k]].records) : k = 1 => i >= pos}
Ahead ==
    /\ pc \in {"finalizing", "selecting", "starting"} => lastSent = 0
    /\ pc \in {"opening", "putting"} =>
         \A k \in DOMAIN todo : todo[k] \in DOMAIN disk =>
            \A i \in Remaining(k) : lastSent < disk[todo[k]].records[i]

OrderInv == Numbered /\ InPushOrder /\ Ahead

\* A record is an old one, or the one that is being written.
LEMMA RecordsAre ==
    ASSUME IInv, DiskEffect, NEW n \in DOMAIN disk', NEW i \in DOMAIN disk'[n].records
    PROVE  \/ /\ n \in DOMAIN disk /\ i \in DOMAIN disk[n].records
              /\ disk'[n].records[i] = disk[n].records[i]
           \/ /\ pc = "appending" /\ n = current.name /\ n \in DOMAIN disk
              /\ disk' # disk /\ i = Len(disk[n].records) + 1
              /\ disk'[n].records[i] \in {Frag, Torn}
<1>1. CASE disk' = disk
  BY <1>1
<1>2. CASE NewFile
  <2>1. /\ DOMAIN disk' = DOMAIN disk \cup {clock} /\ disk'[clock].records = <<>>
        /\ \A f \in DOMAIN disk : disk'[f] = disk[f]
    BY <1>2, NewFileIs DEF IInv, Types
  <2>2. CASE n = clock
    BY <2>1, <2>2
  <2>3. CASE n # clock
    BY <2>1, <2>3
  <2>4. QED
    BY <2>2, <2>3
<1>3. ASSUME NEW r \in {Frag, Torn}, NewRecord(r)
      PROVE  \/ /\ n \in DOMAIN disk /\ i \in DOMAIN disk[n].records
                /\ disk'[n].records[i] = disk[n].records[i]
             \/ /\ pc = "appending" /\ n = current.name /\ n \in DOMAIN disk
                /\ disk' # disk /\ i = Len(disk[n].records) + 1
                /\ disk'[n].records[i] \in {Frag, Torn}
  <2>1. PICK c : c = current.name
    OBVIOUS
  <2>2. PICK old : old = disk[c].records
    OBVIOUS
  <2>3. /\ c \in DOMAIN disk /\ DOMAIN disk' = DOMAIN disk
        /\ DOMAIN disk'[c].records = DOMAIN old \cup {Len(old) + 1}
        /\ disk'[c].records[Len(old) + 1] = r /\ Len(old) + 1 \notin DOMAIN old
        /\ \A j \in DOMAIN old : disk'[c].records[j] = old[j]
        /\ \A f \in DOMAIN disk \ {c} : disk'[f] = disk[f]
    BY <1>3, <2>1, <2>2, NewRecordIs
  <2>4. disk' # disk
    BY <2>2, <2>3
  <2>5. pc = "appending"
    BY <1>3 DEF NewRecord
  <2>6. CASE n # c
    BY <2>3, <2>6
  <2>7. CASE n = c /\ i \in DOMAIN old
    BY <2>2, <2>3, <2>7
  <2>8. CASE n = c /\ i = Len(old) + 1
    BY <2>1, <2>2, <2>3, <2>4, <2>5, <2>8
  <2>9. QED
    BY <2>3, <2>6, <2>7, <2>8
<1>4. ASSUME NEW S, Removed(S)
      PROVE  /\ n \in DOMAIN disk /\ i \in DOMAIN disk[n].records
             /\ disk'[n].records[i] = disk[n].records[i]
  BY <1>4 DEF Removed
<1>5. QED
  BY <1>1, <1>2, <1>3, <1>4 DEF DiskEffect

\* A step that brings a fragment finds the manager idle; a step that writes a
\* record ends the push.
LEMMA PushesAre ==
    ASSUME [Next]_vars
    PROVE  \/ pc = "idle" /\ (\E t \in 1..clock : stamps' = Append(stamps, t)) /\ disk' = disk
           \/ /\ stamps' = stamps /\ (pc' \in Pushing => pc \in Pushing)
              /\ pc = "appending" /\ disk' # disk => pc' \notin Pushing
<1> USE DEF store, operation, ghost, Pushing
<1>1. ASSUME NEW t \in 1..clock, PushFragment(t)
      PROVE  pc = "idle" /\ stamps' = Append(stamps, t) /\ disk' = disk
  BY <1>1 DEF PushFragment
<1>2. ASSUME \A t \in 1..clock : ~PushFragment(t)
      PROVE  /\ stamps' = stamps /\ (pc' \in Pushing => pc \in Pushing)
             /\ pc = "appending" /\ disk' # disk => pc' \notin Pushing
  <2>1. CASE Tick \/ UNCHANGED vars
    BY <2>1 DEF Tick, vars
  <2>2. CASE Push \/ AppendFails
    BY <2>2 DEF Push, FinalizeRotated, Finalize, CreateNext, Create, AppendRecord, Cleanup,
       AppendFails
  <2>3. ASSUME NEW r \in Ranges, TriggerUploadAll(r)
        PROVE  stamps' = stamps /\ pc' \notin Pushing
    BY <2>3 DEF TriggerUploadAll
  <2>4. CASE FinalizeCurrent \/ SelectFiles \/ CreateDuringUpload \/ FinishUpload
    BY <2>4 DEF FinalizeCurrent, Finalize, SelectFiles, CreateDuringUpload, Create,
       FinishUpload
  <2>5. CASE OpenFile \/ PutFragment \/ PutFragmentFails \/ MarkUploaded
    BY <2>5 DEF OpenFile, PutFragment, PutFragmentFails, FileFails, MarkUploaded
  <2>6. CASE AbortTrigger \/ Down \/ Open
    BY <2>6 DEF AbortTrigger, Down, Open
  <2>7. QED
    BY <1>2, <2>1, <2>2, <2>3, <2>4, <2>5, <2>6 DEF Next, Upload
<1>3. QED
  BY <1>1, <1>2

\* Every record is an integer, and below or at the number of fragments.
LEMMA NumberedStep ==
    ASSUME IInv, Numbered, [Next]_vars
    PROVE  Numbered'
<1>1. DiskEffect
  BY DiskEffects DEF IInv, Types
<1>2. stamps \in Seq(Nat) /\ Frag = Len(stamps) /\ Frag \in Nat
  BY DEF IInv, Types, GhostType, Frag
<1>3. \A n \in DOMAIN disk : \A i \in DOMAIN disk[n].records : disk[n].records[i] \in Nat
  <2>1. Entries \subseteq Nat
    BY Limits DEF Entries, Fragments, Torn
  <2>2. \A n \in DOMAIN disk : disk[n].records \in Seq(Entries)
    BY DEF IInv, Types, DiskType
  <2>3. \A n \in DOMAIN disk : \A i \in DOMAIN disk[n].records : disk[n].records[i] \in Entries
    BY <2>2
  <2>4. QED
    BY <2>1, <2>3
<1>4. CASE /\ pc = "idle" /\ disk' = disk
           /\ \E t \in 1..clock : stamps' = Append(stamps, t)
  <2>1. Frag' = Frag + 1
    <3>1. PICK t \in Nat : stamps' = Append(stamps, t)
      BY <1>4 DEF IInv, Types, DiskType
    <3>2. Len(stamps') = Len(stamps) + 1
      BY <1>2, <3>1
    <3>3. QED
      BY <3>2 DEF Frag
  <2>2. QED
    BY <1>2, <1>3, <1>4, <2>1 DEF Numbered
<1>5. CASE /\ stamps' = stamps /\ (pc' \in Pushing => pc \in Pushing)
           /\ pc = "appending" /\ disk' # disk => pc' \notin Pushing
  <2>1. Frag' = Frag
    BY <1>5 DEF Frag
  <2>2. ASSUME NEW n \in DOMAIN disk', NEW i \in DOMAIN disk'[n].records
        PROVE  /\ disk'[n].records[i] <= Frag
               /\ pc' \in Pushing => disk'[n].records[i] < Frag
    <3>1. CASE /\ n \in DOMAIN disk /\ i \in DOMAIN disk[n].records
               /\ disk'[n].records[i] = disk[n].records[i]
      BY <1>5, <3>1 DEF Numbered
    <3>2. CASE /\ pc = "appending" /\ disk' # disk
               /\ disk'[n].records[i] \in {Frag, Torn}
      BY <1>2, <1>5, <3>2 DEF Torn
    <3>3. QED
      BY <1>1, <3>1, <3>2, RecordsAre
  <2>3. QED
    BY <2>1, <2>2 DEF Numbered
<1>6. QED
  BY <1>4, <1>5, PushesAre

\* A new record belongs to the newest file, behind all others.
LEMMA InPushOrderStep ==
    ASSUME IInv, Numbered, InPushOrder, [Next]_vars
    PROVE  InPushOrder'
<1>1. DiskEffect
  BY DiskEffects DEF IInv, Types
<1>2. \A n \in DOMAIN disk : n \in Nat /\ disk[n].records \in Seq(Entries)
  BY DEF IInv, Types, DiskType
<1>3. ASSUME NEW n \in DOMAIN disk', NEW m \in DOMAIN disk',
             NEW i \in DOMAIN disk'[n].records, NEW j \in DOMAIN disk'[m].records,
             Comes(n, i, m, j), disk'[m].records[j] # Torn
      PROVE  disk'[n].records[i] < disk'[m].records[j]
  <2>1. CASE /\ n \in DOMAIN disk /\ i \in DOMAIN disk[n].records
             /\ disk'[n].records[i] = disk[n].records[i]
             /\ m \in DOMAIN disk /\ j \in DOMAIN disk[m].records
             /\ disk'[m].records[j] = disk[m].records[j]
    BY <1>3, <2>1 DEF InPushOrder
  <2>2. CASE /\ n \in DOMAIN disk /\ i \in DOMAIN disk[n].records
             /\ disk'[n].records[i] = disk[n].records[i]
             /\ pc = "appending" /\ disk'[m].records[j] \in {Frag, Torn}
    BY <1>3, <2>2 DEF Numbered, Pushing
  <2>3. CASE /\ pc = "appending" /\ n = current.name /\ n \in DOMAIN disk
             /\ i = Len(disk[n].records) + 1
    <3>1. \A f \in DOMAIN disk : f <= n
      BY <2>3 DEF IInv, NamesInv, Newest, PhaseInv
    <3>2. m \in DOMAIN disk /\ j \in 1..(Len(disk[m].records) + 1)
      <4>1. CASE m \in DOMAIN disk /\ j \in DOMAIN disk[m].records
        BY <1>2, <4>1
      <4>2. CASE m \in DOMAIN disk /\ j = Len(disk[m].records) + 1
        BY <1>2, <4>2
      <4>3. QED
        BY <1>1, <4>1, <4>2, RecordsAre
    <3>3. m <= n /\ n \in Nat /\ m \in Nat /\ Len(disk[m].records) \in Nat
      BY <1>2, <2>3, <3>1, <3>2
    <3>4. n = m /\ i < j
      BY <1>3, <3>3 DEF Comes
    <3>5. QED
      BY <2>3, <3>2, <3>3, <3>4
  <2>4. QED
    BY <1>1, <2>1, <2>2, <2>3, RecordsAre
<1>4. QED
  BY <1>3 DEF InPushOrder, Comes

\* The steps of an upload leave its files alone or remove them.
LEMMA AheadStep ==
    ASSUME IInv, ReaderInv, InPushOrder, Ahead, [Next]_vars
    PROVE  Ahead'
<1> USE DEF store, operation, ghost
<1>1. PhaseInv /\ DiskType /\ todo \in Seq(Nat) /\ pos \in Nat \ {0} /\ lastSent \in Nat
  BY DEF IInv, Types, OperationType, GhostType
<1>2. ASSUME pc' \notin {"finalizing", "selecting", "starting", "opening", "putting"}
      PROVE  Ahead'
  BY <1>2 DEF Ahead
<1>3. ASSUME pc' \in {"finalizing", "selecting", "starting"}, lastSent' = 0
      PROVE  Ahead'
  BY <1>3 DEF Ahead
<1>4. ASSUME UNCHANGED <<disk, todo, pos, lastSent, pc>> PROVE Ahead'
  BY <1>4 DEF Ahead, Remaining, Readable
<1>5. CASE Tick \/ UNCHANGED vars
  BY <1>4, <1>5 DEF Tick, vars
<1>6. ASSUME NEW t \in 1..clock, PushFragment(t) PROVE Ahead'
  BY <1>2, <1>6 DEF PushFragment
<1>7. CASE Push \/ AppendFails
  BY <1>2, <1>7 DEF Push, FinalizeRotated, Finalize, CreateNext, Create, AppendRecord,
     Cleanup, AppendFails
<1>8. ASSUME NEW r \in Ranges, TriggerUploadAll(r) PROVE Ahead'
  BY <1>3, <1>8 DEF TriggerUploadAll
<1>9. CASE FinalizeCurrent \/ SelectFiles
  <2>1. lastSent' = 0 /\ pc' \in {"idle", "selecting", "starting"}
    BY <1>9 DEF Ahead, FinalizeCurrent, Finalize, SelectFiles
  <2>2. QED
    BY <1>2, <1>3, <2>1
<1>10. CASE AbortTrigger \/ Down \/ Open \/ FinishUpload
  BY <1>2, <1>10 DEF AbortTrigger, Down, Open, FinishUpload
<1>11. CASE CreateDuringUpload
  <2>1. CASE pc' = "idle"
    BY <1>2, <2>1
  <2>2. CASE pc' = "opening"
    <3>1. lastSent' = 0
      BY <1>11, <2>2 DEF Ahead, CreateDuringUpload, Create
    <3>2. DiskType'
      BY DiskTypeStep
    <3>3. ASSUME NEW n \in DOMAIN disk', NEW i \in Readable(disk'[n].records)
          PROVE  0 < disk'[n].records[i]
      <4>1. disk'[n].records \in Seq(Entries)
        BY <3>2 DEF DiskType
      <4>2. i \in DOMAIN disk'[n].records /\ disk'[n].records[i] # Torn
        BY <3>3, <4>1 DEF Readable
      <4>3. disk'[n].records[i] \in Entries
        BY <4>1, <4>2
      <4>4. QED
        BY <4>2, <4>3, Limits DEF Entries, Fragments, Torn
    <3>4. QED
      BY <2>2, <3>1, <3>3 DEF Ahead, Remaining
  <2>3. QED
    BY <1>11, <2>1, <2>2 DEF CreateDuringUpload, Create
<1>12. ASSUME todo # <<>>, pc \in {"opening", "putting"}, pc' = "opening",
              todo' = Tail(todo), lastSent' = lastSent,
              \A n \in DOMAIN disk' : n \in DOMAIN disk /\ disk'[n] = disk[n]
       PROVE  Ahead'
  <2>1. \A k \in DOMAIN todo' : /\ k \in Nat \ {0} /\ k + 1 \in DOMAIN todo
                                 /\ todo'[k] = todo[k + 1]
    BY <1>1, <1>12
  <2>2. ASSUME NEW k \in DOMAIN todo', todo'[k] \in DOMAIN disk',
               NEW i \in Readable(disk'[todo'[k]].records)
        PROVE  lastSent < disk'[todo'[k]].records[i]
    <3>1. /\ k + 1 # 1 /\ k + 1 \in DOMAIN todo /\ todo[k + 1] = todo'[k]
          /\ todo'[k] \in DOMAIN disk /\ disk'[todo'[k]] = disk[todo'[k]]
      BY <1>12, <2>1, <2>2
    <3>2. i \in Remaining(k + 1)
      BY <2>2, <3>1 DEF Remaining
    <3>3. QED
      BY <1>12, <3>1, <3>2 DEF Ahead
  <2>3. QED
    BY <1>12, <2>2 DEF Ahead, Remaining
<1>13. CASE OpenFile
  <2>1. CASE FileFails
    <3>1. todo # <<>> /\ UNCHANGED <<disk, lastSent>> /\ pc = "opening"
      BY <1>13 DEF OpenFile
    <3>2. QED
      BY <1>12, <2>1, <3>1 DEF FileFails
  <2>2. CASE ~FileFails
    <3>1. pc = "opening" /\ pc' = "putting" /\ UNCHANGED <<disk, todo, pos, lastSent>>
      BY <1>13, <2>2 DEF OpenFile
    <3>2. QED
      BY <3>1 DEF Ahead, Remaining, Readable
  <2>3. QED
    BY <2>1, <2>2
<1>14. CASE PutFragmentFails
  <2>1. todo # <<>> /\ UNCHANGED <<disk, lastSent>> /\ pc = "putting" /\ FileFails
    BY <1>1, <1>14 DEF PutFragmentFails, PhaseInv
  <2>2. QED
    BY <1>12, <2>1 DEF FileFails
<1>15. CASE MarkUploaded
  <2>1. todo # <<>> /\ lastSent' = lastSent /\ pc = "putting"
    BY <1>1, <1>15 DEF MarkUploaded, PhaseInv
  <2>2. \A n \in DOMAIN disk' : n \in DOMAIN disk /\ disk'[n] = disk[n]
    BY <1>15 DEF MarkUploaded, WithoutFile
  <2>3. QED
    BY <1>12, <1>15, <2>1, <2>2 DEF MarkUploaded
<1>16. CASE PutFragment
  <2>1. /\ pc = "putting" /\ pc' = "putting" /\ UNCHANGED <<disk, todo>>
        /\ pos \in Readable(Records) /\ lastSent' = Records[pos] /\ pos' = pos + 1
    BY <1>16 DEF PutFragment
  <2>2. /\ todo # <<>> /\ Head(todo) = todo[1] /\ todo[1] \in DOMAIN disk
        /\ 1 \in DOMAIN todo /\ \A k \in DOMAIN todo : k \in Nat /\ k >= 1
    BY <1>1, <2>1 DEF PhaseInv
  <2>3. pos \in DOMAIN disk[todo[1]].records /\ Records[pos] = disk[todo[1]].records[pos]
    BY <2>1, <2>2 DEF Records, Readable
  <2>4. ASSUME NEW k \in DOMAIN todo, todo[k] \in DOMAIN disk,
               NEW i \in Readable(disk[todo[k]].records), k = 1 => i >= pos + 1
        PROVE  disk[todo[1]].records[pos] < disk[todo[k]].records[i]
    <3>1. /\ i \in DOMAIN disk[todo[k]].records /\ i \in Nat \ {0}
          /\ disk[todo[k]].records[i] # Torn
      <4>1. disk[todo[k]].records \in Seq(Entries)
        BY <1>1, <2>4 DEF DiskType
      <4>2. i \in DOMAIN disk[todo[k]].records
            /\ \A j \in 1..i : disk[todo[k]].records[j] # Torn
        BY <2>4 DEF Readable
      <4>3. i \in Nat \ {0}
        BY <4>1, <4>2
      <4>4. QED
        BY <4>2, <4>3
    <3>2. Comes(todo[1], pos, todo[k], i)
      <4>1. CASE k = 1
        BY <1>1, <2>4, <3>1, <4>1 DEF Comes
      <4>2. CASE k # 1
        BY <2>2, <4>2 DEF IInv, TodoInv, Comes
      <4>3. QED
        BY <4>1, <4>2
    <3>3. QED
      BY <2>2, <2>3, <2>4, <3>1, <3>2 DEF InPushOrder
  <2>5. ASSUME NEW k \in DOMAIN todo', todo'[k] \in DOMAIN disk',
               NEW i \in Readable(disk'[todo'[k]].records), k = 1 => i >= pos'
        PROVE  lastSent' < disk'[todo'[k]].records[i]
    BY <2>1, <2>3, <2>4, <2>5
  <2>6. QED
    BY <2>1, <2>5 DEF Ahead, Remaining
<1>17. QED
  BY <1>5, <1>6, <1>7, <1>8, <1>9, <1>10, <1>11, <1>13, <1>14, <1>15, <1>16
     DEF Next, Upload

\* The invariant of the order: no fault is excluded.
LEMMA OrderInvariance == Spec => [](IInv /\ ReaderInv /\ OrderInv)
<1>1. Init => ReaderInv /\ OrderInv
  BY DEF Init, ReaderInv, OrderInv, Numbered, InPushOrder, Ahead
<1>2. IInv /\ ReaderInv /\ OrderInv /\ [Next]_vars => ReaderInv' /\ OrderInv'
  BY ReaderStep, NumberedStep, InPushOrderStep, AheadStep DEF OrderInv
<1>3. QED
  BY <1>1, <1>2, InitIInv, IInvStep, PTL DEF Spec

(***************************************************************************)
(* TriggerSendsInOrder: within one trigger fragments are sent in the order *)
(* they were pushed, under every fault, a torn record included.            *)
(***************************************************************************)
THEOREM SendsInOrder == Spec => TriggerSendsInOrder
<1>1. IInv /\ ReaderInv /\ OrderInv /\ [Next]_vars
        => [lastSent' > lastSent \/ lastSent' \in {0, lastSent}]_vars
  <2> SUFFICES ASSUME IInv, OrderInv, [Next]_vars
               PROVE  lastSent' > lastSent \/ lastSent' \in {0, lastSent}
    OBVIOUS
  <2> USE DEF store, operation, ghost
  <2>1. CASE PutFragment
    <3>1. /\ pc = "putting" /\ pos \in Readable(Records) /\ lastSent' = Records[pos]
          /\ todo # <<>> /\ Head(todo) \in DOMAIN disk
      BY <2>1 DEF PutFragment, IInv, PhaseInv
    <3>2. Head(todo) = todo[1] /\ 1 \in DOMAIN todo /\ pos >= pos
      BY <3>1 DEF IInv, Types, OperationType
    <3>3. pos \in Remaining(1)
      BY <3>1, <3>2 DEF Remaining, Records
    <3>4. lastSent < Records[pos]
      BY <3>1, <3>2, <3>3 DEF OrderInv, Ahead, Records
    <3>5. lastSent \in Nat /\ Records[pos] \in Nat
      BY <3>1, ReadIs, Limits DEF IInv, Types, GhostType, Records, Fragments
    <3>6. QED
      BY <3>1, <3>4, <3>5
  <2>2. CASE ~PutFragment
    BY <2>2 DEF Next, vars, Push, Upload, Tick, PushFragment, FinalizeRotated,
       FinalizeCurrent, Finalize, CreateNext, CreateDuringUpload, Create, AppendRecord,
       AppendFails, Cleanup, TriggerUploadAll, SelectFiles, OpenFile, PutFragmentFails,
       MarkUploaded, FinishUpload, AbortTrigger, Down, Open
  <2>3. QED
    BY <2>1, <2>2
<1>2. QED
  BY <1>1, OrderInvariance, PTL DEF Spec, TriggerSendsInOrder

-----------------------------------------------------------------------------
(* The window of a trigger.                                                *)

\* The fragments of a file lie between two times.
Covers(start, end, name) ==
    \A i \in DOMAIN disk[name].records :
       disk[name].records[i] # Torn => /\ start <= stamps[disk[name].records[i]]
                                       /\ stamps[disk[name].records[i]] <= end

CurrentCovers == IsFile(current) => Covers(current.start, current.last, current.name)
ClosingCovers == IsFile(closing) => Covers(closing.start, closing.last, closing.name)
FilesCover ==
    \A i \in DOMAIN files :
       files[i].count > 0 /\ files[i].name \in DOMAIN disk
          => Covers(files[i].start, files[i].end, files[i].name)

\* The current file has not been left behind by an upload: its times are those
\* of fragments.
OwnTimes ==
    IsFile(current) /\ pc \notin {"opening", "putting"} =>
       /\ stamps # <<>>
       /\ current.start <= current.last /\ current.last <= stamps[Frag]

WindowInv == CurrentCovers /\ ClosingCovers /\ FilesCover /\ OwnTimes

\* A record that is read has a time, which it keeps.
LEMMA TimesStay ==
    ASSUME IInv, Numbered, [Next]_vars, NEW n \in DOMAIN disk,
           NEW i \in DOMAIN disk[n].records, disk[n].records[i] # Torn
    PROVE  /\ stamps[disk[n].records[i]] \in Nat
           /\ stamps'[disk[n].records[i]] = stamps[disk[n].records[i]]
<1> DEFINE r == disk[n].records[i]
<1>1. stamps \in Seq(Nat) /\ Frag = Len(stamps)
  BY DEF IInv, Types, GhostType, Frag
<1>2. r \in Entries /\ r <= Frag
  <2>1. disk[n].records \in Seq(Entries)
    BY DEF IInv, Types, DiskType
  <2>2. QED
    BY <2>1 DEF Numbered
<1>3. r \in Nat \ {0}
  BY <1>2, Limits DEF Entries, Fragments, Torn
<1> HIDE DEF r
<1>4. r \in DOMAIN stamps /\ stamps[r] \in Nat
  BY <1>1, <1>2, <1>3
<1>5. \A t \in Nat : Append(stamps, t)[r] = stamps[r]
  BY <1>1, <1>4
<1>6. stamps' = stamps \/ \E t \in Nat : stamps' = Append(stamps, t)
  BY PushesAre DEF IInv, Types, DiskType
<1>7. QED
  BY <1>4, <1>5, <1>6 DEF r

\* A file that stays as it is keeps its times.
LEMMA CoversStays ==
    ASSUME IInv, Numbered, [Next]_vars, NEW n \in DOMAIN disk, disk'[n] = disk[n],
           NEW start, NEW end, Covers(start, end, n)
    PROVE  Covers(start, end, n)'
  BY TimesStay DEF Covers

\* So does a file that nobody writes to.
LEMMA CoversKept ==
    ASSUME IInv, Numbered, [Next]_vars, NEW n \in DOMAIN disk', n < clock,
           pc # "appending" \/ n # current.name,
           NEW start, NEW end, n \in DOMAIN disk => Covers(start, end, n)
    PROVE  Covers(start, end, n)'
<1>1. n # clock
  BY DEF IInv, Types, DiskType
<1>2. n \in DOMAIN disk /\ disk'[n] = disk[n]
  BY <1>1, FileStays, DiskEffects DEF IInv, Types
<1>3. QED
  BY <1>2, CoversStays

\* What is appended to the current file is the latest of all fragments.
LEMMA CurrentCoversStep ==
    ASSUME IInv, Numbered, WindowInv, [Next]_vars
    PROVE  CurrentCovers'
<1> USE DEF store, operation, ghost
<1>1. Newest(current) /\ PhaseInv /\ DiskType /\ current \in FileInfo
  BY DEF IInv, Types, NamesInv, CurrentType
<1>2. CASE ~IsFile(current')
  BY <1>2 DEF CurrentCovers, IsFile
<1>3. CASE UNCHANGED <<disk, current>>
  <2>1. SUFFICES ASSUME IsFile(current) PROVE CurrentCovers'
    BY <1>2, <1>3
  <2>2. PICK n, start, end : /\ n = current.name /\ start = current.start
                             /\ end = current.last
    OBVIOUS
  <2>3. n \in DOMAIN disk /\ disk'[n] = disk[n] /\ Covers(start, end, n)
    BY <1>1, <1>3, <2>1, <2>2 DEF WindowInv, CurrentCovers, Newest
  <2>4. Covers(start, end, n)'
    BY <2>3, CoversStays
  <2>5. QED
    BY <1>3, <2>2, <2>4 DEF CurrentCovers, Covers
<1>4. CASE pc = "appending"
  <2>1. CASE AppendRecord
    <3>1. PICK c : c = current.name
      OBVIOUS
    <3>2. PICK old : old = disk[c].records
      OBVIOUS
    <3>3. /\ current'.name = c /\ current'.start = current.start
          /\ current'.last = stamps[Frag] /\ stamps' = stamps
      BY <1>1, <2>1, <3>1 DEF AppendRecord, FileInfo
    <3>4. /\ c \in DOMAIN disk /\ DOMAIN disk'[c].records = DOMAIN old \cup {Len(old) + 1}
          /\ disk'[c].records[Len(old) + 1] = Frag
          /\ \A i \in DOMAIN old : disk'[c].records[i] = old[i]
      <4>1. NewRecord(Frag)
        BY <2>1 DEF AppendRecord, NewRecord
      <4>2. QED
        BY <3>1, <3>2, <4>1, NewRecordIs
    <3>5. /\ current.start <= current.last /\ current.last <= stamps[Frag]
          /\ current.start \in Nat /\ current.last \in Nat /\ stamps[Frag] \in Nat
      <4>1. stamps[Frag] \in Nat
        BY <1>1, <1>4, FragIs DEF IInv, Types, PhaseInv
      <4>2. current.start \in Nat /\ current.last \in Nat
        BY <1>1 DEF FileInfo
      <4>3. QED
        BY <1>1, <1>4, <4>1, <4>2 DEF WindowInv, OwnTimes, PhaseInv
    <3>6. ASSUME NEW i \in DOMAIN old, old[i] # Torn
          PROVE  current.start <= stamps[old[i]] /\ stamps[old[i]] <= stamps[Frag]
      <4>1. stamps[old[i]] \in Nat
        BY <3>2, <3>4, <3>6, TimesStay
      <4>2. current.start <= stamps[old[i]] /\ stamps[old[i]] <= current.last
        BY <1>1, <1>4, <3>1, <3>2, <3>6 DEF WindowInv, CurrentCovers, Covers, PhaseInv
      <4>3. QED
        BY <3>5, <4>1, <4>2
    <3>7. current.start <= stamps[Frag]
      BY <3>5
    <3>8. QED
      BY <3>3, <3>4, <3>5, <3>6, <3>7 DEF CurrentCovers, Covers
  <2>2. CASE AppendFails
    <3>1. CASE disk' = disk
      BY <1>3, <2>2, <3>1 DEF AppendFails
    <3>2. CASE disk' # disk
      <4>1. PICK c : c = current.name
        OBVIOUS
      <4>2. PICK old : old = disk[c].records
        OBVIOUS
      <4>3. NewRecord(Torn)
        BY <2>2, <3>2 DEF AppendFails, NewRecord
      <4>4. /\ c \in DOMAIN disk /\ DOMAIN disk'[c].records = DOMAIN old \cup {Len(old) + 1}
            /\ disk'[c].records[Len(old) + 1] = Torn
            /\ \A i \in DOMAIN old : disk'[c].records[i] = old[i]
        BY <4>1, <4>2, <4>3, NewRecordIs
      <4>5. \A i \in DOMAIN old : old[i] # Torn =>
              current.start <= stamps[old[i]] /\ stamps[old[i]] <= current.last
        BY <1>1, <1>4, <4>1, <4>2 DEF WindowInv, CurrentCovers, Covers, PhaseInv
      <4>6. current' = current /\ stamps' = stamps
        BY <2>2 DEF AppendFails
      <4>7. QED
        BY <4>1, <4>4, <4>5, <4>6 DEF CurrentCovers, Covers
    <3>3. QED
      BY <3>1, <3>2
  <2>3. CASE Down
    BY <1>2, <2>3 DEF Down, IsFile, NoFile
  <2>4. CASE Tick \/ UNCHANGED vars
    BY <1>3, <2>4 DEF Tick, vars
  <2>5. QED
    BY <1>4, <2>1, <2>2, <2>3, <2>4 DEF Next, Push, Upload, PushFragment, FinalizeRotated,
       CreateNext, Cleanup, TriggerUploadAll, FinalizeCurrent, SelectFiles,
       CreateDuringUpload, OpenFile, PutFragment, PutFragmentFails, MarkUploaded,
       FinishUpload, AbortTrigger, Open
<1>5. CASE CreateNext \/ CreateDuringUpload
  <2>1. \/ UNCHANGED <<disk, current>>
        \/ NewFile /\ current'.name = clock
    BY <1>5 DEF CreateNext, CreateDuringUpload, Create, NewFile
  <2>2. CASE NewFile /\ current'.name = clock
    <3>1. disk'[current'.name].records = <<>>
      BY <1>1, <2>2, NewFileIs
    <3>2. QED
      BY <3>1 DEF CurrentCovers, Covers
  <2>3. QED
    BY <1>3, <2>1, <2>2
<1>6. CASE pc # "appending" /\ ~CreateNext /\ ~CreateDuringUpload
  <2>1. current' \in {current, NoFile}
    BY <1>6 DEF Next, vars, Push, Upload, Tick, PushFragment, FinalizeRotated,
       FinalizeCurrent, Finalize, AppendRecord, AppendFails, Cleanup, TriggerUploadAll,
       SelectFiles, OpenFile, PutFragment, PutFragmentFails, MarkUploaded, FinishUpload,
       AbortTrigger, Down, Open
  <2>2. CASE current' = current /\ IsFile(current)
    <3>1. PICK n, start, end : /\ n = current.name /\ start = current.start
                               /\ end = current.last
      OBVIOUS
    <3>2. Covers(start, end, n) /\ n \in DOMAIN disk'
      <4>1. Newest(current)'
        BY NewestStep
      <4>2. QED
        BY <2>2, <3>1, <4>1 DEF WindowInv, CurrentCovers, Newest, IsFile
    <3>3. n < clock
      BY <1>1, <2>2, <3>1 DEF Newest, DiskType
    <3>4. Covers(start, end, n)'
      BY <1>6, <3>2, <3>3, CoversKept
    <3>5. QED
      BY <2>2, <3>1, <3>4 DEF CurrentCovers, Covers
  <2>3. QED
    BY <1>2, <2>1, <2>2 DEF IsFile, NoFile
<1>7. QED
  BY <1>4, <1>5, <1>6

\* A file is finalized with the times it had when it was current.
LEMMA ClosingCoversStep ==
    ASSUME IInv, Numbered, WindowInv, [Next]_vars
    PROVE  ClosingCovers'
<1> USE DEF store, operation, ghost
<1>1. Newest(current) /\ Newest(closing) /\ PhaseInv
  BY DEF IInv, NamesInv
<1>2. CASE ~IsFile(closing')
  BY <1>2 DEF ClosingCovers, IsFile
<1>3. ASSUME NEW c, c \in {current, closing}, closing' = c, disk' = disk, IsFile(c)
      PROVE  ClosingCovers'
  <2>1. PICK n, start, end : n = c.name /\ start = c.start /\ end = c.last
    OBVIOUS
  <2>2. n \in DOMAIN disk /\ disk'[n] = disk[n] /\ Covers(start, end, n)
    BY <1>1, <1>3, <2>1 DEF WindowInv, CurrentCovers, ClosingCovers, Newest
  <2>3. Covers(start, end, n)'
    BY <2>2, CoversStays
  <2>4. QED
    BY <1>3, <2>1, <2>3 DEF ClosingCovers, Covers
<1>4. ASSUME NEW t \in 1..clock, PushFragment(t) PROVE ClosingCovers'
  <2>1. disk' = disk /\ closing' \in {current, closing}
    BY <1>4 DEF PushFragment
  <2>2. QED
    BY <1>2, <1>3, <2>1 DEF IsFile
<1>5. ASSUME NEW r \in Ranges, TriggerUploadAll(r) PROVE ClosingCovers'
  <2>1. disk' = disk /\ closing' = current
    BY <1>5 DEF TriggerUploadAll
  <2>2. QED
    BY <1>2, <1>3, <2>1 DEF IsFile
<1>6. CASE Tick \/ UNCHANGED vars
  <2>1. disk' = disk /\ closing' = closing
    BY <1>6 DEF Tick, vars
  <2>2. QED
    BY <1>2, <1>3, <2>1 DEF IsFile
<1>7. CASE pc \in {"rotating", "finalizing"} /\ ~Tick /\ ~UNCHANGED vars
  <2>1. closing' = NoFile
    BY <1>7 DEF Next, Push, Upload, PushFragment, FinalizeRotated, FinalizeCurrent, Finalize,
       CreateNext, CreateDuringUpload, AppendRecord, AppendFails, Cleanup,
       TriggerUploadAll, SelectFiles, OpenFile, PutFragment, PutFragmentFails, MarkUploaded,
       FinishUpload, AbortTrigger, Down, Open
  <2>2. QED
    BY <1>2, <2>1 DEF IsFile, NoFile
<1>8. ASSUME pc \notin {"rotating", "finalizing"}, \A t \in 1..clock : ~PushFragment(t),
             \A r \in Ranges : ~TriggerUploadAll(r)
      PROVE  ClosingCovers'
  <2>1. closing' \in {closing, NoFile}
    BY <1>8 DEF Next, vars, Push, Upload, Tick, FinalizeRotated, FinalizeCurrent, Finalize,
       CreateNext, CreateDuringUpload, Create, AppendRecord, AppendFails, Cleanup,
       SelectFiles, OpenFile, PutFragment, PutFragmentFails, MarkUploaded, FinishUpload,
       AbortTrigger, Down, Open, FileFails
  <2>2. ~IsFile(closing')
    BY <1>1, <1>8, <2>1 DEF PhaseInv, IsFile, NoFile
  <2>3. QED
    BY <1>2, <2>2
<1>9. QED
  BY <1>4, <1>5, <1>6, <1>7, <1>8

\* A tracked file keeps the times it was finalized with.
LEMMA FilesCoverStep ==
    ASSUME IInv, Numbered, WindowInv, [Next]_vars
    PROVE  FilesCover'
<1>1. /\ Newest(current) /\ Listed /\ DiskType /\ PhaseInv /\ FilesEffect
      /\ files \in Seq(Tracked) /\ CurrentType /\ FilesType
  BY FilesEffects DEF IInv, Types, NamesInv, FilesType
<1>2. \A i \in DOMAIN files : /\ files[i].name < clock
                              /\ pc # "appending" \/ files[i].name # current.name
  <2>1. ASSUME NEW i \in DOMAIN files, pc = "appending"
        PROVE  files[i].name # current.name
    <3>1. files[i].name < current.name
      BY <1>1, <2>1 DEF PhaseInv, Newest
    <3>2. files[i].name \in Nat /\ current.name \in Nat
      BY <1>1, EntryFields DEF CurrentType, FileInfo
    <3>3. QED
      BY <3>1, <3>2
  <2>2. QED
    BY <1>1, <2>1 DEF Listed
<1>3. ASSUME NEW j \in DOMAIN files, NEW n, NEW start, NEW end, NEW count,
             n = files[j].name, start = files[j].start, end = files[j].end,
             count = files[j].count, count > 0, n \in DOMAIN disk'
      PROVE  Covers(start, end, n)'
  <2>1. n \in DOMAIN disk => Covers(start, end, n)
    BY <1>3 DEF WindowInv, FilesCover
  <2>2. QED
    BY <1>2, <1>3, <2>1, CoversKept
<1>4. CASE FilesKept
  <2>1. ASSUME NEW i \in DOMAIN files', files'[i].count > 0, files'[i].name \in DOMAIN disk',
               NEW n, NEW start, NEW end,
               n = files'[i].name, start = files'[i].start, end = files'[i].end
        PROVE  Covers(start, end, n)'
    <3>1. PICK j \in DOMAIN files : Same(files'[i], files[j])
      BY <1>4, KeptFiles
    <3>2. QED
      BY <1>3, <2>1, <3>1 DEF Same
  <2>2. QED
    BY <2>1 DEF FilesCover, Covers
<1>5. CASE Finalized
  <2>1. ASSUME NEW n, NEW start, NEW end,
               n = closing.name, start = closing.start, end = closing.last
        PROVE  Covers(start, end, n)'
    <3>1. n \in DOMAIN disk /\ disk'[n] = disk[n] /\ Covers(start, end, n)
      BY <1>5, <2>1 DEF Finalized, WindowInv, ClosingCovers, IInv, NamesInv, Newest
    <3>2. QED
      BY <3>1, CoversStays
  <2>2. ASSUME NEW i \in DOMAIN files', files'[i].count > 0, files'[i].name \in DOMAIN disk',
               NEW n, NEW start, NEW end,
               n = files'[i].name, start = files'[i].start, end = files'[i].end
        PROVE  Covers(start, end, n)'
    <3>1. \/ i \in DOMAIN files /\ files'[i] = files[i]
          \/ /\ files'[i].name = closing.name /\ files'[i].start = closing.start
             /\ files'[i].end = closing.last
      BY <1>1, <1>5, TrackedLastIs DEF Finalized
    <3>2. QED
      BY <1>3, <2>1, <2>2, <3>1
  <2>3. QED
    BY <2>2 DEF FilesCover, Covers
<1>6. CASE Scanned
  <2>1. \A i \in DOMAIN files' : files'[i].count = 0
    BY <1>6 DEF Scanned, Recovered
  <2>2. QED
    BY <2>1 DEF FilesCover
<1>7. QED
  BY <1>1, <1>4, <1>5, <1>6 DEF FilesEffect

\* Only an aborted upload leaves a file current that it has made itself.
LEMMA OwnTimesStep ==
    ASSUME "abort" \notin Faults, IInv, OwnTimes, [Next]_vars
    PROVE  OwnTimes'
<1> USE DEF store, operation, ghost
<1>1. /\ PhaseInv /\ current \in FileInfo /\ stamps \in Seq(Nat)
      /\ (stamps # <<>> => Frag \in DOMAIN stamps /\ stamps[Frag] \in Nat)
  BY FragIs DEF IInv, Types, CurrentType, GhostType
<1>2. ASSUME ~IsFile(current') \/ pc' \in {"opening", "putting"} PROVE OwnTimes'
  BY <1>2 DEF OwnTimes, IsFile
<1>3. ASSUME UNCHANGED <<current, stamps>>, pc \notin {"opening", "putting"} PROVE OwnTimes'
  BY <1>3 DEF OwnTimes, IsFile, Frag
<1>4. CASE Tick \/ UNCHANGED vars
  BY <1>4 DEF Tick, vars, OwnTimes, IsFile, Frag
<1>5. ASSUME NEW t \in 1..clock, PushFragment(t) PROVE OwnTimes'
  <2>1. CASE current' = NoFile
    BY <1>2, <2>1 DEF IsFile, NoFile
  <2>2. CASE current' = current /\ IsFile(current)
    <3>1. t \in Nat /\ stamps' = Append(stamps, t) /\ \A i \in DOMAIN stamps : t >= stamps[i]
      BY <1>5 DEF PushFragment, IInv, Types, DiskType
    <3>2. /\ stamps # <<>> /\ current.start <= current.last /\ current.last <= stamps[Frag]
      BY <1>5, <2>2 DEF PushFragment, OwnTimes
    <3>3. stamps' # <<>> /\ Len(stamps') = Len(stamps) + 1 /\ stamps'[Len(stamps')] = t
      BY <1>1, <3>1
    <3>4. current.last <= t
      <4>1. stamps[Frag] <= t /\ stamps[Frag] \in Nat /\ current.last \in Nat
        BY <1>1, <3>1, <3>2 DEF FileInfo
      <4>2. QED
        BY <3>1, <3>2, <4>1
    <3>5. QED
      BY <2>2, <3>2, <3>3, <3>4 DEF OwnTimes, Frag
  <2>3. QED
    BY <1>2, <1>5, <2>1, <2>2 DEF PushFragment, IsFile
<1>6. CASE FinalizeRotated \/ Cleanup \/ AppendFails
  BY <1>3, <1>6 DEF FinalizeRotated, Finalize, Cleanup, AppendFails
<1>7. CASE CreateNext
  <2>1. pc = "creating" /\ stamps # <<>> /\ ~IsFile(current) /\ stamps' = stamps
    BY <1>1, <1>7 DEF CreateNext, Create, PhaseInv
  <2>2. \/ current' = current
        \/ current'.start = stamps[Frag] /\ current'.last = stamps[Frag]
    BY <1>7 DEF CreateNext, Create
  <2>3. QED
    BY <1>1, <1>2, <2>1, <2>2 DEF OwnTimes, Frag
<1>8. CASE AppendRecord
  <2>1. /\ pc = "appending" /\ stamps' = stamps /\ current'.start = current.start
        /\ current'.last = stamps[Frag]
    BY <1>1, <1>8 DEF AppendRecord, FileInfo
  <2>2. /\ stamps # <<>> /\ current.start <= current.last /\ current.last <= stamps[Frag]
    BY <1>1, <2>1 DEF OwnTimes, PhaseInv
  <2>3. current.start \in Nat /\ current.last \in Nat
    BY <1>1 DEF FileInfo
  <2>4. QED
    BY <1>1, <2>1, <2>2, <2>3 DEF OwnTimes, Frag
<1>9. ASSUME NEW r \in Ranges, TriggerUploadAll(r) PROVE OwnTimes'
  BY <1>2, <1>9 DEF TriggerUploadAll, IsFile, NoFile
<1>10. CASE FinalizeCurrent \/ SelectFiles
  BY <1>3, <1>10 DEF FinalizeCurrent, Finalize, SelectFiles
<1>11. CASE CreateDuringUpload
  <2>1. ~IsFile(current) /\ (current' = current \/ pc' = "opening")
    BY <1>1, <1>11 DEF CreateDuringUpload, Create, PhaseInv
  <2>2. QED
    BY <1>2, <2>1
<1>12. CASE OpenFile \/ PutFragment \/ PutFragmentFails \/ MarkUploaded
  BY <1>2, <1>12 DEF OpenFile, PutFragment, PutFragmentFails, FileFails, MarkUploaded
<1>13. CASE FinishUpload \/ Down
  BY <1>2, <1>13 DEF FinishUpload, Down, IsFile, NoFile
<1>14. CASE AbortTrigger
  BY <1>14 DEF AbortTrigger, Mishap
<1>15. CASE Open
  BY <1>3, <1>15 DEF Open
<1>16. QED
  BY <1>4, <1>5, <1>6, <1>7, <1>8, <1>9, <1>10, <1>11, <1>12, <1>13, <1>14, <1>15
     DEF Next, Push, Upload

\* The invariant of the window, as long as no upload is aborted.
LEMMA WindowInvariance ==
    ASSUME "abort" \notin Faults
    PROVE  Spec => [](IInv /\ Numbered /\ WindowInv)
<1>1. Init => Numbered /\ WindowInv
  BY DEF Init, Numbered, WindowInv, CurrentCovers, ClosingCovers, FilesCover, OwnTimes,
     IsFile, NoFile
<1>2. IInv /\ Numbered /\ WindowInv /\ [Next]_vars => Numbered' /\ WindowInv'
  BY NumberedStep, CurrentCoversStep, ClosingCoversStep, FilesCoverStep, OwnTimesStep
     DEF WindowInv
<1>3. QED
  BY <1>1, <1>2, InitIInv, IInvStep, PTL DEF Spec

(***************************************************************************)
(* WindowSelects: a windowed trigger leaves out no file this run has       *)
(* written that holds a fragment of the window, unless an upload was       *)
(* aborted: its NEW file is then appended to under a start that is too     *)
(* late.                                                                   *)
(***************************************************************************)
THEOREM WindowIsComplete ==
    ASSUME "abort" \notin Faults
    PROVE  Spec => WindowSelects
<1>1. ASSUME IInv, Numbered, WindowInv, [Next]_vars, SelectFiles, NEW i \in DOMAIN files,
             Wanted(files[i], range), files[i].count > 0
      PROVE  \E j \in DOMAIN todo' : todo'[j] = files[i].name
  <2>1. files[i].name \in DOMAIN disk /\ Covers(files[i].start, files[i].end, files[i].name)
    BY <1>1 DEF Wanted, WindowInv, FilesCover
  <2>2. PICK k \in Readable(disk[files[i].name].records) :
              Within(stamps[disk[files[i].name].records[k]], range)
    BY <1>1 DEF Wanted, InFile
  <2>3. PICK name, time : name = files[i].name /\ time = stamps[disk[name].records[k]]
    OBVIOUS
  <2>4. k \in DOMAIN disk[name].records /\ disk[name].records[k] # Torn
    <3>1. disk[name].records \in Seq(Entries)
      BY <1>1, <2>1, <2>3 DEF IInv, Types, DiskType
    <3>2. k \in DOMAIN disk[name].records /\ \A j \in 1..k : disk[name].records[j] # Torn
      BY <2>2, <2>3 DEF Readable
    <3>3. k \in 1..k
      BY <3>1, <3>2
    <3>4. QED
      BY <3>2, <3>3
  <2>5. time \in Nat
    BY <1>1, <2>1, <2>3, <2>4, TimesStay
  <2>6. files[i].start <= time /\ time <= files[i].end
    BY <2>1, <2>3, <2>4 DEF Covers
  <2>7. files[i].start \in Nat /\ files[i].end \in Nat /\ range \in [from : Nat, to : Nat]
    BY <1>1, EntryFields DEF IInv, Types, FilesType, OperationType
  <2>8. Overlaps(files[i], range)
    BY <2>2, <2>3, <2>5, <2>6, <2>7 DEF Within, Overlaps
  <2>9. Eligible(files[i], range)
    BY <1>1, <2>8 DEF Wanted, Eligible
  <2>10. QED
    BY <1>1, <2>9, SelectIs
<1>2. IInv /\ Numbered /\ WindowInv /\ [Next]_vars
        => [SelectFiles => \A i \in DOMAIN files :
              Wanted(files[i], range) /\ files[i].count > 0
                 => \E j \in DOMAIN todo' : todo'[j] = files[i].name]_vars
  BY <1>1
<1>3. QED
  BY <1>2, WindowInvariance, PTL DEF Spec, WindowSelects
=============================================================================
