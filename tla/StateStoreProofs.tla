-------------------------- MODULE StateStoreProofs --------------------------
(***************************************************************************)
(* Theorems of StateStore.  The inductive invariant IInv says who holds    *)
(* which inode of the lock file (LockInv), where a command that walks      *)
(* directories is (WalkInv), how far a temporary file has got (TempInv),   *)
(* how the file and its entries on disk relate to what was written and     *)
(* acknowledged (FileInv), and what a reader may rely on (ReadInv).        *)
(***************************************************************************)
EXTENDS StateStore, TLAPS

Writing == {"parents", "syncParent", "create", "fill", "sync", "rename", "syncDir"}

\* The lock file that a process has open is the one in the directory.
LockInv ==
  \A p \in Proc :
    /\ opened[p] # None => opened[p] = lockFile
    /\ locked[p] # None => locked[p] = opened[p]
    /\ pc[p] = "flock" => opened[p] # None
    /\ pc[p] \in Writing \cup {"ready"} => locked[p] # None

WalkInv ==
  \A p \in Proc : pc[p] \in {"syncRoot", "syncParent"} => depth[p] < made

\* The temporary file is complete and on disk when it is renamed, and holds the
\* last value.
TempInv ==
  \A p \in Proc :
    /\ temp[p] # None <=> pc[p] \in {"fill", "sync", "rename"}
    /\ temp[p] # None => temp[p].value = writes /\ writes > 0
    /\ pc[p] \in {"sync", "rename"} => temp[p].whole
    /\ pc[p] = "rename" => temp[p].synced

FileInv ==
  /\ file \in onDisk
  /\ \A f \in onDisk :
       /\ f # None => /\ f.whole
                      /\ f.synced
                      /\ f.value <= writes
                      /\ file # None
                      /\ f.value <= file.value
                      /\ f.value > 0
                      /\ \A p \in Proc : temp[p] # None => f.value < writes
       /\ acked > 0 => f # None /\ f.value >= acked
  /\ \A p \in Proc : pc[p] = "syncDir" => file # None

ReadInv ==
  /\ reader.pc = "checked" => file # None /\ file.value >= reader.since
  /\ ReadsLatest

IInv == TypeOK /\ OneGuard /\ LockInv /\ WalkInv /\ TempInv /\ FileInv /\ ReadInv

-----------------------------------------------------------------------------
(* Records *)

LEMMA FileFields ==
  ASSUME NEW f \in File
  PROVE  f.value \in Nat /\ f.whole \in BOOLEAN /\ f.synced \in BOOLEAN /\ f # None
BY NoneAssumption DEF File

LEMMA FileMade ==
  ASSUME NEW v \in Nat, NEW w \in BOOLEAN, NEW s \in BOOLEAN
  PROVE  [value |-> v, whole |-> w, synced |-> s] \in File
BY DEF File

LEMMA FileFilled ==
  ASSUME NEW f \in File
  PROVE  /\ [f EXCEPT !.whole = TRUE] \in File
         /\ [f EXCEPT !.whole = TRUE].whole
         /\ [f EXCEPT !.whole = TRUE].value = f.value
BY DEF File

LEMMA FileSynced ==
  ASSUME NEW f \in File
  PROVE  /\ [f EXCEPT !.synced = TRUE] \in File
         /\ [f EXCEPT !.synced = TRUE].synced
         /\ [f EXCEPT !.synced = TRUE].whole = f.whole
         /\ [f EXCEPT !.synced = TRUE].value = f.value
BY DEF File

LEMMA ReaderFields ==
  ASSUME NEW r \in Reader
  PROVE  /\ r.since \in Nat
         /\ \A n \in Nat : [r EXCEPT !.pc = "checked", !.since = n] \in Reader
         /\ \A f \in File \cup {None} :
              /\ [r EXCEPT !.pc = "idle", !.result = f] \in Reader
              /\ [pc |-> "idle", since |-> 0, result |-> f] \in Reader
BY DEF Reader

LEMMA WholePath ==
  ASSUME NEW m \in Nat, NEW d \in Nat, m <= d, m + 1 \notin 1..d
  PROVE  m = d
OBVIOUS

\* Contents that were synced are kept.
LEMMA SyncedKept ==
  ASSUME FileInv
  PROVE  UNION {Kept(f) : f \in onDisk} = onDisk
BY DEF FileInv, Kept

LEMMA RemainsOnDisk ==
  ASSUME FileInv
  PROVE  /\ MayRemain \subseteq onDisk \cup {None}
         /\ synced = 1..Depth => MayRemain = onDisk
BY SyncedKept DEF MayRemain

LEMMA NoneIsNoInode == None \notin Inode /\ None \notin File
BY NoneAssumption

-----------------------------------------------------------------------------
(* The locks *)

LEMMA LockStep ==
  ASSUME IInv, [Next]_vars
  PROVE  OneGuard' /\ LockInv'
<1> USE NoneIsNoInode DEF IInv, TypeOK, OneGuard, LockInv, Writing, Goto
<1>1. CASE UNCHANGED <<pc, locks>>
  BY <1>1 DEF locks
<1>2. ASSUME NEW p \in Proc, OpenLock(p)
      PROVE  OneGuard' /\ LockInv'
  <2>1. PICK i \in Inode : /\ IF lockFile = None THEN \A q \in Proc : opened[q] # i
                                                ELSE i = lockFile
                           /\ lockFile' = i
                           /\ opened' = [opened EXCEPT ![p] = i]
    BY <1>2 DEF OpenLock
  <2>2. locked' = locked /\ pc[p] = "open" /\ pc' = [pc EXCEPT ![p] = "flock"]
    BY <1>2 DEF OpenLock
  <2> QED
    BY <2>1, <2>2
<1>3. ASSUME NEW p \in Proc, Flock(p)
      PROVE  OneGuard' /\ LockInv'
  <2>1. /\ pc[p] = "flock" /\ pc' = [pc EXCEPT ![p] = "ready"]
        /\ locked' = [locked EXCEPT ![p] = opened[p]]
        /\ UNCHANGED <<opened, lockFile>>
        /\ \A q \in Proc : locked[q] # opened[p]
    BY <1>3 DEF Flock
  <2>2. \A q \in Proc : locked[q] = None
    BY <2>1
  <2> QED
    BY <2>1, <2>2
<1>4. ASSUME NEW p \in Proc, Close(p), lockFile' = lockFile
      PROVE  OneGuard' /\ LockInv'
  BY <1>4 DEF Close
<1>5. CASE PowerFailure
  BY <1>5 DEF PowerFailure
<1>6. ASSUME NEW p \in Proc, UNCHANGED locks,
             pc' = [pc EXCEPT ![p] = pc'[p]],
             pc'[p] = "flock" => pc[p] = "flock",
             pc'[p] \in Writing \cup {"ready"} => pc[p] \in Writing \cup {"ready"}
      PROVE  OneGuard' /\ LockInv'
  BY <1>6 DEF locks
<1>7. ASSUME NEW p \in Proc, Command(p), ~OpenLock(p), ~Flock(p), ~Busy(p), ~Finish(p)
      PROVE  OneGuard' /\ LockInv'
  BY <1>6, <1>7, SMTT(30)
  DEF Command, Start, EnsureRoot, RootEnsured, StartWrite, EnsureParents,
      ParentsEnsured, CreateTemporary, WriteAll, SyncAll, Rename, SyncDirectory,
      Walk, PassDirectory, MakeDirectory, SyncParent, locks
<1> QED
  BY <1>1, <1>2, <1>3, <1>4, <1>5, <1>7
  DEF Next, vars, locks, Busy, Finish, Fail, CheckFile, ReadFile

-----------------------------------------------------------------------------
(* Types and directories *)

\* The part of TypeOK about directories, and the rest of it.
WalkTypes ==
  /\ pc \in [Proc -> Labels]
  /\ depth \in [Proc -> 0..Depth]
  /\ made \in 0..Depth
  /\ synced \subseteq 1..made

FileTypes ==
  /\ lockFile \in Inode \cup {None}
  /\ opened \in [Proc -> Inode \cup {None}]
  /\ locked \in [Proc -> Inode \cup {None}]
  /\ temp \in [Proc -> File \cup {None}]
  /\ left \subseteq Nat
  /\ file \in File \cup {None}
  /\ onDisk \subseteq File \cup {None}
  /\ writes \in Nat
  /\ acked \in Nat
  /\ reader \in Reader
  /\ faults \in Nat
  /\ failures \in Nat

LEMMA Types == TypeOK <=> WalkTypes /\ FileTypes
BY DEF TypeOK, WalkTypes, FileTypes

LEMMA WalkStep ==
  ASSUME WalkTypes, WalkInv, [Next]_vars
  PROVE  WalkTypes' /\ WalkInv'
<1> USE DepthAssumption DEF WalkTypes, WalkInv, Goto, Labels
<1>1. CASE UNCHANGED <<pc, depth, dirs>>
  BY <1>1 DEF dirs
<1>2. ASSUME NEW p \in Proc, UNCHANGED <<depth, dirs>>, pc' = [pc EXCEPT ![p] = pc'[p]],
             pc'[p] \in Labels \ {"syncRoot", "syncParent"}
      PROVE  WalkTypes' /\ WalkInv'
  BY <1>2 DEF dirs
<1>3. ASSUME NEW p \in Proc, UNCHANGED dirs, depth' = [depth EXCEPT ![p] = 0],
             pc' = [pc EXCEPT ![p] = pc'[p]],
             pc'[p] \in Labels \ {"syncRoot", "syncParent"}
      PROVE  WalkTypes' /\ WalkInv'
  BY <1>3 DEF dirs
<1>4. ASSUME NEW p \in Proc, NEW at \in {"ensure", "parents"},
             NEW sync \in {"syncRoot", "syncParent"}, NEW deepest \in 0..Depth,
             \/ PassDirectory(p, at, deepest)
             \/ MakeDirectory(p, at, deepest, sync)
             \/ SyncParent(p, sync, at)
      PROVE  WalkTypes' /\ WalkInv'
  <2>1. CASE PassDirectory(p, at, deepest)
    <3>1. /\ pc[p] = at /\ pc' = pc /\ made' = made /\ synced' = synced
          /\ depth[p] < made
          /\ depth' = [depth EXCEPT ![p] = depth[p] + 1]
      BY <2>1 DEF PassDirectory, dirs
    <3>2. depth[p] + 1 \in 0..Depth
      BY <3>1
    <3> QED
      BY <3>1, <3>2
  <2>2. CASE MakeDirectory(p, at, deepest, sync)
    <3>1. /\ pc' = [pc EXCEPT ![p] = sync] /\ depth' = depth /\ synced' = synced
          /\ made' = made + 1 /\ depth[p] < deepest /\ depth[p] = made
      BY <2>2 DEF MakeDirectory
    <3>2. made + 1 \in 0..Depth /\ synced \subseteq 1..(made + 1)
      BY <3>1
    <3> QED
      BY <3>1, <3>2
  <2>3. CASE SyncParent(p, sync, at)
    <3>1. /\ pc[p] = sync /\ pc' = [pc EXCEPT ![p] = at] /\ made' = made
          /\ synced' = synced \cup {depth[p] + 1}
          /\ depth' = [depth EXCEPT ![p] = depth[p] + 1]
      BY <2>3 DEF SyncParent
    <3>2. depth[p] + 1 \in 0..Depth /\ depth[p] + 1 \in 1..made
      BY <3>1
    <3> QED
      BY <3>1, <3>2
  <2> QED
    BY <1>4, <2>1, <2>2, <2>3
<1>5. CASE PowerFailure
  BY <1>5 DEF PowerFailure
<1>6. ASSUME NEW p \in Proc, Command(p) \/ Fail(p)
      PROVE  WalkTypes' /\ WalkInv'
  <2>1. CASE EnsureRoot(p) \/ EnsureParents(p)
    BY <2>1, <1>4 DEF EnsureRoot, EnsureParents
  <2>2. CASE Start(p) \/ StartWrite(p)
    BY <2>2, <1>3 DEF Start, StartWrite, Walk
  <2>3. CASE Busy(p) \/ Finish(p) \/ Fail(p)
    BY <2>3, <1>3 DEF Busy, Finish, Fail, Close
  <2> QED
    BY <1>2, <1>6, <2>1, <2>2, <2>3
    DEF Command, RootEnsured, OpenLock, Flock, ParentsEnsured, CreateTemporary,
        WriteAll, SyncAll, Rename, SyncDirectory, dirs
<1> QED
  BY <1>1, <1>5, <1>6 DEF Next, vars, CheckFile, ReadFile

LEMMA FileTypesStep ==
  ASSUME IInv, [Next]_vars
  PROVE  FileTypes'
<1> USE NoneIsNoInode DEF FileTypes, Goto
<1>1. FileTypes
  BY Types DEF IInv
<1>2. CASE UNCHANGED <<locks, temp, left, content, writes, reader, faults, failures>>
  BY <1>1, <1>2 DEF locks, content
<1>3. ASSUME NEW p \in Proc, Command(p)
      PROVE  FileTypes'
  <2>1. CASE OpenLock(p) \/ Flock(p)
    BY <1>1, <2>1 DEF OpenLock, Flock, content
  <2>2. CASE Busy(p) \/ Finish(p)
    BY <1>1, <2>2 DEF Busy, Finish, Close, content
  <2>3. CASE CreateTemporary(p)
    <3>1. writes + 1 \in Nat
      BY <1>1
    <3>2. [value |-> writes + 1, whole |-> FALSE, synced |-> FALSE] \in File
      BY <3>1, FileMade
    <3> QED
      BY <1>1, <2>3, <3>1, <3>2 DEF CreateTemporary, locks, content
  <2>4. CASE WriteAll(p) \/ SyncAll(p)
    <3>1. temp[p] \in File
      BY <1>1, <2>4 DEF WriteAll, SyncAll, IInv, TempInv
    <3> QED
      BY <1>1, <2>4, <3>1, FileFilled, FileSynced DEF WriteAll, SyncAll, locks, content
  <2>5. CASE Rename(p)
    BY <1>1, <2>5 DEF Rename, locks
  <2>6. CASE SyncDirectory(p)
    BY <1>1, <2>6, FileFields DEF SyncDirectory, locks, IInv, FileInv
  <2> QED
    BY <1>2, <1>3, <2>1, <2>2, <2>3, <2>4, <2>5, <2>6
    DEF Command, Start, StartWrite, EnsureRoot, EnsureParents, RootEnsured,
        ParentsEnsured, PassDirectory, MakeDirectory, SyncParent
<1>4. ASSUME NEW p \in Proc, Fail(p)
      PROVE  FileTypes'
  <2>1. temp[p] \in File \cup {None}
    BY <1>1
  <2>2. left' \subseteq Nat
    BY <1>1, <1>4, <2>1, FileFields DEF Fail, Temporary, TempName
  <2> QED
    BY <1>1, <1>4, <2>2 DEF Fail, Close, content
<1>5. CASE PowerFailure
  <2>1. file' \in onDisk \cup {None} /\ file' \in File \cup {None}
    BY <1>1, <1>5, SyncedKept DEF PowerFailure, IInv
  <2>2. acked' \in Nat
    BY <1>5, <2>1, FileFields DEF PowerFailure
  <2>3. reader' \in Reader
    BY <1>1, <1>5, <2>1, ReaderFields DEF PowerFailure
  <2>4. left' \subseteq Nat
    <3>1. Temporaries \subseteq Nat
      <4>1. \A q \in Proc : temp[q] \in File \cup {None}
        BY <1>1
      <4>2. \A q \in Proc : Temporary(q) \subseteq Nat
        BY <4>1, FileFields DEF Temporary, TempName
      <4> QED
        BY <1>1, <4>2 DEF Temporaries
    <3> QED
      BY <1>5, <3>1 DEF PowerFailure
  <2> QED
    BY <1>1, <1>5, <2>1, <2>2, <2>3, <2>4 DEF PowerFailure
<1>6. CASE CheckFile \/ ReadFile
  <2>1. reader' \in Reader
    <3>1. reader \in Reader /\ acked \in Nat /\ file \in File \cup {None}
      BY <1>1
    <3>2. CASE CheckFile
      BY <3>1, <3>2, ReaderFields DEF CheckFile
    <3>3. CASE ReadFile
      BY <3>1, <3>3, ReaderFields DEF ReadFile
    <3> QED
      BY <1>6, <3>2, <3>3
  <2> QED
    BY <1>1, <1>6, <2>1 DEF CheckFile, ReadFile, locks, content
<1> QED
  BY <1>2, <1>3, <1>4, <1>5, <1>6 DEF Next, vars

LEMMA TypeStep ==
  ASSUME IInv, [Next]_vars
  PROVE  TypeOK' /\ WalkInv'
<1>1. WalkTypes /\ WalkInv
  BY Types DEF IInv
<1>2. WalkTypes' /\ WalkInv'
  BY <1>1, WalkStep
<1>3. FileTypes'
  BY FileTypesStep
<1> QED
  BY <1>2, <1>3, Types DEF TypeOK, WalkTypes, FileTypes

-----------------------------------------------------------------------------
(* The file *)

\* Only the command that holds the lock has a temporary file.
LEMMA OneWriter ==
  ASSUME IInv, NEW p \in Proc, pc[p] \in Writing \cup {"ready"}
  PROVE  \A q \in Proc \ {p} : temp[q] = None /\ pc[q] \notin Writing \cup {"ready"}
BY DEF IInv, OneGuard, LockInv, TempInv, Writing

LEMMA FileStep ==
  ASSUME IInv, TypeOK', [Next]_vars
  PROVE  TempInv' /\ FileInv' /\ ReadInv'
<1> USE NoneIsNoInode DEF IInv, TypeOK, Goto
<1> DEFINE Inv == TempInv /\ FileInv /\ ReadInv
<1> SUFFICES Inv'
  OBVIOUS
<1>1. CASE UNCHANGED <<pc, temp, content, writes, reader>>
  BY <1>1 DEF content, TempInv, FileInv, ReadInv, ReadsLatest
<1>2. ASSUME NEW p \in Proc, UNCHANGED <<temp, content, writes, reader>>,
             pc' = [pc EXCEPT ![p] = pc'[p]],
             {pc[p], pc'[p]} \cap {"fill", "sync", "rename", "syncDir"} = {}
      PROVE  Inv'
  BY <1>2 DEF content, TempInv, FileInv, ReadInv, ReadsLatest
<1>3. ASSUME NEW p \in Proc, Close(p), UNCHANGED <<content, writes, reader>>
      PROVE  Inv'
  BY <1>3 DEF Close, content, TempInv, FileInv, ReadInv, ReadsLatest
<1>4. ASSUME NEW p \in Proc, CreateTemporary(p)
      PROVE  Inv'
  <2> DEFINE t == [value |-> writes + 1, whole |-> FALSE, synced |-> FALSE]
  <2>1. /\ pc[p] = "create" /\ pc' = [pc EXCEPT ![p] = "fill"]
        /\ writes' = writes + 1 /\ temp' = [temp EXCEPT ![p] = t]
        /\ UNCHANGED <<file, onDisk, acked, reader>>
    BY <1>4 DEF CreateTemporary, content
  <2>2. t \in File /\ t # None /\ t.value = writes'
    BY <2>1, FileMade, FileFields
  <2>3. \A q \in Proc \ {p} : temp[q] = None /\ pc[q] \notin Writing
    BY <2>1, OneWriter DEF Writing
  <2>4. TempInv'
    BY <2>1, <2>2, <2>3 DEF TempInv
  <2>5. FileInv'
    BY <2>1, FileFields DEF FileInv
  <2>6. ReadInv'
    BY <2>1 DEF ReadInv, ReadsLatest
  <2> QED
    BY <2>4, <2>5, <2>6
<1>5. ASSUME NEW p \in Proc, WriteAll(p) \/ SyncAll(p)
      PROVE  Inv'
  <2>1. /\ temp[p] \in File
        /\ temp'[p] \in File /\ temp'[p] # None
        /\ temp'[p].value = temp[p].value
        /\ temp'[p].whole
        /\ pc'[p] = "rename" => temp'[p].synced
        /\ pc[p] \in {"fill", "sync"} /\ pc'[p] \in {"sync", "rename"}
    <3>1. temp[p] \in File /\ temp[p] # None /\ pc[p] \in {"fill", "sync"}
      BY <1>5 DEF WriteAll, SyncAll, TempInv
    <3>2. CASE WriteAll(p)
      BY <3>1, <3>2, FileFilled, FileFields DEF WriteAll
    <3>3. CASE SyncAll(p)
      BY <3>1, <3>3, FileSynced, FileFields DEF SyncAll, TempInv
    <3> QED
      BY <1>5, <3>2, <3>3
  <2>2. /\ pc' = [pc EXCEPT ![p] = pc'[p]]
        /\ temp' = [temp EXCEPT ![p] = temp'[p]]
        /\ UNCHANGED <<file, onDisk, acked, writes, reader>>
    BY <1>5 DEF WriteAll, SyncAll, content
  <2>3. TempInv'
    BY <2>1, <2>2 DEF TempInv
  <2>4. FileInv'
    BY <2>1, <2>2 DEF FileInv, TempInv
  <2>5. ReadInv'
    BY <2>2 DEF ReadInv, ReadsLatest
  <2> QED
    BY <2>3, <2>4, <2>5
<1>6. ASSUME NEW p \in Proc, Rename(p)
      PROVE  Inv'
  <2>1. /\ pc[p] = "rename" /\ pc' = [pc EXCEPT ![p] = "syncDir"]
        /\ file' = temp[p]
        /\ onDisk' = onDisk \cup {temp[p]}
        /\ temp' = [temp EXCEPT ![p] = None]
        /\ UNCHANGED <<acked, writes, reader>>
    BY <1>6 DEF Rename
  <2>2. temp[p] # None /\ temp[p].value = writes /\ temp[p].whole /\ temp[p].synced
        /\ writes > 0
    BY <2>1 DEF TempInv
  <2>3. \A q \in Proc \ {p} : temp[q] = None /\ pc[q] \notin Writing
    BY <2>1, OneWriter DEF Writing
  <2>4. \A q \in Proc : temp'[q] = None
    BY <2>1, <2>3
  <2>5. \A f \in onDisk : f # None => f.value < writes
    BY <2>2 DEF FileInv
  <2>6. acked <= writes
    BY <2>5, FileFields DEF FileInv
  <2>7. TempInv'
    BY <2>1, <2>3 DEF TempInv
  <2>8. FileInv'
    <3>1. \A f \in onDisk' : /\ f \in onDisk \/ f = temp[p]
                            /\ f # None => f.value \in Nat
      BY <2>1, <2>2, FileFields
    <3> QED
      BY <2>1, <2>2, <2>3, <2>4, <2>5, <2>6, <3>1 DEF FileInv
  <2>9. ReadInv'
    <3>1. reader.since \in Nat
      BY ReaderFields
    <3>2. reader.pc = "checked" => writes >= reader.since
      BY <2>5, <3>1, FileFields DEF ReadInv, FileInv
    <3> QED
      BY <2>1, <2>2, <3>2 DEF ReadInv, ReadsLatest
  <2> QED
    BY <2>7, <2>8, <2>9
<1>7. ASSUME NEW p \in Proc, SyncDirectory(p)
      PROVE  Inv'
  <2>1. /\ pc[p] = "syncDir" /\ pc' = [pc EXCEPT ![p] = "ready"]
        /\ onDisk' = {file} /\ acked' = file.value
        /\ UNCHANGED <<file, temp, writes, reader>>
    BY <1>7 DEF SyncDirectory
  <2>2. file # None /\ file \in onDisk /\ file.value \in Nat
    BY <2>1, FileFields DEF FileInv
  <2>3. TempInv'
    BY <2>1 DEF TempInv
  <2>4. FileInv'
    BY <2>1, <2>2 DEF FileInv
  <2>5. ReadInv'
    BY <2>1 DEF ReadInv, ReadsLatest
  <2> QED
    BY <2>3, <2>4, <2>5
<1>8. CASE PowerFailure
  <2>1. /\ file' \in onDisk \cup {None}
        /\ onDisk' = {file'}
        /\ acked' = IF file' = None THEN 0 ELSE file'.value
        /\ writes' = writes
        /\ \A q \in Proc : temp'[q] = None /\ pc'[q] = "idle"
        /\ reader' = [pc |-> "idle", since |-> 0, result |-> file']
    BY <1>8, SyncedKept DEF PowerFailure
  <2>2. file' # None => /\ file'.value \in Nat
                        /\ file'.whole /\ file'.synced
                        /\ file'.value > 0 /\ file'.value <= writes
    BY <2>1, FileFields DEF FileInv
  <2>3. TempInv' /\ ReadInv'
    BY <2>1, <2>2 DEF TempInv, ReadInv, ReadsLatest
  <2>4. FileInv'
    BY <2>1, <2>2 DEF FileInv
  <2> QED
    BY <2>3, <2>4
<1>9. CASE CheckFile
  <2>1. /\ file # None /\ reader' = [reader EXCEPT !.pc = "checked", !.since = acked]
        /\ UNCHANGED <<pc, temp, file, onDisk, acked, writes>>
    BY <1>9 DEF CheckFile, content
  <2>2. file.value \in Nat /\ file.value >= acked
    BY <2>1, FileFields DEF FileInv
  <2>3. reader'.pc = "checked" /\ reader'.since = acked
    BY <2>1
  <2>4. ReadInv'
    BY <2>1, <2>2, <2>3 DEF ReadInv, ReadsLatest
  <2>5. TempInv' /\ FileInv'
    BY <2>1 DEF TempInv, FileInv
  <2> QED
    BY <2>4, <2>5
<1>10. CASE ReadFile
  <2>1. /\ reader.pc = "checked" /\ reader' = [reader EXCEPT !.pc = "idle", !.result = file]
        /\ UNCHANGED <<pc, temp, file, onDisk, acked, writes>>
    BY <1>10 DEF ReadFile, content
  <2>2. reader'.pc = "idle" /\ reader'.result = file /\ reader'.since = reader.since
    BY <2>1
  <2>3. ReadInv'
    BY <2>1, <2>2 DEF ReadInv, ReadsLatest, FileInv
  <2>4. TempInv' /\ FileInv'
    BY <2>1 DEF TempInv, FileInv
  <2> QED
    BY <2>3, <2>4
<1>11. ASSUME NEW p \in Proc, Command(p)
       PROVE  Inv'
  <2>1. CASE Busy(p) \/ Finish(p)
    BY <2>1, <1>3 DEF Busy, Finish
  <2>2. CASE Start(p) \/ RootEnsured(p) \/ OpenLock(p) \/ Flock(p)
             \/ StartWrite(p) \/ ParentsEnsured(p) \/ EnsureRoot(p) \/ EnsureParents(p)
    BY <2>2, <1>2
    DEF Start, RootEnsured, OpenLock, Flock, StartWrite, ParentsEnsured, Walk,
        EnsureRoot, EnsureParents, PassDirectory, MakeDirectory, SyncParent
  <2> QED
    BY <1>4, <1>5, <1>6, <1>7, <1>11, <2>1, <2>2 DEF Command
<1> HIDE DEF Inv
<1> QED
  BY <1>1, <1>3, <1>8, <1>9, <1>10, <1>11 DEF Next, vars, Fail

-----------------------------------------------------------------------------

\* Every reachable state satisfies the inductive invariant.
THEOREM Inductive == Spec => []IInv
<1>1. Init => IInv
  <2> SUFFICES ASSUME Init
               PROVE  IInv
    OBVIOUS
  <2>1. WalkTypes /\ WalkInv
    BY DepthAssumption DEF Init, WalkTypes, WalkInv, Labels
  <2>2. reader \in Reader
    BY DEF Init, Reader
  <2>3. FileTypes
    BY <2>2 DEF Init, FileTypes
  <2>4. OneGuard /\ LockInv /\ TempInv /\ FileInv /\ ReadInv
    BY NoneIsNoInode
    DEF Init, OneGuard, LockInv, TempInv, FileInv, ReadInv, ReadsLatest, Writing
  <2> QED
    BY <2>1, <2>3, <2>4, Types DEF IInv
<1>2. IInv /\ [Next]_vars => IInv'
  BY LockStep, TypeStep, FileStep DEF IInv
<1> QED
  BY <1>1, <1>2, PTL DEF Spec

\* Variables keep their types.
THEOREM TypeCorrect == Spec => []TypeOK
BY Inductive, PTL DEF IInv

\* No two commands hold the state directory's lock, however they race for it.
THEOREM ExclusiveLock == Spec => []OneGuard
BY Inductive, PTL DEF IInv

\* Readers without the lock get whole values, and none older than the last one
\* saved when they began.
THEOREM ReadersSeeLatest == Spec => []ReadsLatest
BY Inductive, PTL DEF IInv, ReadInv

\* No crash and no power failure leaves half of a value in the file.
THEOREM NeverTorn == Spec => []NothingTorn
<1>1. IInv => NothingTorn
  BY RemainsOnDisk DEF IInv, FileInv, NothingTorn
<1> QED
  BY <1>1, Inductive, PTL

\* What was saved survives a power failure once the directories have.
THEOREM SavesSurvive == Spec => []SavedSurvives
<1>1. IInv => SavedSurvives
  BY RemainsOnDisk DEF IInv, FileInv, SavedSurvives, SavedRemains
<1> QED
  BY <1>1, Inductive, PTL

\* StateStore implements AtomicFile.
THEOREM Implementation == Spec => ImplementsAtomicFile
<1>1. Init => Abs!Init
  BY DEF Init, Abs!Init, Held
<1>2. IInv /\ IInv' /\ [Next]_vars => [Abs!Next]_Abs!vars
  <2> SUFFICES ASSUME IInv, IInv', [Next]_vars
               PROVE  [Abs!Next]_Abs!vars
    OBVIOUS
  <2> USE DEF IInv, Abs!vars
  <2>1. acked <= Held(file) /\ Held(file) \in Nat /\ acked \in Nat
    BY FileFields DEF TypeOK, FileInv, Held
  <2>2. acked' <= Held(file)' /\ Held(file)' \in Nat /\ acked' \in Nat
    BY FileFields DEF TypeOK, FileInv, Held
  <2>3. CASE PowerFailure
    <3>1. Held(file)' = acked'
      BY <2>3 DEF PowerFailure, Held, FileInv
    <3>2. Held(file)' <= Held(file)
      BY <2>3, SyncedKept, FileFields DEF PowerFailure, Held, FileInv, TypeOK
    <3>3. synced = 1..Depth => acked <= Held(file)'
      <4> SUFFICES ASSUME synced = 1..Depth
                   PROVE  acked <= Held(file)'
        OBVIOUS
      <4>1. made' = Depth
        <5>1. made' \in 0..made /\ made \in 0..Depth /\ made' + 1 \notin 1..Depth
          BY <2>3 DEF PowerFailure, TypeOK
        <5>2. Depth \in Nat /\ made' \in Nat /\ made' <= Depth
          BY <5>1, DepthAssumption
        <5> QED
          BY <5>1, <5>2, WholePath
      <4>2. file' \in onDisk
        BY <2>3, <4>1, SyncedKept, DepthAssumption DEF PowerFailure
      <4> QED
        BY <4>2, <2>1, FileFields DEF Held, FileInv, TypeOK
    <3>4. synced' # 1..Depth => Held(file)' = 0
      BY <2>3, DepthAssumption DEF PowerFailure, Held, TypeOK
    <3> QED
      BY <2>1, <2>2, <3>1, <3>2, <3>3, <3>4 DEF Abs!Next, Abs!PowerFailure
  <2>4. ASSUME NEW p \in Proc, Rename(p)
        PROVE  Abs!Write
    <3>1. file' = temp[p] /\ temp[p] # None /\ UNCHANGED <<synced, acked>>
      BY <2>4 DEF Rename, TempInv, Goto, dirs
    <3>2. Held(file)' > Held(file)
      BY <3>1, FileFields, <2>4 DEF Rename, Held, FileInv, TypeOK, TempInv, Goto
    <3> QED
      BY <3>1, <3>2, <2>2 DEF Abs!Write
  <2>5. ASSUME NEW p \in Proc, SyncDirectory(p)
        PROVE  Abs!Settle
    BY <2>5, <2>1, <2>2 DEF SyncDirectory, Held, FileInv, Abs!Settle, dirs
  <2>6. ASSUME UNCHANGED <<file, acked>>, synced \subseteq synced'
        PROVE  Abs!Settle
    <3>1. synced = 1..Depth => synced' = 1..Depth
      <4>1. synced' \subseteq 1..made' /\ made' \in 0..Depth
        BY DEF TypeOK
      <4>2. synced' \subseteq 1..Depth
        BY <4>1, DepthAssumption
      <4> QED
        BY <2>6, <4>2
    <3>2. Held(file)' = Held(file)
      BY <2>6 DEF Held
    <3> QED
      BY <2>6, <2>1, <3>1, <3>2 DEF Abs!Settle
  <2> QED
    BY <2>3, <2>4, <2>5, <2>6
    DEF Next, vars, Abs!Next, Command, Start, EnsureRoot, RootEnsured, OpenLock, Flock,
        Busy, StartWrite, EnsureParents, ParentsEnsured, CreateTemporary, WriteAll,
        SyncAll, Finish, PassDirectory, MakeDirectory, SyncParent, Fail,
        CheckFile, ReadFile, dirs, content
<1> QED
  BY <1>1, <1>2, Inductive, PTL DEF Spec, ImplementsAtomicFile, Abs!Spec

-----------------------------------------------------------------------------
(* Another user of the same directory: anisette.rs keeps files of its own  *)
(* beside those of FileStateStore, and syncs and renames them itself       *)

CONSTANTS Library, Version

VARIABLES step, apk, source, target, temporary, library, origin, flushed, outcome

Setup == INSTANCE AnisetteSetup WITH pc <- step

\* A library is renamed into place only from a temporary file that was extracted whole
\* from some APK and synced.
SetupInv ==
  /\ source \in Version \cup {None}
  /\ step \in {"download", "extract", "copy", "rename"} => source \in Version
  /\ step \in {"copy", "rename"} => target \in Library
  /\ step = "rename" => temporary = "synced"
  /\ library \in [Library -> {"none", "synced"}]
  /\ origin \in [Library -> Version \cup {None}]
  /\ \A l \in Library : library[l] # "none" <=> origin[l] # None

LEMMA SetupInit == Setup!Init => SetupInv
BY DEF Setup!Init, SetupInv

LEMMA SetupRename ==
  ASSUME None \notin Version, SetupInv, Setup!Rename
  PROVE  SetupInv'
<1>1. /\ source \in Version /\ target \in Library /\ source' = source /\ step' = "extract"
      /\ library' = [library EXCEPT ![target] = "synced"]
      /\ origin' = [origin EXCEPT ![target] = source]
  BY DEF Setup!Rename, SetupInv
<1>2. \A l \in Library :
        /\ library'[l] = IF l = target THEN "synced" ELSE library[l]
        /\ origin'[l] = IF l = target THEN source ELSE origin[l]
  BY <1>1 DEF SetupInv
<1> QED BY <1>1, <1>2 DEF SetupInv

\* Nothing can be torn: no library is under its name before it is synced.
LEMMA SetupPowerFails ==
  ASSUME SetupInv, Setup!PowerFails
  PROVE  SetupInv'
<1>1. PICK lost, torn :
        /\ torn \in SUBSET {l \in Library : library[l] = "written"}
        /\ library' = [l \in Library |->
             IF l \in lost THEN "none" ELSE IF l \in torn THEN "torn" ELSE library[l]]
        /\ origin' = [l \in Library |-> IF l \in lost THEN None ELSE origin[l]]
  BY DEF Setup!PowerFails
<1>2. torn = {}
  BY <1>1 DEF SetupInv
<1>3. \A l \in Library :
        /\ library'[l] = IF l \in lost THEN "none" ELSE library[l]
        /\ origin'[l] = IF l \in lost THEN None ELSE origin[l]
  BY <1>1, <1>2
<1>4. source' = None /\ step' = "idle"
  BY DEF Setup!PowerFails, Setup!Abandon
<1> QED BY <1>1, <1>2, <1>3, <1>4 DEF SetupInv

LEMMA SetupNext ==
  ASSUME None \notin Version, SetupInv, [Setup!Next]_Setup!vars
  PROVE  SetupInv'
<1>1. CASE Setup!Rename
  BY <1>1, SetupRename
<1>2. CASE Setup!PowerFails
  BY <1>2, SetupPowerFails
<1>3. CASE \E l \in Library : Setup!CreateTemporary(l)
  BY <1>3 DEF Setup!CreateTemporary, SetupInv
<1>4. CASE Setup!Copy
  BY <1>4 DEF Setup!Copy, Setup!Synced, SetupInv
<1>5. CASE Setup!CreateApk
  BY <1>5 DEF Setup!CreateApk, SetupInv
<1>6. CASE Setup!Download
  BY <1>6 DEF Setup!Download, SetupInv
<1>7. CASE \/ Setup!Open \/ Setup!Extracted \/ Setup!CleanUp \/ Setup!Load
           \/ Setup!DownloadFails \/ Setup!ExtractFails \/ Setup!CleanUpFails
           \/ Setup!Kill \/ Setup!Flush \/ UNCHANGED Setup!vars
  BY <1>7
  DEF Setup!Open, Setup!Extracted, Setup!CleanUp, Setup!Load, Setup!DownloadFails,
      Setup!ExtractFails, Setup!CleanUpFails, Setup!Fails, Setup!Kill, Setup!Abandon,
      Setup!Flush, Setup!vars, SetupInv
<1> QED
  BY <1>1, <1>2, <1>3, <1>4, <1>5, <1>6, <1>7 DEF Setup!Next, Setup!Step, Setup!Trouble

\* What the Anisette provider finds under the name of a library is the whole library of
\* one APK, however many commands were cut short or lost their power on the way.
THEOREM LibrariesStayWhole ==
  ASSUME None \notin Version
  PROVE  Setup!Spec => []Setup!LibrariesAreWhole
<1>1. SetupInv /\ [Setup!Next]_Setup!vars => SetupInv'
  BY SetupNext
<1>2. SetupInv => Setup!LibrariesAreWhole
  BY DEF SetupInv, Setup!LibrariesAreWhole, Setup!Present
<1> QED
  BY <1>1, <1>2, SetupInit, PTL DEF Setup!Spec
=============================================================================
