----------------------------- MODULE StateStore -----------------------------
(***************************************************************************)
(* FileStateStore (src/state.rs): the locked, atomic file storage under    *)
(* every command, at the granularity of its system calls.  Commands create *)
(* the state directory, try its lock, write one file any number of times   *)
(* and end; a reader reads that file without the lock.                     *)
(*                                                                         *)
(* A call may fail, a command may be killed, and the power may fail.  The  *)
(* kernel writes directory entries and file contents to disk when it       *)
(* likes, and at the latest when they are synced.  Permissions, symbolic   *)
(* links and path syntax are left out: within one user's directory they do *)
(* not change while a command runs (the comment on check_directories).     *)
(***************************************************************************)
EXTENDS Naturals

CONSTANTS
  Proc,        \* commands that may run at the same time
  Inode,       \* inodes the lock file may have
  None,        \* no file, no inode
  RootDepth,   \* directories of the path of the root that may be missing
  Depth,       \* the same for the file's parent
  MaxWrites,   \* bound: calls of write_bytes, besides those that were cut short
  MaxFaults,   \* bound: commands that are cut short
  MaxFailures  \* bound: power failures

ASSUME DepthAssumption == RootDepth \in Nat /\ Depth \in Nat /\ RootDepth <= Depth
ASSUME BoundAssumption == MaxWrites \in Nat /\ MaxFaults \in Nat /\ MaxFailures \in Nat

VARIABLES
  pc, depth,   \* a command, and the directory it is at
  \* Directories 1..made exist; the entries of those in synced are on disk
  made, synced,
  \* .state.lock: its inode, and what each process has open and has locked
  lockFile, opened, locked,
  \* The temporary file of each command, and the names of those nobody will remove
  temp, left,
  \* The file, and what its name may stand for after a power failure
  file, onDisk,
  writes,      \* write_bytes calls so far: the last value
  acked,       \* the newest value a write_bytes that succeeded has stored
  reader,      \* a read_json without the lock
  faults,      \* commands cut short so far
  failures     \* power failures so far

dirs    == <<made, synced>>
locks   == <<lockFile, opened, locked>>
content == <<file, onDisk, acked>>
vars    == <<pc, depth, dirs, locks, temp, left, content, writes, reader, faults,
             failures>>

\* A file: the number of its value, whether all of it is there and on disk.
File == [value : Nat, whole : BOOLEAN, synced : BOOLEAN]

ASSUME NoneAssumption == None \notin Inode \cup File

\* A reader: the newest value stored when it checked, and what it read.
Reader == [pc : {"idle", "checked"}, since : Nat, result : File \cup {None}]

Labels == {"idle", "ensure", "syncRoot", "open", "flock", "ready",
           "parents", "syncParent", "create", "fill", "sync", "rename", "syncDir"}

TypeOK ==
  /\ pc \in [Proc -> Labels]
  /\ depth \in [Proc -> 0..Depth]
  /\ made \in 0..Depth
  /\ synced \subseteq 1..made
  /\ lockFile \in Inode \cup {None}
  /\ opened \in [Proc -> Inode \cup {None}]
  /\ locked \in [Proc -> Inode \cup {None}]
  /\ temp \in [Proc -> File \cup {None}]
  /\ left \subseteq Nat
  /\ file \in File \cup {None}
  /\ onDisk \subseteq File \cup {None}
  /\ writes \in Nat
  /\ acked \in Nat
  /\ reader \in Reader
  /\ faults \in Nat
  /\ failures \in Nat

Init ==
  /\ pc = [p \in Proc |-> "idle"]
  /\ depth = [p \in Proc |-> 0]
  /\ made = 0
  /\ synced = {}
  /\ lockFile = None
  /\ opened = [p \in Proc |-> None]
  /\ locked = [p \in Proc |-> None]
  /\ temp = [p \in Proc |-> None]
  /\ left = {}
  /\ file = None
  /\ onDisk = {None}
  /\ writes = 0
  /\ acked = 0
  /\ reader = [pc |-> "idle", since |-> 0, result |-> None]
  /\ faults = 0
  /\ failures = 0

Goto(p, from, to) ==
  /\ pc[p] = from
  /\ pc' = [pc EXCEPT ![p] = to]

-----------------------------------------------------------------------------
(* check_directories, down to a depth *)

Walk(p, from, to) ==
  /\ Goto(p, from, to)
  /\ depth' = [depth EXCEPT ![p] = 0]

\* The directory exists: nothing more is done about it.
PassDirectory(p, at, deepest) ==
  /\ pc[p] = at
  /\ depth[p] < deepest
  /\ depth[p] < made
  /\ depth' = [depth EXCEPT ![p] = @ + 1]
  /\ UNCHANGED <<pc, dirs, locks, temp, left, content, writes, reader, faults,
                 failures>>

MakeDirectory(p, at, deepest, sync) ==
  /\ Goto(p, at, sync)
  /\ depth[p] < deepest
  /\ depth[p] = made
  /\ made' = made + 1
  /\ UNCHANGED <<depth, synced, locks, temp, left, content, writes, reader, faults,
                 failures>>

SyncParent(p, sync, back) ==
  /\ Goto(p, sync, back)
  /\ depth' = [depth EXCEPT ![p] = @ + 1]
  /\ synced' = synced \cup {depth[p] + 1}
  /\ UNCHANGED <<made, locks, temp, left, content, writes, reader, faults, failures>>

-----------------------------------------------------------------------------
(* try_lock *)

Start(p) ==
  /\ Walk(p, "idle", "ensure")
  /\ UNCHANGED <<dirs, locks, temp, left, content, writes, reader, faults, failures>>

EnsureRoot(p) ==
  \/ PassDirectory(p, "ensure", RootDepth)
  \/ MakeDirectory(p, "ensure", RootDepth, "syncRoot")
  \/ SyncParent(p, "syncRoot", "ensure")

RootEnsured(p) ==
  /\ Goto(p, "ensure", "open")
  /\ depth[p] = RootDepth
  /\ UNCHANGED <<depth, dirs, locks, temp, left, content, writes, reader, faults,
                 failures>>

\* The lock file is opened, or created with an inode that nobody uses.
OpenLock(p) ==
  /\ Goto(p, "open", "flock")
  /\ \E i \in Inode :
       /\ IF lockFile = None THEN \A q \in Proc : opened[q] # i ELSE i = lockFile
       /\ lockFile' = i
       /\ opened' = [opened EXCEPT ![p] = i]
  /\ UNCHANGED <<depth, dirs, locked, temp, left, content, writes, reader, faults,
                 failures>>

Flock(p) ==
  /\ Goto(p, "flock", "ready")
  /\ \A q \in Proc : locked[q] # opened[p]
  /\ locked' = [locked EXCEPT ![p] = opened[p]]
  /\ UNCHANGED <<depth, dirs, lockFile, opened, temp, left, content, writes,
                 reader, faults, failures>>

\* The command is over, and its files closed: the kernel drops its lock.
Close(p) ==
  /\ pc' = [pc EXCEPT ![p] = "idle"]
  /\ depth' = [depth EXCEPT ![p] = 0]
  /\ opened' = [opened EXCEPT ![p] = None]
  /\ locked' = [locked EXCEPT ![p] = None]
  /\ temp' = [temp EXCEPT ![p] = None]

\* "state directory is busy"
Busy(p) ==
  /\ pc[p] = "flock"
  /\ \E q \in Proc : locked[q] = opened[p]
  /\ Close(p)
  /\ UNCHANGED <<dirs, lockFile, left, content, writes, reader, faults, failures>>

\* Mutant: the guard deletes the lock file when it is dropped.
UnlinkAndFinish(p) ==
  /\ pc[p] = "ready"
  /\ Close(p)
  /\ lockFile' = None
  /\ UNCHANGED <<dirs, left, content, writes, reader, faults, failures>>

\* The lock file deliberately remains in place.
Finish(p) ==
  /\ pc[p] = "ready"
  /\ Close(p)
  /\ UNCHANGED <<dirs, lockFile, left, content, writes, reader, faults, failures>>

-----------------------------------------------------------------------------
(* write_bytes *)

\* Whoever is cut short asks again.
Wanted == MaxWrites + faults + failures

StartWrite(p) ==
  /\ writes < Wanted
  /\ Walk(p, "ready", "parents")
  /\ UNCHANGED <<dirs, locks, temp, left, content, writes, reader, faults, failures>>

EnsureParents(p) ==
  \/ PassDirectory(p, "parents", Depth)
  \/ MakeDirectory(p, "parents", Depth, "syncParent")
  \/ SyncParent(p, "syncParent", "parents")

ParentsEnsured(p) ==
  /\ Goto(p, "parents", "create")
  /\ depth[p] = Depth
  /\ UNCHANGED <<depth, dirs, locks, temp, left, content, writes, reader, faults,
                 failures>>

\* Mutant: one name for all.
FixedName(n) == 0

\* The name of the n-th temporary file has a fresh UUID.
TempName(n) == n

Temporary(p) == IF temp[p] = None THEN {} ELSE {TempName(temp[p].value)}

Temporaries == left \cup UNION {Temporary(p) : p \in Proc}

\* Mutant: the file itself is opened, truncated and written.
WriteInPlace(p) ==
  /\ Goto(p, "create", "fill")
  /\ writes' = writes + 1
  /\ temp' = [temp EXCEPT ![p] = [value |-> writes', whole |-> FALSE,
                                  synced |-> FALSE]]
  /\ file' = temp'[p]
  /\ onDisk' = onDisk \cup {file'}
  /\ UNCHANGED <<depth, dirs, locks, left, acked, reader, faults, failures>>

\* create_new: there must be no file of this name.
CreateTemporary(p) ==
  /\ Goto(p, "create", "fill")
  /\ TempName(writes + 1) \notin Temporaries
  /\ writes' = writes + 1
  /\ temp' = [temp EXCEPT ![p] = [value |-> writes', whole |-> FALSE,
                                  synced |-> FALSE]]
  /\ UNCHANGED <<depth, dirs, locks, left, content, reader, faults, failures>>

WriteAll(p) ==
  /\ Goto(p, "fill", "sync")
  /\ temp' = [temp EXCEPT ![p].whole = TRUE]
  /\ UNCHANGED <<depth, dirs, locks, left, content, writes, reader, faults, failures>>

SyncAll(p) ==
  /\ Goto(p, "sync", "rename")
  /\ temp' = [temp EXCEPT ![p].synced = TRUE]
  /\ UNCHANGED <<depth, dirs, locks, left, content, writes, reader, faults, failures>>

Rename(p) ==
  /\ Goto(p, "rename", "syncDir")
  /\ file' = temp[p]
  /\ onDisk' = onDisk \cup {file'}
  /\ temp' = [temp EXCEPT ![p] = None]
  /\ UNCHANGED <<depth, dirs, locks, left, acked, writes, reader, faults, failures>>

\* Mutant: the call returns without syncing the directory.
ReturnUnsynced(p) ==
  /\ Goto(p, "syncDir", "ready")
  /\ acked' = file.value
  /\ UNCHANGED <<depth, dirs, locks, temp, left, file, onDisk, writes, reader,
                 faults, failures>>

SyncDirectory(p) ==
  /\ Goto(p, "syncDir", "ready")
  /\ onDisk' = {file}
  /\ acked' = file.value
  /\ UNCHANGED <<depth, dirs, locks, temp, left, file, writes, reader, faults,
                 failures>>

-----------------------------------------------------------------------------
(* Failure *)

\* A call fails and the command with it, or it is killed.  TemporaryFile is dropped and
\* removes the temporary file, unless that fails, too, or the process is no more.
Fail(p) ==
  /\ faults < MaxFaults
  /\ faults' = faults + 1
  /\ pc[p] \notin {"idle", "ready"}
  /\ left' \in {left, left \cup Temporary(p)}
  /\ Close(p)
  /\ UNCHANGED <<dirs, lockFile, content, writes, reader, failures>>

\* A file whose contents were not synced may have lost some of them.
Kept(f) ==
  IF f = None \/ f.synced THEN {f}
  ELSE {[f EXCEPT !.whole = w, !.synced = TRUE] : w \in {FALSE, f.whole}}

\* What a read after a power failure may find.
MayRemain ==
  (UNION {Kept(f) : f \in onDisk}) \cup (IF synced = 1..Depth THEN {} ELSE {None})

\* The path of directories ends at one whose entry had not reached the disk.
\* Any of the temporary files may still be there.
PowerFailure ==
  /\ failures < MaxFailures
  /\ failures' = failures + 1
  /\ made' \in 0..made
  /\ made' + 1 \notin synced
  /\ synced' = 1..made'
  /\ IF made' < Depth THEN file' = None
                      ELSE file' \in UNION {Kept(f) : f \in onDisk}
  /\ onDisk' = {file'}
  /\ acked' = IF file' = None THEN 0 ELSE file'.value
  /\ lockFile' \in IF made' < RootDepth THEN {None} ELSE {lockFile, None}
  /\ left' \in IF made' < Depth THEN {{}} ELSE SUBSET Temporaries
  /\ pc' = [p \in Proc |-> "idle"]
  /\ depth' = [p \in Proc |-> 0]
  /\ opened' = [p \in Proc |-> None]
  /\ locked' = [p \in Proc |-> None]
  /\ temp' = [p \in Proc |-> None]
  /\ reader' = [pc |-> "idle", since |-> 0, result |-> file']
  /\ UNCHANGED <<writes, faults>>

-----------------------------------------------------------------------------
(* read_json, without the lock *)

\* check_directories and check_file: the file is there.
CheckFile ==
  /\ reader.pc = "idle"
  /\ file # None
  /\ reader' = [reader EXCEPT !.pc = "checked", !.since = acked]
  /\ UNCHANGED <<pc, depth, dirs, locks, temp, left, content, writes, faults,
                 failures>>

\* The file is opened by name and read to its end, which a later rename does
\* not disturb.
ReadFile ==
  /\ reader.pc = "checked"
  /\ reader' = [reader EXCEPT !.pc = "idle", !.result = file]
  /\ UNCHANGED <<pc, depth, dirs, locks, temp, left, content, writes, faults,
                 failures>>

-----------------------------------------------------------------------------

Command(p) ==
  \/ Start(p) \/ EnsureRoot(p) \/ RootEnsured(p) \/ OpenLock(p) \/ Flock(p) \/ Busy(p)
  \/ StartWrite(p) \/ EnsureParents(p) \/ ParentsEnsured(p) \/ CreateTemporary(p)
  \/ WriteAll(p) \/ SyncAll(p) \/ Rename(p) \/ SyncDirectory(p) \/ Finish(p)

Next ==
  \/ \E p \in Proc : Command(p) \/ Fail(p)
  \/ PowerFailure
  \/ CheckFile
  \/ ReadFile

Spec == Init /\ [][Next]_vars

\* The user runs commands again and again, and not all of those that get the lock end
\* without writing.  What has been started goes on by itself; it fails only so often.
Fairness ==
  /\ \A p \in Proc : WF_vars(Command(p))
  /\ SF_vars(\E p \in Proc : StartWrite(p))

FairSpec == Spec /\ Fairness

-----------------------------------------------------------------------------
(* Properties *)

\* "Exclusive advisory lock": at most one process holds a guard at a time, also
\* when commands race to create the directory and the lock file.
OneGuard == \A p, q \in Proc : locked[p] # None /\ locked[q] # None => p = q

\* A read without the lock finds the file that was there when it checked or a
\* later one, all of it, and nothing older than what had been saved by then.
ReadsLatest ==
  reader.pc = "idle" =>
    \/ reader.result = None /\ reader.since = 0
    \/ /\ reader.result # None
       /\ reader.result.whole
       /\ reader.result.value >= reader.since

\* Half of a value is never found under the name of the file, whatever fails.
NothingTorn == \A f \in MayRemain \cup {file} : f # None => f.whole

\* A power failure brings back the newest value that a write_bytes had reported
\* as stored, or a later one ("Persist the rename as well as the file before
\* callers send a join"), if the directories above are on disk.
SavedRemains == acked > 0 => \A f \in MayRemain : f # None /\ f.value >= acked

SavedSurvives == synced = 1..Depth => SavedRemains

\* It does so whatever happened to the command that made the directories: "Flush
\* each new directory's entry in its parent before going deeper, so a nested
\* initial save survives a system crash" (check_directories).  False: a command
\* that ends between making a directory and flushing its entry leaves it to a
\* later command, which finds the directory there and passes it by.
NestedSaveSurvives == SavedRemains

\* Whatever commands have left behind, a lock file, some of the directories, temporary
\* files, and whoever else is under way: the writes that are asked for, and once more for
\* each that was cut short, end with the last value stored.  No leftover keeps a later
\* command from the lock or from writing (state.rs:104, 158).
EventuallySaved == <>[](acked = Wanted)

\* What a command relies on is AtomicFile.
Held(f) == IF f = None \/ ~f.whole THEN 0 ELSE f.value

Abs == INSTANCE AtomicFile WITH
  value  <- Held(file),
  stable <- IF synced = 1..Depth THEN acked ELSE 0

ImplementsAtomicFile == Abs!Spec
=============================================================================
