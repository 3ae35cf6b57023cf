---------------------------- MODULE AnisetteSetup ---------------------------
(***************************************************************************)
(* Setting up the local Anisette provider (anisette.rs): unless both of    *)
(* Apple's libraries are in the state directory, download the Apple Music  *)
(* APK, extract the missing ones, and delete it.                           *)
(*                                                                         *)
(* The command may be cut short anywhere, and the power may fail: a name   *)
(* whose directory was not flushed may be gone then, and contents that     *)
(* were not flushed may be torn.  A later command starts over, when Apple  *)
(* may publish another version.  The lock of StateStore keeps commands     *)
(* apart.                                                                  *)
(***************************************************************************)
EXTENDS Naturals, FiniteSets

CONSTANTS
  Library,   \* libstoreservicescore.so and libCoreADI.so
  Version,   \* versions of the APK that Apple publishes
  None

ASSUME NoneAssumption == None \notin Version \cup Library

VARIABLES
  pc,        \* where the command is
  apk,       \* what its APK file holds
  source,    \* history: the version of that APK
  target,    \* the library it is extracting
  temporary, \* what the temporary file of that library holds
  library,   \* the libraries in the state directory
  origin,    \* history: the version each of them came from
  flushed,   \* libraries whose names would survive a power failure
  outcome    \* how the last command ended

vars == <<pc, apk, source, target, temporary, library, origin, flushed, outcome>>

\* partial: still being written; cut: ended early, unnoticed; written: whole, but
\* perhaps not on disk.
Contents == {"none", "partial", "cut", "written", "synced"}

TypeOK ==
  /\ pc \in {"idle", "open", "download", "extract", "copy", "rename", "clean up", "load"}
  /\ apk \in Contents
  /\ source \in Version \cup {None}
  /\ target \in Library \cup {None}
  /\ temporary \in {"none", "partial", "written", "synced"}
  /\ library \in [Library -> {"none", "torn", "written", "synced"}]
  /\ origin \in [Library -> Version \cup {None}]
  /\ flushed \subseteq Library
  /\ outcome \in {"none", "loaded", "failed"}

Init ==
  /\ pc = "idle"
  /\ apk = "none"
  /\ source = None
  /\ target = None
  /\ temporary = "none"
  /\ library = [l \in Library |-> "none"]
  /\ origin = [l \in Library |-> None]
  /\ flushed = {}
  /\ outcome = "none"

-----------------------------------------------------------------------------

Present(l) == library[l] # "none"

AllPresent == \A l \in Library : Present(l)

Open ==
  /\ pc = "idle"
  /\ pc' = IF AllPresent THEN "load" ELSE "open"
  /\ outcome' = "none"
  /\ UNCHANGED <<apk, source, target, temporary, library, origin, flushed>>

\* A new file under a new name.
CreateApk ==
  /\ pc = "open"
  /\ \E v \in Version : source' = v
  /\ apk' = "partial"
  /\ pc' = "download"
  /\ UNCHANGED <<target, temporary, library, origin, flushed, outcome>>

\* The connection may end early without an error; what was received is flushed.
Download ==
  /\ pc = "download"
  /\ apk' \in {"cut", "synced"}
  /\ pc' = "extract"
  /\ UNCHANGED <<source, target, temporary, library, origin, flushed, outcome>>

Fails ==
  /\ outcome' = "failed"
  /\ pc' = "idle"

\* The download fails or grows too large: its file is removed.
DownloadFails ==
  /\ pc = "download"
  /\ apk' = "none"
  /\ source' = None
  /\ Fails
  /\ UNCHANGED <<target, temporary, library, origin, flushed>>

-----------------------------------------------------------------------------
(* extract_libraries *)

\* Mutant: they are extracted only if none is there.
NoneThere(l) == ~\E k \in Library : Present(k)

Missing(l) == ~Present(l)

\* The directory of an APK is at its end: one that was cut short has none.
Readable == apk = "synced"

CreateTemporary(l) ==
  /\ pc = "extract"
  /\ Readable
  /\ Missing(l)
  /\ target' = l
  /\ temporary' = "partial"
  /\ pc' = "copy"
  /\ UNCHANGED <<apk, source, library, origin, flushed, outcome>>

\* Mutant: the copy is renamed before it is on disk.
Written == "written"

Synced == "synced"

\* The copy is checked against its size and sum, and flushed.
Copy ==
  /\ pc = "copy"
  /\ temporary' = Synced
  /\ pc' = "rename"
  /\ UNCHANGED <<apk, source, target, library, origin, flushed, outcome>>

\* The directory is not flushed after it.
Rename ==
  /\ pc = "rename"
  /\ library' = [library EXCEPT ![target] = temporary]
  /\ origin' = [origin EXCEPT ![target] = source]
  /\ flushed' = flushed \ {target}
  /\ target' = None
  /\ temporary' = "none"
  /\ pc' = "extract"
  /\ UNCHANGED <<apk, source, outcome>>

\* The APK cannot be read, lacks a library, or a file operation fails; the temporary
\* file, if there is one, stays.
ExtractFails ==
  /\ pc \in {"extract", "copy", "rename"}
  /\ target' = None
  /\ temporary' = "none"
  /\ outcome' = "failed"
  /\ pc' = "clean up"
  /\ UNCHANGED <<apk, source, library, origin, flushed>>

Extracted ==
  /\ pc = "extract"
  /\ Readable
  /\ AllPresent
  /\ pc' = "clean up"
  /\ UNCHANGED <<apk, source, target, temporary, library, origin, flushed, outcome>>

\* The APK is deleted, whether or not the extraction worked.
CleanUp ==
  /\ pc = "clean up"
  /\ apk' = "none"
  /\ source' = None
  /\ IF outcome = "failed" THEN Fails ELSE pc' = "load" /\ UNCHANGED outcome
  /\ UNCHANGED <<target, temporary, library, origin, flushed>>

\* It cannot be deleted, which is an error even if the libraries are there.
CleanUpFails ==
  /\ pc = "clean up"
  /\ outcome # "failed"
  /\ apk' = "none"
  /\ source' = None
  /\ Fails
  /\ UNCHANGED <<target, temporary, library, origin, flushed>>

\* The provider opens the libraries.
Load ==
  /\ pc = "load"
  /\ outcome' = "loaded"
  /\ pc' = "idle"
  /\ UNCHANGED <<apk, source, target, temporary, library, origin, flushed>>

-----------------------------------------------------------------------------
(* The environment *)

\* The command ends in the middle; its two temporary files stay, but no other command
\* will ever use their names.
Abandon ==
  /\ pc' = "idle"
  /\ apk' = "none"
  /\ source' = None
  /\ target' = None
  /\ temporary' = "none"
  /\ outcome' = "none"

Kill ==
  /\ pc # "idle"
  /\ Abandon
  /\ UNCHANGED <<library, origin, flushed>>

\* The system writes a directory back in its own time.
Flush ==
  /\ \E l \in Library : Present(l) /\ l \notin flushed /\ flushed' = flushed \cup {l}
  /\ UNCHANGED <<pc, apk, source, target, temporary, library, origin, outcome>>

\* A name that is not on disk may be lost, and what is under it may be torn.
PowerFails ==
  /\ Abandon
  /\ \E lost \in SUBSET {l \in Library : Present(l) /\ l \notin flushed},
        torn \in SUBSET {l \in Library : library[l] = "written"} :
       /\ library' = [l \in Library |->
            IF l \in lost THEN "none" ELSE IF l \in torn THEN "torn" ELSE library[l]]
       /\ origin' = [l \in Library |-> IF l \in lost THEN None ELSE origin[l]]
       /\ flushed' = {l \in Library : library'[l] # "none"}

Step ==
  \/ Open \/ CreateApk \/ Download \/ \E l \in Library : CreateTemporary(l)
  \/ Copy \/ Rename \/ Extracted \/ CleanUp \/ Load

Trouble == DownloadFails \/ ExtractFails \/ CleanUpFails \/ Kill \/ PowerFails

Next == Step \/ Trouble \/ Flush

Spec == Init /\ [][Next]_vars

\* A command that cannot go on, since the APK is cut short, fails.
Fairness == WF_vars(Step) /\ WF_vars(ExtractFails) /\ SF_vars(Download /\ apk' = "synced")

FairSpec == Spec /\ Fairness

-----------------------------------------------------------------------------
(* Properties *)

\* Whatever is found under a library's name is the whole library of some APK,
\* whenever the command was cut short or the power failed: what is there is never
\* looked at again (anisette.rs:173, 275).
LibrariesAreWhole ==
  \A l \in Library :
    /\ library[l] \in {"none", "synced"}
    /\ Present(l) <=> origin[l] # None

\* Once failures end, the libraries get there, whatever is left of earlier commands
\* (anisette.rs:172).
EventuallyLoaded ==
  <>[][Trouble => ExtractFails /\ ~ENABLED Step]_vars => []<>(outcome = "loaded")
=============================================================================
