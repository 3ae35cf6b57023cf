------------------------------ MODULE ClassKeys -----------------------------
(***************************************************************************)
(* `keys recover`, and the part of it that every password command begins   *)
(* with: the TLKs shared with the saved identities (fetch_recoverable_keys *)
(* of keychain.rs), the class keys below them (Archive::recover_keys of    *)
(* ckks.rs), the items sealed under those (recover_items), and the PCS     *)
(* identities among them, saved one file after the other.                  *)
(*                                                                         *)
(* A command may be cut short anywhere and run again, when the service may *)
(* have changed what it holds.                                             *)
(***************************************************************************)
EXTENDS Naturals, Sequences, FiniteSets

CONSTANTS
  Peer, Secret,  \* peers, and their private keys
  Name,          \* names of keys, TLKs among them
  Identity,      \* PCS identities
  None,          \* an item that is no PCS identity
  Holdings,      \* bound: what the session and the service may hold,
  Later,         \*   and what they may hold when the command is run again
  MaxRuns        \* bound: runs of the command

\* Of an Octagon identity in the session: the own one, the sponsor's and earlier ones.
Candidate == [peer : Peer, secret : Secret]

\* A TLK share, whose wrapping the receiver's key opens only if it is sound.
Share == [receiver : Peer, tlk : Name, sound : BOOLEAN]

\* A class key wrapped under its parent, and an item likewise.
ClassKey == [name : Name, parent : Name, sound : BOOLEAN]
Item     == [parent : Name, identity : Identity \cup {None}, sound : BOOLEAN]

ASSUME HoldingsAssumption ==
  Holdings \cup Later \subseteq [candidates : Seq(Candidate), shares : SUBSET Share,
                      records : Seq(ClassKey), items : Seq(Item)]
ASSUME NoneAssumption == None \notin Identity
ASSUME BoundAssumption == MaxRuns \in Nat

VARIABLES
  holding,   \* what there is to recover from
  pc, runs,  \* where the command is, and how many there were
  index,     \* where it is in the identities, records or items
  progress,  \* whether this round over the records has unwrapped a key
  tlks, keys, \* names of the TLKs and of all keys unwrapped
  found,     \* the identities found in items
  files,     \* pcs-identities/
  before     \* history: the files when the command began

vars == <<holding, pc, runs, index, progress, tlks, keys, found, files, before>>

Labels == {"idle", "shares", "keys", "items", "save", "done", "error"}

TypeOK ==
  /\ holding \in Holdings \cup Later
  /\ pc \in Labels
  /\ runs \in 0..MaxRuns
  /\ index \in Nat \ {0}
  /\ progress \in BOOLEAN
  /\ tlks \subseteq Name
  /\ keys \subseteq Name
  /\ found \subseteq Identity
  /\ files \subseteq Identity
  /\ before \subseteq Identity

Init ==
  /\ holding \in Holdings
  /\ pc = "idle"
  /\ runs = 0
  /\ index = 1
  /\ progress = FALSE
  /\ tlks = {}
  /\ keys = {}
  /\ found = {}
  /\ files = {}
  /\ before = {}

-----------------------------------------------------------------------------

\* Ended, or not begun.
Resting == pc \in {"idle", "done", "error"}

\* Between runs, the service and the session may come to hold something else.
Start ==
  /\ Resting
  /\ runs < MaxRuns
  /\ runs' = runs + 1
  /\ holding' \in {holding} \cup (IF runs = 0 THEN {} ELSE Later)
  /\ pc' = "shares"
  /\ index' = 1
  /\ progress' = FALSE
  /\ tlks' = {}
  /\ keys' = {}
  /\ found' = {}
  /\ before' = files
  /\ UNCHANGED files

Fails ==
  /\ pc' = "error"
  /\ UNCHANGED <<holding, runs, index, progress, tlks, keys, found, files, before>>

Candidates == holding.candidates

\* The saved identities must not contradict each other; one that is named twice
\* is asked for once.
Consistent ==
  \A m, n \in DOMAIN Candidates :
    Candidates[m].peer = Candidates[n].peer => Candidates[m].secret = Candidates[n].secret

ForMe(share, n) == share.receiver = Candidates[n].peer /\ share.sound

\* One request per identity; shares that do not unwrap are passed by.
FetchShares ==
  /\ pc = "shares"
  /\ Consistent
  /\ index <= Len(Candidates)
  /\ tlks' = tlks \cup {s.tlk : s \in {t \in holding.shares : ForMe(t, index)}}
  /\ index' = index + 1
  /\ UNCHANGED <<holding, pc, runs, progress, keys, found, files, before>>

GoTo(label) ==
  /\ pc' = label
  /\ index' = 1
  /\ UNCHANGED <<holding, runs, tlks, found, files, before>>

SharesFetched ==
  /\ pc = "shares"
  /\ Consistent
  /\ index > Len(Candidates)
  /\ tlks # {}
  /\ GoTo("keys")
  /\ keys' = tlks
  /\ progress' = FALSE

NoKeys ==
  /\ pc = "shares"
  /\ ~Consistent \/ (index > Len(Candidates) /\ tlks = {})
  /\ Fails

-----------------------------------------------------------------------------
(* Archive::recover_keys *)

Records == holding.records

AtRecord == pc = "keys" /\ index <= Len(Records)

\* A key that is there already is not unwrapped again, whatever this record says.
Unwraps(r) == r.name \notin keys /\ r.parent \in keys

PassRecord ==
  /\ AtRecord
  /\ ~Unwraps(Records[index])
  /\ index' = index + 1
  /\ UNCHANGED <<holding, pc, runs, progress, tlks, keys, found, files, before>>

UnwrapRecord ==
  /\ AtRecord
  /\ Unwraps(Records[index])
  /\ Records[index].sound
  /\ keys' = keys \cup {Records[index].name}
  /\ progress' = TRUE
  /\ index' = index + 1
  /\ UNCHANGED <<holding, pc, runs, tlks, found, files, before>>

BrokenRecord ==
  /\ AtRecord
  /\ Unwraps(Records[index])
  /\ ~Records[index].sound
  /\ Fails

\* Mutant: one round over the records.
NoMore == TRUE

Stuck == ~progress

KeyRound ==
  /\ pc = "keys"
  /\ index > Len(Records)
  /\ GoTo(IF Stuck THEN "items" ELSE "keys")
  /\ progress' = FALSE
  /\ UNCHANGED keys

-----------------------------------------------------------------------------
(* Archive::recover_items, recover_pcs_identities *)

Items == holding.items

AtItem == pc = "items" /\ index <= Len(Items)

PassItem ==
  /\ AtItem
  /\ Items[index].parent \notin keys
  /\ index' = index + 1
  /\ UNCHANGED <<holding, pc, runs, progress, tlks, keys, found, files, before>>

IdentityIn(i) == {i.identity} \ {None}

\* Mutant: the data of an item is taken without authentication.
Believed(i) == TRUE

Authentic(i) == i.sound

OpenItem ==
  /\ AtItem
  /\ Items[index].parent \in keys
  /\ Authentic(Items[index])
  /\ found' = found \cup IdentityIn(Items[index])
  /\ index' = index + 1
  /\ UNCHANGED <<holding, pc, runs, progress, tlks, keys, files, before>>

\* One item that does not authenticate fails the whole archive.
BrokenItem ==
  /\ AtItem
  /\ Items[index].parent \in keys
  /\ ~Authentic(Items[index])
  /\ Fails

ItemsOpened ==
  /\ pc = "items"
  /\ index > Len(Items)
  /\ found # {}
  /\ GoTo("save")
  /\ UNCHANGED <<progress, keys>>

NothingFound ==
  /\ pc = "items"
  /\ index > Len(Items)
  /\ found = {}
  /\ Fails

-----------------------------------------------------------------------------
(* recover_safari_keys *)

\* A file is named after what is in it, and written atomically.
SavedWith(i) == files \cup {i}

Save ==
  /\ pc = "save"
  /\ \E i \in found \ files : files' = SavedWith(i)
  /\ UNCHANGED <<holding, pc, runs, index, progress, tlks, keys, found, before>>

SavedAll == found \subseteq files

Done ==
  /\ pc = "save"
  /\ SavedAll
  /\ pc' = "done"
  /\ UNCHANGED <<holding, runs, index, progress, tlks, keys, found, files, before>>

\* A request or a write fails, or the command is cut short.
Interrupt ==
  /\ ~Resting
  /\ Fails

Next ==
  \/ Start
  \/ FetchShares \/ SharesFetched \/ NoKeys
  \/ PassRecord \/ UnwrapRecord \/ BrokenRecord \/ KeyRound
  \/ PassItem \/ OpenItem \/ BrokenItem \/ ItemsOpened \/ NothingFound
  \/ Save \/ Done
  \/ Interrupt

Spec == Init /\ [][Next]_vars

-----------------------------------------------------------------------------
(* What can be recovered: definitions without an order *)

Mine == {s.tlk : s \in {t \in holding.shares :
           t.sound /\ \E n \in DOMAIN Candidates : Candidates[n].peer = t.receiver}}

Closed(s) ==
  /\ Mine \subseteq s
  /\ \A n \in DOMAIN Records : Records[n].parent \in s => Records[n].name \in s

Recoverable == {k \in Name : \A s \in SUBSET Name : Closed(s) => k \in s}

Contained ==
  {Items[n].identity : n \in {m \in DOMAIN Items : Items[m].parent \in Recoverable}} \ {None}

-----------------------------------------------------------------------------
(* Properties *)

\* Exactly the keys below the TLKs shared with a saved identity are used, in
\* whatever order the records came and however often one is repeated
\* (ckks.rs:46-77, keychain.rs:442-490).
KeysAreRecoverable ==
  /\ keys \subseteq Recoverable
  /\ pc \in {"items", "save", "done"} => keys = Recoverable

\* Success is all of it: every PCS identity that can be recovered has its file,
\* however often the command was cut short before (bin/icloud-safari.rs:831).
DoneIsComplete == pc = "done" => Contained # {} /\ Contained \subseteq files

\* The recovery is validated whole before a file is touched, and no file is lost
\* (bin/icloud-safari.rs:830): what a run adds are authenticated identities, and
\* none if any key or item within reach is unsound.
FilesAreAuthentic ==
  /\ before \subseteq files
  /\ files \ before \subseteq Contained
  /\ files # before =>
       \A n \in DOMAIN Items : Items[n].parent \in Recoverable => Items[n].sound
=============================================================================
