----------------------------- MODULE Passwords ------------------------------
(***************************************************************************)
(* The iCloud Keychain client of keychain.rs: list, create, update and     *)
(* delete login items of the Passwords zone.                               *)
(*                                                                         *)
(* A command first asks Cuttlefish for the TLKs shared with this peer,     *)
(* then fetches the zone page by page, and only then composes its request, *)
(* so keys, items and the pointer to the current class key may belong to   *)
(* different moments.  The zone's feed repeats an item that changes during *)
(* a fetch, and fetch_zones keeps every copy and passes deletions by.      *)
(*                                                                         *)
(* Other devices write items, add class keys, move the pointer and share   *)
(* TLKs at any time.  A request may be served after its command has gone,  *)
(* or never, and an answer may say yes to what was not done.               *)
(***************************************************************************)
EXTENDS Naturals, FiniteSets

CONSTANTS
  Item, Key, Tlk, \* items, class keys, top-level keys
  Secret,         \* passwords
  None,           \* no record
  MaxPages,       \* pages of one fetch (1000 in the code)
  MaxChanges,     \* bound: changes to the zone
  MaxCommands     \* bound: commands that change something

ASSUME BoundAssumption ==
  MaxPages \in Nat /\ MaxChanges \in Nat /\ MaxCommands \in Nat

VARIABLES
  \* The server
  items,     \* the items of the zone
  removed,   \* when an item was last deleted
  keys,      \* class keys, each wrapped under a TLK
  pointer,   \* the zone's currentkey record for class C
  changes,   \* number of changes so far; the tag of a record is one of these
  shares,    \* TLKs shared with this peer
  requests,  \* requests under way
  \* The running command
  pc, phase, \* what it does, and whether it fetches before or after its request
  op,        \* what was asked for
  commands,  \* number of commands that change something
  tlks,      \* TLKs it has unwrapped
  cursor, tokens, pages,      \* its fetch: where it is,
  gotItems, gotKeys, gotPointers, \* every record collected
  outcome, listed,            \* what the last command to end has printed
  \* History
  during,    \* what each item was at some time since the fetch began
  current    \* class keys the pointer named at some time since the command began

server  == <<items, removed, keys, pointer, changes, shares>>
paging  == <<cursor, tokens, pages, gotItems, gotKeys, gotPointers>>
printed == <<outcome, listed>>
history == <<during, current>>
vars == <<server, requests, pc, phase, op, commands, tlks, paging, printed, history>>

\* An item: its change tag, all its attributes but the password (as the number
\* of the change that set them), the password, and the key it is sealed under.
Version  == [tag : Nat, attrs : Nat, secret : Secret, key : Key]
ClassKey == [tag : Nat, tlk : Tlk]
Current  == [tag : Nat, key : Key]
Op       == [kind : {"list", "create", "update", "delete"}, item : Item, secret : Secret]
Request  == [kind : {"create", "update", "delete"}, id : 1..MaxCommands, item : Item,
             source : Version \cup {None}, \* history: the record it was composed from
             attrs : Nat, secret : Secret, key : Key \cup {None}]

ASSUME NoneAssumption == None \notin Item \cup Key \cup Version \cup ClassKey \cup Op

TypeOK ==
  /\ items \in [Item -> Version \cup {None}]
  /\ removed \in [Item -> Nat]
  /\ keys \in [Key -> ClassKey \cup {None}]
  /\ pointer \in Current
  /\ keys[pointer.key] # None
  /\ changes \in Nat
  /\ shares \subseteq Tlk
  /\ requests \subseteq Request
  /\ pc \in {"idle", "keys", "fetch", "compose", "wait"}
  /\ phase \in {"before", "after"}
  /\ op \in Op \cup {None}
  /\ commands \in 0..MaxCommands
  /\ tlks \subseteq Tlk
  /\ cursor \in Nat
  /\ tokens \subseteq Nat
  /\ pages \in 0..MaxPages
  /\ gotItems \in [Item -> SUBSET Version]
  /\ gotKeys \subseteq Key
  /\ gotPointers \subseteq Current
  /\ outcome \in {"none", "listed", "created", "updated", "deleted"}
  /\ listed \in [Item -> SUBSET Version]
  /\ during \in [Item -> SUBSET (Version \cup {None})]
  /\ current \subseteq Key

Nothing == [i \in Item |-> {}]

\* The zone as the first device has set it up: one class key, and the pointer.
Init ==
  /\ items = [i \in Item |-> None]
  /\ removed = [i \in Item |-> 0]
  /\ \E k \in Key, t \in Tlk :
       /\ keys = [j \in Key |-> IF j = k THEN [tag |-> 1, tlk |-> t] ELSE None]
       /\ pointer = [tag |-> 2, key |-> k]
       /\ shares \in {{}, {t}}
  /\ changes = 2
  /\ requests = {}
  /\ pc = "idle"
  /\ phase = "before"
  /\ op = None
  /\ commands = 0
  /\ tlks = {}
  /\ cursor = 0
  /\ tokens = {}
  /\ pages = 0
  /\ gotItems = Nothing
  /\ gotKeys = {}
  /\ gotPointers = {}
  /\ outcome = "none"
  /\ listed = Nothing
  /\ during = Nothing
  /\ current = {}

-----------------------------------------------------------------------------
(* The zone, and the other devices *)

client == <<requests, pc, phase, op, commands, tlks, paging, printed>>

MayChange == changes < MaxChanges

Stores(i, v) ==
  /\ changes' = changes + 1
  /\ items' = [items EXCEPT ![i] = v]
  /\ removed' = [removed EXCEPT ![i] = IF v = None THEN changes' ELSE @]
  /\ during' = [during EXCEPT ![i] = @ \cup {v}]
  /\ UNCHANGED <<keys, pointer, shares, current>>

\* Another device adds or edits an item; it seals under the current class key.
OthersWrite(i, s) ==
  /\ MayChange
  /\ Stores(i, [tag |-> changes + 1, attrs |-> changes + 1, secret |-> s, key |-> pointer.key])
  /\ UNCHANGED client

OthersDelete(i) ==
  /\ MayChange
  /\ items[i] # None
  /\ Stores(i, None)
  /\ UNCHANGED client

\* A class key is rotated in two records: the key, then the pointer to it.
AddKey(k, t) ==
  /\ MayChange
  /\ keys[k] = None
  /\ changes' = changes + 1
  /\ keys' = [keys EXCEPT ![k] = [tag |-> changes', tlk |-> t]]
  /\ UNCHANGED <<items, removed, pointer, shares, client, history>>

MovePointer(k) ==
  /\ MayChange
  /\ keys[k] # None
  /\ k # pointer.key
  /\ changes' = changes + 1
  /\ pointer' = [tag |-> changes', key |-> k]
  /\ current' = current \cup {k}
  /\ UNCHANGED <<items, removed, keys, shares, client, during>>

Share(t) ==
  /\ t \notin shares
  /\ shares' = shares \cup {t}
  /\ UNCHANGED <<items, removed, keys, pointer, changes, client, history>>

-----------------------------------------------------------------------------
(* Keys and pages *)

Writes == {"create", "update", "delete"}

\* delete_password needs no keys; all else fetches them first, each time.
FetchesFrom == IF op'.kind = "delete" THEN "fetch" ELSE "keys"

Start(o) ==
  /\ pc = "idle"
  /\ op' = o
  /\ pc' = FetchesFrom
  /\ phase' = "before"
  /\ cursor' = 0
  /\ tokens' = {}
  /\ pages' = 0
  /\ gotItems' = Nothing
  /\ gotKeys' = {}
  /\ gotPointers' = {}
  /\ tlks' = {}
  /\ outcome' = "none"
  /\ listed' = Nothing
  /\ during' = [i \in Item |-> {items[i]}]
  /\ current' = {pointer.key}
  /\ UNCHANGED <<server, requests>>

List ==
  /\ \E i \in Item, s \in Secret : Start([kind |-> "list", item |-> i, secret |-> s])
  /\ UNCHANGED commands

\* The name of a new item is a fresh UUID: no item ever had it.
FreshName(i) == items[i] = None /\ removed[i] = 0 /\ \A r \in requests : r.item # i

Change(kind, i, s) ==
  /\ commands < MaxCommands
  /\ kind = "create" => FreshName(i)
  /\ Start([kind |-> kind, item |-> i, secret |-> s])
  /\ commands' = commands + 1

\* The saved identities are asked for one after the other, and a share that does not
\* unwrap is passed by: some of the TLKs shared by the end are found, and one must be.
\* The class keys that come with the TLKs are in the zone, too, and are found there.
FetchKeys ==
  /\ pc = "keys"
  /\ \E some \in SUBSET shares : some # {} /\ tlks' = some
  /\ pc' = "fetch"
  /\ during' = [i \in Item |-> {items[i]}]
  /\ UNCHANGED <<server, requests, phase, op, commands, paging, printed, current>>

ChangedItem(i) == IF items[i] = None THEN removed[i] ELSE items[i].tag

\* The change numbers that are still behind the cursor.
Pending ==
  {n \in {ChangedItem(i) : i \in Item} \cup {keys[k].tag : k \in {k \in Key : keys[k] # None}}
           \cup {pointer.tag} : n > cursor}

\* A page holds the changes up to some number; the service may get its status and
\* token wrong, but says that it is the last one (3) only of the last one.
Page == [upto : Nat, status : {0, 1, 3}, token : Nat]

Pages ==
  {[upto |-> n, status |-> IF \E m \in Pending : m > n THEN 1 ELSE 3, token |-> n] :
     n \in Pending \cup {cursor}}
    \cup [upto : Pending \cup {cursor}, status : {0, 1}, token : {0, cursor}]

Within(page, n) == n > cursor /\ n <= page.upto

\* Every copy is kept; a deletion is a change without a record and is passed by.
Receive(page) ==
  /\ gotItems' = [i \in Item |->
       IF items[i] # None /\ Within(page, items[i].tag) THEN gotItems[i] \cup {items[i]}
       ELSE gotItems[i]]
  /\ gotKeys' = gotKeys \cup {k \in Key : keys[k] # None /\ Within(page, keys[k].tag)}
  /\ gotPointers' = gotPointers \cup (IF Within(page, pointer.tag) THEN {pointer} ELSE {})

\* Mutant: whatever does not promise another page ends the fetch.
LastUnlessMore(page) == page.status # 1

Last(page) == page.status = 3

More(page) == page.status = 1 /\ page.token # 0 /\ page.token \notin tokens

WithinLimit == pages + 1 < MaxPages

Continue ==
  /\ pc = "fetch"
  /\ WithinLimit
  /\ \E page \in Pages :
       /\ More(page)
       /\ tokens' = tokens \cup {page.token}
       /\ cursor' = page.token
       /\ Receive(page)
  /\ pages' = pages + 1
  /\ UNCHANGED <<server, requests, pc, phase, op, commands, tlks, printed, history>>

Complete(when, kinds, next) ==
  /\ pc = "fetch"
  /\ phase = when
  /\ op.kind \in kinds
  /\ \E page \in Pages : Last(page) /\ Receive(page)
  /\ pc' = next
  /\ UNCHANGED <<server, requests, phase, op, commands, tlks, cursor, tokens, pages, history>>

Material ==
  /\ Complete("before", Writes, "compose")
  /\ UNCHANGED printed

-----------------------------------------------------------------------------
(* What the archive yields *)

\* The class keys that unwrap under the TLKs at hand.
Recovered(found) == {k \in found : keys[k].tlk \in tlks}

\* Items under keys that were not recovered are passed by.
Readable(versions, found) == {v \in versions : v.key \in Recovered(found)}

\* Records come in the order of their changes, and the first one is taken.
First(records) == CHOOSE r \in records : \A s \in records : r.tag <= s.tag

\* Mutant: the item's newest copy is taken for the record to replace.
Newest(records) == CHOOSE r \in records : \A s \in records : s.tag <= r.tag

ListItems ==
  /\ Complete("before", {"list"}, "idle")
  /\ listed' = [i \in Item |-> Readable(gotItems'[i], gotKeys')]
  /\ outcome' = "listed"

-----------------------------------------------------------------------------
(* Requests *)

\* Mutant: the key the item has been sealed under will do.
OldKey ==
  LET mine == Readable(gotItems[op.item], gotKeys)
  IN  IF mine = {} THEN First(gotPointers).key ELSE First(mine).key

CurrentKey == First(gotPointers).key

Ask(r) ==
  /\ requests' = requests \cup {r}
  /\ pc' = "wait"
  /\ UNCHANGED <<server, phase, op, commands, tlks, paging, printed, history>>

\* What this client writes into a new item besides the password.
NewAttributes == 0

ComposeCreate ==
  /\ pc = "compose"
  /\ op.kind = "create"
  /\ gotPointers # {}
  /\ CurrentKey \in Recovered(gotKeys)
  /\ Ask([kind |-> "create", id |-> commands, item |-> op.item, source |-> None,
          attrs |-> NewAttributes, secret |-> op.secret, key |-> CurrentKey])

\* Mutant: the etag is that of the newest copy.
NewestSource(i) == Newest(gotItems[i])

\* The etag and the other fields are those of the record found first; the
\* attributes are those of the first one that could be read.
Source(i) == First(gotItems[i])

ComposeUpdate ==
  /\ pc = "compose"
  /\ op.kind = "update"
  /\ gotPointers # {}
  /\ CurrentKey \in Recovered(gotKeys)
  /\ Readable(gotItems[op.item], gotKeys) # {}
  /\ Ask([kind |-> "update", id |-> commands, item |-> op.item, source |-> Source(op.item),
          attrs |-> First(Readable(gotItems[op.item], gotKeys)).attrs,
          secret |-> op.secret, key |-> CurrentKey])

ComposeDelete ==
  /\ pc = "compose"
  /\ op.kind = "delete"
  /\ gotItems[op.item] # {}
  /\ Ask([kind |-> "delete", id |-> commands, item |-> op.item, source |-> Source(op.item),
          attrs |-> 0, secret |-> op.secret, key |-> None])

\* Mutant: an item that has only moved on is replaced.
MatchesName(r) == items[r.item] = None <=> r.source = None

\* FailIfExists, FailIfOutdated and the etag.
Matches(r) ==
  IF r.source = None THEN items[r.item] = None
  ELSE items[r.item] # None /\ items[r.item].tag = r.source.tag

Stored(r) ==
  IF r.kind = "delete" THEN None
  ELSE [tag |-> changes + 1, attrs |-> r.attrs, secret |-> r.secret, key |-> r.key]

\* The server carries a request out, whether or not its command still waits.
Serve(r) ==
  /\ r \in requests
  /\ Matches(r)
  /\ Stores(r.item, Stored(r))
  /\ requests' = requests \ {r}
  /\ UNCHANGED <<pc, phase, op, commands, tlks, paging, printed>>

\* It is refused, or lost.
Lose(r) ==
  /\ r \in requests
  /\ requests' = requests \ {r}
  /\ UNCHANGED <<server, pc, phase, op, commands, tlks, paging, printed, history>>

\* The answer says yes, truly or not: everything is fetched once more.
Answered ==
  /\ pc = "wait"
  /\ phase' = "after"
  /\ pc' = IF op.kind = "delete" THEN "fetch" ELSE "keys"
  /\ cursor' = 0
  /\ tokens' = {}
  /\ pages' = 0
  /\ gotItems' = Nothing
  /\ gotKeys' = {}
  /\ gotPointers' = {}
  /\ during' = [i \in Item |-> {items[i]}]
  /\ UNCHANGED <<server, requests, op, commands, tlks, printed, current>>

\* Mutant: an item of that name will do.
NamePresent(versions) == versions # {}

\* The new item must be read back with every field as it was sent.
ReadBackCreated(versions) ==
  \E v \in versions : v.attrs = NewAttributes /\ v.secret = op.secret

ReadBackUpdated(versions) == \E v \in versions : v.secret = op.secret

Confirm(kind, result) ==
  /\ Complete("after", {kind}, "idle")
  /\ outcome' = result
  /\ UNCHANGED listed

ConfirmCreate ==
  /\ Confirm("create", "created")
  /\ ReadBackCreated(Readable(gotItems'[op.item], gotKeys'))

ConfirmUpdate ==
  /\ Confirm("update", "updated")
  /\ ReadBackUpdated(Readable(gotItems'[op.item], gotKeys'))

ConfirmDelete ==
  /\ Confirm("delete", "deleted")
  /\ gotItems'[op.item] = {}

\* A check or a request fails, or the command is cut short; what it has asked for
\* may still be served.
Fail ==
  /\ pc # "idle"
  /\ pc' = "idle"
  /\ UNCHANGED <<server, requests, phase, op, commands, tlks, paging, printed, history>>

-----------------------------------------------------------------------------

Next ==
  \/ \E i \in Item, s \in Secret :
       OthersWrite(i, s) \/ \E kind \in Writes : Change(kind, i, s)
  \/ \E i \in Item : OthersDelete(i)
  \/ \E k \in Key : MovePointer(k) \/ \E t \in Tlk : AddKey(k, t)
  \/ \E t \in Tlk : Share(t)
  \/ List \/ FetchKeys \/ Continue \/ ListItems \/ Material
  \/ ComposeCreate \/ ComposeUpdate \/ ComposeDelete
  \/ \E r \in requests : Serve(r) \/ Lose(r)
  \/ Answered \/ ConfirmCreate \/ ConfirmUpdate \/ ConfirmDelete
  \/ Fail

Spec == Init /\ [][Next]_vars

-----------------------------------------------------------------------------
(* Properties *)

\* No other device's change is lost: the server replaces or removes, for this
\* client, only the very record that the request was composed from, and creates
\* only where nothing is, however late the request is served (keychain.rs:302).
NoLostUpdate ==
  [][\A r \in requests : Serve(r) => items[r.item] = r.source]_vars

\* An update changes the password and nothing else of what the server then
\* holds, although the attributes and the etag may come from two copies of the
\* item in one fetch (keychain.rs:267-282; docs/KEYCHAIN-PASSWORDS.md:38).
UpdateKeepsAttributes ==
  [][\A r \in requests :
       Serve(r) /\ r.kind = "update" => items'[r.item].attrs = items[r.item].attrs]_vars

\* A password is sealed under a class key that the zone's pointer named while the
\* command ran, and whose TLK this peer shares, whatever was rotated between the
\* fetch of the keys and that of the zone (keychain.rs:356-372).
SealedUnderCurrentKey ==
  [][\A r \in requests' \ requests :
       r.kind # "delete" => r.key \in current /\ keys[r.key].tlk \in shares]_vars

\* "created" and "updated" are printed only when the item was on the server with
\* that password at some time of the confirming fetch (keychain.rs:252, 310).
WriteConfirmed ==
  outcome \in {"created", "updated"} =>
    \E v \in during[op.item] : v # None /\ v.secret = op.secret

\* Everything listed was on the server at some time of the fetch; an item that is
\* missing was absent at some time, or is sealed under a key whose TLK was not among
\* those found before the fetch (keychain.rs:207).
ListFaithful ==
  outcome = "listed" =>
    \A i \in Item :
      /\ listed[i] \subseteq during[i]
      /\ listed[i] = {} => \E v \in during[i] : v = None \/ keys[v.key].tlk \notin tlks
=============================================================================
