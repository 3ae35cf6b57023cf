----------------------------- MODULE RecordSync -----------------------------
(***************************************************************************)
(* Reading and changing Safari's CloudKit records: a paged fetch of one    *)
(* dataset, plans prepared from the saved copy of it, and the commands     *)
(* that apply a plan (fetch again, compare, send once, fetch back).        *)
(*                                                                         *)
(* Other devices write the same records between any two requests; answers  *)
(* get lost; the service may acknowledge a change it resolved otherwise,   *)
(* or answer a page request with nonsense; a command may be cut short at   *)
(* any point, and a plan may be applied again.                             *)
(*                                                                         *)
(* A record is its change tag and the plan whose ciphertext it holds (0    *)
(* for one written by another device): the encryption is randomised, so no *)
(* two plans and no other device produce the same bytes.                   *)
(***************************************************************************)
EXTENDS Naturals, FiniteSets

CONSTANTS
  Name,       \* record names
  None,       \* no record, no plan
  MaxPages,   \* pages of one fetch (1000 in the code)
  MaxChanges, \* bound: changes the server makes to records and the zone
  MaxPlans    \* bound: plans the user prepares

ASSUME BoundAssumption == MaxPages \in Nat /\ MaxChanges \in Nat /\ MaxPlans \in Nat

VARIABLES
  \* The server
  store,      \* the records
  removed,    \* when a record was last deleted
  zoneTag,    \* protection tag of the zone
  changes,    \* number of changes so far; each change tag is one of these
  \* The state directory
  cache,      \* safari-cloudkit/<dataset>.json, or None
  plan,       \* the plan file that the user applies, or None
  plans,      \* number of plans prepared so far
  \* The running command
  pc,
  cursor, tokens, pages,        \* its fetch: where it is,
  got, gotZone,                 \* the records and the zone's tag collected
  outcome,    \* what the last command to end has printed
  \* History
  during,     \* what each name stood for at some time since the fetch began
  applied     \* how often the server has carried each plan out

server  == <<store, removed, zoneTag, changes>>
files   == <<cache, plan, plans>>
paging  == <<cursor, tokens, pages, got, gotZone>>
history == <<during, applied>>
vars    == <<server, files, pc, paging, outcome, history>>

Record   == [tag : Nat, by : 0..MaxPlans]
Snapshot == [Name -> Record \cup {None}]
Cache    == [records : Snapshot, zoneTag : Nat]
Plan     == [kind : {"update", "delete", "create"}, name : Name, id : 1..MaxPlans,
             source : Record \cup {None}, zoneTag : Nat]

ASSUME NoneAssumption == None \notin Name \cup Record \cup Cache \cup Plan

Fetching == {"fetch", "refetch", "source", "readback"}
Labels   == Fetching \cup {"idle", "prepare", "compare", "send", "verify"}

TypeOK ==
  /\ store \in Snapshot
  /\ removed \in [Name -> Nat]
  /\ zoneTag \in Nat
  /\ changes \in Nat
  /\ cache \in Cache \cup {None}
  /\ plan \in Plan \cup {None}
  /\ plans \in Nat
  /\ pc \in Labels
  /\ cursor \in Nat
  /\ tokens \subseteq Nat
  /\ pages \in 0..MaxPages
  /\ got \in Snapshot
  /\ gotZone \in Nat
  /\ outcome \in {"none", "fetched", "updated", "deleted", "created"}
  /\ during \in [Name -> SUBSET (Record \cup {None})]
  /\ applied \in [1..MaxPlans -> Nat]

Empty == [n \in Name |-> None]

Init ==
  /\ store = Empty
  /\ removed = [n \in Name |-> 0]
  /\ zoneTag = 0
  /\ changes = 0
  /\ cache = None
  /\ plan = None
  /\ plans = 0
  /\ pc = "idle"
  /\ cursor = 0
  /\ tokens = {}
  /\ pages = 0
  /\ got = Empty
  /\ gotZone = 0
  /\ outcome = "none"
  /\ during = [n \in Name |-> {}]
  /\ applied = [id \in 1..MaxPlans |-> 0]

-----------------------------------------------------------------------------
(* The server *)

Stores(n, r) ==
  /\ changes' = changes + 1
  /\ store' = [store EXCEPT ![n] = r]
  /\ removed' = [removed EXCEPT ![n] = IF r = None THEN changes' ELSE @]
  /\ during' = [during EXCEPT ![n] = @ \cup {r}]
  /\ UNCHANGED zoneTag

MayChange == changes < MaxChanges

OthersWrite(n) ==
  /\ MayChange
  /\ Stores(n, [tag |-> changes + 1, by |-> 0])
  /\ UNCHANGED <<files, pc, paging, outcome, applied>>

OthersDelete(n) ==
  /\ MayChange
  /\ store[n] # None
  /\ Stores(n, None)
  /\ UNCHANGED <<files, pc, paging, outcome, applied>>

RotateZone ==
  /\ MayChange
  /\ changes' = changes + 1
  /\ zoneTag' = changes'
  /\ UNCHANGED <<store, removed, files, pc, paging, outcome, history>>

\* When a name last changed.
Changed(n) == IF store[n] = None THEN removed[n] ELSE store[n].tag

Pending == {n \in Name : Changed(n) > cursor}

\* The next page holds the change that comes next; a deletion is a change
\* without a record.  The service may get status and token of a page wrong.
Page == [name : Name \cup {None}, status : {0, 1, 3}, token : Nat]

Oldest == {n \in Pending : \A m \in Pending : Changed(n) <= Changed(m)}

PagesOf(n) ==
  {[name |-> n, status |-> IF Pending = {n} THEN 3 ELSE 1, token |-> Changed(n)]}
    \cup [name : {n}, status : {0, 1}, token : {0, cursor, Changed(n)}]

Pages ==
  IF Pending = {} THEN {[name |-> None, status |-> 3, token |-> cursor]}
                  ELSE UNION {PagesOf(n) : n \in Oldest}

-----------------------------------------------------------------------------
(* Client::fetch *)

StartFetch(from, to) ==
  /\ pc = from
  /\ pc' = to
  /\ cursor' = 0
  /\ tokens' = {}
  /\ pages' = 0
  /\ got' = Empty
  /\ gotZone' = 0
  /\ during' = [n \in Name |-> {store[n]}]

\* A record that is fetched twice is found by its first copy; the change of a
\* deleted one carries nothing.
Collected(page) ==
  IF page.name = None \/ store[page.name] = None THEN got
  ELSE [got EXCEPT ![page.name] = IF @ = None THEN store[page.name] ELSE @]

\* The zone's tag is that of the first page.
Receive(page) ==
  /\ got' = Collected(page)
  /\ gotZone' = IF pages = 0 THEN zoneTag ELSE gotZone

\* Mutant: only an explicit continuation is asked for; all else ends the fetch.
LastUnlessMore(page) == page.status # 1

Last(page) == page.status = 3

More(page) == page.status = 1 /\ page.token # 0 /\ page.token \notin tokens

\* The next request is made only within the limit.
WithinLimit == pages + 1 < MaxPages

Continue ==
  /\ pc \in Fetching
  /\ WithinLimit
  /\ \E page \in Pages :
       /\ More(page)
       /\ tokens' = tokens \cup {page.token}
       /\ cursor' = page.token
       /\ Receive(page)
  /\ pages' = pages + 1
  /\ UNCHANGED <<server, files, pc, outcome, history>>

\* The last page; `next` is what is done with the snapshot.
Complete(from, next) ==
  /\ pc = from
  /\ \E page \in Pages :
       /\ Last(page)
       /\ Receive(page)
  /\ pc' = next
  /\ UNCHANGED <<cursor, tokens, pages>>

Fetch ==
  /\ StartFetch("idle", "fetch")
  /\ outcome' = "none"
  /\ UNCHANGED <<server, files, applied>>

SaveFetched ==
  /\ Complete("fetch", "idle")
  /\ cache' = [records |-> got', zoneTag |-> gotZone']
  /\ outcome' = "fetched"
  /\ UNCHANGED <<server, plan, plans, history>>

-----------------------------------------------------------------------------
(* Plans, prepared offline from the saved dataset *)

Prepare(kind, n) ==
  /\ plans < MaxPlans
  /\ plans' = plans + 1
  /\ plan' = [kind |-> kind, name |-> n, id |-> plans', zoneTag |-> cache.zoneTag,
              source |-> cache.records[n]]

PrepareUpdate(n) ==
  /\ pc = "idle"
  /\ cache # None
  /\ cache.records[n] # None
  /\ Prepare("update", n)
  /\ outcome' = "none"
  /\ UNCHANGED <<server, cache, pc, paging, history>>

PrepareDelete(n) ==
  /\ pc = "idle"
  /\ cache # None
  /\ cache.records[n] # None
  /\ Prepare("delete", n)
  /\ outcome' = "none"
  /\ UNCHANGED <<server, cache, pc, paging, history>>

\* `write create` fetches first, prepares and applies in one command; the name
\* of the new record is one that no record has had.
StartCreate ==
  /\ StartFetch("idle", "refetch")
  /\ outcome' = "none"
  /\ UNCHANGED <<server, files, applied>>

SaveRefetched ==
  /\ Complete("refetch", "prepare")
  /\ cache' = [records |-> got', zoneTag |-> gotZone']
  /\ UNCHANGED <<server, plan, plans, outcome, history>>

NewName(n) == removed[n] = 0 /\ store[n] = None

PrepareCreate(n) ==
  /\ NewName(n)
  /\ StartFetch("prepare", "source")
  /\ Prepare("create", n)
  /\ UNCHANGED <<server, cache, outcome, applied>>

-----------------------------------------------------------------------------
(* apply_prepared_update, apply_prepared_delete, apply_prepared_create *)

\* Also for a plan that has been applied before.
Apply ==
  /\ plan # None
  /\ plan.kind # "create"
  /\ StartFetch("idle", "source")
  /\ outcome' = "none"
  /\ UNCHANGED <<server, files, applied>>

FetchSource ==
  /\ Complete("source", "compare")
  /\ UNCHANGED <<server, files, outcome, history>>

\* The record is there, or is not, as the plan wants it.
Present == got[plan.name] = None <=> plan.kind = "create"

Unchanged ==
  /\ got[plan.name] = plan.source
  /\ plan.kind = "create" => gotZone = plan.zoneTag

\* Mutant: a plan whose record has moved on is silently prepared again.
CompareAndRebase ==
  /\ pc = "compare"
  /\ Present
  /\ plan' = [plan EXCEPT !.source = got[plan.name]]
  /\ pc' = "send"
  /\ UNCHANGED <<server, cache, plans, paging, outcome, history>>

Compare ==
  /\ pc = "compare"
  /\ Unchanged
  /\ pc' = "send"
  /\ UNCHANGED <<server, files, paging, outcome, history>>

\* Mutant: SaveSemantics::Override, a delete without the fetched etag.
Override == TRUE

\* FailIfOutdated and the etag; FailIfExists and the zone's tag.
Matches ==
  /\ store[plan.name] = plan.source
  /\ plan.kind = "create" => zoneTag = plan.zoneTag

Planned ==
  IF plan.kind = "delete" THEN None ELSE [tag |-> changes + 1, by |-> plan.id]

\* The server carries the plan out; the answer arrives, or it is lost.
CarryOut(next) ==
  /\ pc = "send"
  /\ Matches
  /\ Stores(plan.name, Planned)
  /\ applied' = [applied EXCEPT ![plan.id] = @ + 1]
  /\ pc' = next
  /\ UNCHANGED <<files, paging, outcome>>

Send == CarryOut("verify") \/ CarryOut("idle")

\* An answer that says yes where the service did something else.
Acknowledge ==
  /\ pc = "send"
  /\ pc' = "verify"
  /\ UNCHANGED <<server, files, paging, outcome, history>>

FetchBack ==
  /\ StartFetch("verify", "readback")
  /\ UNCHANGED <<server, files, outcome, applied>>

\* Mutant: a changed etag is taken for the requested edit.
TagChanged(snapshot) ==
  LET r == snapshot[plan.name]
  IN  IF plan.kind = "delete" THEN r = None
      ELSE r # None /\ (plan.kind = "update" => r.tag # plan.source.tag)

\* validate_applied_record and its like: the record has a new etag and holds the
\* ciphertext that was sent, or is absent after a delete.
Applied(snapshot) ==
  LET r == snapshot[plan.name]
  IN  IF plan.kind = "delete" THEN r = None
      ELSE /\ r # None
           /\ r.by = plan.id
           /\ plan.kind = "update" => r.tag # plan.source.tag

Printed == [update |-> "updated", delete |-> "deleted", create |-> "created"]

\* The snapshot is saved before the outcome is printed.
Verify ==
  /\ Complete("readback", "idle")
  /\ Applied(got')
  /\ cache' = [records |-> got', zoneTag |-> gotZone']
  /\ outcome' \in {Printed[plan.kind], "none"}
  /\ UNCHANGED <<server, plan, plans, history>>

\* A check fails, a request fails, a page is refused, or the command is cut
\* short: whatever it was doing, it ends with nothing saved and an error.
Fail ==
  /\ pc # "idle"
  /\ pc' = "idle"
  /\ UNCHANGED <<server, files, paging, outcome, history>>

-----------------------------------------------------------------------------

Next ==
  \/ \E n \in Name : \/ OthersWrite(n) \/ OthersDelete(n)
                     \/ PrepareUpdate(n) \/ PrepareDelete(n) \/ PrepareCreate(n)
  \/ RotateZone
  \/ Fetch \/ Continue \/ SaveFetched
  \/ StartCreate \/ SaveRefetched
  \/ Apply \/ FetchSource \/ Compare \/ Send \/ Acknowledge \/ FetchBack \/ Verify
  \/ Fail

Spec == Init /\ [][Next]_vars

-----------------------------------------------------------------------------
(* Properties *)

\* Nobody's change is lost: whatever the server does for this client, it does to
\* the very record, or absence, that the plan was prepared from, however much
\* other devices write between the preparation, the comparison and the request
\* (FailIfOutdated, FailIfExists and the etag; docs/KEYCHAIN-PASSWORDS.md:38).
NoLostUpdate ==
  [][applied' # applied =>
       /\ store[plan.name] = plan.source
       /\ \A n \in Name \ {plan.name} : store'[n] = store[n]]_vars

\* "updated and authenticated" is printed only when the server stored this very
\* plan: another device's write after the answer, or an acknowledgment without
\* the change, does not pass for it (write.rs:193).
UpdateConfirmed == outcome \in {"updated", "created"} => applied[plan.id] > 0

\* "deleted and confirmed absent" is printed only when the record was absent at
\* some time since the confirming fetch began, not because the page that holds
\* it is missing (cloudkit.rs:264).
DeleteConfirmed == outcome = "deleted" => None \in during[plan.name]

\* A saved dataset is complete: every record in it, and every one missing from
\* it, stood so on the server at some time since its fetch began.
SnapshotFaithful ==
  outcome \in {"fetched", "updated", "deleted", "created"} =>
    \A n \in Name : cache.records[n] \in during[n]

\* A plan is carried out once, however often it is applied: after a lost answer
\* the same plan meets its own result and is refused.
AppliedOnce == \A id \in 1..MaxPlans : applied[id] <= 1
=============================================================================
