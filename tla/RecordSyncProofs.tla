-------------------------- MODULE RecordSyncProofs --------------------------
(***************************************************************************)
(* Theorems of RecordSync.  The inductive invariant IInv says what a       *)
(* command has before it at each step (Phase), who wrote the records that  *)
(* are seen (Provenance), why a plan cannot be carried out again (Spent),  *)
(* that changes are numbered in their order (Timeline), and what a fetch   *)
(* has covered so far (Covered).                                           *)
(*                                                                         *)
(* At the end are theorems of what goes into its requests: of NewRecord,   *)
(* on the place and the fields of a new bookmark or tab, and of WireCodec, *)
(* on the reader and the writer of messages.                               *)
(***************************************************************************)
EXTENDS RecordSync, SequenceTheorems, FiniteSetTheorems, NaturalsInduction,
        WellFoundedInduction, TLAPS

Applying == {"source", "compare", "send", "verify", "readback"}

Phase ==
  /\ pc # "idle" => outcome = "none"
  /\ pc \in Applying => plan # None
  /\ outcome \in {"updated", "deleted", "created"} => plan # None
  /\ outcome # "none" \/ pc = "prepare" => cache # None

\* Whose ciphertext a record holds, that plan has been carried out.
Provenance ==
  \A n \in Name :
    \A r \in {store[n], got[n]} : r # None /\ r.by > 0 => applied[r.by] > 0

\* A plan that has been carried out meets another record than its own source, or
\* the command that made it is past its request; what any file remembers is older
\* than the next change.
Dated(r) == r # None => r.tag <= changes

Spent ==
  /\ \A id \in 1..MaxPlans : applied[id] > 0 => id <= plans
  /\ \A n \in Name : Dated(store[n]) /\ Dated(got[n]) /\ (cache # None => Dated(cache.records[n]))
  /\ plan # None =>
       /\ plan.id <= plans
       /\ Dated(plan.source)
       /\ plan.kind # "create" => plan.source # None
       /\ applied[plan.id] > 0 =>
            IF plan.kind = "create" THEN pc \notin {"source", "compare", "send"}
                                    ELSE store[plan.name] # plan.source

Timeline ==
  \A n \in Name :
    /\ Changed(n) <= changes
    /\ store[n] # None => store[n].tag > 0
    /\ \A m \in Name : m # n /\ Changed(n) > 0 => Changed(m) # Changed(n)

\* A name that the pages so far have not shown changes after the last of them,
\* or stood for no record at some time.
Seen(n) ==
  /\ store[n] \in during[n]
  /\ got[n] # None => got[n] \in during[n]
  /\ got[n] = None => Changed(n) > cursor \/ None \in during[n]

Covered ==
  /\ pc \in Fetching => (cursor = 0 \/ cursor \in tokens) /\ cursor <= changes
  /\ pc \in Fetching => \A n \in Name : Seen(n)

IInv == /\ TypeOK /\ Phase /\ Provenance /\ Spent /\ Timeline /\ Covered
        /\ UpdateConfirmed /\ DeleteConfirmed /\ SnapshotFaithful /\ AppliedOnce

-----------------------------------------------------------------------------
(* Records *)

LEMMA RecordFields ==
  ASSUME NEW r \in Record
  PROVE  r.tag \in Nat /\ r.by \in 0..MaxPlans /\ r # None
BY NoneAssumption DEF Record

LEMMA RecordMade ==
  ASSUME NEW t \in Nat, NEW b \in 0..MaxPlans
  PROVE  /\ [tag |-> t, by |-> b] \in Record
         /\ [tag |-> t, by |-> b].tag = t
         /\ [tag |-> t, by |-> b].by = b
BY DEF Record

LEMMA PlanFields ==
  ASSUME NEW p \in Plan
  PROVE  /\ p.kind \in {"update", "delete", "create"}
         /\ p.name \in Name
         /\ p.id \in 1..MaxPlans
         /\ p.source \in Record \cup {None}
         /\ p.zoneTag \in Nat
         /\ p # None
BY NoneAssumption DEF Plan

LEMMA PlanMade ==
  ASSUME NEW k \in {"update", "delete", "create"}, NEW n \in Name, NEW i \in 1..MaxPlans,
         NEW z \in Nat, NEW r \in Record \cup {None},
         NEW p, p = [kind |-> k, name |-> n, id |-> i, zoneTag |-> z, source |-> r]
  PROVE  p \in Plan /\ p.kind = k /\ p.name = n /\ p.id = i /\ p.source = r
BY DEF Plan

LEMMA CacheFields ==
  ASSUME NEW c \in Cache
  PROVE  c.records \in Snapshot /\ c.zoneTag \in Nat /\ c # None
BY NoneAssumption DEF Cache

LEMMA CacheMade ==
  ASSUME NEW s \in Snapshot, NEW z \in Nat, NEW c, c = [records |-> s, zoneTag |-> z]
  PROVE  c \in Cache /\ c.records = s
BY DEF Cache

LEMMA SnapshotAt ==
  ASSUME NEW s \in Snapshot, NEW n \in Name
  PROVE  s[n] \in Record \cup {None}
BY DEF Snapshot

LEMMA EmptySnapshot ==
  Empty \in Snapshot /\ \A n \in Name : Empty[n] = None
BY DEF Empty, Snapshot

LEMMA ChangedIsNat ==
  ASSUME TypeOK, NEW n \in Name
  PROVE  Changed(n) \in Nat
<1>1. store[n] \in Record \cup {None} /\ removed[n] \in Nat
  BY SnapshotAt DEF TypeOK
<1>2. QED
  BY <1>1, RecordFields DEF Changed

-----------------------------------------------------------------------------
(* What the server and a page do *)

\* What the server does for one name, in the terms of every invariant.
LEMMA StoresEffect ==
  ASSUME TypeOK, NEW n \in Name, NEW r \in Record \cup {None}, Stores(n, r)
  PROVE  /\ store' \in Snapshot /\ removed' \in [Name -> Nat] /\ changes' = changes + 1
         /\ during' \in [Name -> SUBSET (Record \cup {None})] /\ zoneTag' = zoneTag
         /\ store'[n] = r
         /\ \A m \in Name : m # n => store'[m] = store[m]
         /\ \A m \in Name : m # n => removed'[m] = removed[m]
         /\ r = None => removed'[n] = changes + 1
         /\ r \in during'[n]
         /\ \A m \in Name : during[m] \subseteq during'[m]
<1>1. store \in Snapshot /\ removed \in [Name -> Nat] /\ changes \in Nat
      /\ during \in [Name -> SUBSET (Record \cup {None})]
  BY DEF TypeOK
<1>2. changes' = changes + 1 /\ zoneTag' = zoneTag
  BY DEF Stores
<1>3. store' = [store EXCEPT ![n] = r]
  BY DEF Stores
<1>4. store' \in Snapshot /\ \A m \in Name : store'[m] = IF m = n THEN r ELSE store[m]
  BY <1>1, <1>3 DEF Snapshot
<1>5. removed' = [removed EXCEPT ![n] = IF r = None THEN changes' ELSE @]
  BY DEF Stores
<1>6. /\ removed' \in [Name -> Nat]
      /\ \A m \in Name : m # n => removed'[m] = removed[m]
      /\ r = None => removed'[n] = changes + 1
  BY <1>1, <1>2, <1>5
<1>7. during' = [during EXCEPT ![n] = @ \cup {r}]
  BY DEF Stores
<1>8. /\ during' \in [Name -> SUBSET (Record \cup {None})]
      /\ r \in during'[n]
      /\ \A m \in Name : during[m] \subseteq during'[m]
  BY <1>1, <1>7
<1>9. QED
  BY <1>2, <1>4, <1>6, <1>8

\* A page is one of an oldest pending change, or the closing one when none is left.
LEMMA PageShape ==
  ASSUME TypeOK, NEW page \in Pages
  PROVE  \/ Pending = {} /\ page.name = None /\ page.status = 3
         \/ /\ \A m \in Name : Changed(m) > cursor => Changed(page.name) <= Changed(m)
            /\ page.name \in Name
            /\ Changed(page.name) > cursor
            /\ page.status = 3 => Pending = {page.name}
            /\ page.token \in {0, cursor, Changed(page.name)}
<1>1. CASE Pending = {}
  BY <1>1 DEF Pages
<1>2. CASE Pending # {}
  <2>1. PICK n \in Oldest : page \in PagesOf(n)
    BY <1>2 DEF Pages
  <2>2. n \in Pending /\ \A m \in Pending : Changed(n) <= Changed(m)
    BY <2>1 DEF Oldest
  <2>3. n \in Name /\ Changed(n) > cursor
        /\ \A m \in Name : Changed(m) > cursor => Changed(n) <= Changed(m)
    BY <2>2 DEF Pending
  <2>4. CASE page = [name |-> n, status |-> IF Pending = {n} THEN 3 ELSE 1, token |-> Changed(n)]
    BY <2>3, <2>4
  <2>5. CASE page \in [name : {n}, status : {0, 1}, token : {0, cursor, Changed(n)}]
    BY <2>3, <2>5
  <2>6. QED
    BY <2>1, <2>4, <2>5 DEF PagesOf
<1>3. QED
  BY <1>1, <1>2

\* What a page adds to the records collected.
LEMMA ReceiveEffect ==
  ASSUME TypeOK, NEW page \in Pages, Receive(page)
  PROVE  /\ got' \in Snapshot /\ gotZone' \in Nat
         /\ \A m \in Name : got'[m] = got[m] \/ (m = page.name /\ got'[m] = store[m])
         /\ page.name \in Name /\ store[page.name] # None => got'[page.name] # None
         /\ \A m \in Name : got[m] # None => got'[m] = got[m]
<1>1. got \in Snapshot /\ store \in Snapshot /\ gotZone \in Nat /\ zoneTag \in Nat
  BY DEF TypeOK
<1>2. page.name = None \/ page.name \in Name
  BY PageShape
<1>3. gotZone' \in Nat
  BY <1>1 DEF Receive
<1>4. got' = Collected(page)
  BY DEF Receive
<1>5. CASE page.name = None \/ store[page.name] = None
  <2>1. got' = got
    BY <1>4, <1>5 DEF Collected
  <2>2. page.name \in Name => store[page.name] = None
    BY <1>5, NoneAssumption
  <2>3. QED
    BY <1>1, <1>3, <2>1, <2>2
<1>6. CASE ~(page.name = None \/ store[page.name] = None)
  <2> DEFINE n == page.name
             r == IF got[n] = None THEN store[n] ELSE got[n]
  <2>1. n \in Name
    BY <1>2, <1>6
  <2>2. r \in Record \cup {None} /\ r # None
    BY <1>1, <1>6, <2>1, SnapshotAt
  <2>3. got' = [got EXCEPT ![n] = r]
    BY <1>4, <1>6 DEF Collected
  <2>4. got' \in Snapshot /\ \A m \in Name : got'[m] = IF m = n THEN r ELSE got[m]
    BY <1>1, <2>1, <2>2, <2>3 DEF Snapshot
  <2>5. QED
    BY <1>3, <2>1, <2>2, <2>4
<1>7. QED
  BY <1>5, <1>6
-----------------------------------------------------------------------------
(* Type correctness *)

LEMMA StartFetchType ==
  ASSUME TypeOK, NEW from, NEW to \in Fetching, StartFetch(from, to)
  PROVE  /\ pc' \in Labels /\ cursor' \in Nat /\ tokens' \subseteq Nat
         /\ pages' \in 0..MaxPages /\ got' \in Snapshot /\ gotZone' \in Nat
         /\ during' \in [Name -> SUBSET (Record \cup {None})]
<1>1. \A n \in Name : {store[n]} \subseteq Record \cup {None}
  BY SnapshotAt DEF TypeOK
<1>2. during' \in [Name -> SUBSET (Record \cup {None})]
  BY <1>1 DEF StartFetch
<1>3. QED
  BY <1>2, EmptySnapshot, BoundAssumption DEF StartFetch, Labels

LEMMA CompleteType ==
  ASSUME TypeOK, NEW from, NEW next \in Labels, Complete(from, next)
  PROVE  /\ pc' \in Labels /\ got' \in Snapshot /\ gotZone' \in Nat
         /\ cursor' = cursor /\ tokens' = tokens /\ pages' = pages
<1>1. PICK page \in Pages : Receive(page)
  BY DEF Complete
<1>2. QED
  BY <1>1, ReceiveEffect DEF Complete

LEMMA Saved ==
  ASSUME TypeOK, NEW from, NEW next \in Labels, Complete(from, next),
         cache' = [records |-> got', zoneTag |-> gotZone']
  PROVE  cache' \in Cache /\ cache' # None /\ cache'.records = got'
BY CompleteType, CacheMade, CacheFields

LEMMA ContinueType ==
  ASSUME TypeOK, Continue
  PROVE  /\ cursor' \in Nat /\ tokens' \subseteq Nat /\ pages' \in 0..MaxPages
         /\ got' \in Snapshot /\ gotZone' \in Nat
<1>1. PICK page \in Pages : /\ More(page) /\ Receive(page)
                            /\ tokens' = tokens \cup {page.token} /\ cursor' = page.token
  BY DEF Continue
<1>2. got' \in Snapshot /\ gotZone' \in Nat
  BY <1>1, ReceiveEffect
<1>3. page.name \in Name /\ page.token \in {0, cursor, Changed(page.name)}
  BY <1>1, PageShape DEF More
<1>4. page.token \in Nat
  BY <1>3, ChangedIsNat DEF TypeOK
<1>5. pages' \in 0..MaxPages
  BY BoundAssumption DEF Continue, WithinLimit, TypeOK
<1>6. QED
  BY <1>1, <1>2, <1>4, <1>5 DEF TypeOK

LEMMA PrepareType ==
  ASSUME TypeOK, cache # None, NEW k \in {"update", "delete", "create"}, NEW n \in Name,
         Prepare(k, n)
  PROVE  /\ plans' = plans + 1 /\ plans' \in 1..MaxPlans
         /\ plan' \in Plan /\ plan'.kind = k /\ plan'.name = n /\ plan'.id = plans'
         /\ plan'.source = cache.records[n]
         /\ cache.records[n] \in Record \cup {None}
<1>1. cache.records \in Snapshot /\ cache.zoneTag \in Nat
  BY CacheFields DEF TypeOK
<1>2. cache.records[n] \in Record \cup {None}
  BY <1>1, SnapshotAt
<1>3. plans' = plans + 1 /\ plans' \in 1..MaxPlans
  BY BoundAssumption DEF Prepare, TypeOK
<1>4. plan' = [kind |-> k, name |-> n, id |-> plans', zoneTag |-> cache.zoneTag,
              source |-> cache.records[n]]
  BY DEF Prepare
<1>5. QED
  BY <1>1, <1>2, <1>3, <1>4, PlanMade

\* The request of a plan that is on file.
LEMMA CarryOutEffect ==
  ASSUME TypeOK, Phase, NEW next, CarryOut(next)
  PROVE  /\ plan \in Plan /\ plan.name \in Name /\ plan.id \in 1..MaxPlans
         /\ Planned \in Record \cup {None} /\ Stores(plan.name, Planned)
         /\ Planned = None <=> plan.kind = "delete"
         /\ Planned # None => Planned.tag = changes + 1 /\ Planned.by = plan.id
         /\ applied' \in [1..MaxPlans -> Nat]
         /\ \A id \in 1..MaxPlans :
               applied'[id] = IF id = plan.id THEN applied[id] + 1 ELSE applied[id]
<1>1. plan \in Plan
  BY DEF CarryOut, TypeOK, Phase, Applying
<1>2. plan.name \in Name /\ plan.id \in 1..MaxPlans /\ plan.id \in 0..MaxPlans
  BY <1>1, PlanFields, BoundAssumption
<1>3. changes + 1 \in Nat
  BY DEF TypeOK
<1>4. plan.kind = "delete" => Planned = None
  BY DEF Planned
<1>5. plan.kind # "delete" =>
        Planned \in Record /\ Planned # None /\ Planned.tag = changes + 1 /\ Planned.by = plan.id
  BY <1>2, <1>3, RecordMade, RecordFields DEF Planned
<1>6. Stores(plan.name, Planned) /\ applied' = [applied EXCEPT ![plan.id] = @ + 1]
  BY DEF CarryOut
<1>7. QED
  BY <1>1, <1>2, <1>4, <1>5, <1>6 DEF TypeOK

LEMMA OthersWriteRecord ==
  ASSUME TypeOK, NEW r, r = [tag |-> changes + 1, by |-> 0]
  PROVE  r \in Record /\ r # None /\ r.tag = changes + 1 /\ r.by = 0
<1>1. changes + 1 \in Nat /\ 0 \in 0..MaxPlans
  BY BoundAssumption DEF TypeOK
<1>2. QED
  BY <1>1, RecordMade, RecordFields

LEMMA TypeStep ==
  TypeOK /\ Phase /\ [Next]_vars => TypeOK'
<1> SUFFICES ASSUME TypeOK, Phase, [Next]_vars
             PROVE  TypeOK'
  OBVIOUS
<1>1. ASSUME NEW n \in Name, OthersWrite(n)
      PROVE  TypeOK'
  <2>1. PICK r \in Record : Stores(n, r)
    BY <1>1, OthersWriteRecord DEF OthersWrite
  <2>2. QED
    BY <1>1, <2>1, StoresEffect DEF OthersWrite, TypeOK, files, paging
<1>2. ASSUME NEW n \in Name, OthersDelete(n)
      PROVE  TypeOK'
  <2>1. Stores(n, None)
    BY <1>2 DEF OthersDelete
  <2>2. QED
    BY <1>2, <2>1, StoresEffect DEF OthersDelete, TypeOK, files, paging
<1>3. ASSUME NEW n \in Name, PrepareUpdate(n)
      PROVE  TypeOK'
  <2>1. plan' \in Plan /\ plans' \in Nat
    BY <1>3, PrepareType DEF PrepareUpdate
  <2>2. QED
    BY <1>3, <2>1 DEF PrepareUpdate, TypeOK, server, paging, history
<1>4. ASSUME NEW n \in Name, PrepareDelete(n)
      PROVE  TypeOK'
  <2>1. plan' \in Plan /\ plans' \in Nat
    BY <1>4, PrepareType DEF PrepareDelete
  <2>2. QED
    BY <1>4, <2>1 DEF PrepareDelete, TypeOK, server, paging, history
<1>5. ASSUME NEW n \in Name, PrepareCreate(n)
      PROVE  TypeOK'
  <2>1. StartFetch("prepare", "source") /\ Prepare("create", n) /\ cache # None
    BY <1>5 DEF PrepareCreate, StartFetch, Phase
  <2>2. plan' \in Plan /\ plans' \in Nat
    BY <2>1, PrepareType
  <2>3. QED
    BY <1>5, <2>1, <2>2, StartFetchType DEF PrepareCreate, TypeOK, server, Fetching
<1>6. CASE RotateZone
  BY <1>6 DEF RotateZone, TypeOK, files, paging, history
<1>7. CASE Fetch
  BY <1>7, StartFetchType DEF Fetch, TypeOK, server, files, Fetching
<1>8. CASE Continue
  BY <1>8, ContinueType DEF Continue, TypeOK, server, files, history
<1>9. CASE SaveFetched
  <2>1. Complete("fetch", "idle") /\ "idle" \in Labels
    BY <1>9 DEF SaveFetched, Labels
  <2>2. cache' \in Cache
    BY <1>9, <2>1, Saved DEF SaveFetched
  <2>3. QED
    BY <1>9, <2>1, <2>2, CompleteType DEF SaveFetched, TypeOK, server, history
<1>10. CASE StartCreate
  BY <1>10, StartFetchType DEF StartCreate, TypeOK, server, files, Fetching
<1>11. CASE SaveRefetched
  <2>1. Complete("refetch", "prepare") /\ "prepare" \in Labels
    BY <1>11 DEF SaveRefetched, Labels
  <2>2. cache' \in Cache
    BY <1>11, <2>1, Saved DEF SaveRefetched
  <2>3. QED
    BY <1>11, <2>1, <2>2, CompleteType DEF SaveRefetched, TypeOK, server, history
<1>12. CASE Apply
  BY <1>12, StartFetchType DEF Apply, TypeOK, server, files, Fetching
<1>13. CASE FetchSource
  BY <1>13, CompleteType DEF FetchSource, TypeOK, server, files, history, Labels
<1>14. CASE Compare
  BY <1>14 DEF Compare, TypeOK, server, files, paging, history, Labels
<1>15. ASSUME NEW next \in {"verify", "idle"}, CarryOut(next)
       PROVE  TypeOK'
  <2>1. /\ plan.name \in Name /\ Stores(plan.name, Planned)
        /\ Planned \in Record \cup {None} /\ applied' \in [1..MaxPlans -> Nat]
    BY <1>15, CarryOutEffect
  <2>2. /\ store' \in Snapshot /\ removed' \in [Name -> Nat] /\ changes' = changes + 1
        /\ during' \in [Name -> SUBSET (Record \cup {None})] /\ zoneTag' = zoneTag
    BY <2>1, StoresEffect
  <2> QED BY <1>15, <2>1, <2>2 DEF CarryOut, TypeOK, files, paging, Labels
<1>16. CASE Acknowledge
  BY <1>16 DEF Acknowledge, TypeOK, server, files, paging, history, Labels
<1>17. CASE FetchBack
  BY <1>17, StartFetchType DEF FetchBack, TypeOK, server, files, Fetching
<1>18. CASE Verify
  <2>1. Complete("readback", "idle") /\ "idle" \in Labels /\ plan \in Plan
    BY <1>18 DEF Verify, Complete, Labels, TypeOK, Phase, Applying
  <2>2. cache' \in Cache
    BY <1>18, <2>1, Saved DEF Verify
  <2>3. outcome' \in {"none", "updated", "deleted", "created"}
    BY <1>18, <2>1, PlanFields DEF Verify, Printed
  <2>4. QED
    BY <1>18, <2>1, <2>2, <2>3, CompleteType DEF Verify, TypeOK, server, history
<1>19. CASE Fail
  BY <1>19 DEF Fail, TypeOK, server, files, paging, history, Labels
<1>20. CASE UNCHANGED vars
  BY <1>20 DEF TypeOK, vars, server, files, paging, history
<1>21. QED
  BY <1>1, <1>2, <1>3, <1>4, <1>5, <1>6, <1>7, <1>8, <1>9, <1>10, <1>11, <1>12, <1>13,
     <1>14, <1>15, <1>16, <1>17, <1>18, <1>19, <1>20 DEF Next, Send
-----------------------------------------------------------------------------
(* What a command has before it *)

LEMMA PhaseStep ==
  TypeOK /\ Phase /\ [Next]_vars => Phase'
<1> SUFFICES ASSUME TypeOK, Phase, [Next]_vars
             PROVE  Phase'
  OBVIOUS
<1>1. ASSUME NEW n \in Name, OthersWrite(n) \/ OthersDelete(n)
      PROVE  Phase'
  BY <1>1 DEF OthersWrite, OthersDelete, Phase, files, paging
<1>2. ASSUME NEW n \in Name, PrepareUpdate(n) \/ PrepareDelete(n)
      PROVE  Phase'
  BY <1>2 DEF PrepareUpdate, PrepareDelete, Phase, Applying
<1>3. ASSUME NEW n \in Name, PrepareCreate(n)
      PROVE  Phase'
  <2>1. cache # None /\ Prepare("create", n)
    BY <1>3 DEF PrepareCreate, StartFetch, Phase
  <2>2. plan' # None
    BY <2>1, PrepareType, PlanFields
  <2>3. QED
    BY <1>3, <2>1, <2>2 DEF PrepareCreate, StartFetch, Phase
<1>4. CASE RotateZone
  BY <1>4 DEF RotateZone, Phase, files, paging
<1>5. CASE Fetch \/ StartCreate \/ Apply
  BY <1>5 DEF Fetch, StartCreate, Apply, StartFetch, Phase, Applying, files
<1>6. CASE Continue
  BY <1>6 DEF Continue, Phase, files
<1>7. CASE SaveFetched
  <2>1. cache' # None
    BY <1>7, Saved DEF SaveFetched, Labels
  <2>2. QED
    BY <1>7, <2>1 DEF SaveFetched, Complete, Phase, Applying
<1>8. CASE SaveRefetched
  <2>1. cache' # None
    BY <1>8, Saved DEF SaveRefetched, Labels
  <2>2. QED
    BY <1>8, <2>1 DEF SaveRefetched, Complete, Phase, Applying
<1>9. CASE FetchSource \/ Compare \/ Acknowledge \/ FetchBack \/ Fail
  BY <1>9 DEF FetchSource, Compare, Acknowledge, FetchBack, Fail, Complete, StartFetch,
              Phase, Applying, files
<1>10. ASSUME NEW next \in {"verify", "idle"}, CarryOut(next)
       PROVE  Phase'
  BY <1>10 DEF CarryOut, Phase, Applying, files
<1>11. CASE Verify
  <2>1. cache' # None
    BY <1>11, Saved DEF Verify, Labels
  <2>2. QED
    BY <1>11, <2>1 DEF Verify, Complete, Phase, Applying
<1>12. CASE UNCHANGED vars
  BY <1>12 DEF Phase, vars, files
<1>13. QED
  BY <1>1, <1>2, <1>3, <1>4, <1>5, <1>6, <1>7, <1>8, <1>9, <1>10, <1>11, <1>12 DEF Next, Send

-----------------------------------------------------------------------------
(* Records and their authors *)

\* A record is stored with the tag of the change; that of a plan is carried out.
New(r) ==
  /\ r \in Record
  /\ r.tag = changes' /\ changes' = changes + 1
  /\ r.by > 0 => applied'[r.by] > 0

\* The server changes one name, numbers the zone's key, or does nothing.
ServerStep ==
  \/ UNCHANGED <<store, removed, changes>>
  \/ UNCHANGED <<store, removed>> /\ changes' = changes + 1
  \/ \E n \in Name, r \in Record \cup {None} : Stores(n, r) /\ (r = None \/ New(r))

LEMMA ServerSteps ==
  TypeOK /\ Phase /\ [Next]_vars =>
    /\ ServerStep
    /\ \A id \in 1..MaxPlans : applied'[id] >= applied[id]
<1> SUFFICES ASSUME TypeOK, Phase, [Next]_vars
             PROVE  ServerStep /\ \A id \in 1..MaxPlans : applied'[id] >= applied[id]
  OBVIOUS
<1>1. applied \in [1..MaxPlans -> Nat] /\ changes \in Nat
  BY DEF TypeOK
<1>2. ASSUME NEW n \in Name, OthersWrite(n)
      PROVE  ServerStep /\ applied' = applied
  <2>1. PICK r \in Record : Stores(n, r) /\ r.tag = changes + 1 /\ r.by = 0
    BY <1>2, OthersWriteRecord DEF OthersWrite
  <2>2. New(r)
    BY <2>1, StoresEffect DEF New
  <2>3. QED
    BY <1>2, <2>1, <2>2 DEF OthersWrite, ServerStep
<1>3. ASSUME NEW n \in Name, OthersDelete(n)
      PROVE  ServerStep /\ applied' = applied
  BY <1>3 DEF OthersDelete, ServerStep
<1>4. ASSUME NEW next \in {"verify", "idle"}, CarryOut(next)
      PROVE  ServerStep /\ \A id \in 1..MaxPlans : applied'[id] >= applied[id]
  <2>1. /\ plan.name \in Name /\ plan.id \in 1..MaxPlans
        /\ Planned \in Record \cup {None} /\ Stores(plan.name, Planned)
        /\ Planned # None => Planned.tag = changes + 1 /\ Planned.by = plan.id
        /\ \A id \in 1..MaxPlans :
               applied'[id] = IF id = plan.id THEN applied[id] + 1 ELSE applied[id]
    BY <1>4, CarryOutEffect
  <2>2. changes' = changes + 1
    BY <2>1, StoresEffect
  <2>3. applied'[plan.id] > 0
    BY <1>1, <2>1
  <2>4. Planned = None \/ New(Planned)
    BY <2>1, <2>2, <2>3 DEF New
  <2>5. QED
    BY <1>1, <2>1, <2>4 DEF ServerStep
<1>5. RotateZone => ServerStep /\ applied' = applied
  BY DEF RotateZone, ServerStep, history
<1>6. ASSUME NEW n \in Name, PrepareUpdate(n) \/ PrepareDelete(n) \/ PrepareCreate(n)
      PROVE  UNCHANGED <<store, removed, changes, applied>>
  BY <1>6 DEF PrepareUpdate, PrepareDelete, PrepareCreate, server, history
<1>7. CASE UNCHANGED <<store, removed, changes, applied>>
  <2>1. \A id \in 1..MaxPlans : applied[id] >= applied[id]
    BY <1>1
  <2>2. ServerStep
    BY <1>7 DEF ServerStep
  <2>3. QED
    BY <1>7, <2>1, <2>2
<1>8. Fetch \/ StartCreate \/ Apply \/ FetchBack => UNCHANGED <<store, removed, changes, applied>>
  BY DEF Fetch, StartCreate, Apply, FetchBack, server
<1>9. Continue \/ SaveFetched \/ SaveRefetched \/ FetchSource \/ Verify
        => UNCHANGED <<store, removed, changes, applied>>
  BY DEF Continue, SaveFetched, SaveRefetched, FetchSource, Verify, server, history
<1>10. Compare \/ Acknowledge \/ Fail => UNCHANGED <<store, removed, changes, applied>>
  BY DEF Compare, Acknowledge, Fail, server, history
<1>11. UNCHANGED vars => UNCHANGED <<store, removed, changes, applied>>
  BY DEF vars, server, history
<1>12. applied' = applied => \A id \in 1..MaxPlans : applied'[id] >= applied[id]
  BY <1>1
<1>13. CASE Next
  BY <1>2, <1>3, <1>4, <1>5, <1>6, <1>7, <1>8, <1>9, <1>10, <1>12, <1>13 DEF Next, Send
<1>14. QED
  BY <1>7, <1>11, <1>13

\* The records collected are those of an earlier page or of the server.
LEMMA GotStep ==
  TypeOK /\ Phase /\ [Next]_vars => \A n \in Name : got'[n] \in {None, got[n], store[n]}
<1> SUFFICES ASSUME TypeOK, Phase, [Next]_vars
             PROVE  \A n \in Name : got'[n] \in {None, got[n], store[n]}
  OBVIOUS
<1>1. ASSUME NEW n \in Name,
             \/ OthersWrite(n) \/ OthersDelete(n) \/ PrepareUpdate(n) \/ PrepareDelete(n)
      PROVE  got' = got
  BY <1>1 DEF OthersWrite, OthersDelete, PrepareUpdate, PrepareDelete, paging
<1>2. ASSUME NEW n \in Name, PrepareCreate(n)
      PROVE  got' = Empty
  BY <1>2 DEF PrepareCreate, StartFetch
<1>3. CASE Fetch \/ StartCreate \/ Apply \/ FetchBack
  BY <1>3, EmptySnapshot DEF Fetch, StartCreate, Apply, FetchBack, StartFetch
<1>4. CASE Continue \/ SaveFetched \/ SaveRefetched \/ FetchSource \/ Verify
  <2>1. PICK page \in Pages : Receive(page)
    BY <1>4 DEF Continue, SaveFetched, SaveRefetched, FetchSource, Verify, Complete
  <2>2. QED
    BY <2>1, ReceiveEffect
<1>5. ASSUME NEW next \in {"verify", "idle"}, CarryOut(next)
      PROVE  got' = got
  BY <1>5 DEF CarryOut, paging
<1>6. CASE RotateZone \/ Compare \/ Acknowledge \/ Fail
  BY <1>6 DEF RotateZone, Compare, Acknowledge, Fail, paging
<1>7. CASE UNCHANGED vars
  BY <1>7 DEF vars, paging
<1>8. QED
  BY <1>1, <1>2, <1>3, <1>4, <1>5, <1>6, <1>7, EmptySnapshot DEF Next, Send

\* A record on the server after a step was there before, or is new.
LEMMA StoreStep ==
  ASSUME TypeOK, ServerStep, NEW n \in Name
  PROVE  store'[n] \in {None, store[n]} \/ New(store'[n])
<1>1. CASE UNCHANGED store
  BY <1>1
<1>2. ASSUME NEW m \in Name, NEW r \in Record \cup {None}, Stores(m, r), r = None \/ New(r)
      PROVE  store'[n] \in {None, store[n]} \/ New(store'[n])
  <2>1. store'[m] = r /\ (m # n => store'[n] = store[n])
    BY <1>2, StoresEffect
  <2>2. QED
    BY <1>2, <2>1
<1>3. QED
  BY <1>1, <1>2 DEF ServerStep

LEMMA ProvenanceStep ==
  TypeOK /\ Phase /\ Provenance /\ [Next]_vars => Provenance'
<1> SUFFICES ASSUME TypeOK, Phase, Provenance, [Next]_vars, NEW n \in Name,
                    NEW r \in {store'[n], got'[n]}, r # None, r.by > 0
             PROVE  applied'[r.by] > 0
  BY DEF Provenance
<1>1. ServerStep /\ \A id \in 1..MaxPlans : applied'[id] >= applied[id]
  BY ServerSteps
<1>2. r \in {store[n], got[n]} \/ New(r)
  BY <1>1, GotStep, StoreStep
<1>3. CASE New(r)
  BY <1>3 DEF New
<1>4. CASE r \in {store[n], got[n]}
  <2>1. r \in Record
    BY <1>4, SnapshotAt DEF TypeOK
  <2>2. r.by \in 1..MaxPlans
    BY <2>1, RecordFields, BoundAssumption
  <2>3. applied[r.by] > 0
    BY <1>4 DEF Provenance
  <2>4. applied'[r.by] \in Nat /\ applied[r.by] \in Nat
    BY <2>2, TypeStep DEF TypeOK
  <2>5. QED
    BY <1>1, <2>2, <2>3, <2>4
<1>5. QED
  BY <1>2, <1>3, <1>4
-----------------------------------------------------------------------------
(* The order of changes *)

LEMMA ChangedStep ==
  ASSUME TypeOK, NEW m \in Name, NEW r \in Record \cup {None}, Stores(m, r),
         r = None \/ New(r)
  PROVE  /\ Changed(m)' = changes + 1
         /\ \A n \in Name : n # m => Changed(n)' = Changed(n)
<1>1. /\ store'[m] = r /\ (r = None => removed'[m] = changes + 1)
      /\ \A n \in Name : n # m => store'[n] = store[n] /\ removed'[n] = removed[n]
  BY StoresEffect
<1>2. r # None => r.tag = changes + 1
  BY DEF New
<1>3. QED
  BY <1>1, <1>2 DEF Changed

LEMMA TimelineStep ==
  TypeOK /\ Phase /\ Timeline /\ [Next]_vars => Timeline'
<1> SUFFICES ASSUME TypeOK, Phase, Timeline, [Next]_vars
             PROVE  Timeline'
  OBVIOUS
<1>1. changes \in Nat /\ \A n \in Name : Changed(n) \in Nat
  BY ChangedIsNat DEF TypeOK
<1>2. CASE UNCHANGED <<store, removed, changes>>
  BY <1>2 DEF Timeline, Changed
<1>3. CASE UNCHANGED <<store, removed>> /\ changes' = changes + 1
  <2>1. \A n \in Name : Changed(n)' = Changed(n) /\ store'[n] = store[n]
    BY <1>3 DEF Changed
  <2>2. QED
    BY <1>1, <1>3, <2>1 DEF Timeline
<1>4. ASSUME NEW m \in Name, NEW r \in Record \cup {None}, Stores(m, r), r = None \/ New(r)
      PROVE  Timeline'
  <2>1. /\ Changed(m)' = changes + 1 /\ changes' = changes + 1
        /\ \A n \in Name : n # m => Changed(n)' = Changed(n)
    BY <1>4, ChangedStep, StoresEffect
  <2>2. \A n \in Name : Changed(n) <= changes /\ Changed(n) # changes + 1
    BY <1>1 DEF Timeline
  <2>3. \A n \in Name : store'[n] # None => store'[n].tag > 0
    <3>1. store'[m] = r /\ \A n \in Name : n # m => store'[n] = store[n]
      BY <1>4, StoresEffect
    <3>2. r # None => r.tag > 0
      BY <1>1, <1>4 DEF New
    <3>3. QED
      BY <3>1, <3>2 DEF Timeline
  <2>4. SUFFICES ASSUME NEW n \in Name
                 PROVE  /\ Changed(n)' <= changes'
                        /\ \A k \in Name : k # n /\ Changed(n)' > 0 => Changed(k)' # Changed(n)'
    BY <2>3 DEF Timeline
  <2>5. Changed(n)' <= changes'
    BY <1>1, <2>1, <2>2
  <2>6. ASSUME NEW k \in Name, k # n, Changed(n)' > 0
        PROVE  Changed(k)' # Changed(n)'
    <3>1. CASE n = m
      BY <2>1, <2>2, <2>6, <3>1
    <3>2. CASE k = m
      BY <2>1, <2>2, <2>6, <3>2
    <3>3. CASE n # m /\ k # m
      BY <2>1, <2>6, <3>3 DEF Timeline
    <3>4. QED
      BY <3>1, <3>2, <3>3
  <2>7. QED
    BY <2>5, <2>6
<1>5. QED
  BY <1>2, <1>3, <1>4, ServerSteps DEF ServerStep

-----------------------------------------------------------------------------
(* Plans that have been carried out *)

\* A saved dataset is the snapshot that the fetch has collected.
LEMMA CacheStep ==
  TypeOK /\ Phase /\ [Next]_vars => cache' = cache \/ (cache' # None /\ cache'.records = got')
<1> SUFFICES ASSUME TypeOK, Phase, [Next]_vars
             PROVE  cache' = cache \/ (cache' # None /\ cache'.records = got')
  OBVIOUS
<1>1. CASE SaveFetched \/ SaveRefetched \/ Verify
  BY <1>1, Saved DEF SaveFetched, SaveRefetched, Verify, Labels
<1>2. ASSUME NEW n \in Name,
             \/ OthersWrite(n) \/ OthersDelete(n)
             \/ PrepareUpdate(n) \/ PrepareDelete(n) \/ PrepareCreate(n)
      PROVE  cache' = cache
  BY <1>2 DEF OthersWrite, OthersDelete, PrepareUpdate, PrepareDelete, PrepareCreate, files
<1>3. ASSUME NEW next, CarryOut(next)
      PROVE  cache' = cache
  BY <1>3 DEF CarryOut, files
<1>4. Fetch \/ StartCreate \/ Apply \/ FetchBack \/ Continue \/ FetchSource => cache' = cache
  BY DEF Fetch, StartCreate, Apply, FetchBack, Continue, FetchSource, files
<1>5. RotateZone \/ Compare \/ Acknowledge \/ Fail \/ UNCHANGED vars => cache' = cache
  BY DEF RotateZone, Compare, Acknowledge, Fail, vars, files
<1>6. QED
  BY <1>1, <1>2, <1>3, <1>4, <1>5 DEF Next, Send

\* The steps in which the plan of a created record is applied.
Requesting == {"source", "compare", "send"}

\* A plan stays, and is on its way only if it was or is no creation; or it is new.
PlanStep ==
  \/ /\ plan' = plan /\ plans' = plans
     /\ pc' \in Requesting => pc \in Requesting \/ plan.kind # "create"
     /\ applied' = applied \/ CarryOut("verify") \/ CarryOut("idle")
  \/ \E k \in {"update", "delete", "create"}, n \in Name :
       /\ cache # None
       /\ Prepare(k, n)
       /\ k # "create" => cache.records[n] # None
       /\ UNCHANGED <<applied, store>>

LEMMA PlanSteps ==
  TypeOK /\ Phase /\ [Next]_vars => PlanStep
<1> SUFFICES ASSUME TypeOK, Phase, [Next]_vars
             PROVE  PlanStep
  OBVIOUS
<1>1. ASSUME NEW n \in Name, PrepareUpdate(n) \/ PrepareDelete(n)
      PROVE  PlanStep
  BY <1>1 DEF PrepareUpdate, PrepareDelete, PlanStep, server, history
<1>2. ASSUME NEW n \in Name, PrepareCreate(n)
      PROVE  PlanStep
  BY <1>2 DEF PrepareCreate, StartFetch, Phase, PlanStep, server
<1>3. ASSUME NEW n \in Name, OthersWrite(n) \/ OthersDelete(n)
      PROVE  PlanStep
  BY <1>3 DEF OthersWrite, OthersDelete, PlanStep, files
<1>4. CarryOut("verify") \/ CarryOut("idle") => PlanStep
  BY DEF CarryOut, PlanStep, files, Requesting
<1>5. Fetch \/ StartCreate \/ Apply \/ FetchBack => PlanStep
  BY DEF Fetch, StartCreate, Apply, FetchBack, StartFetch, PlanStep, Requesting, files
<1>6. Continue \/ SaveFetched \/ SaveRefetched \/ FetchSource \/ Verify => PlanStep
  BY DEF Continue, SaveFetched, SaveRefetched, FetchSource, Verify, Complete, PlanStep,
         Requesting, files, history
<1>7. RotateZone \/ Compare \/ Acknowledge \/ Fail \/ UNCHANGED vars => PlanStep
  BY DEF RotateZone, Compare, Acknowledge, Fail, vars, PlanStep, Requesting, files, history
<1>8. QED
  BY <1>1, <1>2, <1>3, <1>4, <1>5, <1>6, <1>7 DEF Next, Send

LEMMA SpentStep ==
  TypeOK /\ Phase /\ Spent /\ [Next]_vars => Spent'
<1> SUFFICES ASSUME TypeOK, Phase, Spent, [Next]_vars
             PROVE  Spent'
  OBVIOUS
<1>1. /\ ServerStep /\ PlanStep /\ TypeOK' /\ changes \in Nat /\ plans \in Nat
      /\ applied \in [1..MaxPlans -> Nat] /\ plan \in Plan \cup {None}
  BY ServerSteps, PlanSteps, TypeStep DEF TypeOK
<1>2. changes' >= changes /\ changes' \in Nat
  BY <1>1, StoresEffect DEF ServerStep
<1>3. ASSUME NEW r \in Record \cup {None}, Dated(r)
      PROVE  r # None => r.tag <= changes'
  BY <1>1, <1>2, <1>3, RecordFields DEF Dated
<1>4. ASSUME NEW n \in Name
      PROVE  /\ Dated(store[n])' /\ Dated(got[n])'
             /\ cache' # None => Dated(cache.records[n])'
  <2>1. /\ store[n] \in Record \cup {None} /\ got[n] \in Record \cup {None}
        /\ cache # None => cache.records[n] \in Record \cup {None}
    BY SnapshotAt, CacheFields DEF TypeOK
  <2>2. store'[n] # None => store'[n].tag <= changes'
    <3>1. store'[n] \in {None, store[n]} \/ New(store'[n])
      BY <1>1, StoreStep
    <3>2. New(store'[n]) => store'[n].tag <= changes'
      BY <1>2 DEF New
    <3>3. QED
      BY <1>3, <2>1, <3>1, <3>2 DEF Spent
  <2>3. got'[n] # None => got'[n].tag <= changes'
    BY <1>3, <2>1, GotStep DEF Spent
  <2>4. cache' # None => (cache'.records[n] # None => cache'.records[n].tag <= changes')
    BY <1>3, <2>1, <2>3, CacheStep DEF Spent
  <2>5. QED
    BY <2>2, <2>3, <2>4 DEF Dated
<1>5. CASE /\ plan' = plan /\ plans' = plans
           /\ pc' \in Requesting => pc \in Requesting \/ plan.kind # "create"
           /\ applied' = applied \/ CarryOut("verify") \/ CarryOut("idle")
  <2>1. ASSUME NEW id \in 1..MaxPlans, applied'[id] > 0
        PROVE  id <= plans'
    <3>1. CASE applied' = applied
      BY <1>5, <2>1, <3>1 DEF Spent
    <3>2. ASSUME NEW next, CarryOut(next)
          PROVE  id <= plans'
      <4>1. id = plan.id \/ applied'[id] = applied[id]
        BY <3>2, CarryOutEffect
      <4>2. plan \in Plan
        BY <3>2, CarryOutEffect
      <4>3. QED
        BY <1>5, <2>1, <4>1, <4>2, PlanFields DEF Spent
    <3>3. QED
      BY <1>5, <3>1, <3>2
  <2>2. ASSUME plan # None
        PROVE  /\ plan.id <= plans /\ (plan.source # None => plan.source.tag <= changes')
               /\ plan.kind # "create" => plan.source # None
    BY <1>1, <1>3, <2>2, PlanFields DEF Spent
  <2>3. ASSUME plan # None, applied'[plan.id] > 0, plan.kind = "create"
        PROVE  pc' \notin Requesting
    <3>1. CASE applied' = applied
      BY <1>5, <2>3, <3>1 DEF Spent, Requesting
    <3>2. CASE CarryOut("verify") \/ CarryOut("idle")
      BY <3>2 DEF CarryOut, Requesting
    <3>3. QED
      BY <1>5, <3>1, <3>2
  <2>4. ASSUME plan # None, applied'[plan.id] > 0, plan.kind # "create"
        PROVE  store'[plan.name] # plan.source
    <3>1. /\ plan.name \in Name /\ plan.source \in Record /\ plan.source.tag \in Nat
          /\ plan.source.tag <= changes /\ plan.source # None
      BY <1>1, <2>4, PlanFields, RecordFields DEF Spent, Dated
    <3>2. New(store'[plan.name]) => store'[plan.name] # plan.source
      BY <1>1, <3>1 DEF New
    <3>3. CASE applied' = applied
      <4>1. store[plan.name] # plan.source
        BY <2>4, <3>3 DEF Spent
      <4>2. store'[plan.name] \in {None, store[plan.name]} \/ New(store'[plan.name])
        BY <1>1, <3>1, StoreStep
      <4>3. QED
        BY <3>1, <3>2, <4>1, <4>2
    <3>4. ASSUME NEW next, CarryOut(next)
          PROVE  store'[plan.name] # plan.source
      <4>1. /\ Planned \in Record \cup {None} /\ Stores(plan.name, Planned)
            /\ Planned # None => Planned.tag = changes + 1
        BY <3>4, CarryOutEffect
      <4>2. store'[plan.name] = Planned
        BY <3>1, <4>1, StoresEffect
      <4>3. QED
        BY <1>1, <3>1, <4>1, <4>2
    <3>5. QED
      BY <1>5, <3>3, <3>4
  <2>5. QED
    BY <1>4, <1>5, <2>1, <2>2, <2>3, <2>4 DEF Spent, Dated, Requesting
<1>6. ASSUME NEW k \in {"update", "delete", "create"}, NEW n \in Name, cache # None,
             Prepare(k, n), k # "create" => cache.records[n] # None,
             UNCHANGED <<applied, store>>
      PROVE  Spent'
  <2>1. /\ plans' = plans + 1 /\ plans' \in 1..MaxPlans
        /\ plan'.kind = k /\ plan'.id = plans' /\ plan'.source = cache.records[n]
        /\ cache.records[n] \in Record \cup {None}
    BY <1>6, PrepareType
  <2>2. \A id \in 1..MaxPlans : applied'[id] > 0 => id <= plans
    BY <1>6 DEF Spent
  <2>3. ~(applied'[plan'.id] > 0)
    BY <1>1, <2>1, <2>2
  <2>4. plan'.source # None => plan'.source.tag <= changes'
    BY <1>3, <1>6, <2>1 DEF Spent
  <2>5. plan'.kind # "create" => plan'.source # None
    BY <1>6, <2>1
  <2>6. \A id \in 1..MaxPlans : applied'[id] > 0 => id <= plans'
    BY <1>1, <2>1, <2>2
  <2>7. plan'.id <= plans'
    BY <2>1
  <2>8. QED
    BY <1>4, <2>3, <2>4, <2>5, <2>6, <2>7 DEF Spent, Dated
<1>7. QED
  BY <1>1, <1>5, <1>6 DEF PlanStep

-----------------------------------------------------------------------------
(* What a fetch has covered *)

LEMMA CoveredAtStart ==
  ASSUME TypeOK, Timeline, NEW from, NEW to, StartFetch(from, to),
         UNCHANGED <<store, removed, changes>>
  PROVE  Covered'
<1>1. cursor' = 0 /\ got' = Empty /\ changes' \in Nat
      /\ \A n \in Name : during'[n] = {store[n]}
  BY DEF StartFetch, TypeOK
<1>2. ASSUME NEW n \in Name
      PROVE  Seen(n)'
  <2>1. got'[n] = None /\ store'[n] \in during'[n]
    BY <1>1, EmptySnapshot
  <2>2. CASE store[n] = None
    BY <1>1, <2>1, <2>2 DEF Seen
  <2>3. CASE store[n] # None
    <3>1. Changed(n)' > cursor'
      BY <1>1, <2>3 DEF Changed, Timeline
    <3>2. QED
      BY <2>1, <3>1 DEF Seen
  <2>4. QED
    BY <2>2, <2>3
<1>3. QED
  BY <1>1, <1>2 DEF Covered

LEMMA CoveredByPage ==
  ASSUME TypeOK, Timeline, Covered, Continue
  PROVE  Covered'
<1>1. PICK page \in Pages : /\ More(page) /\ Receive(page)
                            /\ tokens' = tokens \cup {page.token} /\ cursor' = page.token
  BY DEF Continue
<1>2. UNCHANGED <<store, removed, changes, pc, during>> /\ pc \in Fetching
  BY DEF Continue, server, history
<1>3. cursor = 0 \/ cursor \in tokens
  BY <1>2 DEF Covered
<1>4. /\ page.name \in Name /\ cursor' = Changed(page.name)
      /\ Changed(page.name) > cursor
      /\ \A m \in Name : Changed(m) > cursor => Changed(page.name) <= Changed(m)
  BY <1>1, <1>3, PageShape DEF More
<1>5. cursor \in Nat /\ \A m \in Name : Changed(m) \in Nat /\ Changed(m)' = Changed(m)
  BY <1>2, ChangedIsNat DEF TypeOK, Changed
<1>6. cursor' \in tokens' /\ cursor' <= changes'
  BY <1>1, <1>2, <1>4 DEF Timeline
<1>7. ASSUME NEW n \in Name
      PROVE  Seen(n)'
  <2>1. Seen(n)
    BY <1>2 DEF Covered
  <2>2. got'[n] \in {got[n], store[n]} /\ (got[n] # None => got'[n] = got[n])
        /\ (n = page.name /\ store[n] # None => got'[n] # None)
    BY <1>1, ReceiveEffect
  <2>3. store[n] \in during[n] /\ (got'[n] # None => got'[n] \in during[n])
    BY <2>1, <2>2 DEF Seen
  <2>4. ASSUME got'[n] = None
        PROVE  Changed(n) > cursor' \/ None \in during[n]
    <3>1. got[n] = None
      BY <2>2, <2>4
    <3>2. CASE n = page.name
      BY <2>2, <2>3, <2>4, <3>2
    <3>3. CASE n # page.name /\ Changed(n) > cursor
      <4>1. Changed(n) # Changed(page.name)
        BY <1>4, <1>5, <3>3 DEF Timeline
      <4>2. QED
        BY <1>4, <1>5, <3>3, <4>1
    <3>4. QED
      BY <2>1, <3>1, <3>2, <3>3 DEF Seen
  <2>5. QED
    BY <1>2, <1>5, <2>3, <2>4 DEF Seen
<1>8. QED
  BY <1>6, <1>7 DEF Covered

\* A change by another device while the fetch is under way.
LEMMA CoveredByChange ==
  ASSUME TypeOK, Covered, NEW m \in Name, NEW r \in Record \cup {None}, Stores(m, r),
         r = None \/ New(r), UNCHANGED <<pc, cursor, tokens, got>>
  PROVE  Covered'
<1>1. /\ store'[m] = r /\ r \in during'[m] /\ changes' = changes + 1
      /\ \A n \in Name : n # m => store'[n] = store[n]
      /\ \A n \in Name : during[n] \subseteq during'[n]
  BY StoresEffect
<1>2. Changed(m)' = changes + 1 /\ \A n \in Name : n # m => Changed(n)' = Changed(n)
  BY ChangedStep
<1>3. changes \in Nat /\ cursor \in Nat
  BY DEF TypeOK
<1>4. SUFFICES ASSUME pc \in Fetching, NEW n \in Name
               PROVE  Seen(n)'
  BY <1>1, <1>3 DEF Covered
<1>5. Seen(n) /\ cursor <= changes
  BY <1>4 DEF Covered
<1>6. CASE n = m
  BY <1>1, <1>2, <1>3, <1>5, <1>6 DEF Seen
<1>7. CASE n # m
  BY <1>1, <1>2, <1>5, <1>7 DEF Seen
<1>8. QED
  BY <1>6, <1>7

LEMMA CoveredStep ==
  TypeOK /\ Phase /\ Timeline /\ Covered /\ [Next]_vars => Covered'
<1> SUFFICES ASSUME TypeOK, Phase, Timeline, Covered, [Next]_vars
             PROVE  Covered'
  OBVIOUS
<1>1. ASSUME NEW n \in Name, OthersWrite(n)
      PROVE  Covered'
  <2>1. PICK r \in Record : Stores(n, r) /\ r.tag = changes + 1 /\ r.by = 0
    BY <1>1, OthersWriteRecord DEF OthersWrite
  <2>2. New(r)
    BY <2>1, StoresEffect DEF New
  <2>3. UNCHANGED <<pc, cursor, tokens, got>>
    BY <1>1 DEF OthersWrite, paging
  <2>4. QED
    BY <2>1, <2>2, <2>3, CoveredByChange
<1>2. ASSUME NEW n \in Name, OthersDelete(n)
      PROVE  Covered'
  BY <1>2, CoveredByChange DEF OthersDelete, paging
<1>3. ASSUME NEW n \in Name, PrepareUpdate(n) \/ PrepareDelete(n)
      PROVE  Covered'
  BY <1>3 DEF PrepareUpdate, PrepareDelete, Covered, Fetching
<1>4. ASSUME NEW n \in Name, PrepareCreate(n)
      PROVE  Covered'
  BY <1>4, CoveredAtStart DEF PrepareCreate, server
<1>5. CASE RotateZone
  <2>1. UNCHANGED <<store, removed, pc, cursor, tokens, got, during>> /\ changes' = changes + 1
    BY <1>5 DEF RotateZone, paging, history
  <2>2. \A n \in Name : Seen(n)' = Seen(n)
    BY <2>1 DEF Seen, Changed
  <2>3. QED
    BY <2>1, <2>2 DEF Covered, TypeOK
<1>6. CASE Fetch \/ StartCreate \/ Apply \/ FetchBack
  BY <1>6, CoveredAtStart DEF Fetch, StartCreate, Apply, FetchBack, server
<1>7. CASE Continue
  BY <1>7, CoveredByPage
<1>8. CASE SaveFetched \/ SaveRefetched \/ FetchSource \/ Verify
  BY <1>8 DEF SaveFetched, SaveRefetched, FetchSource, Verify, Complete, Covered, Fetching
<1>9. CASE Compare \/ Acknowledge \/ Fail \/ CarryOut("verify") \/ CarryOut("idle")
  BY <1>9 DEF Compare, Acknowledge, Fail, CarryOut, Covered, Fetching
<1>10. CASE UNCHANGED vars
  BY <1>10 DEF vars, server, paging, history, Covered, Seen, Changed
<1>11. QED
  BY <1>1, <1>2, <1>3, <1>4, <1>5, <1>6, <1>7, <1>8, <1>9, <1>10 DEF Next, Send

\* The last page leaves no name that the fetch has not accounted for.
LEMMA CoveredAtEnd ==
  ASSUME TypeOK, Covered, NEW from \in Fetching, NEW next, Complete(from, next), NEW n \in Name
  PROVE  got'[n] \in during[n]
<1>1. PICK page \in Pages : page.status = 3 /\ Receive(page)
  BY DEF Complete, Last
<1>2. Seen(n)
  BY DEF Complete, Covered
<1>3. /\ got'[n] \in {got[n], store[n]} /\ (got[n] # None => got'[n] = got[n])
      /\ n = page.name /\ store[n] # None => got'[n] # None
  BY <1>1, ReceiveEffect
<1>4. CASE got'[n] # None
  BY <1>2, <1>3, <1>4 DEF Seen
<1>5. CASE got'[n] = None
  <2>1. got[n] = None
    BY <1>3, <1>5
  <2>2. n # page.name => ~(Changed(n) > cursor)
    BY <1>1, PageShape DEF Pending
  <2>3. n = page.name => store[n] = None
    BY <1>3, <1>5
  <2>4. QED
    BY <1>2, <1>5, <2>1, <2>2, <2>3 DEF Seen
<1>6. QED
  BY <1>4, <1>5
-----------------------------------------------------------------------------
(* What a command has printed *)

\* What was printed stands, together with what it is about, until the next
\* command.
OutcomeStep ==
  \/ outcome' = "none"
  \/ SaveFetched
  \/ Verify
  \/ /\ UNCHANGED <<outcome, plan, cache>>
     /\ \A n \in Name : during[n] \subseteq during'[n]

LEMMA OutcomeSteps ==
  TypeOK /\ Phase /\ [Next]_vars => OutcomeStep
<1> SUFFICES ASSUME TypeOK, Phase, [Next]_vars
             PROVE  OutcomeStep
  OBVIOUS
<1>1. ASSUME NEW n \in Name, OthersWrite(n)
      PROVE  OutcomeStep
  <2>1. PICK r \in Record : Stores(n, r)
    BY <1>1, OthersWriteRecord DEF OthersWrite
  <2>2. \A m \in Name : during[m] \subseteq during'[m]
    BY <2>1, StoresEffect
  <2>3. QED
    BY <1>1, <2>2 DEF OthersWrite, OutcomeStep, files
<1>2. ASSUME NEW n \in Name, OthersDelete(n)
      PROVE  OutcomeStep
  BY <1>2, StoresEffect DEF OthersDelete, OutcomeStep, files
<1>3. ASSUME NEW n \in Name, PrepareUpdate(n) \/ PrepareDelete(n)
      PROVE  OutcomeStep
  BY <1>3 DEF PrepareUpdate, PrepareDelete, OutcomeStep
<1>4. ASSUME NEW n \in Name, PrepareCreate(n)
      PROVE  OutcomeStep
  BY <1>4 DEF PrepareCreate, StartFetch, Phase, OutcomeStep
<1>5. RotateZone => OutcomeStep
  BY DEF RotateZone, OutcomeStep, files, history
<1>6. Fetch \/ StartCreate \/ Apply => OutcomeStep
  BY DEF Fetch, StartCreate, Apply, OutcomeStep
<1>7. FetchBack \/ SaveRefetched => OutcomeStep
  BY DEF FetchBack, SaveRefetched, StartFetch, Complete, Phase, OutcomeStep
<1>8. Continue \/ FetchSource \/ Compare \/ Acknowledge \/ Fail => OutcomeStep
  BY DEF Continue, FetchSource, Compare, Acknowledge, Fail, OutcomeStep, files, history
<1>9. CarryOut("verify") \/ CarryOut("idle") => OutcomeStep
  BY DEF CarryOut, Phase, OutcomeStep
<1>10. SaveFetched \/ Verify => OutcomeStep
  BY DEF OutcomeStep
<1>11. UNCHANGED vars => OutcomeStep
  BY DEF vars, files, history, OutcomeStep
<1>12. QED
  BY <1>1, <1>2, <1>3, <1>4, <1>5, <1>6, <1>7, <1>8, <1>9, <1>10, <1>11 DEF Next, Send

LEMMA UpdateConfirmedStep ==
  TypeOK /\ Phase /\ Provenance /\ UpdateConfirmed /\ [Next]_vars => UpdateConfirmed'
<1> SUFFICES ASSUME TypeOK, Phase, Provenance, UpdateConfirmed, [Next]_vars,
                    outcome' \in {"updated", "created"}
             PROVE  applied'[plan'.id] > 0
  BY DEF UpdateConfirmed
<1>1. CASE Verify
  <2>1. plan \in Plan /\ plan' = plan /\ Applied(got')
    BY <1>1 DEF Verify, Complete, Phase, TypeOK, Applying
  <2>2. plan.kind # "delete"
    BY <1>1, <2>1, PlanFields DEF Verify, Printed
  <2>3. got'[plan.name] # None /\ got'[plan.name].by = plan.id
    BY <2>1, <2>2 DEF Applied
  <2>4. plan.name \in Name /\ plan.id > 0
    BY <2>1, PlanFields, BoundAssumption
  <2>5. Provenance'
    BY ProvenanceStep
  <2>6. QED
    BY <2>1, <2>3, <2>4, <2>5 DEF Provenance
<1>2. CASE UNCHANGED <<outcome, plan>>
  <2>1. plan \in Plan /\ applied[plan.id] > 0
    BY <1>2 DEF UpdateConfirmed, Phase, TypeOK
  <2>2. plan.id \in 1..MaxPlans
    BY <2>1, PlanFields
  <2>3. applied'[plan.id] >= applied[plan.id]
    BY <2>2, ServerSteps
  <2>4. applied'[plan.id] \in Nat /\ applied[plan.id] \in Nat
    BY <2>2, TypeStep DEF TypeOK
  <2>5. QED
    BY <1>2, <2>1, <2>3, <2>4
<1>3. SaveFetched => outcome' = "fetched"
  BY DEF SaveFetched
<1>4. QED
  BY <1>1, <1>2, <1>3, OutcomeSteps DEF OutcomeStep

LEMMA DeleteConfirmedStep ==
  TypeOK /\ Phase /\ Covered /\ DeleteConfirmed /\ [Next]_vars => DeleteConfirmed'
<1> SUFFICES ASSUME TypeOK, Phase, Covered, DeleteConfirmed, [Next]_vars, outcome' = "deleted"
             PROVE  None \in during'[plan'.name]
  BY DEF DeleteConfirmed
<1>1. CASE Verify
  <2>1. plan \in Plan /\ plan' = plan /\ during' = during /\ Applied(got')
        /\ Complete("readback", "idle")
    BY <1>1 DEF Verify, Complete, Phase, TypeOK, Applying, history
  <2>2. plan.kind = "delete"
    BY <1>1, <2>1, PlanFields DEF Verify, Printed
  <2>3. got'[plan.name] = None
    BY <2>1, <2>2 DEF Applied
  <2>4. plan.name \in Name /\ "readback" \in Fetching
    BY <2>1, PlanFields DEF Fetching
  <2>5. QED
    BY <2>1, <2>3, <2>4, CoveredAtEnd
<1>2. CASE UNCHANGED <<outcome, plan>> /\ \A n \in Name : during[n] \subseteq during'[n]
  <2>1. plan \in Plan /\ None \in during[plan.name]
    BY <1>2 DEF DeleteConfirmed, Phase, TypeOK
  <2>2. QED
    BY <1>2, <2>1, PlanFields
<1>3. SaveFetched => outcome' = "fetched"
  BY DEF SaveFetched
<1>4. QED
  BY <1>1, <1>2, <1>3, OutcomeSteps DEF OutcomeStep

LEMMA SnapshotFaithfulStep ==
  TypeOK /\ Phase /\ Covered /\ SnapshotFaithful /\ [Next]_vars => SnapshotFaithful'
<1> SUFFICES ASSUME TypeOK, Phase, Covered, SnapshotFaithful, [Next]_vars,
                    outcome' \in {"fetched", "updated", "deleted", "created"}, NEW n \in Name
             PROVE  cache'.records[n] \in during'[n]
  BY DEF SnapshotFaithful
<1>1. CASE SaveFetched
  <2>1. Complete("fetch", "idle") /\ during' = during /\ cache'.records = got'
    BY <1>1, Saved DEF SaveFetched, Labels, history
  <2>2. QED
    BY <2>1, CoveredAtEnd DEF Fetching
<1>2. CASE Verify
  <2>1. Complete("readback", "idle") /\ during' = during /\ cache'.records = got'
    BY <1>2, Saved DEF Verify, Labels, history
  <2>2. QED
    BY <2>1, CoveredAtEnd DEF Fetching
<1>3. CASE UNCHANGED <<outcome, cache>> /\ \A m \in Name : during[m] \subseteq during'[m]
  BY <1>3 DEF SnapshotFaithful
<1>4. QED
  BY <1>1, <1>2, <1>3, OutcomeSteps DEF OutcomeStep

LEMMA AppliedOnceStep ==
  TypeOK /\ Phase /\ Spent /\ AppliedOnce /\ [Next]_vars => AppliedOnce'
<1> SUFFICES ASSUME TypeOK, Phase, Spent, AppliedOnce, [Next]_vars
             PROVE  AppliedOnce'
  OBVIOUS
<1>1. CASE applied' = applied
  BY <1>1 DEF AppliedOnce
<1>2. ASSUME NEW next, CarryOut(next)
      PROVE  AppliedOnce'
  <2>1. /\ plan \in Plan /\ plan.id \in 1..MaxPlans
        /\ \A id \in 1..MaxPlans :
              applied'[id] = IF id = plan.id THEN applied[id] + 1 ELSE applied[id]
    BY <1>2, CarryOutEffect
  <2>2. pc = "send" /\ store[plan.name] = plan.source /\ plan # None
    BY <1>2, <2>1, PlanFields DEF CarryOut, Matches
  <2>3. ~(applied[plan.id] > 0)
    BY <2>2 DEF Spent
  <2>4. applied[plan.id] \in Nat
    BY <2>1 DEF TypeOK
  <2>5. applied'[plan.id] = 1
    BY <2>1, <2>3, <2>4
  <2>6. QED
    BY <2>1, <2>5 DEF AppliedOnce
<1>3. QED
  BY <1>1, <1>2, PlanSteps DEF PlanStep

-----------------------------------------------------------------------------
(* The inductive invariant and the theorems *)

LEMMA InitIInv ==
  Init => IInv
<1> SUFFICES ASSUME Init
             PROVE  IInv
  OBVIOUS
<1>1. TypeOK
  BY EmptySnapshot, BoundAssumption DEF Init, TypeOK, Labels
<1>2. Phase /\ Provenance /\ Spent /\ AppliedOnce
  BY EmptySnapshot DEF Init, Phase, Applying, Provenance, Spent, Dated, AppliedOnce
<1>3. Timeline /\ Covered
  BY EmptySnapshot DEF Init, Timeline, Changed, Covered, Fetching
<1>4. UpdateConfirmed /\ DeleteConfirmed /\ SnapshotFaithful
  BY DEF Init, UpdateConfirmed, DeleteConfirmed, SnapshotFaithful
<1>5. QED
  BY <1>1, <1>2, <1>3, <1>4 DEF IInv

LEMMA NextIInv ==
  IInv /\ [Next]_vars => IInv'
BY TypeStep, PhaseStep, ProvenanceStep, SpentStep, TimelineStep, CoveredStep,
   UpdateConfirmedStep, DeleteConfirmedStep, SnapshotFaithfulStep, AppliedOnceStep DEF IInv

LEMMA Invariance ==
  Spec => []IInv
BY InitIInv, NextIInv, PTL DEF Spec

\* Every variable has its type.
THEOREM TypeCorrect ==
  Spec => []TypeOK
<1>1. IInv => TypeOK
  BY DEF IInv
<1>2. QED
  BY <1>1, Invariance, PTL

\* "updated" and "created" are printed only for a plan that the server has
\* carried out (write.rs:193), whatever other devices do and the service answers.
THEOREM UpdatesAreConfirmed ==
  Spec => []UpdateConfirmed
<1>1. IInv => UpdateConfirmed
  BY DEF IInv
<1>2. QED
  BY <1>1, Invariance, PTL

\* "deleted" is printed only for a record that was absent at some time since the
\* confirming fetch began (cloudkit.rs:264), for any number of records and pages.
THEOREM DeletesAreConfirmed ==
  Spec => []DeleteConfirmed
<1>1. IInv => DeleteConfirmed
  BY DEF IInv
<1>2. QED
  BY <1>1, Invariance, PTL

\* A saved dataset shows every name as it stood at some time during its fetch,
\* though records change, move to later pages and disappear meanwhile.
THEOREM SnapshotsAreFaithful ==
  Spec => []SnapshotFaithful
<1>1. IInv => SnapshotFaithful
  BY DEF IInv
<1>2. QED
  BY <1>1, Invariance, PTL

\* No plan is carried out twice, however often and whenever it is applied.
THEOREM PlansAreAppliedOnce ==
  Spec => []AppliedOnce
<1>1. IInv => AppliedOnce
  BY DEF IInv
<1>2. QED
  BY <1>1, Invariance, PTL

\* The server replaces or removes for this client only the record that the plan
\* was prepared from, and touches no other.
THEOREM NoUpdateIsLost ==
  Spec => NoLostUpdate
<1>1. ASSUME IInv, [Next]_vars, applied' # applied
      PROVE  /\ store[plan.name] = plan.source
             /\ \A n \in Name \ {plan.name} : store'[n] = store[n]
  <2>1. TypeOK /\ Phase
    BY <1>1 DEF IInv
  <2>2. CarryOut("verify") \/ CarryOut("idle")
    BY <1>1, <2>1, PlanSteps DEF PlanStep
  <2>3. store[plan.name] = plan.source
    BY <2>2 DEF CarryOut, Matches
  <2>4. plan.name \in Name /\ Planned \in Record \cup {None} /\ Stores(plan.name, Planned)
    BY <2>1, <2>2, CarryOutEffect
  <2>5. QED
    BY <2>1, <2>3, <2>4, StoresEffect
<1>2. IInv /\ [Next]_vars =>
        [applied' # applied =>
           /\ store[plan.name] = plan.source
           /\ \A n \in Name \ {plan.name} : store'[n] = store[n]]_vars
  BY <1>1
<1>3. QED
  BY <1>2, Invariance, PTL DEF Spec, NoLostUpdate

-----------------------------------------------------------------------------
(* The place of a new bookmark, which a command of write.rs prepares        *)

CONSTANTS Step, MaxSort

Making == INSTANCE NewRecord WITH Old <- "old", Fresh <- "fresh"

\* Among sets of elements of a finite one there is a smallest.
LEMMA SmallestSet ==
  ASSUME NEW A, IsFiniteSet(A), NEW C, C \subseteq SUBSET A, C # {}
  PROVE  \E U \in C : \A V \in C : V \subseteq U => V = U
<1> DEFINE R == StrictSubsetOrdering(A)
<1>1. IsWellFoundedOn(R, SUBSET A)
  BY FS_StrictSubsetOrderingWellFounded, FS_FiniteSubsetsOfFinite
<1>2. \A V, U \in SUBSET A : V \subseteq U /\ V # U => <<V, U>> \in R
  BY DEF StrictSubsetOrdering
<1> HIDE DEF R
<1>3. PICK U \in C : \A V \in C : ~(<<V, U>> \in R)
  BY <1>1, WFMin
<1> QED
  BY <1>2, <1>3

\* A finite set has a last element in any total order.
LEMMA FiniteLast ==
  ASSUME NEW S, IsFiniteSet(S), S # {}, NEW R,
         \A x, y \in S : <<x, y>> \in R \/ <<y, x>> \in R,
         \A x, y, z \in S : <<x, y>> \in R /\ <<y, z>> \in R => <<x, z>> \in R
  PROVE  \E m \in S : \A n \in S : <<n, m>> \in R
<1> DEFINE Bad == {T \in SUBSET S : T # {} /\ \A m \in T : \E n \in T : ~(<<n, m>> \in R)}
<1>1. SUFFICES ASSUME Bad # {} PROVE FALSE
  <2>1. S \in SUBSET S /\ ~(S \in Bad)
    BY <1>1
  <2> QED BY <2>1
<1>2. PICK T \in Bad : \A V \in Bad : V \subseteq T => V = T
  <2>1. Bad \subseteq SUBSET S
    OBVIOUS
  <2> HIDE DEF Bad
  <2> QED BY <1>1, <2>1, SmallestSet
<1>3. PICK x \in T : TRUE
  BY <1>2
<1>4. CASE T \ {x} = {}
  <2>1. x \in S /\ \A n \in T : n = x
    BY <1>3, <1>4
  <2>2. <<x, x>> \in R
    BY <2>1
  <2> QED BY <1>3, <2>1, <2>2
<1>5. CASE T \ {x} # {}
  <2>1. ~(T \ {x} \in Bad) /\ T \ {x} \in SUBSET S
    <3>1. T \ {x} \subseteq T /\ T \ {x} # T
      BY <1>3
    <3>2. T \in SUBSET S
      OBVIOUS
    <3> HIDE DEF Bad
    <3> QED BY <1>2, <3>1, <3>2
  <2>2. PICK m \in T \ {x} : \A n \in T \ {x} : <<n, m>> \in R
    BY <1>5, <2>1
  <2>3. CASE <<x, m>> \in R
    <3>1. \A n \in T : <<n, m>> \in R
      BY <2>2, <2>3
    <3> QED BY <1>2, <2>2, <3>1
  <2>4. CASE <<m, x>> \in R
    <3>1. \A n \in T : <<n, x>> \in R
      BY <1>2, <1>3, <2>2, <2>4
    <3> QED BY <1>2, <1>3, <3>1
  <2> QED BY <1>2, <1>3, <2>2, <2>3, <2>4
<1> QED BY <1>4, <1>5

\* A set of numbers that is not empty has a largest.
LEMMA FiniteMax ==
  ASSUME NEW S, S \subseteq Int, IsFiniteSet(S), S # {}
  PROVE  \E m \in S : \A n \in S : n <= m
<1> DEFINE R == {p \in S \X S : p[1] <= p[2]}
<1>1. \A x, y \in S : <<x, y>> \in R <=> x <= y
  OBVIOUS
<1> HIDE DEF R
<1>2. /\ \A x, y \in S : <<x, y>> \in R \/ <<y, x>> \in R
      /\ \A x, y, z \in S : <<x, y>> \in R /\ <<y, z>> \in R => <<x, z>> \in R
  BY <1>1
<1>3. \E m \in S : \A n \in S : <<n, m>> \in R
  BY <1>2, FiniteLast, Zenon
<1> QED BY <1>1, <1>3

\* What the choice of the largest gives.
LEMMA MaxIs ==
  ASSUME NEW S, S \subseteq Int, IsFiniteSet(S), S # {}
  PROVE  Making!Max(S) \in S /\ \A n \in S : n <= Making!Max(S)
<1>1. PICK m \in S : \A n \in S : n <= m
  BY FiniteMax
<1>2. \A n \in S : m >= n
  BY <1>1
<1>3. Making!Max(S) \in S /\ \A n \in S : Making!Max(S) >= n
  BY <1>1, <1>2, Zenon DEF Making!Max
<1> QED BY <1>3

\* What a function makes of a finite set is finite.
LEMMA ImageFinite ==
  ASSUME NEW S, IsFiniteSet(S), NEW f
  PROVE  IsFiniteSet({f[x] : x \in S})
<1> DEFINE T == {f[x] : x \in S}
           h == [x \in S |-> f[x]]
<1>1. h \in Surjection(S, T)
  BY DEF Surjection
<1> HIDE DEF h, T
<1>2. IsFiniteSet(T)
  BY <1>1, FS_Surjection
<1> QED BY <1>2 DEF T

\* A new bookmark is behind every child of its folder whose position is in plain sight,
\* whatever is in the folder, how far apart its children are and on which side of zero,
\* although sort values are rounded up to whole numbers (write.rs:970).
THEOREM GoesLast ==
  ASSUME Step \in Nat, Step > 0, NEW parent,
         NEW folders,
         \A records \in folders : IsFiniteSet(records) /\
           \A r \in records : r.values \subseteq Int /\ IsFiniteSet(r.values)
  PROVE  Making!GoesLast(folders, parent)
<1> SUFFICES ASSUME NEW records \in folders,
                    Making!NextSortValue(records, parent).ok,
                    NEW r \in records, r.parent = parent, NEW v \in r.values
             PROVE  2 * Making!NextSortValue(records, parent).value > v + 1
  BY DEF Making!GoesLast
<1> DEFINE children == {s \in records : s.parent = parent}
           placed == UNION {s.values : s \in children}
           values == {Making!Ceiling(w) : w \in placed}
<1>1. IsFiniteSet(placed)
  <2>1. IsFiniteSet(children)
    BY FS_Subset
  <2> DEFINE f == [s \in children |-> s.values]
             parts == {f[s] : s \in children}
  <2>2. IsFiniteSet(parts)
    <3> HIDE DEF f, children
    <3> QED BY <2>1, ImageFinite, Zenon
  <2>3. \A part \in parts : IsFiniteSet(part)
    OBVIOUS
  <2>4. placed = UNION parts
    OBVIOUS
  <2> HIDE DEF parts, placed
  <2> QED BY <2>2, <2>3, <2>4, FS_UNION
<1>2. placed \subseteq Int /\ v \in placed
  OBVIOUS
<1> HIDE DEF placed
<1>3. IsFiniteSet(values)
  <2> DEFINE f == [w \in placed |-> Making!Ceiling(w)]
  <2>1. values = {f[w] : w \in placed}
    OBVIOUS
  <2> HIDE DEF f, values
  <2> QED BY <1>1, <2>1, ImageFinite, Zenon
<1>4. \A w \in Int : Making!Ceiling(w) \in Int /\ 2 * Making!Ceiling(w) >= w
  BY DEF Making!Ceiling
<1>5. values \subseteq Int /\ Making!Ceiling(v) \in values
  BY <1>2, <1>4
<1> HIDE DEF values
<1>6. Making!Max(values) \in Int /\ Making!Max(values) >= Making!Ceiling(v)
  BY <1>3, <1>5, MaxIs
<1>7. Making!NextSortValue(records, parent).value = Making!Max(values) + Step
  BY <1>5, SMT DEF Making!NextSortValue, Making!Refused, values, placed
<1> QED BY <1>2, <1>4, <1>6, <1>7

-----------------------------------------------------------------------------
(* Induction.  The writer of records and the wire format are loops, and their operators   *)
(* recursive functions; what they compute is found by induction over the rounds.          *)

LEMMA NatMin ==
  ASSUME NEW S, S \subseteq Nat, S # {}
  PROVE  \E x \in S : \A y \in S : x <= y
<1>1. \E R : IsWellFoundedOn(R, Nat) /\ \A x, y \in Nat : y < x => <<y, x>> \in R
  <2>1. IsWellFoundedOn(OpToRel(<, Nat), Nat)
    BY NatLessThanWellFounded
  <2>2. \A x, y \in Nat : y < x => <<y, x>> \in OpToRel(<, Nat)
    BY DEF OpToRel
  <2> QED BY <2>1, <2>2, Zenon
<1>2. PICK R : IsWellFoundedOn(R, Nat) /\ \A x, y \in Nat : y < x => <<y, x>> \in R
  BY <1>1
<1>3. PICK x \in S : \A y \in S : ~(<<y, x>> \in R)
  BY <1>2, WFMin
<1>4. ASSUME NEW y \in S PROVE x <= y
  <2>1. x \in Nat /\ y \in Nat
    OBVIOUS
  <2>2. ~(y < x)
    BY <1>2, <1>3, <2>1, Zenon
  <2> QED BY <2>1, <2>2
<1> QED
  BY <1>4

\* Induction over the numbers, for a set of them.
LEMMA NatAll ==
  ASSUME NEW Good, 0 \in Good, \A n \in Nat : n \in Good => n + 1 \in Good
  PROVE  Nat \subseteq Good
<1> DEFINE Bad == Nat \ Good
<1>1. SUFFICES ASSUME Bad # {} PROVE FALSE
  OBVIOUS
<1>2. PICK n \in Bad : \A m \in Bad : n <= m
  <2>1. Bad \subseteq Nat
    OBVIOUS
  <2> HIDE DEF Bad
  <2> QED BY <1>1, <2>1, NatMin
<1>3. n # 0
  BY <1>2
<1>4. n - 1 \in Nat /\ n - 1 \notin Bad /\ (n - 1) + 1 = n
  BY <1>2, <1>3
<1> QED
  BY <1>2, <1>4

-----------------------------------------------------------------------------
(* Recursion *)

\* p follows the rule D from c up to n.
Follows(p, n, c, D) == p = [i \in 0 .. n |-> IF i = 0 THEN c ELSE D[i][p[i - 1]]]

\* All of f does.
Runs(f, c, D) == \A n \in Nat : f[n] = IF n = 0 THEN c ELSE D[n][f[n - 1]]
RunsTo(f, n, c, D) == \A i \in 0 .. n : f[i] = IF i = 0 THEN c ELSE D[i][f[i - 1]]

\* A value for 0 and a rule from one number to the next make a function.
LEMMA Recursion ==
  ASSUME NEW V, NEW c \in V, NEW D \in [Nat -> [V -> V]]
  PROVE  \E f \in [Nat -> V] : Runs(f, c, D)
<1> DEFINE Good == {m \in Nat : \E p \in [0 .. m -> V] : Follows(p, m, c, D)}
<1>1. 0 \in Good
  <2> DEFINE p == [i \in 0 .. 0 |-> c]
  <2>1. p \in [0 .. 0 -> V] /\ Follows(p, 0, c, D)
    BY DEF Follows
  <2> HIDE DEF p
  <2> QED BY <2>1
<1>2. ASSUME NEW m \in Nat, m \in Good PROVE m + 1 \in Good
  <2>1. PICK p \in [0 .. m -> V] : Follows(p, m, c, D)
    BY <1>2
  <2> DEFINE q == [i \in 0 .. m + 1 |-> IF i = 0 THEN c ELSE D[i][p[i - 1]]]
  <2>2. \A i \in 0 .. m : p[i] = q[i]
    BY <2>1 DEF Follows
  <2>3. \A i \in 0 .. m + 1 : i # 0 => i - 1 \in 0 .. m /\ i \in Nat
    OBVIOUS
  <2>4. q \in [0 .. m + 1 -> V]
    <3>1. \A i \in 0 .. m + 1 : i # 0 => i \in Nat /\ p[i - 1] \in V
      BY <2>3
    <3>2. \A i \in 0 .. m + 1 : i # 0 => D[i][p[i - 1]] \in V
      BY <3>1
    <3> QED BY <3>2
  <2>5. \A i \in 0 .. m + 1 : i # 0 => p[i - 1] = q[i - 1]
    <3> HIDE DEF q
    <3> QED BY <2>2, <2>3
  <2>6. q = [i \in 0 .. m + 1 |-> IF i = 0 THEN c ELSE D[i][q[i - 1]]]
    BY <2>5
  <2>7. Follows(q, m + 1, c, D)
    BY <2>6, Zenon DEF Follows
  <2> HIDE DEF q
  <2> QED BY <2>4, <2>7
<1> HIDE DEF Good
<1>3. Nat \subseteq Good
  BY <1>1, <1>2, NatAll
<1> DEFINE P(n) == CHOOSE p : p \in [0 .. n -> V] /\ Follows(p, n, c, D)
           f == [n \in Nat |-> P(n)[n]]
<1>4. \A n \in Nat : P(n) \in [0 .. n -> V] /\ Follows(P(n), n, c, D)
  BY <1>3 DEF Good
<1> HIDE DEF P
<1>5. \A n \in Nat : \A i \in 0 .. n : P(n)[i] = IF i = 0 THEN c ELSE D[i][P(n)[i - 1]]
  BY <1>4 DEF Follows
<1>6. \A m, n \in Nat : m <= n => P(m)[m] = P(n)[m]
  <2> DEFINE Same == {i \in Nat : \A m, n \in Nat : i <= m /\ m <= n => P(m)[i] = P(n)[i]}
  <2>1. 0 \in Same
    BY <1>5
  <2>2. ASSUME NEW i \in Nat, i \in Same PROVE i + 1 \in Same
    <3> SUFFICES ASSUME NEW m \in Nat, NEW n \in Nat, i + 1 <= m, m <= n
                 PROVE  P(m)[i + 1] = P(n)[i + 1]
      OBVIOUS
    <3>1. i + 1 \in 0 .. m /\ i + 1 \in 0 .. n /\ i + 1 # 0 /\ (i + 1) - 1 = i /\ i <= m
      OBVIOUS
    <3>2. P(m)[i] = P(n)[i]
      BY <2>2, <3>1
    <3>3. P(m)[i + 1] = D[i + 1][P(m)[i]] /\ P(n)[i + 1] = D[i + 1][P(n)[i]]
      BY <1>5, <3>1
    <3> QED BY <3>2, <3>3
  <2> HIDE DEF Same
  <2>3. Nat \subseteq Same
    BY <2>1, <2>2, NatAll
  <2> QED BY <2>3 DEF Same
<1>7. ASSUME NEW n \in Nat PROVE f[n] = IF n = 0 THEN c ELSE D[n][f[n - 1]]
  <2>1. f[n] = IF n = 0 THEN c ELSE D[n][P(n)[n - 1]]
    BY <1>5
  <2>2. ASSUME n # 0 PROVE P(n)[n - 1] = f[n - 1]
    <3>1. n - 1 \in Nat /\ n - 1 <= n
      BY <2>2
    <3> QED BY <1>6, <3>1
  <2> HIDE DEF f
  <2> QED BY <2>1, <2>2
<1>8. f \in [Nat -> V]
  <2>1. \A n \in Nat : n \in 0 .. n
    OBVIOUS
  <2>2. \A n \in Nat : P(n)[n] \in V
    BY <1>4, <2>1
  <2> QED BY <2>2
<1> HIDE DEF f
<1> QED BY <1>7, <1>8 DEF Runs

\* The same up to some number.
LEMMA Loop ==
  ASSUME NEW V, NEW c \in V, NEW n \in Nat, NEW D \in [1 .. n -> [V -> V]]
  PROVE  \E f \in [0 .. n -> V] : RunsTo(f, n, c, D)
<1> DEFINE E == [i \in Nat |-> IF i \in 1 .. n THEN D[i] ELSE [v \in V |-> v]]
<1>1. E \in [Nat -> [V -> V]]
  OBVIOUS
<1>2. \A i \in 1 .. n : E[i] = D[i]
  OBVIOUS
<1> HIDE DEF E
<1>3. PICK f \in [Nat -> V] : Runs(f, c, E)
  BY <1>1, Recursion
<1> DEFINE h == [i \in 0 .. n |-> f[i]]
<1>4. h \in [0 .. n -> V]
  OBVIOUS
<1>5. \A i \in 0 .. n : h[i] = IF i = 0 THEN c ELSE D[i][h[i - 1]]
  <2>1. \A i \in 0 .. n : i # 0 => i \in 1 .. n /\ i - 1 \in 0 .. n
    OBVIOUS
  <2> QED BY <1>2, <1>3, <2>1 DEF Runs
<1> HIDE DEF h
<1> QED BY <1>4, <1>5 DEF RunsTo

-----------------------------------------------------------------------------
(* The fields of a new bookmark or tab *)

\* A field of a template: what is in plain sight is authenticated for no record, and
\* references are in plain sight.
CONSTANT Template

Field ==
  {f \in [name : STRING, type : STRING, enc : BOOLEAN, for : {None, Template}, opens : BOOLEAN,
          short : BOOLEAN, value : {"old"}] :
     (f.enc => f.type # "reference") /\ (~f.enc => f.for = None)}

FieldNames(s) == \A n, m \in DOMAIN s : n # m => s[n].name # s[m].name
Omits(how, field) == how[field.name].do = "omit"

\* s has the fields of t up to n that are not omitted, and no others.
KeptOf(s, t, n, how) ==
  /\ \A i \in DOMAIN s : ~Omits(how, s[i]) /\ \E m \in 1 .. n : s[i] = t[m]
  /\ \A m \in 1 .. n : ~Omits(how, t[m]) => \E i \in DOMAIN s : s[i] = t[m]
  /\ FieldNames(s)

LEMMA KeptStep ==
  ASSUME NEW t \in Seq(Field), NEW how, NEW n \in 1 .. Len(t), FieldNames(t),
         NEW s \in Seq(Field), KeptOf(s, t, n - 1, how)
  PROVE  KeptOf(IF Omits(how, t[n]) THEN s ELSE Append(s, t[n]), t, n, how)
<1>1. \A m \in 1 .. n : m = n \/ m \in 1 .. n - 1
  OBVIOUS
<1>2. CASE Omits(how, t[n])
  BY <1>1, <1>2 DEF KeptOf
<1>3. CASE ~Omits(how, t[n])
  <2> DEFINE u == Append(s, t[n])
  <2>1. /\ u \in Seq(Field) /\ Len(u) = Len(s) + 1 /\ u[Len(s) + 1] = t[n]
        /\ \A i \in 1 .. Len(s) : u[i] = s[i]
        /\ DOMAIN u = 1 .. Len(s) + 1 /\ DOMAIN s = 1 .. Len(s)
    OBVIOUS
  <2> HIDE DEF u
  <2>2. \A i \in 1 .. Len(s) + 1 : i = Len(s) + 1 \/ i \in 1 .. Len(s)
    OBVIOUS
  <2>3. \A i \in DOMAIN u : ~Omits(how, u[i]) /\ \E m \in 1 .. n : u[i] = t[m]
    BY <1>3, <2>1, <2>2 DEF KeptOf
  <2>4. \A m \in 1 .. n : ~Omits(how, t[m]) => \E i \in DOMAIN u : u[i] = t[m]
    <3> TAKE m \in 1 .. n
    <3> HAVE ~Omits(how, t[m])
    <3>1. CASE m = n
      BY <2>1, <3>1
    <3>2. CASE m \in 1 .. n - 1
      <4>1. PICK i \in DOMAIN s : s[i] = t[m]
        BY <3>2 DEF KeptOf
      <4> QED BY <2>1, <4>1
    <3> QED BY <1>1, <3>1, <3>2
  <2>5. \A i \in DOMAIN s : s[i].name # t[n].name
    <3> TAKE i \in DOMAIN s
    <3>1. PICK m \in 1 .. n - 1 : s[i] = t[m]
      BY DEF KeptOf
    <3>2. m \in DOMAIN t /\ n \in DOMAIN t /\ m # n
      OBVIOUS
    <3> QED BY <3>1, <3>2 DEF FieldNames
  <2>6. FieldNames(u)
    <3> SUFFICES ASSUME NEW i \in 1 .. Len(s) + 1, NEW j \in 1 .. Len(s) + 1, i # j
                 PROVE  u[i].name # u[j].name
      BY <2>1 DEF FieldNames
    <3>1. CASE i \in 1 .. Len(s) /\ j \in 1 .. Len(s)
      <4>1. s[i].name # s[j].name
        BY <2>1, <3>1 DEF FieldNames, KeptOf
      <4> QED BY <2>1, <3>1, <4>1
    <3>2. CASE i \in 1 .. Len(s) /\ j = Len(s) + 1
      <4>1. s[i].name # t[n].name /\ u[i] = s[i] /\ u[j] = t[n]
        BY <2>1, <2>5, <3>2
      <4> QED BY <4>1
    <3>3. CASE j \in 1 .. Len(s) /\ i = Len(s) + 1
      <4>1. s[j].name # t[n].name /\ u[j] = s[j] /\ u[i] = t[n]
        BY <2>1, <2>5, <3>3
      <4> QED BY <4>1
    <3> QED BY <2>2, <3>1, <3>2, <3>3
  <2> QED BY <1>3, <2>3, <2>4, <2>6 DEF KeptOf, u
<1> QED BY <1>2, <1>3

\* What the loop keeps of a template.
LEMMA KeptIs ==
  ASSUME NEW t \in Seq(Field), NEW how, FieldNames(t)
  PROVE  /\ Making!Kept(t, how) \in Seq(Field)
         /\ KeptOf(Making!Kept(t, how), t, Len(t), how)
<1> DEFINE V == Seq(Field)
           Rule(i) == [s \in V |-> IF Omits(how, t[i]) THEN s ELSE Append(s, t[i])]
           D == [i \in 1 .. Len(t) |-> Rule(i)]
           kept == CHOOSE f : f = [n \in 0 .. Len(t) |->
                     IF n = 0 THEN <<>>
                     ELSE IF how[t[n].name].do = "omit" THEN f[n - 1]
                     ELSE Append(f[n - 1], t[n])]
<1>1. Len(t) \in Nat /\ <<>> \in V /\ \A i \in 1 .. Len(t) : t[i] \in Field
  OBVIOUS
<1>2. D \in [1 .. Len(t) -> [V -> V]]
  <2>1. \A i \in 1 .. Len(t) : \A s \in V : Append(s, t[i]) \in V
    BY <1>1
  <2>2. \A i \in 1 .. Len(t) : Rule(i) \in [V -> V]
    <3> HIDE DEF V
    <3> QED BY <2>1
  <2> HIDE DEF V, Rule
  <2> QED BY <2>2
<1>3. PICK f \in [0 .. Len(t) -> V] : RunsTo(f, Len(t), <<>>, D)
  <2> HIDE DEF V, D
  <2> QED BY <1>1, <1>2, Loop
<1>4. \A n \in 0 .. Len(t) : n # 0 => n \in 1 .. Len(t) /\ n - 1 \in 0 .. Len(t)
  OBVIOUS
<1>5. \A n \in 1 .. Len(t) : \A s \in V :
        D[n][s] = IF Omits(how, t[n]) THEN s ELSE Append(s, t[n])
  <2> HIDE DEF V
  <2> QED OBVIOUS
<1> HIDE DEF V, D
<1>6. \A n \in 0 .. Len(t) : f[n] = IF n = 0 THEN <<>>
                                    ELSE IF Omits(how, t[n]) THEN f[n - 1]
                                    ELSE Append(f[n - 1], t[n])
  <2> TAKE n \in 0 .. Len(t)
  <2>1. f[n] = IF n = 0 THEN <<>> ELSE D[n][f[n - 1]]
    BY <1>3 DEF RunsTo
  <2>2. n # 0 => f[n - 1] \in V
    BY <1>4
  <2> QED BY <1>4, <1>5, <2>1, <2>2
<1>7. f = [n \in 0 .. Len(t) |-> IF n = 0 THEN <<>>
                                 ELSE IF how[t[n].name].do = "omit" THEN f[n - 1]
                                 ELSE Append(f[n - 1], t[n])]
  BY <1>6 DEF Omits
<1>8. kept = [n \in 0 .. Len(t) |-> IF n = 0 THEN <<>>
                                    ELSE IF how[t[n].name].do = "omit" THEN kept[n - 1]
                                    ELSE Append(kept[n - 1], t[n])]
  BY <1>7, Zenon
<1>9. Making!Kept(t, how) = kept[Len(t)]
  BY Zenon DEF Making!Kept
<1> HIDE DEF kept
<1>13. \A n \in 0 .. Len(t) : kept[n] = IF n = 0 THEN <<>>
                                       ELSE IF Omits(how, t[n]) THEN kept[n - 1]
                                       ELSE Append(kept[n - 1], t[n])
  BY <1>8 DEF Omits
<1> DEFINE Good == {n \in Nat : n \in 0 .. Len(t) => kept[n] \in V /\ KeptOf(kept[n], t, n, how)}
<1>10. 0 \in Good
  <2>1. kept[0] = <<>>
    BY <1>1, <1>13
  <2>2. KeptOf(<<>>, t, 0, how)
    BY DEF KeptOf, FieldNames
  <2> QED BY <1>1, <2>1, <2>2
<1>11. \A n \in Nat : n \in Good => n + 1 \in Good
  <2> SUFFICES ASSUME NEW n \in Nat, n \in Good, n + 1 \in 0 .. Len(t)
               PROVE  kept[n + 1] \in V /\ KeptOf(kept[n + 1], t, n + 1, how)
    OBVIOUS
  <2>1. kept[n] \in V /\ KeptOf(kept[n], t, n, how)
    BY <1>1
  <2>2. n + 1 \in 1 .. Len(t) /\ (n + 1) - 1 = n
    BY <1>1
  <2>3. kept[n + 1] = IF Omits(how, t[n + 1]) THEN kept[n] ELSE Append(kept[n], t[n + 1])
    BY <1>1, <1>13, <2>2
  <2>4. KeptOf(IF Omits(how, t[n + 1]) THEN kept[n] ELSE Append(kept[n], t[n + 1]), t, n + 1, how)
    BY <2>1, <2>2, KeptStep DEF V
  <2>5. t[n + 1] \in Field
    BY <1>1, <2>2
  <2> QED BY <2>1, <2>3, <2>4, <2>5 DEF V
<1>12. Len(t) \in Good
  <2> HIDE DEF Good
  <2>1. Nat \subseteq Good
    BY <1>10, <1>11, NatAll
  <2> QED BY <1>1, <2>1
<1> QED BY <1>1, <1>9, <1>12 DEF V

\* What becomes of a field: its name stays.
Renewed(field, how, record) == Making!NewValue(field, how[field.name], record)

LEMMA NameStays ==
  ASSUME NEW field \in Field, NEW how, NEW record
  PROVE  Renewed(field, how, record).name = field.name
BY DEF Renewed, Field, Making!NewValue, Making!Point, Making!Seal

\* A created record has the fields of a template that fits, without those omitted.
MadeOf(fields, t, required, how, record) ==
  \E s \in Seq(Field) : /\ Making!TemplateFits(t, required, how)
                        /\ KeptOf(s, t, Len(t), how)
                        /\ fields = [n \in DOMAIN s |-> Renewed(s[n], how, record)]

LEMMA CreatedIs ==
  ASSUME NEW templates \in Seq(Seq(Field)), NEW required, NEW how, NEW record,
         Making!PrepareCreate(templates, required, how, record).ok
  PROVE  \E n \in DOMAIN templates :
           MadeOf(Making!PrepareCreate(templates, required, how, record).fields,
                  templates[n], required, how, record)
<1> DEFINE fitting == {n \in DOMAIN templates : Making!TemplateFits(templates[n], required, how)}
           t == templates[Making!Min(fitting)]
           s == Making!Kept(t, how)
           created == Making!PrepareCreate(templates, required, how, record)
<1>1. fitting # {}
  BY DEF Making!PrepareCreate, Making!Refused
<1>2. fitting \subseteq Nat /\ fitting \subseteq DOMAIN templates
  OBVIOUS
<1>3. created.fields = [n \in DOMAIN s |-> Renewed(s[n], how, record)]
  <2>1. ~(fitting = {} \/ \E n \in DOMAIN s : ~Making!Opened(s[n], how[s[n].name]))
    BY Zenon DEF Making!PrepareCreate, Making!Refused
  <2> QED BY <2>1 DEF Making!PrepareCreate, Renewed
<1>4. \A n \in fitting : Making!TemplateFits(templates[n], required, how)
  OBVIOUS
<1> HIDE DEF fitting, created
<1>5. Making!Min(fitting) \in fitting
  <2>1. \E n \in fitting : \A m \in fitting : n <= m
    BY <1>1, <1>2, NatMin
  <2> QED BY <2>1, Zenon DEF Making!Min
<1>6. t \in Seq(Field) /\ Making!TemplateFits(t, required, how)
  <2>1. PICK n \in fitting : n = Making!Min(fitting)
    BY <1>5
  <2>2. templates[n] \in Seq(Field) /\ Making!TemplateFits(templates[n], required, how)
    BY <1>2, <1>4
  <2> QED BY <2>1, <2>2
<1>7. \E n \in DOMAIN templates : templates[n] = t
  BY <1>2, <1>5
<1> HIDE DEF t
<1>8. FieldNames(t)
  BY <1>6 DEF FieldNames, Making!TemplateFits
<1>9. s \in Seq(Field) /\ KeptOf(s, t, Len(t), how)
  BY <1>6, <1>8, KeptIs
<1> HIDE DEF s
<1>10. MadeOf(created.fields, t, required, how, record)
  BY <1>3, <1>6, <1>9 DEF MadeOf
<1> QED BY <1>7, <1>10 DEF created

IsBookmark(fields, new, record) ==
  /\ Making!Names(fields) = Making!BookmarkRequired
  /\ Len(fields) = Making!Cardinality(Making!BookmarkRequired)
  /\ \A n \in DOMAIN fields :
       /\ fields[n].value = "old" => Making!Inherited(fields[n])
       /\ fields[n].for \in {None, record}
       /\ fields[n].name \in {"Title", "URL", "DateAdded"} =>
            fields[n].enc /\ fields[n].value = new[fields[n].name]

\* Nothing that is asked for is the template's.
Asked(new) ==
  {new["Title"], new["URL"], new["DateAdded"], new.parent, new.position, new.device}
    \cap {"old"} = {}

\* How a name is filled in, and whether a field can be.
How(field, new) == Making!BookmarkField(field.name, new)

\* What the plan says of each name.
LEMMA BookmarkPlan ==
  ASSUME NEW name, NEW new
  PROVE  /\ name \in {"Title", "URL", "DateAdded"} =>
              Making!BookmarkField(name, new) = [do |-> "encrypt", type |-> None, value |-> new[name]]
         /\ name = "ParentFolder" =>
              Making!BookmarkField(name, new) = [do |-> "point", type |-> None, value |-> new.parent]
         /\ name = "IdentityHash" =>
              Making!BookmarkField(name, new) = [do |-> "fresh", type |-> None, value |-> None]
         /\ name = "MinimumAPIVersion" =>
              Making!BookmarkField(name, new) = [do |-> "keep", type |-> "int", value |-> None]
         /\ name = "Position" =>
              Making!BookmarkField(name, new) = [do |-> "plain", type |-> "bytes", value |-> new.position]
         /\ name \in Making!Devices =>
              Making!BookmarkField(name, new) = [do |-> "plain", type |-> "string", value |-> new.device]
         /\ name \in Making!Generations =>
              Making!BookmarkField(name, new) = [do |-> "plain", type |-> "int", value |-> "1"]
<1> USE DEF Making!BookmarkField, Making!BookmarkOmitted
<1>1. CASE name \in {"Title", "URL", "DateAdded"}
  BY <1>1 DEF Making!Devices, Making!Generations, Making!Encrypted
<1>2. CASE name = "ParentFolder"
  BY <1>2 DEF Making!Devices, Making!Generations, Making!StringOrReference
<1>3. CASE name = "IdentityHash"
  BY <1>3 DEF Making!Devices, Making!Generations, Making!FreshIdentityHash
<1>4. CASE name = "MinimumAPIVersion"
  BY <1>4 DEF Making!Devices, Making!Generations, Making!Keep
<1>5. CASE name = "Position"
  BY <1>5 DEF Making!Devices, Making!Generations, Making!Plain
<1>6. CASE name \in Making!Devices
  BY <1>6 DEF Making!Devices, Making!Generations, Making!Plain
<1>7. CASE name \in Making!Generations
  BY <1>7 DEF Making!Devices, Making!Generations, Making!Plain
<1> QED BY <1>1, <1>2, <1>3, <1>4, <1>5, <1>6, <1>7

\* The field that replaces one of a template.
LEMMA BookmarkField ==
  ASSUME NEW field \in Field, NEW new, NEW record, Asked(new), NEW how,
         how[field.name] = How(field, new), How(field, new).do # "omit",
         Making!Fits(field, How(field, new))
  PROVE  /\ field.name \in Making!BookmarkRequired
         /\ Renewed(field, how, record).value = "old" => Making!Inherited(Renewed(field, how, record))
         /\ Renewed(field, how, record).for \in {None, record}
         /\ field.name \in {"Title", "URL", "DateAdded"} =>
              /\ Renewed(field, how, record).enc
              /\ Renewed(field, how, record).value = new[field.name]
<1>1. Renewed(field, how, record) = Making!NewValue(field, How(field, new), record)
  BY DEF Renewed
<1>2. CASE field.name \in {"Title", "URL", "DateAdded"}
  <2>1. How(field, new) = [do |-> "encrypt", type |-> None, value |-> new[field.name]]
    BY <1>2, BookmarkPlan, Zenon DEF How
  <2>2. Renewed(field, how, record) = Making!Seal(field, new[field.name], record) /\ field.enc
    BY <1>1, <2>1 DEF Making!NewValue, Making!Fits
  <2>3. new[field.name] # "old" /\ field.name \in Making!BookmarkRequired
    BY <1>2 DEF Asked, Making!BookmarkRequired
  <2>4. /\ Renewed(field, how, record).value = new[field.name] /\ Renewed(field, how, record).enc
        /\ Renewed(field, how, record).for \in {None, record}
    BY <2>2 DEF Making!Seal, Field
  <2> QED BY <1>2, <2>3, <2>4
<1>3. CASE field.name = "ParentFolder"
  <2>1. How(field, new) = [do |-> "point", type |-> None, value |-> new.parent]
    BY <1>3, BookmarkPlan, Zenon DEF How
  <2>2. Renewed(field, how, record) = Making!Point(field, new.parent)
    BY <1>1, <2>1 DEF Making!NewValue
  <2> QED BY <1>3, <2>2 DEF Making!Point, Asked, Making!BookmarkRequired, Field
<1>4. CASE field.name = "IdentityHash"
  <2>1. How(field, new) = [do |-> "fresh", type |-> None, value |-> None]
    BY <1>4, BookmarkPlan, Zenon DEF How
  <2>2. \/ /\ Renewed(field, how, record) = [field EXCEPT !.value = "fresh"]
           /\ ~field.enc /\ ~field.short
        \/ /\ Renewed(field, how, record) = Making!Seal(field, Making!Random(field), record)
           /\ field.enc
    <3>1. field.enc \/ ~field.short
      BY <2>1 DEF Making!Fits
    <3>2. CASE field.enc
      BY <1>1, <2>1, <3>2 DEF Making!NewValue
    <3>3. CASE ~field.enc
      <4>1. Making!Random(field) = "fresh"
        BY <3>1, <3>3 DEF Making!Random
      <4>2. Renewed(field, how, record) = [field EXCEPT !.value = Making!Random(field)]
        BY <1>1, <2>1, <3>3 DEF Making!NewValue
      <4>3. ~field.short
        BY <3>1, <3>3
      <4> QED BY <3>3, <4>1, <4>2, <4>3, Zenon
    <3> QED BY <3>2, <3>3 DEF Field
  <2>3. /\ Renewed(field, how, record).name = field.name
        /\ Renewed(field, how, record).enc = field.enc
        /\ Renewed(field, how, record).short = field.short
    BY <2>2 DEF Making!Seal, Field
  <2>4. Renewed(field, how, record).value = "old" => field.enc /\ field.short
    BY <2>2 DEF Making!Seal, Making!Random, Field
  <2>5. Renewed(field, how, record).for \in {None, record}
    BY <2>2 DEF Making!Seal, Field
  <2> QED BY <1>4, <2>3, <2>4, <2>5 DEF Making!Inherited, Making!BookmarkRequired
<1>5. CASE field.name = "MinimumAPIVersion"
  <2>1. How(field, new) = [do |-> "keep", type |-> "int", value |-> None]
    BY <1>5, BookmarkPlan, Zenon DEF How
  <2>2. \/ Renewed(field, how, record) = field /\ ~field.enc
        \/ Renewed(field, how, record) = Making!Seal(field, field.value, record)
    BY <1>1, <2>1 DEF Making!NewValue
  <2> QED BY <1>5, <2>2 DEF Making!Seal, Making!Inherited, Making!BookmarkRequired, Field
<1>6. CASE field.name \in {"Position"} \cup Making!Devices \cup Making!Generations
  <2>1. PICK type, value : How(field, new) = [do |-> "plain", type |-> type, value |-> value]
                           /\ value # "old"
    <3>1. CASE field.name = "Position"
      <4>1. How(field, new) = [do |-> "plain", type |-> "bytes", value |-> new.position]
        BY <3>1, BookmarkPlan, Zenon DEF How
      <4>2. new.position # "old"
        BY DEF Asked
      <4> QED BY <4>1, <4>2
    <3>2. CASE field.name \in Making!Devices
      <4>1. How(field, new) = [do |-> "plain", type |-> "string", value |-> new.device]
        BY <3>2, BookmarkPlan, Zenon DEF How
      <4>2. new.device # "old"
        BY DEF Asked
      <4> QED BY <4>1, <4>2
    <3>3. CASE field.name \in Making!Generations
      <4>1. How(field, new) = [do |-> "plain", type |-> "int", value |-> "1"]
        BY <3>3, BookmarkPlan, Zenon DEF How
      <4>2. "1" # "old"
        OBVIOUS
      <4> QED BY <4>1, <4>2
    <3> QED BY <1>6, <3>1, <3>2, <3>3
  <2>2. Renewed(field, how, record) = [field EXCEPT !.value = value] /\ ~field.enc
    BY <1>1, <2>1 DEF Making!NewValue, Making!Fits
  <2> QED BY <1>6, <2>1, <2>2
          DEF Making!BookmarkRequired, Field, Making!Devices, Making!Generations
<1>7. field.name \in Making!BookmarkRequired
  BY DEF How, Making!Fits, Making!BookmarkField, Making!Encrypted, Making!StringOrReference,
     Making!Plain, Making!FreshIdentityHash, Making!Keep, Making!Omit, Making!Unknown,
     Making!BookmarkRequired, Making!Devices, Making!Generations
<1> QED BY <1>2, <1>3, <1>4, <1>5, <1>6, <1>7 DEF Making!BookmarkRequired

\* What a bookmark needs is not omitted.
LEMMA RequiredStays ==
  ASSUME NEW new, NEW name \in Making!BookmarkRequired
  PROVE  Making!BookmarkField(name, new).do # "omit"
BY DEF Making!BookmarkField, Making!BookmarkOmitted, Making!BookmarkRequired, Making!Devices,
   Making!Generations, Making!Encrypted, Making!StringOrReference, Making!Plain,
   Making!FreshIdentityHash, Making!Keep

LEMMA IntervalIs ==
  ASSUME NEW n \in Nat
  PROVE  IsFiniteSet(1 .. n) /\ Cardinality(1 .. n) = n
<1>1. 1 \in Int /\ n \in Int
  OBVIOUS
<1>2. IsFiniteSet(1 .. n) /\ Cardinality(1 .. n) = IF 1 > n THEN 0 ELSE n - 1 + 1
  BY <1>1, FS_Interval
<1> QED BY <1>2

LEMMA BookmarkFields ==
  ASSUME NEW t \in Seq(Field), NEW s \in Seq(Field), NEW how, NEW new, NEW record, NEW fields,
         Asked(new), Making!TemplateFits(t, Making!BookmarkRequired, how),
         KeptOf(s, t, Len(t), how),
         \A m \in DOMAIN t : how[t[m].name] = How(t[m], new),
         fields = [n \in DOMAIN s |-> Renewed(s[n], how, record)]
  PROVE  IsBookmark(fields, new, record)
<1> DEFINE required == Making!BookmarkRequired
<1>1. /\ Len(s) \in Nat /\ DOMAIN s = 1 .. Len(s) /\ DOMAIN t = 1 .. Len(t)
      /\ \A i \in DOMAIN s : s[i] \in Field
  OBVIOUS
<1>2. \A i \in DOMAIN s : /\ how[s[i].name] = How(s[i], new) /\ How(s[i], new).do # "omit"
                          /\ Making!Fits(s[i], How(s[i], new))
  <2> TAKE i \in DOMAIN s
  <2>1. PICK m \in 1 .. Len(t) : s[i] = t[m] /\ ~Omits(how, s[i])
    BY DEF KeptOf
  <2> QED BY <1>1, <2>1 DEF Omits, Making!TemplateFits
<1>3. \A i \in DOMAIN s : /\ fields[i] = Renewed(s[i], how, record)
                          /\ fields[i].name = s[i].name
  BY <1>1, NameStays
<1>4. DOMAIN fields = DOMAIN s /\ Len(fields) = Len(s)
  BY <1>1
<1>5. Making!Names(fields) = {s[i].name : i \in DOMAIN s}
  BY <1>3, <1>4 DEF Making!Names
<1>6. {s[i].name : i \in DOMAIN s} = required
  <2>1. \A i \in DOMAIN s : s[i].name \in required
    BY <1>1, <1>2, BookmarkField
  <2>2. ASSUME NEW name \in required PROVE \E i \in DOMAIN s : s[i].name = name
    <3>1. PICK m \in DOMAIN t : t[m].name = name
      BY DEF Making!TemplateFits, Making!Names
    <3>2. ~Omits(how, t[m])
      BY <3>1, RequiredStays DEF Omits, How
    <3> QED BY <1>1, <3>1, <3>2 DEF KeptOf
  <2> HIDE DEF required
  <2> QED BY <2>1, <2>2
<1>7. Len(s) = Making!Cardinality(required)
  <2> DEFINE f == [i \in 1 .. Len(s) |-> s[i].name]
  <2>1. f \in Bijection(1 .. Len(s), required)
    <3>1. \A i \in 1 .. Len(s) : f[i] \in required
      BY <1>1, <1>6
    <3>2. \A i, j \in 1 .. Len(s) : f[i] = f[j] => i = j
      BY <1>1 DEF KeptOf, FieldNames
    <3>3. \A name \in required : \E i \in 1 .. Len(s) : f[i] = name
      BY <1>1, <1>6
    <3> HIDE DEF required
    <3>4. f \in [1 .. Len(s) -> required]
      BY <3>1
    <3> HIDE DEF f
    <3> QED BY <3>2, <3>3, <3>4 DEF Bijection, Injection, Surjection, IsInjective
  <2> HIDE DEF f, required
  <2>2. Cardinality(required) = Cardinality(1 .. Len(s))
    <3>1. ExistsBijection(1 .. Len(s), required)
      BY <2>1 DEF ExistsBijection
    <3> QED BY <3>1, IntervalIs, <1>1, FS_Bijection
  <2>3. Cardinality(1 .. Len(s)) = Len(s)
    BY <1>1, IntervalIs
  <2>4. Making!Cardinality(required) = Cardinality(required)
    BY Zenon DEF Making!Cardinality, Cardinality
  <2> QED BY <2>2, <2>3, <2>4
<1>8. \A i \in DOMAIN fields :
        /\ fields[i].value = "old" => Making!Inherited(fields[i])
        /\ fields[i].for \in {None, record}
        /\ fields[i].name \in {"Title", "URL", "DateAdded"} =>
             fields[i].enc /\ fields[i].value = new[fields[i].name]
  <2> TAKE i \in DOMAIN fields
  <2>1. i \in DOMAIN s /\ s[i] \in Field
    BY <1>1, <1>4
  <2> QED BY <1>2, <1>3, <2>1, BookmarkField
<1> QED BY <1>4, <1>5, <1>6, <1>7, <1>8 DEF IsBookmark

\* A new bookmark has each field of a bookmark once and no other, and nothing of the one
\* that served as its template but MinimumAPIVersion and an encrypted IdentityHash of four
\* bytes or less, which fresh_identity_hash has no room to change; its title, address and date are the
\* ones asked for and encrypted, and no field is authenticated for the template: whatever
\* the templates hold, fields that the program does not know included (write.rs:878).
THEOREM BookmarkIsNew ==
  ASSUME NEW templates \in SUBSET Seq(Field), NEW new, Asked(new), NEW record
  PROVE  Making!BookmarkIsNew(templates, new, record)
<1> DEFINE Fill(one, two) ==
             [name \in Making!Names(one) \cup Making!Names(two) |-> Making!BookmarkField(name, new)]
           Made(one, two) ==
             Making!PrepareCreate(<<one, two>>, Making!BookmarkRequired, Fill(one, two), record)
<1>1. ASSUME NEW one \in templates, NEW two \in templates, Made(one, two).ok
      PROVE  IsBookmark(Made(one, two).fields, new, record)
  <2> DEFINE pair == <<one, two>>
             how  == Fill(one, two)
             fields == Made(one, two).fields
  <2>1. pair \in Seq(Seq(Field)) /\ {pair[n] : n \in DOMAIN pair} = {one, two}
    <3>1. one \in Seq(Field) /\ two \in Seq(Field)
      OBVIOUS
    <3> QED BY <3>1
  <2>2. \A name \in Making!Names(one) \cup Making!Names(two) : how[name] = Making!BookmarkField(name, new)
    OBVIOUS
  <2>3. fields = Making!PrepareCreate(pair, Making!BookmarkRequired, how, record).fields
        /\ Making!PrepareCreate(pair, Making!BookmarkRequired, how, record).ok
    BY <1>1
  <2> HIDE DEF pair, how, fields
  <2>4. PICK t \in {one, two} : MadeOf(fields, t, Making!BookmarkRequired, how, record)
    <3>1. \E n \in DOMAIN pair : MadeOf(fields, pair[n], Making!BookmarkRequired, how, record)
      BY <2>1, <2>3, CreatedIs
    <3> QED BY <2>1, <3>1
  <2>5. PICK s \in Seq(Field) :
          /\ Making!TemplateFits(t, Making!BookmarkRequired, how)
          /\ KeptOf(s, t, Len(t), how)
          /\ fields = [n \in DOMAIN s |-> Renewed(s[n], how, record)]
    BY <2>4 DEF MadeOf
  <2>6. t \in Seq(Field) /\ \A m \in DOMAIN t : how[t[m].name] = How(t[m], new)
    BY <2>2 DEF How, Making!Names
  <2>7. IsBookmark(fields, new, record)
    BY <2>5, <2>6, BookmarkFields
  <2> QED BY <2>7 DEF fields
<1> QED BY <1>1, Zenon DEF Making!BookmarkIsNew, IsBookmark

\* A new tab.
IsTab(fields, names, record) ==
  /\ Making!Names(fields) = names
  /\ \A n \in DOMAIN fields :
       /\ fields[n].for \in {None, record}
       /\ fields[n].value = "old" <=> fields[n].name \notin Making!TabRequired

AskedTab(new) ==
  {new["Title"], new["URL"], new["DateLastViewed"], new.owner} \cap {"old"} = {}

LEMMA TabPlan ==
  ASSUME NEW name, NEW new
  PROVE  /\ name \in {"Title", "URL", "DateLastViewed"} =>
              Making!TabField(name, new) = [do |-> "encrypt", type |-> None, value |-> new[name]]
         /\ name = "OwningDevice" =>
              Making!TabField(name, new) = [do |-> "point", type |-> None, value |-> new.owner]
         /\ name \notin Making!TabRequired =>
              Making!TabField(name, new) = [do |-> "keep", type |-> None, value |-> None]
<1> USE DEF Making!TabField
<1>1. CASE name \in {"Title", "URL", "DateLastViewed"}
  BY <1>1 DEF Making!Encrypted, Making!TabRequired
<1>2. CASE name = "OwningDevice"
  BY <1>2 DEF Making!StringOrReference, Making!TabRequired
<1>3. CASE name \notin Making!TabRequired
  BY <1>3 DEF Making!TabRequired, Making!Keep
<1> QED BY <1>1, <1>2, <1>3

\* The field that replaces one of a template.
LEMMA TabField ==
  ASSUME NEW field \in Field, NEW new, NEW record, AskedTab(new), NEW how,
         how[field.name] = Making!TabField(field.name, new),
         Making!Fits(field, Making!TabField(field.name, new))
  PROVE  /\ Renewed(field, how, record).for \in {None, record}
         /\ Renewed(field, how, record).value = "old" <=> field.name \notin Making!TabRequired
<1> DEFINE action == Making!TabField(field.name, new)
<1>1. Renewed(field, how, record) = Making!NewValue(field, action, record)
  BY DEF Renewed
<1>2. CASE field.name \in {"Title", "URL", "DateLastViewed"}
  <2>1. action = [do |-> "encrypt", type |-> None, value |-> new[field.name]]
    BY <1>2, TabPlan, Zenon
  <2> HIDE DEF action
  <2>2. Renewed(field, how, record) = Making!Seal(field, new[field.name], record)
    BY <1>1, <2>1 DEF Making!NewValue
  <2>3. Renewed(field, how, record).value # "old" /\ Renewed(field, how, record).for \in {None, record}
    BY <1>2, <2>2 DEF Making!Seal, AskedTab, Field
  <2> QED BY <1>2, <2>3 DEF Making!TabRequired
<1>3. CASE field.name = "OwningDevice"
  <2>1. action = [do |-> "point", type |-> None, value |-> new.owner]
    BY <1>3, TabPlan, Zenon
  <2> HIDE DEF action
  <2>2. Renewed(field, how, record) = Making!Point(field, new.owner)
    BY <1>1, <2>1 DEF Making!NewValue
  <2>3. Renewed(field, how, record).value # "old" /\ Renewed(field, how, record).for \in {None, record}
    BY <1>3, <2>2 DEF Making!Point, AskedTab, Field
  <2> QED BY <1>3, <2>3 DEF Making!TabRequired
<1>4. CASE field.name \notin Making!TabRequired
  <2>1. action = [do |-> "keep", type |-> None, value |-> None]
    BY <1>4, TabPlan, Zenon
  <2> HIDE DEF action
  <2>2. \/ Renewed(field, how, record) = field /\ ~field.enc
        \/ Renewed(field, how, record) = Making!Seal(field, field.value, record)
    BY <1>1, <2>1 DEF Making!NewValue
  <2>3. Renewed(field, how, record).value = "old" /\ Renewed(field, how, record).for \in {None, record}
    BY <1>4, <2>2 DEF Making!Seal, Field
  <2> QED BY <1>4, <2>3 DEF Making!TabRequired
<1> QED BY <1>2, <1>3, <1>4 DEF Making!TabRequired

LEMMA TabStays ==
  ASSUME NEW new, NEW name
  PROVE  Making!TabField(name, new).do # "omit"
<1>1. CASE name \in Making!TabRequired
  BY <1>1, TabPlan DEF Making!TabRequired
<1>2. CASE name \notin Making!TabRequired
  BY <1>2, TabPlan
<1> QED BY <1>1, <1>2

\* A new tab has all the fields of its template, with other values exactly where they are
\* asked for, and no field is authenticated for the template (write.rs:356).
THEOREM TabKeepsTheRest ==
  ASSUME NEW templates \in SUBSET Seq(Field), NEW new, AskedTab(new), NEW record
  PROVE  Making!TabKeepsTheRest(templates, new, record)
<1> DEFINE Fill(one) == [name \in Making!Names(one) |-> Making!TabField(name, new)]
           Made(one) == Making!PrepareCreate(<<one>>, Making!TabRequired, Fill(one), record)
<1>1. ASSUME NEW one \in templates, Made(one).ok
      PROVE  IsTab(Made(one).fields, Making!Names(one), record)
  <2> DEFINE single == <<one>>
             how    == Fill(one)
             fields == Made(one).fields
  <2>1. single \in Seq(Seq(Field)) /\ {single[n] : n \in DOMAIN single} = {one}
    <3>1. one \in Seq(Field)
      OBVIOUS
    <3> QED BY <3>1
  <2>2. \A name \in Making!Names(one) : how[name] = Making!TabField(name, new)
    OBVIOUS
  <2>3. fields = Making!PrepareCreate(single, Making!TabRequired, how, record).fields
        /\ Making!PrepareCreate(single, Making!TabRequired, how, record).ok
    BY <1>1
  <2> HIDE DEF single, how, fields
  <2>4. MadeOf(fields, one, Making!TabRequired, how, record)
    <3>1. \E n \in DOMAIN single : MadeOf(fields, single[n], Making!TabRequired, how, record)
      BY <2>1, <2>3, CreatedIs
    <3> QED BY <2>1, <3>1
  <2>5. PICK s \in Seq(Field) :
          /\ Making!TemplateFits(one, Making!TabRequired, how)
          /\ KeptOf(s, one, Len(one), how)
          /\ fields = [n \in DOMAIN s |-> Renewed(s[n], how, record)]
    BY <2>4 DEF MadeOf
  <2>6. \A m \in DOMAIN one : /\ one[m] \in Field
                              /\ how[one[m].name] = Making!TabField(one[m].name, new)
                              /\ Making!Fits(one[m], Making!TabField(one[m].name, new))
    <3>1. \A m \in DOMAIN one : one[m] \in Field /\ one[m].name \in Making!Names(one)
      BY DEF Making!Names
    <3> QED BY <2>2, <2>5, <3>1 DEF Making!TemplateFits
  <2>7. DOMAIN one = 1 .. Len(one)
    OBVIOUS
  <2>8. \A i \in DOMAIN s : \E m \in DOMAIN one : s[i] = one[m]
    BY <2>5, <2>7 DEF KeptOf
  <2>9. \A m \in DOMAIN one : \E i \in DOMAIN s : s[i] = one[m]
    <3> TAKE m \in DOMAIN one
    <3>1. ~Omits(how, one[m])
      BY <2>6, TabStays DEF Omits
    <3> QED BY <2>5, <2>7, <3>1 DEF KeptOf
  <2>10. \A i \in DOMAIN s : fields[i] = Renewed(s[i], how, record) /\ fields[i].name = s[i].name
    BY <2>5, <2>6, <2>8, NameStays
  <2>11. DOMAIN fields = DOMAIN s
    BY <2>5
  <2>12. Making!Names(fields) = Making!Names(one)
    <3>1. \A i \in DOMAIN s : \E m \in DOMAIN one : fields[i].name = one[m].name
      BY <2>8, <2>10
    <3>2. \A m \in DOMAIN one : \E i \in DOMAIN s : fields[i].name = one[m].name
      BY <2>9, <2>10
    <3>3. Making!Names(fields) \subseteq Making!Names(one)
      BY <2>11, <3>1 DEF Making!Names
    <3>4. Making!Names(one) \subseteq Making!Names(fields)
      BY <2>11, <3>2 DEF Making!Names
    <3> QED BY <3>3, <3>4
  <2>13. \A i \in DOMAIN fields :
          /\ fields[i].for \in {None, record}
          /\ fields[i].value = "old" <=> fields[i].name \notin Making!TabRequired
    <3> TAKE i \in DOMAIN fields
    <3>1. PICK m \in DOMAIN one : s[i] = one[m]
      BY <2>8, <2>11
    <3> QED BY <2>6, <2>10, <2>11, <3>1, TabField
  <2>14. IsTab(fields, Making!Names(one), record)
    BY <2>12, <2>13 DEF IsTab
  <2> QED BY <2>14 DEF fields
<1> QED BY <1>1, Zenon DEF Making!TabKeepsTheRest, IsTab

-----------------------------------------------------------------------------
(* The wire format of what is sent and received: every string of bytes, whatever the sizes *)

CONSTANTS Group, Groups, Top, Types, MaxNumber, Eight, Four, MaxMessage

Wire == INSTANCE WireCodec

\* What follows speaks of the reader and the writer of sizes that fit.
Sizes == Wire!SizesFit

LEMMA SizesAre ==
  ASSUME Sizes
  PROVE  /\ Group \in Nat /\ Group > 1 /\ Groups \in Nat /\ Groups > 0
         /\ Top \in Nat /\ Top < Group /\ Types \in Nat /\ Types > 5
         /\ MaxNumber \in Nat /\ Eight \in Nat /\ Four \in Nat /\ MaxMessage \in Nat
BY DEF Sizes, Wire!SizesFit

-----------------------------------------------------------------------------
(* Weights of groups *)

LEMMA WeightIs ==
  ASSUME Sizes
  PROVE  /\ Wire!Weight[0] = 1
         /\ \A n \in Nat : /\ Wire!Weight[n] \in Nat /\ Wire!Weight[n] > 0
                           /\ Wire!Weight[n + 1] = Wire!Weight[n] * Group
<1> DEFINE D == [i \in Nat |-> [v \in Nat |-> v * Group]]
           W == CHOOSE f : f = [n \in Nat |-> IF n = 0 THEN 1 ELSE f[n - 1] * Group]
<1>1. Group \in Nat /\ Group > 1
  BY SizesAre
<1>2. D \in [Nat -> [Nat -> Nat]]
  BY <1>1
<1>3. PICK f \in [Nat -> Nat] : Runs(f, 1, D)
  <2>1. 1 \in Nat
    OBVIOUS
  <2> HIDE DEF D
  <2> QED BY <1>2, <2>1, Recursion
<1>4. \A n \in Nat : f[n] = IF n = 0 THEN 1 ELSE f[n - 1] * Group
  <2>1. \A n \in Nat : n # 0 => f[n - 1] \in Nat
    OBVIOUS
  <2> QED BY <1>3, <2>1 DEF Runs
<1>5. f = [n \in Nat |-> IF n = 0 THEN 1 ELSE f[n - 1] * Group]
  BY <1>4
<1>6. W = [n \in Nat |-> IF n = 0 THEN 1 ELSE W[n - 1] * Group]
  BY <1>5, Zenon
<1>7. Wire!Weight = W
  BY Zenon DEF Wire!Weight
<1> HIDE DEF W
<1>8. /\ W[0] = 1
      /\ \A n \in Nat : W[n + 1] = W[n] * Group
  <2>1. \A n \in Nat : n + 1 \in Nat /\ n + 1 # 0 /\ (n + 1) - 1 = n
    OBVIOUS
  <2> QED BY <1>6, <2>1
<1> DEFINE Good == {n \in Nat : W[n] \in Nat /\ W[n] > 0}
<1>9. 0 \in Good
  BY <1>8
<1>10. ASSUME NEW n \in Nat, n \in Good PROVE n + 1 \in Good
  BY <1>1, <1>8, <1>10
<1> HIDE DEF Good
<1>11. Nat \subseteq Good
  BY <1>9, <1>10, NatAll
<1> QED BY <1>7, <1>8, <1>11 DEF Good

LEMMA WordIs ==
  ASSUME Sizes
  PROVE  /\ Groups - 1 \in Nat
         /\ \A v : v \in Wire!Word <=> v \in Nat /\ v < (Top + 1) * Wire!Weight[Groups - 1]
<1>1. Groups - 1 \in Nat /\ Top \in Nat
  BY SizesAre
<1>2. Wire!Weight[Groups - 1] \in Nat
  BY <1>1, WeightIs
<1> DEFINE w == Wire!Weight[Groups - 1]
<1> HIDE DEF w
<1>3. (Top + 1) * w \in Nat
  BY <1>1, <1>2 DEF w
<1>4. Wire!Word = 0 .. (Top + 1) * w - 1
  BY DEF Wire!Word, w
<1> QED BY <1>1, <1>3, <1>4 DEF w

-----------------------------------------------------------------------------
(* Groups *)

\* f adds up the groups behind offset, one more at a time.
Counts(f, input, offset, n) ==
  /\ f \in [0 .. n -> Nat]
  /\ Wire!Number(input, offset, n) = f[n]
  /\ f[0] = 0
  /\ \A m \in 1 .. n : f[m] = f[m - 1] + (input[offset + m] % Group) * Wire!Weight[m - 1]

LEMMA NumberIs ==
  ASSUME Sizes, NEW input, NEW offset \in Nat, NEW n \in Nat,
         \A m \in 1 .. n : input[offset + m] \in Nat
  PROVE  \E f : Counts(f, input, offset, n)
<1> DEFINE c(m) == (input[offset + m] % Group) * Wire!Weight[m - 1]
           D == [i \in 1 .. n |-> [v \in Nat |-> v + c(i)]]
           F == CHOOSE f : f = [m \in 0 .. n |-> IF m = 0 THEN 0 ELSE f[m - 1] + c(m)]
<1>1. \A m \in 1 .. n : c(m) \in Nat
  <2> TAKE m \in 1 .. n
  <2>1. input[offset + m] % Group \in Nat
    BY SizesAre
  <2>2. Wire!Weight[m - 1] \in Nat
    BY WeightIs
  <2> QED BY <2>1, <2>2
<1>2. Wire!Number(input, offset, n) = F[n]
  BY DEF Wire!Number
<1> HIDE DEF c
<1>3. D \in [1 .. n -> [Nat -> Nat]]
  BY <1>1
<1>4. PICK f \in [0 .. n -> Nat] : RunsTo(f, n, 0, D)
  <2>1. 0 \in Nat
    OBVIOUS
  <2> HIDE DEF D
  <2> QED BY <1>3, <2>1, Loop
<1>5. \A i \in 0 .. n : f[i] = IF i = 0 THEN 0 ELSE f[i - 1] + c(i)
  <2>1. \A i \in 0 .. n : i # 0 => f[i - 1] \in Nat /\ i \in 1 .. n
    OBVIOUS
  <2> QED BY <1>4, <2>1 DEF RunsTo
<1>6. f = [m \in 0 .. n |-> IF m = 0 THEN 0 ELSE f[m - 1] + c(m)]
  BY <1>5
<1>7. F = [m \in 0 .. n |-> IF m = 0 THEN 0 ELSE F[m - 1] + c(m)]
  BY <1>6, Zenon
<1> HIDE DEF F, D
<1>8. F[0] = 0 /\ \A m \in 1 .. n : F[m] = F[m - 1] + c(m)
  BY <1>7
<1> DEFINE Good == {m \in Nat : m <= n => F[m] \in Nat}
<1>9. 0 \in Good
  BY <1>8
<1>10. ASSUME NEW m \in Nat, m \in Good PROVE m + 1 \in Good
  <2>1. m + 1 <= n => m + 1 \in 1 .. n /\ m <= n /\ (m + 1) - 1 = m
    OBVIOUS
  <2> QED BY <1>1, <1>8, <1>10, <2>1
<1> HIDE DEF Good
<1>11. Nat \subseteq Good
  BY <1>9, <1>10, NatAll
<1>12. F \in [0 .. n -> Nat]
  <2>1. \A m \in 0 .. n : F[m] \in Nat
    BY <1>11 DEF Good
  <2>2. F = [m \in 0 .. n |-> F[m]]
    BY <1>7, Zenon
  <2> QED BY <2>1, <2>2
<1> QED BY <1>2, <1>8, <1>12 DEF c, Counts

LEMMA Division ==
  ASSUME NEW N \in Nat, N > 1, NEW a \in Nat
  PROVE  /\ (a % N) \in 0 .. N - 1 /\ (a \div N) \in Nat
         /\ a = ((a \div N) * N) + (a % N)
OBVIOUS

LEMMA DivisionUnique ==
  ASSUME NEW N \in Nat, N > 1, NEW q \in Nat, NEW r \in 0 .. N - 1
  PROVE  ((q * N) + r) % N = r /\ ((q * N) + r) \div N = q
OBVIOUS

\* A number without some groups, one more at a time.
LEMMA ShiftedIs ==
  ASSUME Sizes, NEW value \in Nat
  PROVE  /\ Wire!Shifted(value, 0) = value
         /\ \A m \in Nat : /\ Wire!Shifted(value, m) \in Nat
                           /\ Wire!Shifted(value, m + 1) = Wire!Shifted(value, m) \div Group
<1> DEFINE D == [i \in Nat |-> [v \in Nat |-> v \div Group]]
           F == CHOOSE f : f = [k \in Nat |-> IF k = 0 THEN value ELSE f[k - 1] \div Group]
<1>1. \A v \in Nat : v \div Group \in Nat
  BY SizesAre, Division
<1>2. D \in [Nat -> [Nat -> Nat]]
  BY <1>1
<1>3. PICK f \in [Nat -> Nat] : Runs(f, value, D)
  <2> HIDE DEF D
  <2> QED BY <1>2, Recursion
<1>4. \A k \in Nat : f[k] = IF k = 0 THEN value ELSE f[k - 1] \div Group
  <2>1. \A k \in Nat : k # 0 => f[k - 1] \in Nat
    OBVIOUS
  <2> QED BY <1>3, <2>1 DEF Runs
<1>5. f = [k \in Nat |-> IF k = 0 THEN value ELSE f[k - 1] \div Group]
  BY <1>4
<1>6. F = [k \in Nat |-> IF k = 0 THEN value ELSE F[k - 1] \div Group]
  BY <1>5, Zenon
<1>7. \A m : Wire!Shifted(value, m) = F[m]
  BY DEF Wire!Shifted
<1> HIDE DEF F
<1>8. F[0] = value /\ \A m \in Nat : F[m + 1] = F[m] \div Group
  <2>1. \A n \in Nat : n + 1 \in Nat /\ n + 1 # 0 /\ (n + 1) - 1 = n
    OBVIOUS
  <2> QED BY <1>6, <2>1
<1> DEFINE Good == {m \in Nat : F[m] \in Nat}
<1>9. 0 \in Good
  BY <1>8
<1>10. ASSUME NEW m \in Nat, m \in Good PROVE m + 1 \in Good
  BY <1>1, <1>8, <1>10
<1> HIDE DEF Good
<1>11. Nat \subseteq Good
  BY <1>9, <1>10, NatAll
<1> QED BY <1>7, <1>8, <1>11 DEF Good

\* What is left of a number is worth no more than the number.
LEMMA ShiftedSmall ==
  ASSUME Sizes, NEW value \in Nat, NEW n \in Nat
  PROVE  Wire!Shifted(value, n) * Wire!Weight[n] <= value
<1> DEFINE S(m) == Wire!Shifted(value, m)
           w(m) == Wire!Weight[m]
           Good == {m \in Nat : S(m) * w(m) <= value}
<1>1. S(0) = value /\ \A m \in Nat : S(m) \in Nat /\ S(m + 1) = S(m) \div Group
  BY ShiftedIs
<1>2. w(0) = 1 /\ \A m \in Nat : w(m) \in Nat /\ w(m + 1) = w(m) * Group
  BY WeightIs
<1>3. Group \in Nat /\ Group > 1
  BY SizesAre
<1> HIDE DEF S, w
<1>4. 0 \in Good
  BY <1>1, <1>2
<1>5. ASSUME NEW m \in Nat, m \in Good PROVE m + 1 \in Good
  <2> DEFINE q == S(m) \div Group
             r == S(m) % Group
  <2>1. q \in Nat /\ r \in Nat /\ S(m) = q * Group + r
    <3>1. S(m) \in Nat
      BY <1>1
    <3>2. /\ S(m) % Group \in 0 .. Group - 1 /\ S(m) \div Group \in Nat
          /\ S(m) = ((S(m) \div Group) * Group) + (S(m) % Group)
      BY <1>3, <3>1, Division
    <3> QED BY <1>3, <3>2
  <2>2. S(m + 1) = q /\ w(m + 1) = w(m) * Group /\ w(m) \in Nat
    BY <1>1, <1>2
  <2> HIDE DEF q, r
  <2>3. S(m) * w(m) = q * (w(m) * Group) + r * w(m) /\ r * w(m) \in Nat
    BY <1>3, <2>1, <2>2
  <2>4. q * (w(m) * Group) \in Nat
    BY <1>3, <2>1, <2>2
  <2>5. S(m) * w(m) <= value
    BY <1>5
  <2>6. S(m + 1) * w(m + 1) <= value
    BY <2>2, <2>3, <2>4, <2>5
  <2> QED BY <2>6
<1> HIDE DEF Good
<1>6. Nat \subseteq Good
  BY <1>4, <1>5, NatAll
<1> QED BY <1>6 DEF Good, S, w

\* What EncodeVarint makes of a word.
Shortest(value, n) ==
  /\ n \in 1 .. Groups
  /\ ~Wire!Continues(Wire!Shifted(value, n - 1))
  /\ \A m \in 1 .. n - 1 : Wire!Continues(Wire!Shifted(value, m - 1))

LEMMA EncodeIs ==
  ASSUME Sizes, NEW value \in Wire!Word
  PROVE  \E n \in 1 .. Groups :
           /\ Shortest(value, n)
           /\ n = Groups => Wire!Shifted(value, n - 1) <= Top
           /\ Wire!EncodeVarint(value) =
                [m \in 1 .. n |-> (Wire!Shifted(value, m - 1) % Group) + (IF m < n THEN Group ELSE 0)]
<1> DEFINE S(m) == Wire!Shifted(value, m)
           Small == {m \in Nat : S(m) < Group}
           last == Groups - 1
<1>1. last \in Nat /\ value \in Nat /\ value < (Top + 1) * Wire!Weight[last]
  BY WordIs
<1>2. \A m \in Nat : S(m) \in Nat
  BY <1>1, ShiftedIs
<1>3. Wire!Weight[last] \in Nat /\ Wire!Weight[last] > 0
  BY <1>1, WeightIs
<1>4. S(last) * Wire!Weight[last] <= value
  BY <1>1, ShiftedSmall
<1>5. Group \in Nat /\ Groups \in Nat /\ Groups > 0 /\ Top \in Nat /\ Top < Group
  BY SizesAre
<1> HIDE DEF S
<1>6. S(last) <= Top
  <2> DEFINE w == Wire!Weight[last]
             s == S(last)
  <2>1. s \in Nat /\ w \in Nat /\ w > 0 /\ s * w < (Top + 1) * w
    BY <1>1, <1>2, <1>3, <1>4, <1>5
  <2> HIDE DEF w, s
  <2>2. s < Top + 1
    <3>1. SUFFICES ASSUME s >= Top + 1 PROVE FALSE
      BY <1>5, <2>1
    <3>2. PICK d \in Nat : s = (Top + 1) + d
      <4>1. s - (Top + 1) \in Nat /\ s = (Top + 1) + (s - (Top + 1))
        BY <1>5, <2>1, <3>1
      <4> QED BY <4>1
    <3>3. s * w = (Top + 1) * w + d * w /\ d * w \in Nat
      BY <1>5, <2>1, <3>2
    <3> QED BY <1>5, <2>1, <3>3
  <2> QED BY <1>5, <2>1, <2>2 DEF s
<1>7. last \in Small
  BY <1>1, <1>2, <1>5, <1>6
<1>8. PICK k \in Small : \A m \in Small : k <= m
  <2>1. Small \subseteq Nat /\ Small # {}
    BY <1>7
  <2> HIDE DEF Small
  <2> QED BY <2>1, NatMin
<1>9. k + 1 \in 1 .. Groups /\ (k + 1) - 1 = k
  BY <1>5, <1>7, <1>8
<1>10. Shortest(value, k + 1)
  <2>1. ~Wire!Continues(S(k))
    BY <1>2, <1>5, <1>8 DEF Wire!Continues
  <2>2. \A m \in 1 .. k : Wire!Continues(S(m - 1))
    <3> TAKE m \in 1 .. k
    <3>1. m - 1 \in Nat /\ m - 1 < k
      OBVIOUS
    <3>2. m - 1 \notin Small
      BY <1>8, <3>1
    <3>3. S(m - 1) \in Nat
      BY <1>2, <3>1
    <3> QED BY <1>5, <3>1, <3>2, <3>3 DEF Wire!Continues
  <2> QED BY <1>9, <2>1, <2>2 DEF Shortest, S
<1> DEFINE c == CHOOSE n \in 1 .. Groups :
                  /\ ~Wire!Continues(Wire!Shifted(value, n - 1))
                  /\ \A m \in 1 .. n - 1 : Wire!Continues(Wire!Shifted(value, m - 1))
<1>11. Shortest(value, c)
  <2>1. \E n \in 1 .. Groups :
          /\ ~Wire!Continues(Wire!Shifted(value, n - 1))
          /\ \A m \in 1 .. n - 1 : Wire!Continues(Wire!Shifted(value, m - 1))
    BY <1>9, <1>10 DEF Shortest
  <2> QED BY <2>1, Zenon DEF Shortest
<1>12. Wire!EncodeVarint(value) =
         [m \in 1 .. c |-> (Wire!Shifted(value, m - 1) % Group) + (IF m < c THEN Group ELSE 0)]
  BY DEF Wire!EncodeVarint
<1> HIDE DEF c
<1>13. c \in 1 .. Groups
  BY <1>11 DEF Shortest
<1>14. c = Groups => Wire!Shifted(value, c - 1) <= Top
  BY <1>6 DEF S
<1> QED BY <1>11, <1>12, <1>13, <1>14

-----------------------------------------------------------------------------
(* Reading *)

\* A number of n groups starts behind offset.
Ends(input, offset, n) ==
  /\ n \in 1 .. Groups
  /\ offset + n <= Len(input)
  /\ \A m \in 1 .. n - 1 : Wire!Continues(input[offset + m])
  /\ ~Wire!Continues(input[offset + n])
  /\ n = Groups => input[offset + n] <= Top

LEMMA ReadVarintIs ==
  ASSUME Sizes, NEW input, NEW offset, NEW n, Ends(input, offset, n)
  PROVE  Wire!ReadVarint(input, offset) =
           [ok |-> TRUE, value |-> Wire!Number(input, offset, n), next |-> offset + n]
<1> DEFINE lengths == {m \in 1 .. Groups : Ends(input, offset, m)}
           c == CHOOSE m \in lengths : TRUE
<1>1. n \in lengths
  BY DEF Ends
<1>2. c \in lengths
  BY <1>1
<1>3. Wire!ReadVarint(input, offset) =
        IF lengths = {} THEN Wire!Refused
        ELSE [ok |-> TRUE, value |-> Wire!Number(input, offset, c), next |-> offset + c]
  <2> DEFINE found == {m \in 1 .. Groups :
               /\ offset + m <= Len(input)
               /\ \A k \in 1 .. m - 1 : Wire!Continues(input[offset + k])
               /\ ~Wire!Continues(input[offset + m])
               /\ m = Groups => input[offset + m] <= Top}
  <2>1. lengths = found
    BY DEF Ends
  <2>2. Wire!ReadVarint(input, offset) =
          IF found = {} THEN Wire!Refused
          ELSE [ok |-> TRUE, value |-> Wire!Number(input, offset, CHOOSE m \in found : TRUE),
                next |-> offset + (CHOOSE m \in found : TRUE)]
    BY DEF Wire!ReadVarint
  <2> HIDE DEF lengths, found
  <2> QED BY <2>1, <2>2
<1>4. c = n
  <2>1. c \in 1 .. Groups /\ Ends(input, offset, c)
    BY <1>2
  <2>2. n \in 1 .. Groups
    BY DEF Ends
  <2> HIDE DEF c, lengths
  <2>3. c \in Nat /\ n \in Nat /\ c > 0 /\ n > 0
    BY <2>1, <2>2, SizesAre
  <2>4. ~(c < n)
    BY <2>1, <2>3 DEF Ends
  <2>5. ~(n < c)
    BY <2>1, <2>3 DEF Ends
  <2> QED BY <2>3, <2>4, <2>5
<1> HIDE DEF lengths, c
<1> QED BY <1>1, <1>3, <1>4

LEMMA ReadVarintFrom ==
  ASSUME NEW input, NEW offset, Wire!ReadVarint(input, offset).ok
  PROVE  \E n : Ends(input, offset, n)
<1> DEFINE found == {m \in 1 .. Groups :
               /\ offset + m <= Len(input)
               /\ \A k \in 1 .. m - 1 : Wire!Continues(input[offset + k])
               /\ ~Wire!Continues(input[offset + m])
               /\ m = Groups => input[offset + m] <= Top}
<1>1. Wire!ReadVarint(input, offset) =
          IF found = {} THEN Wire!Refused
          ELSE [ok |-> TRUE, value |-> Wire!Number(input, offset, CHOOSE m \in found : TRUE),
                next |-> offset + (CHOOSE m \in found : TRUE)]
  BY DEF Wire!ReadVarint
<1>2. found # {}
  <2> HIDE DEF found
  <2> QED BY <1>1 DEF Wire!Refused
<1>3. PICK n \in found : TRUE
  BY <1>2
<1> QED BY <1>3 DEF Ends

\* The same k bytes stand in one string behind o and in another one behind p.
Alike(a, o, b, p, k) ==
  /\ o + k <= Len(a) /\ p + k <= Len(b)
  /\ \A m \in 1 .. k : a[o + m] = b[p + m]

\* Bytes are numbers.
Bytes(input) == input \in Seq(Wire!Byte)

LEMMA ByteIs ==
  ASSUME Sizes, NEW input, Bytes(input)
  PROVE  /\ Len(input) \in Nat
         /\ \A m \in 1 .. Len(input) : /\ input[m] \in Wire!Byte
                                       /\ input[m] \in Nat /\ input[m] < 2 * Group
BY SizesAre DEF Bytes, Wire!Byte

LEMMA NumberLocal ==
  ASSUME Sizes, NEW a, Bytes(a), NEW b, Bytes(b),
         NEW o \in Nat, NEW p \in Nat, NEW n \in Nat, Alike(a, o, b, p, n)
  PROVE  Wire!Number(a, o, n) = Wire!Number(b, p, n)
<1>1. \A m \in 1 .. n : a[o + m] \in Nat /\ b[p + m] \in Nat /\ a[o + m] = b[p + m]
  <2> TAKE m \in 1 .. n
  <2>1. o + m \in 1 .. Len(a) /\ a[o + m] = b[p + m]
    BY ByteIs DEF Alike
  <2> QED BY <2>1, ByteIs
<1>2. PICK f : Counts(f, a, o, n)
  <2>1. \A m \in 1 .. n : a[o + m] \in Nat
    BY <1>1
  <2> QED BY <2>1, NumberIs
<1>3. PICK h : Counts(h, b, p, n)
  <2>1. \A m \in 1 .. n : b[p + m] \in Nat
    BY <1>1
  <2> QED BY <2>1, NumberIs
<1> DEFINE Good == {m \in Nat : m <= n => f[m] = h[m]}
<1>4. 0 \in Good
  BY <1>2, <1>3 DEF Counts
<1>5. ASSUME NEW m \in Nat, m \in Good PROVE m + 1 \in Good
  <2>1. SUFFICES ASSUME m + 1 <= n PROVE f[m + 1] = h[m + 1]
    OBVIOUS
  <2>2. m + 1 \in 1 .. n /\ (m + 1) - 1 = m
    BY <2>1
  <2>3. f[m + 1] = f[m] + (a[o + (m + 1)] % Group) * Wire!Weight[m]
    BY <1>2, <2>2 DEF Counts
  <2>4. h[m + 1] = h[m] + (b[p + (m + 1)] % Group) * Wire!Weight[m]
    BY <1>3, <2>2 DEF Counts
  <2>5. a[o + (m + 1)] = b[p + (m + 1)]
    BY <1>1, <2>2
  <2>6. f[m] = h[m]
    BY <1>5, <2>1
  <2> QED BY <2>3, <2>4, <2>5, <2>6
<1> HIDE DEF Good
<1>6. n \in Good
  BY <1>4, <1>5, NatAll
<1>7. f[n] = h[n]
  BY <1>6 DEF Good
<1> QED BY <1>2, <1>3, <1>7 DEF Counts

\* What is read is decided by the bytes that are read.
LEMMA VarintLocal ==
  ASSUME Sizes, NEW a, Bytes(a), NEW b, Bytes(b), NEW o \in Nat, NEW p \in Nat,
         NEW n, Ends(a, o, n), Alike(a, o, b, p, n)
  PROVE  /\ Ends(b, p, n)
         /\ Wire!ReadVarint(b, p) =
              [ok |-> TRUE, value |-> Wire!ReadVarint(a, o).value, next |-> p + n]
<1>1. n \in Nat /\ n \in 1 .. n /\ n \in 1 .. Groups
  BY SizesAre DEF Ends
<1>2. Ends(b, p, n)
  <2>1. \A m \in 1 .. n - 1 : m \in 1 .. n
    BY <1>1
  <2>2. p + n <= Len(b) /\ \A m \in 1 .. n : a[o + m] = b[p + m]
    BY DEF Alike
  <2> QED BY <1>1, <2>1, <2>2 DEF Ends
<1>3. Wire!Number(a, o, n) = Wire!Number(b, p, n)
  BY <1>1, NumberLocal
<1>4. Wire!ReadVarint(a, o).value = Wire!Number(a, o, n)
  BY ReadVarintIs
<1> QED BY <1>2, <1>3, <1>4, ReadVarintIs

-----------------------------------------------------------------------------
(* Reading what was written *)

\* What EncodeVarint makes of a word, one byte at a time.
Writes(value, n) ==
  /\ Shortest(value, n)
  /\ n = Groups => Wire!Shifted(value, n - 1) <= Top
  /\ Wire!EncodeVarint(value) =
       [m \in 1 .. n |-> (Wire!Shifted(value, m - 1) % Group) + (IF m < n THEN Group ELSE 0)]

LEMMA WritesIs ==
  ASSUME Sizes, NEW value \in Wire!Word
  PROVE  \E n \in 1 .. Groups : Writes(value, n)
BY EncodeIs DEF Writes

\* The bytes of a written number: all but the last one continue.
LEMMA WrittenBytes ==
  ASSUME Sizes, NEW value \in Wire!Word, NEW n \in 1 .. Groups, Writes(value, n)
  PROVE  LET code == Wire!EncodeVarint(value)
         IN  /\ Bytes(code) /\ Len(code) = n
             /\ \A m \in 1 .. n - 1 : Wire!Continues(code[m])
             /\ ~Wire!Continues(code[n])
             /\ n = Groups => code[n] <= Top
             /\ \A m \in 1 .. n : code[m] % Group = Wire!Shifted(value, m - 1) % Group
<1> DEFINE code == Wire!EncodeVarint(value)
           S(m) == Wire!Shifted(value, m)
<1>1. /\ Group \in Nat /\ Group > 1 /\ n \in Nat /\ n > 0
      /\ value \in Nat /\ Groups \in Nat /\ Top \in Nat
  BY SizesAre, WordIs
<1>2. \A m \in Nat : S(m) \in Nat
  BY <1>1, ShiftedIs
<1>3. code = [m \in 1 .. n |-> (S(m - 1) % Group) + (IF m < n THEN Group ELSE 0)]
  BY DEF Writes
<1>4. ~Wire!Continues(S(n - 1)) /\ (n = Groups => S(n - 1) <= Top)
  BY DEF Writes, Shortest
<1> HIDE DEF code, S
<1>5. \A m \in 1 .. n : S(m - 1) \in Nat /\ S(m - 1) % Group \in 0 .. Group - 1
  <2> TAKE m \in 1 .. n
  <2>1. S(m - 1) \in Nat
    BY <1>1, <1>2
  <2> QED BY <1>1, <2>1, Division
<1>6. \A m \in 1 .. n : code[m] = (S(m - 1) % Group) + (IF m < n THEN Group ELSE 0)
  BY <1>3
<1>7. \A m \in 1 .. n : code[m] \in Wire!Byte
  BY <1>1, <1>5, <1>6 DEF Wire!Byte
<1>8. Bytes(code) /\ Len(code) = n
  <2>1. code \in [1 .. n -> Wire!Byte]
    BY <1>3, <1>7
  <2> QED BY <1>1, <2>1 DEF Bytes
<1>9. \A m \in 1 .. n - 1 : Wire!Continues(code[m])
  <2> TAKE m \in 1 .. n - 1
  <2>1. m \in 1 .. n /\ m < n
    BY <1>1
  <2> QED BY <1>1, <1>5, <1>6, <2>1 DEF Wire!Continues
<1>10. code[n] = S(n - 1)
  <2>1. S(n - 1) \in Nat /\ S(n - 1) < Group
    BY <1>1, <1>2, <1>4 DEF Wire!Continues
  <2>2. S(n - 1) % Group = S(n - 1)
    BY <1>1, <2>1
  <2> QED BY <1>1, <1>6, <2>1, <2>2
<1>11. ASSUME NEW m \in 1 .. n PROVE code[m] % Group = S(m - 1) % Group
  <2> DEFINE r == S(m - 1) % Group
  <2>1. r \in 0 .. Group - 1
    BY <1>5
  <2>2. code[m] = r \/ code[m] = (1 * Group) + r
    BY <1>1, <1>5, <1>6
  <2> HIDE DEF r
  <2>3. ((1 * Group) + r) % Group = r /\ ((0 * Group) + r) % Group = r
    BY <1>1, <2>1, DivisionUnique
  <2>4. r = (0 * Group) + r
    BY <1>1, <2>1
  <2>5. code[m] % Group = r
    BY <2>2, <2>3, <2>4
  <2> QED BY <2>5 DEF r
<1> QED BY <1>4, <1>8, <1>9, <1>10, <1>11 DEF code, S

LEMMA NumberOfWritten ==
  ASSUME Sizes, NEW value \in Wire!Word, NEW n \in 1 .. Groups, Writes(value, n)
  PROVE  Wire!Number(Wire!EncodeVarint(value), 0, n) = value
<1> DEFINE code == Wire!EncodeVarint(value)
           S(m) == Wire!Shifted(value, m)
           w(m) == Wire!Weight[m]
<1>1. Group \in Nat /\ Group > 1 /\ n \in Nat /\ n > 0 /\ value \in Nat
  BY SizesAre, WordIs
<1>2. S(0) = value /\ \A m \in Nat : S(m) \in Nat /\ S(m + 1) = S(m) \div Group
  BY <1>1, ShiftedIs
<1>3. w(0) = 1 /\ \A m \in Nat : w(m) \in Nat /\ w(m + 1) = w(m) * Group
  BY WeightIs
<1>4. /\ Bytes(code) /\ Len(code) = n
      /\ \A m \in 1 .. n : code[m] % Group = S(m - 1) % Group
  BY WrittenBytes
<1>5. S(n) = 0
  <2>1. n - 1 \in Nat /\ (n - 1) + 1 = n
    BY <1>1
  <2>2. S(n - 1) \in Nat /\ S(n) = S(n - 1) \div Group
    BY <1>2, <2>1
  <2>3. ~Wire!Continues(S(n - 1))
    BY DEF Writes, Shortest
  <2> HIDE DEF S
  <2>4. S(n - 1) < Group
    BY <1>1, <2>2, <2>3 DEF Wire!Continues
  <2> QED BY <1>1, <2>2, <2>4
<1>6. PICK f : Counts(f, code, 0, n)
  <2>1. \A m \in 1 .. n : code[0 + m] \in Nat
    BY <1>1, <1>4, ByteIs
  <2> HIDE DEF code
  <2> QED BY <1>1, <2>1, NumberIs
<1> HIDE DEF S, w, code
<1> DEFINE Good == {m \in Nat : m <= n => f[m] + S(m) * w(m) = value}
<1>7. 0 \in Good
  <2>1. f[0] = 0
    BY <1>6 DEF Counts
  <2> QED BY <1>1, <1>2, <1>3, <2>1
<1>8. ASSUME NEW m \in Nat, m \in Good PROVE m + 1 \in Good
  <2>1. SUFFICES ASSUME m + 1 <= n PROVE f[m + 1] + S(m + 1) * w(m + 1) = value
    OBVIOUS
  <2>2. m + 1 \in 1 .. n /\ (m + 1) - 1 = m /\ 0 + (m + 1) = m + 1 /\ m \in 0 .. n
    BY <1>1, <2>1
  <2> DEFINE q == S(m + 1)
             r == S(m) % Group
  <2>3. f[m + 1] = f[m] + r * w(m)
    <3>1. f[m + 1] = f[m] + (code[m + 1] % Group) * w(m)
      BY <1>6, <2>2 DEF Counts, w
    <3>2. code[m + 1] % Group = r
      BY <1>4, <2>2
    <3> QED BY <3>1, <3>2
  <2>4. q \in Nat /\ r \in Nat /\ S(m) = (q * Group) + r
    <3>1. S(m) \in Nat /\ q = S(m) \div Group
      BY <1>2
    <3>2. /\ S(m) % Group \in 0 .. Group - 1 /\ S(m) \div Group \in Nat
          /\ S(m) = ((S(m) \div Group) * Group) + (S(m) % Group)
      BY <1>1, <3>1, Division
    <3> QED BY <1>1, <3>1, <3>2
  <2>5. f[m] \in Nat /\ w(m) \in Nat /\ w(m + 1) = w(m) * Group
    BY <1>3, <1>6, <2>2 DEF Counts
  <2>6. f[m] + S(m) * w(m) = value
    BY <1>8, <2>1
  <2> HIDE DEF q, r
  <2>7. S(m) * w(m) = q * (w(m) * Group) + r * w(m)
    BY <1>1, <2>4, <2>5
  <2>8. q * (w(m) * Group) \in Nat /\ r * w(m) \in Nat
    BY <1>1, <2>4, <2>5
  <2>9. f[m + 1] + q * w(m + 1) = value
    BY <2>3, <2>5, <2>6, <2>7, <2>8
  <2> QED BY <2>9 DEF q
<1> HIDE DEF Good
<1>9. n \in Good
  BY <1>1, <1>7, <1>8, NatAll
<1>10. f[n] + S(n) * w(n) = value
  BY <1>1, <1>9 DEF Good
<1>11. f[n] \in Nat /\ w(n) \in Nat
  BY <1>1, <1>3, <1>6 DEF Counts
<1>12. f[n] = value
  BY <1>1, <1>5, <1>10, <1>11
<1> QED BY <1>6, <1>12 DEF Counts, code

\* A written number is read back wherever its bytes stand.
LEMMA NumberRead ==
  ASSUME Sizes, NEW value \in Wire!Word, NEW input, Bytes(input), NEW o \in Nat,
         Alike(Wire!EncodeVarint(value), 0, input, o, Len(Wire!EncodeVarint(value)))
  PROVE  /\ Bytes(Wire!EncodeVarint(value))
         /\ Len(Wire!EncodeVarint(value)) \in 1 .. Groups
         /\ Wire!ReadVarint(input, o) =
              [ok |-> TRUE, value |-> value, next |-> o + Len(Wire!EncodeVarint(value))]
<1> DEFINE code == Wire!EncodeVarint(value)
<1>1. PICK n \in 1 .. Groups : Writes(value, n)
  BY WritesIs
<1>2. /\ Bytes(code) /\ Len(code) = n
      /\ \A m \in 1 .. n - 1 : Wire!Continues(code[m])
      /\ ~Wire!Continues(code[n])
      /\ n = Groups => code[n] <= Top
  BY <1>1, WrittenBytes
<1>3. n \in Nat
  BY SizesAre
<1>4. Wire!Number(code, 0, n) = value
  BY <1>1, NumberOfWritten
<1>5. Alike(code, 0, input, o, n)
  BY <1>2
<1> HIDE DEF code
<1>6. Ends(code, 0, n)
  <2>1. \A m \in 1 .. n : 0 + m = m
    BY <1>3
  <2>2. \A m \in 1 .. n - 1 : 0 + m = m
    BY <1>3
  <2> QED BY <1>2, <1>3, <2>1, <2>2 DEF Ends
<1>7. Wire!ReadVarint(code, 0).value = value
  BY <1>4, <1>6, ReadVarintIs
<1>8. Wire!ReadVarint(input, o) = [ok |-> TRUE, value |-> value, next |-> o + n]
  BY <1>2, <1>5, <1>6, <1>7, VarintLocal
<1> QED BY <1>2, <1>8 DEF code

LEMMA WeightGrows ==
  ASSUME Sizes, NEW m \in Nat, NEW n \in Nat, m <= n
  PROVE  Wire!Weight[m] <= Wire!Weight[n]
<1> DEFINE w(k) == Wire!Weight[k]
           Good == {k \in Nat : m <= k => w(m) <= w(k)}
<1>1. Group \in Nat /\ Group > 1
  BY SizesAre
<1>2. \A k \in Nat : w(k) \in Nat /\ w(k) > 0 /\ w(k + 1) = w(k) * Group
  BY WeightIs
<1> HIDE DEF w
<1>3. 0 \in Good
  BY <1>2
<1>4. ASSUME NEW k \in Nat, k \in Good PROVE k + 1 \in Good
  <2>1. w(k) \in Nat /\ w(k + 1) = w(k) * Group
    BY <1>2
  <2>2. w(k) <= w(k + 1)
    <3>1. PICK g \in Nat : Group = 1 + g
      <4>1. Group - 1 \in Nat /\ Group = 1 + (Group - 1)
        BY <1>1
      <4> QED BY <4>1
    <3>2. w(k) * Group = w(k) + w(k) * g /\ w(k) * g \in Nat
      BY <2>1, <3>1
    <3> QED BY <2>1, <3>2
  <2>3. m <= k + 1 => m = k + 1 \/ m <= k
    OBVIOUS
  <2>4. w(m) \in Nat /\ w(k + 1) \in Nat
    BY <1>2
  <2>5. m <= k => w(m) <= w(k)
    BY <1>4
  <2>6. m <= k + 1 => w(m) <= w(k + 1)
    BY <2>1, <2>2, <2>3, <2>4, <2>5
  <2> QED BY <2>6
<1> HIDE DEF Good
<1>5. n \in Good
  BY <1>3, <1>4, NatAll
<1> QED BY <1>5 DEF Good, w

\* What is read is a word, and it could not have been written with fewer bytes.
LEMMA ReadIsWord ==
  ASSUME Sizes, NEW input, Bytes(input), NEW o \in Nat, NEW n, Ends(input, o, n)
  PROVE  /\ Wire!Number(input, o, n) \in Wire!Word
         /\ Len(Wire!EncodeVarint(Wire!Number(input, o, n))) <= n
<1> DEFINE w(k) == Wire!Weight[k]
           value == Wire!Number(input, o, n)
<1>1. /\ Group \in Nat /\ Group > 1 /\ n \in Nat /\ n > 0 /\ n <= Groups
      /\ Groups \in Nat /\ Top \in Nat /\ Top < Group
  BY SizesAre DEF Ends
<1>2. w(0) = 1 /\ \A k \in Nat : w(k) \in Nat /\ w(k) > 0 /\ w(k + 1) = w(k) * Group
  BY WeightIs
<1>3. \A m \in 1 .. n : input[o + m] \in Nat /\ input[o + m] < 2 * Group
  <2> TAKE m \in 1 .. n
  <2>1. o + n <= Len(input) /\ Len(input) \in Nat
    BY ByteIs DEF Ends
  <2>2. o + m \in 1 .. Len(input)
    BY <1>1, <2>1
  <2> QED BY <2>2, ByteIs
<1>4. PICK f : Counts(f, input, o, n)
  BY <1>1, <1>3, NumberIs
<1>5. value = f[n]
  BY <1>4 DEF Counts
<1> HIDE DEF w, value
<1> DEFINE Good == {m \in Nat : m <= n => f[m] < w(m)}
<1>6. 0 \in Good
  <2>1. f[0] = 0
    BY <1>4 DEF Counts
  <2> QED BY <1>2, <2>1
<1>7. ASSUME NEW m \in Nat, m \in Good PROVE m + 1 \in Good
  <2>1. SUFFICES ASSUME m + 1 <= n PROVE f[m + 1] < w(m + 1)
    OBVIOUS
  <2>2. m + 1 \in 1 .. n /\ (m + 1) - 1 = m /\ m \in 0 .. n
    BY <1>1, <2>1
  <2> DEFINE r == input[o + (m + 1)] % Group
  <2>3. f[m + 1] = f[m] + r * w(m)
    BY <1>4, <2>2 DEF Counts, w
  <2>4. r \in 0 .. Group - 1
    <3>1. input[o + (m + 1)] \in Nat
      BY <1>3, <2>2
    <3> QED BY <1>1, <3>1, Division
  <2>5. f[m] \in Nat /\ w(m) \in Nat /\ w(m + 1) = w(m) * Group /\ f[m] < w(m)
    <3>1. f[m] \in Nat
      BY <1>4, <2>2 DEF Counts
    <3>2. m <= n
      BY <1>1, <2>1
    <3>3. f[m] < w(m)
      BY <1>7, <3>2
    <3> QED BY <1>2, <3>1, <3>3
  <2> HIDE DEF r
  <2>6. PICK d \in Nat : Group = (r + 1) + d
    <3>1. Group - (r + 1) \in Nat /\ Group = (r + 1) + (Group - (r + 1))
      BY <1>1, <2>4
    <3> QED BY <3>1
  <2>7. r \in Nat
    BY <1>1, <2>4
  <2>8. w(m) * Group = r * w(m) + w(m) + w(m) * d /\ w(m) * d \in Nat /\ r * w(m) \in Nat
    BY <2>5, <2>6, <2>7
  <2> QED BY <2>3, <2>5, <2>8
<1>8. \A m \in 0 .. n : f[m] \in Nat /\ f[m] < w(m)
  <2> HIDE DEF Good
  <2>1. Nat \subseteq Good
    BY <1>6, <1>7, NatAll
  <2> QED BY <1>4, <2>1 DEF Good, Counts
<1>9. value \in Nat /\ value < w(n)
  BY <1>1, <1>5, <1>8
<1>10. value < (Top + 1) * w(Groups - 1)
  <2> DEFINE last == Groups - 1
  <2>1. last \in Nat /\ last + 1 = Groups
    BY <1>1
  <2>2. w(last) \in Nat
    BY <1>2, <2>1
  <2>3. (Top + 1) * w(last) = w(last) + Top * w(last) /\ Top * w(last) \in Nat
    BY <1>1, <2>2
  <2>4. CASE n = Groups
    <3> DEFINE r == input[o + n] % Group
    <3>1. n \in 1 .. n /\ n - 1 = last /\ last \in 0 .. n
      BY <1>1, <2>1, <2>4
    <3>2. f[n] = f[last] + r * w(last)
      <4>1. f[n] = f[n - 1] + (input[o + n] % Group) * w(n - 1)
        BY <1>4, <3>1 DEF Counts, w
      <4> QED BY <3>1, <4>1
    <3>3. input[o + n] \in Nat /\ input[o + n] <= Top
      BY <1>3, <2>4, <3>1 DEF Ends
    <3>4. r \in Nat /\ r <= Top
      <4>1. input[o + n] % Group = input[o + n]
        BY <1>1, <3>3
      <4> QED BY <3>3, <4>1
    <3>5. f[last] \in Nat /\ f[last] < w(last)
      BY <1>8, <3>1
    <3> HIDE DEF r, last
    <3>6. PICK d \in Nat : Top = r + d
      <4>1. Top - r \in Nat /\ Top = r + (Top - r)
        BY <1>1, <3>4
      <4> QED BY <4>1
    <3>7. Top * w(last) = r * w(last) + d * w(last) /\ d * w(last) \in Nat /\ r * w(last) \in Nat
      BY <2>2, <3>4, <3>6
    <3>8. value < (Top + 1) * w(last)
      BY <1>5, <2>2, <2>3, <3>2, <3>5, <3>7
    <3> QED BY <3>8 DEF last
  <2>5. CASE n # Groups
    <3>1. n <= last
      BY <1>1, <2>5
    <3> HIDE DEF last
    <3>2. w(n) <= w(last)
      BY <1>1, <2>1, <3>1, WeightGrows DEF w
    <3>3. w(n) \in Nat
      BY <1>1, <1>2
    <3>4. value < (Top + 1) * w(last)
      BY <1>9, <2>2, <2>3, <3>2, <3>3
    <3> QED BY <3>4 DEF last
  <2> QED BY <2>4, <2>5
<1>11. value \in Wire!Word
  BY <1>9, <1>10, WordIs DEF w
<1>12. Len(Wire!EncodeVarint(value)) <= n
  <2>1. PICK k \in 1 .. Groups : Writes(value, k)
    BY <1>11, WritesIs
  <2>2. Len(Wire!EncodeVarint(value)) = k
    BY <1>11, <2>1, WrittenBytes
  <2>3. k \in Nat /\ k > 0
    BY <1>1
  <2>4. ~(n < k)
    <3>1. SUFFICES ASSUME n < k PROVE FALSE
      OBVIOUS
    <3> DEFINE S(m) == Wire!Shifted(value, m)
    <3>2. n \in 1 .. k - 1 /\ n - 1 \in Nat /\ (n - 1) + 1 = n
      BY <1>1, <2>3, <3>1
    <3>3. Wire!Continues(S(n - 1))
      BY <2>1, <3>2 DEF Writes, Shortest
    <3>4. S(n - 1) \in Nat /\ S(n) = S(n - 1) \div Group /\ S(n) \in Nat
      BY <1>1, <1>9, <3>2, ShiftedIs
    <3>5. S(n) * w(n) <= value
      BY <1>1, <1>9, ShiftedSmall DEF w
    <3> HIDE DEF S
    <3>6. S(n - 1) >= Group
      BY <3>3 DEF Wire!Continues
    <3>7. S(n) # 0
      <4>1. /\ S(n - 1) % Group \in 0 .. Group - 1
            /\ S(n - 1) = ((S(n - 1) \div Group) * Group) + (S(n - 1) % Group)
        BY <1>1, <3>4, Division
      <4> QED BY <1>1, <3>4, <3>6, <4>1
    <3>8. PICK d \in Nat : S(n) = 1 + d
      <4>1. S(n) - 1 \in Nat /\ S(n) = 1 + (S(n) - 1)
        BY <3>4, <3>7
      <4> QED BY <4>1
    <3>9. w(n) \in Nat
      BY <1>1, <1>2
    <3>10. S(n) * w(n) = w(n) + d * w(n) /\ d * w(n) \in Nat
      BY <3>8, <3>9
    <3> QED BY <1>9, <3>5, <3>9, <3>10
  <2> QED BY <1>1, <2>2, <2>3, <2>4
<1> QED BY <1>11, <1>12 DEF value

\* Every word is read back as it was written, and whatever bytes are read as a number, the
\* number is a word and the writer would not need more of them (wire.rs:133, 162).
THEOREM NumbersSurvive == Sizes => Wire!NumbersSurvive(Seq(Wire!Byte))
<1> SUFFICES ASSUME Sizes PROVE Wire!NumbersSurvive(Seq(Wire!Byte))
  OBVIOUS
<1>1. ASSUME NEW value \in Wire!Word
      PROVE  Wire!ReadVarint(Wire!EncodeVarint(value), 0) =
               [ok |-> TRUE, value |-> value, next |-> Len(Wire!EncodeVarint(value))]
  <2> DEFINE code == Wire!EncodeVarint(value)
  <2>1. PICK n \in 1 .. Groups : Writes(value, n)
    BY WritesIs
  <2>2. Bytes(code) /\ Len(code) = n
    BY <2>1, WrittenBytes
  <2>3. Len(code) \in Nat
    BY <2>2, ByteIs
  <2> HIDE DEF code
  <2>4. Alike(code, 0, code, 0, Len(code))
    BY <2>3 DEF Alike
  <2>5. Wire!ReadVarint(code, 0) = [ok |-> TRUE, value |-> value, next |-> 0 + Len(code)]
    BY <2>2, <2>4, NumberRead DEF code
  <2>6. 0 + Len(code) = Len(code)
    BY <2>3
  <2> QED BY <2>5, <2>6 DEF code
<1>2. ASSUME NEW input \in Seq(Wire!Byte), Wire!ReadVarint(input, 0).ok
      PROVE  /\ Wire!ReadVarint(input, 0).value \in Wire!Word
             /\ Len(Wire!EncodeVarint(Wire!ReadVarint(input, 0).value))
                  <= Wire!ReadVarint(input, 0).next
  <2>1. PICK n : Ends(input, 0, n)
    BY <1>2, ReadVarintFrom
  <2>2. Wire!ReadVarint(input, 0) =
          [ok |-> TRUE, value |-> Wire!Number(input, 0, n), next |-> 0 + n]
    BY <2>1, ReadVarintIs
  <2>3. /\ Wire!Number(input, 0, n) \in Wire!Word
        /\ Len(Wire!EncodeVarint(Wire!Number(input, 0, n))) <= n
    BY <2>1, ReadIsWord DEF Bytes
  <2>4. 0 + n = n
    BY <2>1, SizesAre DEF Ends
  <2> QED BY <2>2, <2>3, <2>4
<1> QED BY <1>1, <1>2 DEF Wire!NumbersSurvive

-----------------------------------------------------------------------------
(* Strings that are alike *)

LEMMA AlikePart ==
  ASSUME NEW a, NEW b, NEW o \in Nat, NEW p \in Nat, NEW k \in Nat, Len(a) \in Nat, Len(b) \in Nat,
         Alike(a, o, b, p, k), NEW i \in Nat, NEW j \in Nat, i + j <= k
  PROVE  Alike(a, o + i, b, p + i, j)
<1>1. (o + i) + j <= Len(a) /\ (p + i) + j <= Len(b)
  BY DEF Alike
<1>2. ASSUME NEW m \in 1 .. j PROVE a[(o + i) + m] = b[(p + i) + m]
  <2>1. i + m \in 1 .. k /\ o + (i + m) = (o + i) + m /\ p + (i + m) = (p + i) + m
    OBVIOUS
  <2>2. a[o + (i + m)] = b[p + (i + m)]
    BY <2>1 DEF Alike
  <2> QED BY <2>1, <2>2
<1> QED BY <1>1, <1>2 DEF Alike

\* A part of a string.
LEMMA PartIs ==
  ASSUME Sizes, NEW a, Bytes(a), NEW o \in Nat, NEW k \in Nat, o + k <= Len(a)
  PROVE  /\ Bytes(SubSeq(a, o + 1, o + k)) /\ Len(SubSeq(a, o + 1, o + k)) = k
         /\ \A m \in 1 .. k : SubSeq(a, o + 1, o + k)[m] = a[o + m]
         /\ Alike(a, o, SubSeq(a, o + 1, o + k), 0, k)
<1> DEFINE part == SubSeq(a, o + 1, o + k)
<1>1. \A i \in o + 1 .. o + k : a[i] \in Wire!Byte
  BY ByteIs
<1>2. /\ part \in Seq(Wire!Byte)
      /\ Len(part) = IF o + 1 <= o + k THEN (o + k) - (o + 1) + 1 ELSE 0
      /\ \A i \in 1 .. (o + k) - (o + 1) + 1 : part[i] = a[(o + 1) + i - 1]
  <2>1. o + 1 \in Int /\ o + k \in Int
    OBVIOUS
  <2> QED BY <1>1, <2>1, SubSeqProperties
<1> HIDE DEF part
<1>3. Len(part) = k /\ (o + k) - (o + 1) + 1 = k
  BY <1>2
<1>4. \A m \in 1 .. k : part[m] = a[o + m]
  <2> TAKE m \in 1 .. k
  <2>1. (o + 1) + m - 1 = o + m
    OBVIOUS
  <2> QED BY <1>2, <1>3, <2>1
<1>5. Alike(a, o, part, 0, k)
  <2>1. \A m \in 1 .. k : 0 + m = m
    OBVIOUS
  <2> QED BY <1>3, <1>4, <2>1 DEF Alike
<1> QED BY <1>2, <1>3, <1>4, <1>5 DEF part, Bytes

LEMMA SameSeq ==
  ASSUME NEW S, NEW x \in Seq(S), NEW y \in Seq(S), Len(x) = Len(y),
         \A m \in 1 .. Len(x) : x[m] = y[m]
  PROVE  x = y
<1>1. x \in [1 .. Len(x) -> S] /\ y \in [1 .. Len(x) -> S]
  BY LenProperties
<1> QED BY <1>1

LEMMA PartLocal ==
  ASSUME Sizes, NEW a, Bytes(a), NEW b, Bytes(b), NEW o \in Nat, NEW p \in Nat, NEW k \in Nat,
         Alike(a, o, b, p, k)
  PROVE  SubSeq(a, o + 1, o + k) = SubSeq(b, p + 1, p + k)
<1> DEFINE x == SubSeq(a, o + 1, o + k)
           y == SubSeq(b, p + 1, p + k)
<1>1. o + k <= Len(a) /\ p + k <= Len(b) /\ \A m \in 1 .. k : a[o + m] = b[p + m]
  BY DEF Alike
<1>2. Bytes(x) /\ Len(x) = k /\ \A m \in 1 .. k : x[m] = a[o + m]
  BY <1>1, PartIs
<1>3. Bytes(y) /\ Len(y) = k /\ \A m \in 1 .. k : y[m] = b[p + m]
  BY <1>1, PartIs
<1> HIDE DEF x, y
<1>4. Len(x) = Len(y) /\ \A m \in 1 .. Len(x) : x[m] = y[m]
  BY <1>1, <1>2, <1>3
<1>5. x = y
  BY <1>2, <1>3, <1>4, SameSeq DEF Bytes
<1> QED BY <1>5 DEF x, y

-----------------------------------------------------------------------------
(* Values *)

\* A reader that succeeds says where it ends, behind offset and no further than the input.
Got(read, input, offset) ==
  /\ read = [ok |-> TRUE, value |-> read.value, next |-> read.next]
  /\ read.next \in Nat /\ offset <= read.next /\ read.next <= Len(input)

LEMMA GotVarint ==
  ASSUME Sizes, NEW input, Bytes(input), NEW o \in Nat, Wire!ReadVarint(input, o).ok
  PROVE  /\ Got(Wire!ReadVarint(input, o), input, o)
         /\ Wire!ReadVarint(input, o).value \in Wire!Word
         /\ o < Wire!ReadVarint(input, o).next
<1>1. PICK n : Ends(input, o, n)
  BY ReadVarintFrom
<1>2. /\ Wire!ReadVarint(input, o) =
           [ok |-> TRUE, value |-> Wire!Number(input, o, n), next |-> o + n]
      /\ Wire!Number(input, o, n) \in Wire!Word
  BY <1>1, ReadVarintIs, ReadIsWord
<1>3. n \in Nat /\ n > 0 /\ o + n <= Len(input)
  BY <1>1, SizesAre DEF Ends
<1> QED BY <1>2, <1>3 DEF Got

LEMMA GotTake ==
  ASSUME NEW input, NEW o \in Nat, NEW k \in Nat, Wire!Take(input, o, k).ok
  PROVE  Got(Wire!Take(input, o, k), input, o) /\ Wire!Take(input, o, k).next = o + k
<1>1. ~(o + k > Len(input))
  BY DEF Wire!Take, Wire!Refused
<1>2. Wire!Take(input, o, k) =
        [ok |-> TRUE, value |-> SubSeq(input, o + 1, o + k), next |-> o + k]
  BY <1>1 DEF Wire!Take
<1> QED BY <1>1, <1>2 DEF Got

\* What is read is the same behind p of b as behind o of a.
Same(there, here, o, p) ==
  there = [ok |-> TRUE, value |-> here.value, next |-> p + (here.next - o)]

LEMMA VarintSame ==
  ASSUME Sizes, NEW a, Bytes(a), NEW b, Bytes(b), NEW o \in Nat, NEW p \in Nat,
         Wire!ReadVarint(a, o).ok, Alike(a, o, b, p, Wire!ReadVarint(a, o).next - o)
  PROVE  Same(Wire!ReadVarint(b, p), Wire!ReadVarint(a, o), o, p)
<1>1. PICK n : Ends(a, o, n)
  BY ReadVarintFrom
<1>2. Wire!ReadVarint(a, o) = [ok |-> TRUE, value |-> Wire!Number(a, o, n), next |-> o + n]
  BY <1>1, ReadVarintIs
<1>3. n \in Nat
  BY <1>1, SizesAre DEF Ends
<1>4. Wire!ReadVarint(a, o).next - o = n
  BY <1>2, <1>3
<1>5. Wire!ReadVarint(b, p) = [ok |-> TRUE, value |-> Wire!ReadVarint(a, o).value, next |-> p + n]
  BY <1>1, <1>4, VarintLocal
<1> QED BY <1>4, <1>5 DEF Same

LEMMA TakeSame ==
  ASSUME Sizes, NEW a, Bytes(a), NEW b, Bytes(b), NEW o \in Nat, NEW p \in Nat, NEW k \in Nat,
         Wire!Take(a, o, k).ok, Alike(a, o, b, p, k)
  PROVE  Same(Wire!Take(b, p, k), Wire!Take(a, o, k), o, p)
<1>1. o + k <= Len(a) /\ p + k <= Len(b)
  BY DEF Alike
<1>2. ~(o + k > Len(a)) /\ ~(p + k > Len(b))
  BY <1>1, ByteIs
<1>3. Wire!Take(a, o, k) = [ok |-> TRUE, value |-> SubSeq(a, o + 1, o + k), next |-> o + k]
  BY <1>2 DEF Wire!Take
<1>4. Wire!Take(b, p, k) = [ok |-> TRUE, value |-> SubSeq(b, p + 1, p + k), next |-> p + k]
  BY <1>2 DEF Wire!Take
<1>5. SubSeq(a, o + 1, o + k) = SubSeq(b, p + 1, p + k)
  BY PartLocal
<1>6. Wire!Take(a, o, k).value = SubSeq(a, o + 1, o + k) /\ Wire!Take(a, o, k).next - o = k
  BY <1>3
<1>7. Wire!Take(b, p, k) = [ok |-> TRUE, value |-> Wire!Take(a, o, k).value, next |-> p + k]
  BY <1>4, <1>5, <1>6
<1> QED BY <1>6, <1>7 DEF Same

LEMMA GotPrefixed ==
  ASSUME Sizes, NEW input, Bytes(input), NEW o \in Nat, Wire!LengthPrefixed(input, o).ok
  PROVE  LET length == Wire!ReadVarint(input, o)
         IN  /\ length.ok /\ length.value \in Nat /\ length.next \in Nat
             /\ Wire!LengthPrefixed(input, o) = Wire!Take(input, length.next, length.value)
             /\ Wire!LengthPrefixed(input, o).next = length.next + length.value
             /\ Got(Wire!LengthPrefixed(input, o), input, o)
             /\ o < length.next
<1> DEFINE length == Wire!ReadVarint(input, o)
<1>1. length.ok
  BY DEF Wire!LengthPrefixed, Wire!Refused
<1>2. Got(length, input, o) /\ length.value \in Wire!Word /\ o < length.next
  BY <1>1, GotVarint
<1>3. length.value \in Nat /\ length.next \in Nat
  BY <1>2, WordIs DEF Got
<1>4. Wire!LengthPrefixed(input, o) = Wire!Take(input, length.next, length.value)
  BY <1>1 DEF Wire!LengthPrefixed
<1> HIDE DEF length
<1>5. /\ Got(Wire!LengthPrefixed(input, o), input, length.next)
      /\ Wire!LengthPrefixed(input, o).next = length.next + length.value
  BY <1>3, <1>4, GotTake
<1>6. Got(Wire!LengthPrefixed(input, o), input, o)
  BY <1>2, <1>3, <1>5 DEF Got
<1> QED BY <1>1, <1>2, <1>3, <1>4, <1>5, <1>6 DEF length

LEMMA PrefixedSame ==
  ASSUME Sizes, NEW a, Bytes(a), NEW b, Bytes(b), NEW o \in Nat, NEW p \in Nat,
         Wire!LengthPrefixed(a, o).ok, Alike(a, o, b, p, Wire!LengthPrefixed(a, o).next - o)
  PROVE  Same(Wire!LengthPrefixed(b, p), Wire!LengthPrefixed(a, o), o, p)
<1> DEFINE here == Wire!ReadVarint(a, o)
           there == Wire!ReadVarint(b, p)
           whole == Wire!LengthPrefixed(a, o)
           i == here.next - o
           j == here.value
<1>1. /\ here.ok /\ j \in Nat /\ here.next \in Nat
      /\ whole = Wire!Take(a, here.next, j)
      /\ whole.next = here.next + j /\ o < here.next
  BY GotPrefixed
<1>2. Len(a) \in Nat /\ Len(b) \in Nat
  BY ByteIs
<1> HIDE DEF here, whole
<1>3. /\ i \in Nat /\ i + j = whole.next - o /\ whole.next - o \in Nat
      /\ i + 0 = i /\ o + i = here.next /\ o + 0 = o /\ p + 0 = p
      /\ 0 + i <= whole.next - o
  BY <1>1
<1>4. Alike(a, o, b, p, i)
  <2>1. Alike(a, o + 0, b, p + 0, i)
    BY <1>2, <1>3, AlikePart DEF whole
  <2> QED BY <1>3, <2>1
<1>5. Alike(a, here.next, b, p + i, j)
  <2>1. Alike(a, o + i, b, p + i, j)
    <3> DEFINE k == whole.next - o
    <3>1. Alike(a, o, b, p, k)
      BY DEF whole
    <3>2. k \in Nat /\ i \in Nat /\ j \in Nat /\ i + j <= k
      BY <1>1, <1>3
    <3> HIDE DEF i, j, k
    <3> QED BY <1>2, <3>1, <3>2, AlikePart
  <2> QED BY <1>3, <2>1
<1>6. there = [ok |-> TRUE, value |-> j, next |-> p + i]
  <2>1. Same(there, here, o, p)
    BY <1>1, <1>4, VarintSame DEF here
  <2> QED BY <2>1 DEF Same
<1>7. Wire!LengthPrefixed(b, p) = Wire!Take(b, p + i, j)
  BY <1>6 DEF Wire!LengthPrefixed
<1>8. Same(Wire!Take(b, p + i, j), whole, here.next, p + i)
  <2>1. Wire!Take(a, here.next, j).ok
    BY <1>1 DEF whole
  <2> QED BY <1>1, <1>3, <1>5, <2>1, TakeSame
<1>9. (p + i) + (whole.next - here.next) = p + (whole.next - o)
  BY <1>1, <1>3
<1> QED BY <1>7, <1>8, <1>9 DEF Same, whole

LEMMA GotValue ==
  ASSUME Sizes, NEW input, Bytes(input), NEW o \in Nat, NEW type \in Nat,
         Wire!ReadValue(type, input, o).ok
  PROVE  Got(Wire!ReadValue(type, input, o), input, o) /\ type \in {0, 1, 2, 5}
<1>1. Eight \in Nat /\ Four \in Nat
  BY SizesAre
<1>2. CASE type = 0
  BY <1>2, GotVarint DEF Wire!ReadValue
<1>3. CASE type = 1
  BY <1>1, <1>3, GotTake DEF Wire!ReadValue
<1>4. CASE type = 2
  BY <1>4, GotPrefixed DEF Wire!ReadValue
<1>5. CASE type = 5
  BY <1>1, <1>5, GotTake DEF Wire!ReadValue
<1>6. type \in {0, 1, 2, 5}
  BY DEF Wire!ReadValue, Wire!Refused
<1> QED BY <1>2, <1>3, <1>4, <1>5, <1>6

LEMMA ValueSame ==
  ASSUME Sizes, NEW a, Bytes(a), NEW b, Bytes(b), NEW o \in Nat, NEW p \in Nat, NEW type \in Nat,
         Wire!ReadValue(type, a, o).ok, Alike(a, o, b, p, Wire!ReadValue(type, a, o).next - o)
  PROVE  Same(Wire!ReadValue(type, b, p), Wire!ReadValue(type, a, o), o, p)
<1>1. Eight \in Nat /\ Four \in Nat
  BY SizesAre
<1>2. CASE type = 0
  BY <1>2, VarintSame DEF Wire!ReadValue
<1>3. ASSUME NEW k \in Nat, Wire!ReadValue(type, a, o) = Wire!Take(a, o, k),
             Wire!ReadValue(type, b, p) = Wire!Take(b, p, k)
      PROVE  Same(Wire!ReadValue(type, b, p), Wire!ReadValue(type, a, o), o, p)
  <2>1. Wire!Take(a, o, k).ok
    BY <1>3
  <2>2. Wire!Take(a, o, k).next - o = k
    BY <2>1, GotTake
  <2>3. Alike(a, o, b, p, k)
    BY <1>3, <2>2
  <2>4. Same(Wire!Take(b, p, k), Wire!Take(a, o, k), o, p)
    BY <2>1, <2>3, TakeSame
  <2> QED BY <1>3, <2>4
<1>4. CASE type = 1
  BY <1>1, <1>3, <1>4 DEF Wire!ReadValue
<1>5. CASE type = 2
  BY <1>5, PrefixedSame DEF Wire!ReadValue
<1>6. CASE type = 5
  BY <1>1, <1>3, <1>6 DEF Wire!ReadValue
<1> QED BY <1>2, <1>4, <1>5, <1>6, GotValue

-----------------------------------------------------------------------------
(* Fields *)

\* All that there is to a field.
Whole(field) == field = [number |-> field.number, kind |-> field.kind, value |-> field.value,
                         raw |-> field.raw]

\* A field stands in the input behind offset.
Stands(read, input, offset) ==
  /\ read = [ok |-> TRUE, next |-> read.next, field |-> read.field]
  /\ read.next \in Nat /\ offset < read.next /\ read.next <= Len(input)
  /\ read.field.raw = SubSeq(input, offset + 1, read.next)
  /\ read.field.number \in 1 .. MaxNumber
  /\ Whole(read.field)

LEMMA KeyIs ==
  ASSUME Sizes, NEW key \in Nat
  PROVE  key \div Types \in Nat /\ key % Types \in Nat
<1>1. Types \in Nat /\ Types > 1
  BY SizesAre
<1>2. key \div Types \in Nat /\ (key % Types) \in 0 .. Types - 1
  BY <1>1, Division
<1> QED BY <1>1, <1>2

LEMMA GotField ==
  ASSUME Sizes, NEW input, Bytes(input), NEW o \in Nat, Wire!ReadField(input, o).ok
  PROVE  LET key   == Wire!ReadVarint(input, o)
             value == Wire!ReadValue(key.value % Types, input, key.next)
         IN  /\ key.ok /\ Got(key, input, o) /\ key.value \in Nat
             /\ value.ok /\ Got(value, input, key.next)
             /\ key.value \div Types \in 1 .. MaxNumber
             /\ Wire!ReadField(input, o) =
                  [ok |-> TRUE, next |-> value.next,
                   field |-> [number |-> key.value \div Types,
                              kind |-> Wire!Kind[key.value % Types], value |-> value.value,
                              raw |-> SubSeq(input, o + 1, value.next)]]
             /\ Stands(Wire!ReadField(input, o), input, o)
<1> DEFINE key   == Wire!ReadVarint(input, o)
           type  == key.value % Types
           value == Wire!ReadValue(type, input, key.next)
           number == key.value \div Types
<1>1. key.ok /\ number \in 1 .. MaxNumber /\ value.ok
  BY DEF Wire!ReadField, Wire!Refused
<1>2. Got(key, input, o) /\ key.value \in Wire!Word /\ o < key.next
  BY <1>1, GotVarint
<1>3. key.value \in Nat
  BY <1>2, WordIs
<1>4. type \in Nat
  <2> HIDE DEF key
  <2> QED BY <1>3, KeyIs
<1>5. key.next \in Nat
  BY <1>2 DEF Got
<1>6. Got(value, input, key.next)
  <2> HIDE DEF key, type
  <2> QED BY <1>1, <1>4, <1>5, GotValue
<1>7. Wire!ReadField(input, o) =
        [ok |-> TRUE, next |-> value.next,
         field |-> [number |-> number, kind |-> Wire!Kind[type], value |-> value.value,
                    raw |-> SubSeq(input, o + 1, value.next)]]
  BY <1>1 DEF Wire!ReadField
<1>8. Stands(Wire!ReadField(input, o), input, o)
  <2> HIDE DEF key, type, value, number
  <2>1. value.next \in Nat /\ o < value.next /\ value.next <= Len(input)
    BY <1>2, <1>5, <1>6, ByteIs DEF Got
  <2>2. /\ Wire!ReadField(input, o) = [ok |-> TRUE, next |-> value.next,
                                      field |-> Wire!ReadField(input, o).field]
        /\ Wire!ReadField(input, o).next = value.next
        /\ Wire!ReadField(input, o).field.raw = SubSeq(input, o + 1, value.next)
        /\ Wire!ReadField(input, o).field.number = number
    BY <1>7
  <2>3. Whole(Wire!ReadField(input, o).field)
    <3> DEFINE f == [number |-> number, kind |-> Wire!Kind[type], value |-> value.value,
                     raw |-> SubSeq(input, o + 1, value.next)]
    <3>1. Whole(f)
      BY DEF Whole
    <3>2. Wire!ReadField(input, o).field = f
      BY <1>7
    <3> HIDE DEF f
    <3> QED BY <3>1, <3>2
  <2> QED BY <1>1, <2>1, <2>2, <2>3 DEF Stands
<1> QED BY <1>1, <1>2, <1>3, <1>6, <1>7, <1>8

LEMMA FieldSame ==
  ASSUME Sizes, NEW a, Bytes(a), NEW b, Bytes(b), NEW o \in Nat, NEW p \in Nat,
         Wire!ReadField(a, o).ok, NEW k \in Nat, Wire!ReadField(a, o).next = o + k,
         Alike(a, o, b, p, k)
  PROVE  Wire!ReadField(b, p) =
           [ok |-> TRUE, next |-> p + k, field |-> Wire!ReadField(a, o).field]
<1> DEFINE key   == Wire!ReadVarint(a, o)
           type  == key.value % Types
           value == Wire!ReadValue(type, a, key.next)
           number == key.value \div Types
           key2 == Wire!ReadVarint(b, p)
<1>1. /\ key.ok /\ Got(key, a, o) /\ key.value \in Nat
      /\ value.ok /\ Got(value, a, key.next)
      /\ number \in 1 .. MaxNumber
      /\ Wire!ReadField(a, o) =
           [ok |-> TRUE, next |-> value.next,
            field |-> [number |-> number, kind |-> Wire!Kind[type], value |-> value.value,
                       raw |-> SubSeq(a, o + 1, value.next)]]
  BY GotField
<1>2. type \in Nat
  <2> HIDE DEF key
  <2> QED BY <1>1, KeyIs
<1> HIDE DEF key, type, value, number
<1>3. /\ key.next \in Nat /\ o <= key.next
      /\ value.next \in Nat /\ key.next <= value.next
  BY <1>1 DEF Got
<1>4. value.next = o + k
  BY <1>1
<1>5. PICK i \in Nat : key.next = o + i
  <2>1. key.next - o \in Nat /\ key.next = o + (key.next - o)
    BY <1>3
  <2> QED BY <2>1
<1>6. PICK j \in Nat : value.next = key.next + j
  <2>1. value.next - key.next \in Nat /\ value.next = key.next + (value.next - key.next)
    BY <1>3
  <2> QED BY <2>1
<1>7. Len(a) \in Nat /\ Len(b) \in Nat /\ i + j = k /\ i <= k
  BY <1>4, <1>5, <1>6, ByteIs
<1>8. Alike(a, o, b, p, i)
  <2>1. \A m \in 1 .. i : m \in 1 .. k
    BY <1>7
  <2> QED BY <1>7, <2>1 DEF Alike
<1>9. Alike(a, key.next, b, p + i, j)
  <2>1. Alike(a, o + i, b, p + i, j)
    BY <1>7, AlikePart
  <2> QED BY <1>5, <2>1
<1>10. key2 = [ok |-> TRUE, value |-> key.value, next |-> p + i]
  <2>1. key.next - o = i
    BY <1>5
  <2>2. Same(key2, key, o, p)
    BY <1>1, <1>8, <2>1, VarintSame DEF key
  <2> QED BY <2>1, <2>2 DEF Same
<1>11. Wire!ReadValue(type, b, p + i) = [ok |-> TRUE, value |-> value.value, next |-> p + k]
  <2>1. value.next - key.next = j /\ p + i \in Nat
    BY <1>3, <1>6
  <2>2. Same(Wire!ReadValue(type, b, p + i), value, key.next, p + i)
    BY <1>1, <1>2, <1>3, <1>9, <2>1, ValueSame DEF value
  <2>3. (p + i) + (value.next - key.next) = p + k
    BY <1>7, <2>1
  <2> QED BY <2>2, <2>3 DEF Same
<1>12. SubSeq(b, p + 1, p + k) = SubSeq(a, o + 1, value.next)
  <2>1. SubSeq(a, o + 1, o + k) = SubSeq(b, p + 1, p + k)
    BY PartLocal
  <2> QED BY <1>4, <2>1
<1>13. /\ key2.ok /\ key2.value = key.value /\ key2.next = p + i
  BY <1>10
<1>14. /\ Wire!ReadValue(type, b, p + i).ok
       /\ Wire!ReadValue(type, b, p + i).value = value.value
       /\ Wire!ReadValue(type, b, p + i).next = p + k
  BY <1>11
<1>15. Wire!ReadField(b, p) =
         [ok |-> TRUE, next |-> p + k,
          field |-> [number |-> number, kind |-> Wire!Kind[type], value |-> value.value,
                     raw |-> SubSeq(b, p + 1, p + k)]]
  BY <1>1, <1>13, <1>14 DEF Wire!ReadField, type, number
<1>16. Wire!ReadField(a, o).field =
         [number |-> number, kind |-> Wire!Kind[type], value |-> value.value,
          raw |-> SubSeq(a, o + 1, value.next)]
  BY <1>1
<1> QED BY <1>12, <1>15, <1>16

\* Strings that are one field, and nothing else; and the fields that there are.
Alone == {raw \in Seq(Wire!Byte) : /\ Wire!ReadField(raw, 0).ok
                                   /\ Wire!ReadField(raw, 0).next = Len(raw)}
WireField == {Wire!ReadField(raw, 0).field : raw \in Alone}

LEMMA FieldIs ==
  ASSUME Sizes, NEW f \in WireField
  PROVE  /\ Bytes(f.raw) /\ Len(f.raw) \in Nat /\ Len(f.raw) > 0
         /\ Wire!ReadField(f.raw, 0) = [ok |-> TRUE, next |-> Len(f.raw), field |-> f]
         /\ f.number \in 1 .. MaxNumber /\ Whole(f)
<1>1. PICK raw \in Alone : f = Wire!ReadField(raw, 0).field
  BY DEF WireField
<1>2. /\ raw \in Seq(Wire!Byte) /\ Bytes(raw)
      /\ Wire!ReadField(raw, 0).ok /\ Wire!ReadField(raw, 0).next = Len(raw)
  BY DEF Alone, Bytes
<1>3. Stands(Wire!ReadField(raw, 0), raw, 0)
  BY <1>2, GotField
<1>4. f.raw = raw
  <2>1. f.raw = SubSeq(raw, 0 + 1, Len(raw))
    BY <1>1, <1>2, <1>3 DEF Stands
  <2>2. SubSeq(raw, 1, Len(raw)) = raw
    BY <1>2, SubSeqFull
  <2> QED BY <2>1, <2>2
<1> QED BY <1>1, <1>2, <1>3, <1>4 DEF Stands

\* Whatever is read as a field is one.
LEMMA FieldHere ==
  ASSUME Sizes, NEW input, Bytes(input), NEW o \in Nat, Wire!ReadField(input, o).ok
  PROVE  /\ Wire!ReadField(input, o).field \in WireField
         /\ Stands(Wire!ReadField(input, o), input, o)
<1> DEFINE here == Wire!ReadField(input, o)
<1>1. Stands(here, input, o)
  BY GotField
<1> HIDE DEF here
<1>2. PICK k \in Nat : here.next = o + k
  <2>1. here.next - o \in Nat /\ here.next = o + (here.next - o)
    BY <1>1 DEF Stands
  <2> QED BY <2>1
<1>3. o + k <= Len(input)
  BY <1>1, <1>2 DEF Stands
<1> DEFINE part == SubSeq(input, o + 1, o + k)
<1>4. Bytes(part) /\ Len(part) = k /\ Alike(input, o, part, 0, k)
  BY <1>3, PartIs
<1> HIDE DEF part
<1>5. Wire!ReadField(part, 0) = [ok |-> TRUE, next |-> 0 + k, field |-> here.field]
  BY <1>2, <1>4, FieldSame DEF here
<1>6. part \in Alone /\ Wire!ReadField(part, 0).field = here.field
  BY <1>4, <1>5 DEF Alone, Bytes
<1>7. here.field \in WireField
  BY <1>6 DEF WireField
<1> QED BY <1>1, <1>7 DEF here

\* A field is read wherever its bytes stand.
LEMMA FieldThere ==
  ASSUME Sizes, NEW f \in WireField, NEW b, Bytes(b), NEW p \in Nat,
         Alike(f.raw, 0, b, p, Len(f.raw))
  PROVE  Wire!ReadField(b, p) = [ok |-> TRUE, next |-> p + Len(f.raw), field |-> f]
<1> DEFINE raw == f.raw
           k == Len(raw)
<1>1. /\ Bytes(raw) /\ k \in Nat
      /\ Wire!ReadField(raw, 0) = [ok |-> TRUE, next |-> k, field |-> f]
  BY FieldIs
<1>2. Alike(raw, 0, b, p, k)
  OBVIOUS
<1> HIDE DEF raw, k
<1>3. Wire!ReadField(raw, 0).ok /\ Wire!ReadField(raw, 0).next = 0 + k
  BY <1>1
<1>4. Wire!ReadField(b, p) = [ok |-> TRUE, next |-> p + k, field |-> Wire!ReadField(raw, 0).field]
  BY <1>1, <1>2, <1>3, FieldSame
<1>5. Wire!ReadField(raw, 0).field = f
  BY <1>1
<1>6. Wire!ReadField(b, p) = [ok |-> TRUE, next |-> p + k, field |-> f]
  BY <1>4, <1>5
<1> QED BY <1>6 DEF raw, k

-----------------------------------------------------------------------------
(* Messages *)

\* h joins the bytes of the fields, one field more at a time.
Joins(h, fields) ==
  /\ h \in [0 .. Len(fields) -> Seq(Wire!Byte)]
  /\ h[0] = <<>>
  /\ \A i \in 1 .. Len(fields) : h[i] = h[i - 1] \o fields[i].raw
  /\ Wire!Encode(fields) = h[Len(fields)]

LEMMA EncodeJoins ==
  ASSUME Sizes, NEW fields \in Seq(WireField)
  PROVE  \E h : Joins(h, fields)
<1> DEFINE n == Len(fields)
           r(i) == fields[i].raw
           V == Seq(Wire!Byte)
           D == [i \in 1 .. n |-> [v \in V |-> v \o r(i)]]
           F == CHOOSE f : f = [m \in 0 .. n |-> IF m = 0 THEN <<>> ELSE f[m - 1] \o r(m)]
<1>1. n \in Nat
  BY LenProperties
<1>2. \A i \in 1 .. n : r(i) \in V
  <2> TAKE i \in 1 .. n
  <2>1. fields[i] \in WireField
    BY ElementOfSeq
  <2> QED BY <2>1, FieldIs DEF Bytes
<1>3. Wire!Encode(fields) = F[n]
  BY DEF Wire!Encode, Wire!Raw
<1>4. <<>> \in V
  BY EmptySeq
<1> HIDE DEF r, n, V
<1>5. \A i \in 1 .. n : \A v \in V : v \o r(i) \in V
  BY <1>2, ConcatProperties DEF V
<1>6. D \in [1 .. n -> [V -> V]]
  BY <1>5
<1>7. PICK f \in [0 .. n -> V] : RunsTo(f, n, <<>>, D)
  <2> HIDE DEF D
  <2> QED BY <1>1, <1>4, <1>6, Loop
<1>8. \A i \in 0 .. n : f[i] = IF i = 0 THEN <<>> ELSE f[i - 1] \o r(i)
  <2>1. \A i \in 0 .. n : i # 0 => f[i - 1] \in V /\ i \in 1 .. n
    BY <1>1
  <2> QED BY <1>7, <2>1 DEF RunsTo
<1>9. f = [m \in 0 .. n |-> IF m = 0 THEN <<>> ELSE f[m - 1] \o r(m)]
  BY <1>8
<1>10. F = [m \in 0 .. n |-> IF m = 0 THEN <<>> ELSE F[m - 1] \o r(m)]
  BY <1>9, Zenon
<1> HIDE DEF F, D
<1>11. F[0] = <<>> /\ \A i \in 1 .. n : F[i] = F[i - 1] \o r(i)
  <2>1. \A i \in 0 .. n : F[i] = IF i = 0 THEN <<>> ELSE F[i - 1] \o r(i)
    BY <1>10, Zenon
  <2>2. 0 \in 0 .. n /\ \A i \in 1 .. n : i \in 0 .. n /\ i # 0
    BY <1>1
  <2> QED BY <2>1, <2>2
<1> DEFINE Good == {m \in Nat : m <= n => F[m] \in V}
<1>12. 0 \in Good
  BY <1>4, <1>11
<1>13. ASSUME NEW m \in Nat, m \in Good PROVE m + 1 \in Good
  <2>1. SUFFICES ASSUME m + 1 <= n PROVE F[m + 1] \in V
    OBVIOUS
  <2>2. m + 1 \in 1 .. n /\ (m + 1) - 1 = m /\ m <= n
    BY <1>1, <2>1
  <2>3. F[m] \in V /\ F[m + 1] = F[m] \o r(m + 1)
    BY <1>11, <1>13, <2>2
  <2> QED BY <1>5, <2>2, <2>3
<1> HIDE DEF Good
<1>14. Nat \subseteq Good
  BY <1>12, <1>13, NatAll
<1>15. F \in [0 .. n -> V]
  <2>1. \A m \in 0 .. n : F[m] \in V
    BY <1>14 DEF Good
  <2>2. F = [m \in 0 .. n |-> F[m]]
    BY <1>10, Zenon
  <2> QED BY <2>1, <2>2
<1>16. Joins(F, fields)
  BY <1>3, <1>11, <1>15 DEF Joins, r, n, V
<1> QED BY <1>16

LEMMA JoinsBytes ==
  ASSUME Sizes, NEW fields \in Seq(WireField), NEW h, Joins(h, fields)
  PROVE  /\ Len(fields) \in Nat /\ Bytes(Wire!Encode(fields)) /\ Len(Wire!Encode(fields)) \in Nat
         /\ \A i \in 0 .. Len(fields) : h[i] \in Seq(Wire!Byte) /\ Len(h[i]) \in Nat
<1>1. Len(fields) \in Nat
  BY LenProperties
<1>2. \A i \in 0 .. Len(fields) : h[i] \in Seq(Wire!Byte) /\ Len(h[i]) \in Nat
  BY LenProperties DEF Joins
<1>3. Wire!Encode(fields) = h[Len(fields)] /\ Len(fields) \in 0 .. Len(fields)
  BY <1>1 DEF Joins
<1> QED BY <1>1, <1>2, <1>3 DEF Bytes

LEMMA EncodeEmpty == ASSUME Sizes PROVE Wire!Encode(<<>>) = <<>>
<1>1. <<>> \in Seq(WireField) /\ Len(<<>>) = 0
  BY EmptySeq
<1>2. PICK h : Joins(h, <<>>)
  BY <1>1, EncodeJoins
<1> QED BY <1>1, <1>2 DEF Joins

LEMMA EncodeAppend ==
  ASSUME Sizes, NEW fields \in Seq(WireField), NEW f \in WireField
  PROVE  Wire!Encode(Append(fields, f)) = Wire!Encode(fields) \o f.raw
<1> DEFINE n == Len(fields)
           more == Append(fields, f)
<1>1. n \in Nat
  BY LenProperties
<1>2. /\ more \in Seq(WireField) /\ Len(more) = n + 1 /\ more[n + 1] = f
      /\ \A i \in 1 .. n : more[i] = fields[i]
  BY AppendProperties
<1>3. PICK g : Joins(g, fields)
  BY EncodeJoins
<1> HIDE DEF n, more
<1>4. PICK h : Joins(h, more)
  BY <1>2, EncodeJoins
<1>5. /\ g[0] = <<>> /\ \A i \in 1 .. n : g[i] = g[i - 1] \o fields[i].raw
      /\ Wire!Encode(fields) = g[n]
  BY <1>3 DEF Joins, n
<1>6. /\ h[0] = <<>> /\ \A i \in 1 .. n + 1 : h[i] = h[i - 1] \o more[i].raw
      /\ Wire!Encode(more) = h[n + 1]
  BY <1>2, <1>4 DEF Joins
<1> DEFINE Good == {m \in Nat : m <= n => g[m] = h[m]}
<1>7. 0 \in Good
  BY <1>5, <1>6
<1>8. ASSUME NEW m \in Nat, m \in Good PROVE m + 1 \in Good
  <2>1. SUFFICES ASSUME m + 1 <= n PROVE g[m + 1] = h[m + 1]
    OBVIOUS
  <2>2. m + 1 \in 1 .. n /\ m + 1 \in 1 .. n + 1 /\ (m + 1) - 1 = m /\ m <= n
    BY <1>1, <2>1
  <2>3. g[m] = h[m]
    BY <1>8, <2>2
  <2>4. g[m + 1] = g[m] \o fields[m + 1].raw
    BY <1>5, <2>2
  <2>5. h[m + 1] = h[m] \o more[m + 1].raw
    BY <1>6, <2>2
  <2>6. more[m + 1] = fields[m + 1]
    BY <1>2, <2>2
  <2> QED BY <2>3, <2>4, <2>5, <2>6
<1> HIDE DEF Good
<1>9. n \in Good
  BY <1>1, <1>7, <1>8, NatAll
<1>10. g[n] = h[n]
  BY <1>1, <1>9 DEF Good
<1>11. h[n + 1] = h[n] \o f.raw
  <2>1. n + 1 \in 1 .. n + 1 /\ (n + 1) - 1 = n
    BY <1>1
  <2> QED BY <1>2, <1>6, <2>1
<1> QED BY <1>5, <1>6, <1>10, <1>11 DEF more

\* Where the reader of a message may stand.
State == {Wire!Refused} \cup [ok : {TRUE}, next : Nat, fields : Seq(WireField)]
Start == [ok |-> TRUE, next |-> 0, fields |-> <<>>]

\* g is the reader, round by round.
Rounds(g, input) ==
  /\ g \in [0 .. Len(input) -> State]
  /\ g[0] = Start
  /\ \A i \in 1 .. Len(input) : g[i] = Wire!Advance(input, g[i - 1])
  /\ Wire!Parse(input) = IF Len(input) > MaxMessage THEN Wire!Refused ELSE g[Len(input)]

LEMMA StartIs == Start \in State
<1>1. <<>> \in Seq(WireField)
  BY EmptySeq
<1> QED BY <1>1 DEF Start, State

LEMMA StateIs ==
  ASSUME NEW s \in State, s.ok
  PROVE  /\ s.next \in Nat /\ s.fields \in Seq(WireField)
         /\ s = [ok |-> TRUE, next |-> s.next, fields |-> s.fields]
<1>1. ~Wire!Refused.ok
  BY DEF Wire!Refused
<1>2. s # Wire!Refused
  BY <1>1
<1>3. s \in [ok : {TRUE}, next : Nat, fields : Seq(WireField)]
  BY <1>2 DEF State
<1> QED BY <1>3

\* What a round makes of a reader.
LEMMA AdvanceIs ==
  ASSUME Sizes, NEW input, Bytes(input), NEW s \in State
  PROVE  /\ Wire!Advance(input, s) \in State
         /\ Wire!Advance(input, s).ok => s.ok
         /\ ~s.ok \/ s.next >= Len(input) => Wire!Advance(input, s) = s
         /\ s.ok /\ s.next < Len(input) /\ Wire!ReadField(input, s.next).ok =>
              Wire!Advance(input, s) =
                [ok |-> TRUE, next |-> Wire!ReadField(input, s.next).next,
                 fields |-> Append(s.fields, Wire!ReadField(input, s.next).field)]
         /\ s.ok /\ s.next < Len(input) /\ Wire!Advance(input, s).ok =>
              Wire!ReadField(input, s.next).ok
<1> DEFINE read == Wire!ReadField(input, s.next)
           next == Wire!Advance(input, s)
<1>1. Len(input) \in Nat
  BY ByteIs
<1>2. CASE ~s.ok \/ s.next >= Len(input)
  <2>1. next = s
    BY <1>2 DEF Wire!Advance
  <2>2. s.ok => s.next \in Nat
    BY StateIs
  <2>3. ~(s.ok /\ s.next < Len(input))
    BY <1>1, <1>2, <2>2
  <2> QED BY <2>1, <2>3
<1>3. CASE ~(~s.ok \/ s.next >= Len(input)) /\ ~read.ok
  <2>1. next = Wire!Refused
    BY <1>3 DEF Wire!Advance
  <2>2. Wire!Refused \in State /\ ~Wire!Refused.ok
    BY DEF State, Wire!Refused
  <2> QED BY <1>3, <2>1, <2>2
<1>4. CASE ~(~s.ok \/ s.next >= Len(input)) /\ read.ok
  <2>1. next = [ok |-> TRUE, next |-> read.next, fields |-> Append(s.fields, read.field)]
    BY <1>4 DEF Wire!Advance
  <2>2. s.next \in Nat /\ s.fields \in Seq(WireField)
    BY <1>4, StateIs
  <2>3. read.field \in WireField /\ read.next \in Nat
    BY <1>4, <2>2, FieldHere DEF Stands
  <2> HIDE DEF read
  <2>4. Append(s.fields, read.field) \in Seq(WireField)
    BY <2>2, <2>3, AppendProperties
  <2>5. next \in State
    BY <2>1, <2>3, <2>4 DEF State
  <2> QED BY <1>4, <2>1, <2>5 DEF read
<1> QED BY <1>2, <1>3, <1>4

LEMMA ParseRounds ==
  ASSUME Sizes, NEW input, Bytes(input)
  PROVE  \E g : Rounds(g, input)
<1> DEFINE n == Len(input)
           D == [i \in 1 .. n |-> [v \in State |-> Wire!Advance(input, v)]]
           F == CHOOSE f : f = [m \in 0 .. n |-> IF m = 0 THEN Start
                                                 ELSE Wire!Advance(input, f[m - 1])]
<1>1. n \in Nat
  BY ByteIs
<1>2. Start \in State
  BY StartIs
<1>3. Wire!Parse(input) = IF n > MaxMessage THEN Wire!Refused ELSE F[n]
  BY DEF Wire!Parse, Start
<1>4. \A v \in State : Wire!Advance(input, v) \in State
  BY AdvanceIs
<1> HIDE DEF n
<1>5. D \in [1 .. n -> [State -> State]]
  BY <1>4
<1>6. PICK f \in [0 .. n -> State] : RunsTo(f, n, Start, D)
  <2> HIDE DEF D
  <2> QED BY <1>1, <1>2, <1>5, Loop
<1>7. \A i \in 0 .. n : f[i] = IF i = 0 THEN Start ELSE Wire!Advance(input, f[i - 1])
  <2>1. \A i \in 0 .. n : i # 0 => f[i - 1] \in State /\ i \in 1 .. n
    BY <1>1
  <2> QED BY <1>6, <2>1 DEF RunsTo
<1>8. f = [m \in 0 .. n |-> IF m = 0 THEN Start ELSE Wire!Advance(input, f[m - 1])]
  BY <1>7
<1>9. F = [m \in 0 .. n |-> IF m = 0 THEN Start ELSE Wire!Advance(input, F[m - 1])]
  BY <1>8, Zenon
<1> HIDE DEF F, D
<1>10. F[0] = Start /\ \A i \in 1 .. n : F[i] = Wire!Advance(input, F[i - 1])
  <2>1. \A i \in 0 .. n : F[i] = IF i = 0 THEN Start ELSE Wire!Advance(input, F[i - 1])
    BY <1>9, Zenon
  <2>2. 0 \in 0 .. n /\ \A i \in 1 .. n : i \in 0 .. n /\ i # 0
    BY <1>1
  <2> QED BY <2>1, <2>2
<1> DEFINE Good == {m \in Nat : m <= n => F[m] \in State}
<1>11. 0 \in Good
  BY <1>2, <1>10
<1>12. ASSUME NEW m \in Nat, m \in Good PROVE m + 1 \in Good
  <2>1. SUFFICES ASSUME m + 1 <= n PROVE F[m + 1] \in State
    OBVIOUS
  <2>2. m + 1 \in 1 .. n /\ (m + 1) - 1 = m /\ m <= n
    BY <1>1, <2>1
  <2>3. F[m] \in State /\ F[m + 1] = Wire!Advance(input, F[m])
    BY <1>10, <1>12, <2>2
  <2> QED BY <1>4, <2>3
<1> HIDE DEF Good
<1>13. Nat \subseteq Good
  BY <1>11, <1>12, NatAll
<1>14. F \in [0 .. n -> State]
  <2>1. \A m \in 0 .. n : F[m] \in State
    BY <1>13 DEF Good
  <2>2. F = [m \in 0 .. n |-> F[m]]
    BY <1>9, Zenon
  <2> QED BY <2>1, <2>2
<1>15. Rounds(F, input)
  BY <1>3, <1>10, <1>14 DEF Rounds, n
<1> QED BY <1>15

LEMMA NextPart ==
  ASSUME NEW S, NEW seq \in Seq(S), NEW n \in Nat, NEW m \in Nat, n <= m, m <= Len(seq)
  PROVE  SubSeq(seq, 1, n) \o SubSeq(seq, n + 1, m) = SubSeq(seq, 1, m)
<1>1. Len(seq) \in Nat
  BY LenProperties
<1>2. 1 \in 1 .. Len(seq) + 1 /\ n \in 1 - 1 .. Len(seq) /\ m \in n .. Len(seq)
  BY <1>1
<1> QED BY <1>2, ConcatAdjacentSubSeq

\* What is accepted is a sequence of fields, whose bytes are the input.
LEMMA Parsed ==
  ASSUME Sizes, NEW input, Bytes(input), Wire!Parse(input).ok
  PROVE  /\ Wire!Parse(input).fields \in Seq(WireField)
         /\ Wire!Encode(Wire!Parse(input).fields) = input
         /\ Len(input) <= MaxMessage
<1> DEFINE n == Len(input)
<1>1. n \in Nat /\ input \in Seq(Wire!Byte)
  BY ByteIs DEF Bytes
<1>2. PICK g : Rounds(g, input)
  BY ParseRounds
<1>3. /\ \A i \in 0 .. n : g[i] \in State
      /\ g[0] = Start /\ \A i \in 1 .. n : g[i] = Wire!Advance(input, g[i - 1])
      /\ Wire!Parse(input) = IF n > MaxMessage THEN Wire!Refused ELSE g[n]
  BY <1>2 DEF Rounds
<1>4. ~(n > MaxMessage) /\ Wire!Parse(input) = g[n]
  BY <1>3 DEF Wire!Refused
<1> HIDE DEF n
<1> DEFINE Fine(s, m) == s.ok => /\ s.next <= n /\ (s.next = n \/ m <= s.next)
                                 /\ Wire!Encode(s.fields) = SubSeq(input, 1, s.next)
           Good == {m \in Nat : m <= n => Fine(g[m], m)}
<1>5. 0 \in Good
  <2>1. /\ Start.next = 0 /\ Wire!Encode(Start.fields) = <<>> /\ SubSeq(input, 1, 0) = <<>>
    BY EncodeEmpty, SubSeqEmpty DEF Start
  <2>2. Fine(Start, 0)
    BY <1>1, <2>1
  <2> HIDE DEF Fine
  <2> QED BY <1>3, <2>2
<1>6. ASSUME NEW m \in Nat, m \in Good PROVE m + 1 \in Good
  <2>1. SUFFICES ASSUME m + 1 <= n, g[m + 1].ok PROVE Fine(g[m + 1], m + 1)
    OBVIOUS
  <2> DEFINE s == g[m]
             t == g[m + 1]
             read == Wire!ReadField(input, s.next)
  <2>2. m + 1 \in 1 .. n /\ (m + 1) - 1 = m /\ m \in 0 .. n /\ m <= n
    BY <1>1, <2>1
  <2>3. s \in State /\ t = Wire!Advance(input, s) /\ t.ok
    BY <1>3, <2>1, <2>2
  <2>4. Fine(s, m)
    BY <1>6, <2>2
  <2> HIDE DEF s, t, read
  <2>5. s.ok
    BY <2>3, AdvanceIs
  <2>6. /\ s.next \in Nat /\ s.fields \in Seq(WireField)
        /\ s.next <= n /\ (s.next = n \/ m <= s.next)
        /\ Wire!Encode(s.fields) = SubSeq(input, 1, s.next)
    BY <2>3, <2>4, <2>5, StateIs
  <2>7. CASE s.next >= Len(input)
    <3>1. t = s
      BY <2>3, <2>7, AdvanceIs
    <3>2. s.next = n
      BY <1>1, <2>6, <2>7 DEF n
    <3> QED BY <2>6, <3>1, <3>2 DEF t
  <2>8. CASE s.next < Len(input)
    <3>1. read.ok
      BY <2>3, <2>5, <2>8, AdvanceIs DEF read
    <3>2. t = [ok |-> TRUE, next |-> read.next, fields |-> Append(s.fields, read.field)]
      BY <2>3, <2>5, <2>8, <3>1, AdvanceIs DEF read
    <3>3. read.field \in WireField /\ Stands(read, input, s.next)
      BY <2>6, <3>1, FieldHere DEF read
    <3>4. /\ read.next \in Nat /\ s.next < read.next /\ read.next <= n
          /\ read.field.raw = SubSeq(input, s.next + 1, read.next)
      BY <3>3 DEF Stands, n
    <3>5. Wire!Encode(Append(s.fields, read.field)) = SubSeq(input, 1, s.next) \o read.field.raw
      BY <2>6, <3>3, EncodeAppend
    <3>6. SubSeq(input, 1, s.next) \o read.field.raw = SubSeq(input, 1, read.next)
      <4>1. s.next <= read.next /\ read.next <= Len(input)
        BY <2>6, <3>4 DEF n
      <4>2. PICK i \in Nat, k \in Nat : s.next = i /\ read.next = k
        BY <2>6, <3>4
      <4>3. SubSeq(input, 1, i) \o SubSeq(input, i + 1, k) = SubSeq(input, 1, k)
        BY <1>1, <4>1, <4>2, NextPart
      <4> QED BY <3>4, <4>2, <4>3
    <3>7. read.next = n \/ m + 1 <= read.next
      BY <1>1, <2>6, <2>8, <3>4 DEF n
    <3>8. Fine(t, m + 1)
      BY <3>2, <3>4, <3>5, <3>6, <3>7
    <3> QED BY <3>8 DEF t
  <2>9. s.next >= Len(input) \/ s.next < Len(input)
    BY <1>1, <2>6 DEF n
  <2> QED BY <2>7, <2>8, <2>9
<1>7. n \in Good
  <2> HIDE DEF Good
  <2> QED BY <1>1, <1>5, <1>6, NatAll
<1>8. g[n].ok /\ g[n] \in State
  BY <1>1, <1>3, <1>4
<1>9. Fine(g[n], n)
  BY <1>1, <1>7
<1>10. g[n].next \in Nat /\ g[n].fields \in Seq(WireField)
  BY <1>8, StateIs
<1>11. g[n].next = n /\ Wire!Encode(g[n].fields) = SubSeq(input, 1, n)
  BY <1>1, <1>8, <1>9, <1>10
<1>12. SubSeq(input, 1, n) = input
  BY <1>1, SubSeqFull DEF n
<1>13. n <= MaxMessage
  BY <1>1, <1>4, SizesAre
<1> QED BY <1>4, <1>10, <1>11, <1>12, <1>13 DEF n

\* Whatever bytes the reader accepts, the writer gives back, byte by byte, overlong numbers
\* and fields of no meaning to the program included (wire.rs:90).
THEOREM Lossless == Sizes => Wire!Lossless(Seq(Wire!Byte))
BY Parsed DEF Wire!Lossless, Bytes

-----------------------------------------------------------------------------
(* Reading a message that was written *)

Prefix(x, y) == Len(x) <= Len(y) /\ \A m \in 1 .. Len(x) : x[m] = y[m]

LEMMA ConcatPrefix ==
  ASSUME NEW S, NEW x \in Seq(S), NEW y \in Seq(S)
  PROVE  /\ x \o y \in Seq(S) /\ Len(x) \in Nat /\ Len(y) \in Nat
         /\ Len(x \o y) = Len(x) + Len(y)
         /\ Prefix(x, x \o y)
         /\ Alike(y, 0, x \o y, Len(x), Len(y))
<1> DEFINE xy == x \o y
<1>1. Len(x) \in Nat /\ Len(y) \in Nat
  BY LenProperties
<1>2. /\ xy \in Seq(S) /\ Len(xy) = Len(x) + Len(y)
      /\ \A i \in 1 .. Len(x) + Len(y) : xy[i] = IF i <= Len(x) THEN x[i] ELSE y[i - Len(x)]
  BY ConcatProperties
<1> HIDE DEF xy
<1>3. \A m \in 1 .. Len(x) : x[m] = xy[m]
  <2> TAKE m \in 1 .. Len(x)
  <2>1. m \in 1 .. Len(x) + Len(y) /\ m <= Len(x)
    BY <1>1
  <2> QED BY <1>2, <2>1
<1>4. \A m \in 1 .. Len(y) : y[0 + m] = xy[Len(x) + m]
  <2> TAKE m \in 1 .. Len(y)
  <2>1. /\ Len(x) + m \in 1 .. Len(x) + Len(y) /\ ~(Len(x) + m <= Len(x))
        /\ (Len(x) + m) - Len(x) = m /\ 0 + m = m
    BY <1>1
  <2>2. xy[Len(x) + m] = y[(Len(x) + m) - Len(x)]
    BY <1>2, <2>1
  <2> QED BY <2>1, <2>2
<1>5. Prefix(x, xy) /\ Alike(y, 0, xy, Len(x), Len(y))
  BY <1>1, <1>2, <1>3, <1>4 DEF Prefix, Alike
<1> QED BY <1>1, <1>2, <1>5 DEF xy

LEMMA PrefixOfPrefix ==
  ASSUME NEW x, NEW y, NEW z, Len(x) \in Nat, Len(y) \in Nat, Len(z) \in Nat,
         Prefix(x, y), Prefix(y, z)
  PROVE  Prefix(x, z)
<1>1. Len(x) <= Len(z)
  BY DEF Prefix
<1>2. ASSUME NEW m \in 1 .. Len(x) PROVE x[m] = z[m]
  <2>1. m \in 1 .. Len(y)
    BY DEF Prefix
  <2> QED BY <2>1 DEF Prefix
<1> QED BY <1>1, <1>2 DEF Prefix

\* What stands in a prefix of a string stands in the string.
LEMMA AlikePrefix ==
  ASSUME NEW a, NEW b, NEW c, NEW o \in Nat, NEW p \in Nat, NEW k \in Nat,
         Len(b) \in Nat, Len(c) \in Nat, Alike(a, o, b, p, k), Prefix(b, c)
  PROVE  Alike(a, o, c, p, k)
<1>1. o + k <= Len(a) /\ p + k <= Len(b) /\ Len(b) <= Len(c)
  BY DEF Alike, Prefix
<1>2. ASSUME NEW m \in 1 .. k PROVE a[o + m] = c[p + m]
  <2>1. p + m \in 1 .. Len(b)
    BY <1>1
  <2>2. b[p + m] = c[p + m]
    BY <2>1 DEF Prefix
  <2> QED BY <2>2 DEF Alike
<1> QED BY <1>1, <1>2 DEF Alike

\* The bytes of the first fields begin the bytes of them all, and grow with every field.
LEMMA JoinsGrow ==
  ASSUME Sizes, NEW fields \in Seq(WireField), NEW h, Joins(h, fields)
  PROVE  /\ \A m \in 0 .. Len(fields) : Prefix(h[m], Wire!Encode(fields)) /\ m <= Len(h[m])
         /\ \A m \in 1 .. Len(fields) :
              /\ Len(h[m]) = Len(h[m - 1]) + Len(fields[m].raw)
              /\ Alike(fields[m].raw, 0, Wire!Encode(fields), Len(h[m - 1]), Len(fields[m].raw))
<1> DEFINE n == Len(fields)
           input == Wire!Encode(fields)
           raw(m) == fields[m].raw
<1>1. /\ n \in Nat /\ Bytes(input) /\ Len(input) \in Nat
      /\ \A i \in 0 .. n : h[i] \in Seq(Wire!Byte) /\ Len(h[i]) \in Nat
  BY JoinsBytes
<1>2. \A m \in 1 .. n : raw(m) \in Seq(Wire!Byte) /\ Len(raw(m)) \in Nat /\ Len(raw(m)) > 0
  <2> TAKE m \in 1 .. n
  <2>1. fields[m] \in WireField
    BY ElementOfSeq
  <2> QED BY <2>1, FieldIs DEF Bytes
<1>3. /\ h[0] = <<>> /\ \A m \in 1 .. n : h[m] = h[m - 1] \o raw(m)
      /\ input = h[n]
  BY DEF Joins
<1> HIDE DEF n, input, raw
<1>4. ASSUME NEW m \in 1 .. n
      PROVE  /\ Len(h[m]) = Len(h[m - 1]) + Len(raw(m))
             /\ Prefix(h[m - 1], h[m])
             /\ Alike(raw(m), 0, h[m], Len(h[m - 1]), Len(raw(m)))
  <2>1. m - 1 \in 0 .. n
    BY <1>1
  <2>2. h[m - 1] \in Seq(Wire!Byte) /\ raw(m) \in Seq(Wire!Byte) /\ h[m] = h[m - 1] \o raw(m)
    BY <1>1, <1>2, <1>3, <2>1
  <2> QED BY <2>2, ConcatPrefix
<1> DEFINE Long == {m \in Nat : m <= n => m <= Len(h[m])}
<1>5. 0 \in Long
  BY <1>1
<1>6. ASSUME NEW m \in Nat, m \in Long PROVE m + 1 \in Long
  <2>1. SUFFICES ASSUME m + 1 <= n PROVE m + 1 <= Len(h[m + 1])
    OBVIOUS
  <2>2. m + 1 \in 1 .. n /\ (m + 1) - 1 = m /\ m <= n /\ m \in 0 .. n
    BY <1>1, <2>1
  <2>3. Len(h[m + 1]) = Len(h[m]) + Len(raw(m + 1))
    BY <1>4, <2>2
  <2>4. m <= Len(h[m]) /\ Len(h[m]) \in Nat
    BY <1>1, <1>6, <2>2
  <2>5. Len(raw(m + 1)) \in Nat /\ Len(raw(m + 1)) > 0
    BY <1>2, <2>2
  <2>6. PICK i \in Nat, j \in Nat : i = Len(h[m]) /\ j = Len(raw(m + 1))
    BY <2>4, <2>5
  <2>7. m <= i /\ j > 0 /\ Len(h[m + 1]) = i + j
    BY <2>3, <2>4, <2>5, <2>6
  <2> QED BY <2>7
<1> HIDE DEF Long
<1>7. Nat \subseteq Long
  BY <1>5, <1>6, NatAll
\* Upwards from the prefix of i fields.
<1>8. ASSUME NEW i \in 0 .. n PROVE Prefix(h[i], input)
  <2> DEFINE Good == {m \in Nat : i <= m /\ m <= n => Prefix(h[i], h[m])}
  <2>1. Prefix(h[i], h[i])
    BY <1>1 DEF Prefix
  <2>2. 0 \in Good
    BY <1>1, <2>1
  <2>3. ASSUME NEW m \in Nat, m \in Good PROVE m + 1 \in Good
    <3>1. SUFFICES ASSUME i <= m + 1, m + 1 <= n, i # m + 1 PROVE Prefix(h[i], h[m + 1])
      BY <2>1
    <3>2. m + 1 \in 1 .. n /\ m + 1 \in 0 .. n /\ (m + 1) - 1 = m /\ i <= m /\ m <= n /\ m \in 0 .. n
      BY <1>1, <3>1
    <3>3. Prefix(h[i], h[m])
      BY <2>3, <3>2
    <3>4. Prefix(h[m], h[m + 1])
      BY <1>4, <3>2
    <3>5. Len(h[i]) \in Nat /\ Len(h[m]) \in Nat /\ Len(h[m + 1]) \in Nat
      BY <1>1, <3>2
    <3> QED BY <3>3, <3>4, <3>5, PrefixOfPrefix
  <2> HIDE DEF Good
  <2>4. n \in Good
    BY <1>1, <2>2, <2>3, NatAll
  <2>5. i <= n /\ n <= n
    BY <1>1
  <2> QED BY <1>3, <2>4, <2>5 DEF Good
<1>9. ASSUME NEW m \in 0 .. n PROVE m <= Len(h[m])
  <2>1. m \in Long /\ m <= n
    BY <1>1, <1>7
  <2> QED BY <2>1 DEF Long
<1>10. ASSUME NEW m \in 1 .. n
       PROVE  Alike(raw(m), 0, input, Len(h[m - 1]), Len(raw(m)))
  <2>1. m - 1 \in 0 .. n /\ m \in 0 .. n
    BY <1>1
  <2>2. Len(h[m - 1]) \in Nat /\ Len(h[m]) \in Nat /\ Len(raw(m)) \in Nat
    BY <1>1, <1>2, <2>1
  <2>3. Prefix(h[m], input)
    BY <1>8, <2>1
  <2>4. Alike(raw(m), 0, h[m], Len(h[m - 1]), Len(raw(m)))
    BY <1>4
  <2> DEFINE p == Len(h[m - 1])
             k == Len(raw(m))
  <2>5. p \in Nat /\ k \in Nat /\ Alike(raw(m), 0, h[m], p, k)
    BY <2>2, <2>4
  <2> HIDE DEF p, k
  <2>6. Alike(raw(m), 0, input, p, k)
    BY <1>1, <2>2, <2>3, <2>5, AlikePrefix
  <2> QED BY <2>6 DEF p, k
<1> QED BY <1>4, <1>8, <1>9, <1>10 DEF n, input, raw

\* Fields that are written one after the other are read one after the other.
LEMMA ParsedBack ==
  ASSUME Sizes, NEW fields \in Seq(WireField), Len(Wire!Encode(fields)) <= MaxMessage
  PROVE  Wire!Parse(Wire!Encode(fields)) =
           [ok |-> TRUE, next |-> Len(Wire!Encode(fields)), fields |-> fields]
<1> DEFINE n == Len(fields)
           input == Wire!Encode(fields)
<1>1. PICK h : Joins(h, fields)
  BY EncodeJoins
<1>2. /\ n \in Nat /\ Bytes(input) /\ Len(input) \in Nat
      /\ \A i \in 0 .. n : h[i] \in Seq(Wire!Byte) /\ Len(h[i]) \in Nat
  BY <1>1, JoinsBytes
<1>3. PICK g : Rounds(g, input)
  BY <1>2, ParseRounds
<1>4. /\ \A m \in 0 .. n : Prefix(h[m], input) /\ m <= Len(h[m])
      /\ \A m \in 1 .. n :
           /\ Len(h[m]) = Len(h[m - 1]) + Len(fields[m].raw)
           /\ Alike(fields[m].raw, 0, input, Len(h[m - 1]), Len(fields[m].raw))
  BY <1>1, JoinsGrow
<1>5. h[0] = <<>> /\ input = h[n]
  BY <1>1 DEF Joins
<1> HIDE DEF n, input
<1>6. /\ \A i \in 0 .. Len(input) : g[i] \in State
      /\ g[0] = Start /\ \A i \in 1 .. Len(input) : g[i] = Wire!Advance(input, g[i - 1])
      /\ Wire!Parse(input) = IF Len(input) > MaxMessage THEN Wire!Refused ELSE g[Len(input)]
  BY <1>3 DEF Rounds
<1>7. n <= Len(input)
  BY <1>2, <1>4, <1>5
<1> DEFINE At(m) == [ok |-> TRUE, next |-> Len(h[m]), fields |-> SubSeq(fields, 1, m)]
           Good == {m \in Nat : m <= n => g[m] = At(m)}
<1>8. 0 \in Good
  <2>1. Len(h[0]) = 0 /\ SubSeq(fields, 1, 0) = <<>>
    BY <1>5, SubSeqEmpty
  <2>2. At(0) = Start
    BY <2>1 DEF Start
  <2> HIDE DEF At
  <2> QED BY <1>6, <2>2
<1>9. ASSUME NEW m \in Nat, m \in Good PROVE m + 1 \in Good
  <2>1. SUFFICES ASSUME m + 1 <= n PROVE g[m + 1] = At(m + 1)
    OBVIOUS
  <2> DEFINE f == fields[m + 1]
             s == g[m]
             t == g[m + 1]
             p == Len(h[m])
             k == Len(f.raw)
  <2>2. /\ m + 1 \in 1 .. n /\ (m + 1) - 1 = m /\ m \in 0 .. n /\ m + 1 \in 0 .. n /\ m <= n
        /\ m + 1 \in 1 .. Len(input) /\ m \in 0 .. Len(input)
    BY <1>2, <1>7, <2>1
  <2>3. f \in WireField
    BY <2>2, ElementOfSeq DEF n
  <2>4. k \in Nat /\ k > 0 /\ p \in Nat
    BY <1>2, <2>2, <2>3, FieldIs
  <2>5. Len(h[m + 1]) = p + k /\ Alike(f.raw, 0, input, p, k)
    BY <1>4, <2>2
  <2>6. p + k <= Len(input)
    BY <2>5 DEF Alike
  <2>7. s = At(m) /\ s \in State /\ t = Wire!Advance(input, s)
    BY <1>6, <1>9, <2>2
  <2>8. s.ok /\ s.next = p /\ s.fields = SubSeq(fields, 1, m)
    BY <2>7
  <2>9. Wire!ReadField(input, p) = [ok |-> TRUE, next |-> p + k, field |-> f]
    <3> HIDE DEF f, p
    <3>1. Alike(f.raw, 0, input, p, Len(f.raw))
      BY <2>5
    <3> QED BY <1>2, <2>3, <2>4, <3>1, FieldThere
  <2> HIDE DEF f, s, t, p, k, At
  <2>10. s.next < Len(input)
    BY <1>2, <2>4, <2>6, <2>8
  <2>11. Wire!ReadField(input, s.next).ok
    BY <2>8, <2>9
  <2>12. t = [ok |-> TRUE, next |-> Wire!ReadField(input, s.next).next,
              fields |-> Append(s.fields, Wire!ReadField(input, s.next).field)]
    BY <1>2, <2>7, <2>8, <2>10, <2>11, AdvanceIs
  <2>13. t = [ok |-> TRUE, next |-> p + k, fields |-> Append(SubSeq(fields, 1, m), f)]
    <3>1. Wire!ReadField(input, s.next).next = p + k /\ Wire!ReadField(input, s.next).field = f
      BY <2>8, <2>9
    <3> QED BY <2>8, <2>12, <3>1
  <2>14. Append(SubSeq(fields, 1, m), f) = SubSeq(fields, 1, m + 1)
    <3>1. Len(fields) \in Nat /\ m + 1 <= Len(fields)
      BY <1>2, <2>1 DEF n
    <3>2. SubSeq(fields, 1, m) \in Seq(WireField)
      <4>1. \A i \in 1 .. m : fields[i] \in WireField
        BY <3>1, ElementOfSeq
      <4> QED BY <4>1, SubSeqProperties
    <3>3. SubSeq(fields, 1, m + 1) = SubSeq(fields, 1, (m + 1) - 1) \o <<fields[m + 1]>>
      <4>1. 1 \in 1 .. Len(fields) /\ m + 1 \in 1 .. Len(fields)
        BY <3>1
      <4> QED BY <4>1, SubSeqRecursiveSecond
    <3>4. Append(SubSeq(fields, 1, m), f) = SubSeq(fields, 1, m) \o <<f>>
      BY <2>3, <3>2, AppendIsConcat
    <3> QED BY <2>2, <3>3, <3>4 DEF f
  <2>15. t = At(m + 1)
    BY <2>5, <2>13, <2>14 DEF At
  <2> QED BY <2>15 DEF t
<1>10. n \in Good
  <2> HIDE DEF Good
  <2> QED BY <1>2, <1>8, <1>9, NatAll
<1>11. g[n] = [ok |-> TRUE, next |-> Len(input), fields |-> fields]
  <2>1. SubSeq(fields, 1, n) = fields
    BY SubSeqFull DEF n
  <2>2. g[n] = At(n)
    BY <1>2, <1>10
  <2> QED BY <1>5, <2>1, <2>2
<1> HIDE DEF Good
\* The rounds that are left change nothing.
<1> DEFINE Rest == {m \in Nat : n <= m /\ m <= Len(input) => g[m] = g[n]}
<1>12. 0 \in Rest
  BY <1>2
<1>13. ASSUME NEW m \in Nat, m \in Rest PROVE m + 1 \in Rest
  <2>1. SUFFICES ASSUME n <= m + 1, m + 1 <= Len(input), n # m + 1 PROVE g[m + 1] = g[n]
    OBVIOUS
  <2>2. n <= m /\ m <= Len(input) /\ m + 1 \in 1 .. Len(input) /\ (m + 1) - 1 = m
    BY <1>2, <2>1
  <2>3. g[m] = g[n] /\ g[m + 1] = Wire!Advance(input, g[m])
    BY <1>6, <1>13, <2>2
  <2>4. g[n].next >= Len(input)
    BY <1>2, <1>11
  <2>5. g[n] \in State
    BY <1>2, <1>6, <1>7
  <2>6. Wire!Advance(input, g[n]) = g[n]
    BY <1>2, <2>4, <2>5, AdvanceIs
  <2> QED BY <2>3, <2>6
<1> HIDE DEF Rest
<1>14. Len(input) \in Rest
  BY <1>2, <1>12, <1>13, NatAll
<1>15. g[Len(input)] = g[n]
  BY <1>2, <1>7, <1>14 DEF Rest
<1>16. ~(Len(input) > MaxMessage)
  BY <1>2, SizesAre DEF input
<1> QED BY <1>6, <1>11, <1>15, <1>16 DEF input

-----------------------------------------------------------------------------
(* Fields that the writer makes *)

LEMMA EncodedIs ==
  ASSUME Sizes, NEW value \in Wire!Word
  PROVE  /\ Wire!EncodeVarint(value) \in Seq(Wire!Byte) /\ Bytes(Wire!EncodeVarint(value))
         /\ Len(Wire!EncodeVarint(value)) \in Nat /\ Len(Wire!EncodeVarint(value)) > 0
<1>1. PICK n \in 1 .. Groups : Writes(value, n)
  BY WritesIs
<1>2. Bytes(Wire!EncodeVarint(value)) /\ Len(Wire!EncodeVarint(value)) = n
  BY <1>1, WrittenBytes
<1> QED BY <1>2, SizesAre DEF Bytes

LEMMA PrefixAlike ==
  ASSUME NEW x, NEW y, Len(x) \in Nat, Prefix(x, y)
  PROVE  Alike(x, 0, y, 0, Len(x))
BY DEF Prefix, Alike

\* A key is a word, that the reader takes apart again.
LEMMA KeyWord ==
  ASSUME Sizes, NEW number \in 1 .. MaxNumber, NEW type \in 0 .. Types - 1
  PROVE  /\ number * Types + type \in Wire!Word
         /\ (number * Types + type) \div Types = number
         /\ (number * Types + type) % Types = type
<1>1. MaxNumber \in Nat /\ Types \in Nat /\ Types > 1 /\ number \in Nat /\ type \in Nat
  BY SizesAre
<1>2. number * Types + type <= MaxNumber * Types + (Types - 1) /\ number * Types + type \in Nat
  <2>1. PICK d \in Nat : MaxNumber = number + d
    <3>1. MaxNumber - number \in Nat /\ MaxNumber = number + (MaxNumber - number)
      BY <1>1
    <3> QED BY <3>1
  <2>2. MaxNumber * Types = number * Types + d * Types /\ d * Types \in Nat /\ number * Types \in Nat
    BY <1>1, <2>1
  <2> QED BY <1>1, <2>2
<1>3. MaxNumber * Types + (Types - 1) \in Wire!Word
  BY DEF Sizes, Wire!SizesFit
<1> DEFINE bound == (Top + 1) * Wire!Weight[Groups - 1]
<1>4. bound \in Nat
  <2>1. Groups - 1 \in Nat /\ Top \in Nat
    BY WordIs, SizesAre
  <2>2. Wire!Weight[Groups - 1] \in Nat
    BY <2>1, WeightIs
  <2> QED BY <2>1, <2>2
<1>5. \A v : v \in Wire!Word <=> v \in Nat /\ v < bound
  BY WordIs
<1> HIDE DEF bound
<1> DEFINE key == number * Types + type
           most == MaxNumber * Types + (Types - 1)
<1>6. key \in Nat /\ key <= most
  BY <1>2
<1>7. most \in Nat /\ most < bound
  BY <1>3, <1>5
<1> HIDE DEF key, most
<1>8. key \in Wire!Word
  BY <1>4, <1>5, <1>6, <1>7
<1>9. ((number * Types) + type) % Types = type /\ ((number * Types) + type) \div Types = number
  BY <1>1, DivisionUnique
<1> QED BY <1>8, <1>9 DEF key

\* A key and a value behind it are a field.
LEMMA FieldFrom ==
  ASSUME Sizes, NEW number \in 1 .. MaxNumber, NEW type \in {0, 2}, NEW raw, Bytes(raw),
         NEW read, NEW value, read = [ok |-> TRUE, value |-> value, next |-> Len(raw)],
         Prefix(Wire!EncodeKey(number, type), raw),
         Wire!ReadValue(type, raw, Len(Wire!EncodeKey(number, type))) = read
  PROVE  [number |-> number, kind |-> Wire!Kind[type], value |-> value, raw |-> raw] \in WireField
<1> DEFINE key == number * Types + type
           code == Wire!EncodeVarint(key)
           f == [number |-> number, kind |-> Wire!Kind[type], value |-> value, raw |-> raw]
<1>1. type \in 0 .. Types - 1
  BY SizesAre
<1>2. key \in Wire!Word /\ key \div Types = number /\ key % Types = type
  BY <1>1, KeyWord
<1> HIDE DEF key
<1>3. code = Wire!EncodeKey(number, type)
  BY DEF key, Wire!EncodeKey
<1>4. Bytes(code) /\ Len(code) \in Nat
  BY <1>2, EncodedIs
<1>5. Alike(code, 0, raw, 0, Len(code))
  <2> HIDE DEF code
  <2> QED BY <1>3, <1>4, PrefixAlike
<1>6. Wire!ReadVarint(raw, 0) = [ok |-> TRUE, value |-> key, next |-> 0 + Len(code)]
  BY <1>2, <1>5, NumberRead
<1>7. Wire!ReadVarint(raw, 0) = [ok |-> TRUE, value |-> key, next |-> Len(code)]
  BY <1>4, <1>6
<1>8. Wire!ReadValue(type, raw, Len(code)) = [ok |-> TRUE, value |-> value, next |-> Len(raw)]
  BY <1>3
<1>9. SubSeq(raw, 0 + 1, Len(raw)) = raw
  <2>1. SubSeq(raw, 1, Len(raw)) = raw
    BY SubSeqFull DEF Bytes
  <2> QED BY <2>1
<1> HIDE DEF code
<1>10. Wire!ReadField(raw, 0) = [ok |-> TRUE, next |-> Len(raw), field |-> f]
  <2> DEFINE k == Wire!ReadVarint(raw, 0)
             v == Wire!ReadValue(k.value % Types, raw, k.next)
  <2>1. k.ok /\ k.value = key /\ k.next = Len(code)
    BY <1>7
  <2> HIDE DEF k
  <2>2. v = [ok |-> TRUE, value |-> value, next |-> Len(raw)]
    BY <1>2, <1>8, <2>1
  <2>3. v.ok /\ v.value = value /\ v.next = Len(raw)
    BY <2>2
  <2>4. Wire!ReadField(raw, 0) =
          IF k.ok /\ k.value \div Types \in 1 .. MaxNumber /\ v.ok
          THEN [ok |-> TRUE, next |-> v.next,
                field |-> [number |-> k.value \div Types, kind |-> Wire!Kind[k.value % Types],
                           value |-> v.value, raw |-> SubSeq(raw, 0 + 1, v.next)]]
          ELSE Wire!Refused
    BY Zenon DEF Wire!ReadField, k
  <2> HIDE DEF v
  <2> QED BY <1>2, <1>9, <2>1, <2>3, <2>4
<1> HIDE DEF f
<1>11. raw \in Alone /\ Wire!ReadField(raw, 0).field = f
  BY <1>10 DEF Alone, Bytes
<1> QED BY <1>11 DEF WireField, f

LEMMA UintField ==
  ASSUME Sizes, NEW number \in 1 .. MaxNumber, NEW value \in Wire!Word
  PROVE  [number |-> number, kind |-> "varint", value |-> value,
          raw |-> Wire!EncodeUint(number, value)] \in WireField
<1> DEFINE key == Wire!EncodeKey(number, 0)
           code == Wire!EncodeVarint(value)
           raw == key \o code
<1>1. key \in Seq(Wire!Byte) /\ Len(key) \in Nat
  <2>1. 0 \in 0 .. Types - 1
    BY SizesAre
  <2>2. number * Types + 0 \in Wire!Word
    BY <2>1, KeyWord
  <2> QED BY <2>2, EncodedIs DEF Wire!EncodeKey
<1>2. code \in Seq(Wire!Byte) /\ Len(code) \in Nat
  BY EncodedIs
<1>3. /\ raw \in Seq(Wire!Byte) /\ Len(raw) = Len(key) + Len(code)
      /\ Prefix(key, raw) /\ Alike(code, 0, raw, Len(key), Len(code))
  <2> HIDE DEF key, code
  <2> QED BY <1>1, <1>2, ConcatPrefix
<1>4. raw = Wire!EncodeUint(number, value)
  BY DEF Wire!EncodeUint
<1>5. Wire!ReadVarint(raw, Len(key)) = [ok |-> TRUE, value |-> value, next |-> Len(raw)]
  <2> HIDE DEF key, raw
  <2> QED BY <1>1, <1>3, NumberRead DEF Bytes
<1>6. Wire!ReadValue(0, raw, Len(key)) = [ok |-> TRUE, value |-> value, next |-> Len(raw)]
  BY <1>5 DEF Wire!ReadValue
<1> HIDE DEF raw
<1>7. [number |-> number, kind |-> Wire!Kind[0], value |-> value, raw |-> raw] \in WireField
  <2> DEFINE read == [ok |-> TRUE, value |-> value, next |-> Len(raw)]
  <2>1. read = [ok |-> TRUE, value |-> value, next |-> Len(raw)]
    OBVIOUS
  <2> HIDE DEF read
  <2>2. 0 \in {0, 2} /\ Bytes(raw) /\ Prefix(Wire!EncodeKey(number, 0), raw)
    BY <1>3 DEF Bytes
  <2>3. Wire!ReadValue(0, raw, Len(Wire!EncodeKey(number, 0))) = read
    BY <1>6, <2>1
  <2> QED BY <2>1, <2>2, <2>3, FieldFrom
<1>8. Wire!Kind[0] = "varint"
  BY DEF Wire!Kind
<1> QED BY <1>4, <1>7, <1>8

\* Byte strings whose length is a word: all that there are.
Strings == {bytes \in Seq(Wire!Byte) : Len(bytes) \in Wire!Word}

LEMMA BytesField ==
  ASSUME Sizes, NEW number \in 1 .. MaxNumber, NEW bytes \in Strings
  PROVE  [number |-> number, kind |-> "bytes", value |-> bytes,
          raw |-> Wire!EncodeBytes(number, bytes)] \in WireField
<1> DEFINE key == Wire!EncodeKey(number, 2)
           code == Wire!EncodeVarint(Len(bytes))
           start == key \o code
           raw == start \o bytes
<1>1. key \in Seq(Wire!Byte) /\ Len(key) \in Nat
  <2>1. 2 \in 0 .. Types - 1
    BY SizesAre
  <2>2. number * Types + 2 \in Wire!Word
    BY <2>1, KeyWord
  <2> QED BY <2>2, EncodedIs DEF Wire!EncodeKey
<1>2. code \in Seq(Wire!Byte) /\ Len(code) \in Nat
  BY EncodedIs DEF Strings
<1>3. bytes \in Seq(Wire!Byte) /\ Len(bytes) \in Wire!Word /\ Len(bytes) \in Nat
  BY LenProperties DEF Strings
<1>4. /\ start \in Seq(Wire!Byte) /\ Len(start) = Len(key) + Len(code) /\ Len(start) \in Nat
      /\ Prefix(key, start) /\ Alike(code, 0, start, Len(key), Len(code))
  <2> HIDE DEF key, code
  <2> QED BY <1>1, <1>2, ConcatPrefix
<1>5. /\ raw \in Seq(Wire!Byte) /\ Len(raw) = Len(start) + Len(bytes) /\ Len(raw) \in Nat
      /\ Prefix(start, raw) /\ Alike(bytes, 0, raw, Len(start), Len(bytes))
  <2> HIDE DEF start
  <2> QED BY <1>3, <1>4, ConcatPrefix
<1>6. raw = Wire!EncodeBytes(number, bytes)
  BY DEF Wire!EncodeBytes
<1>7. Prefix(key, raw) /\ Alike(code, 0, raw, Len(key), Len(code))
  <2> HIDE DEF key, code, start, raw
  <2>1. Prefix(key, raw)
    BY <1>1, <1>4, <1>5, PrefixOfPrefix
  <2>2. PICK k \in Nat, c \in Nat : k = Len(key) /\ c = Len(code)
    BY <1>1, <1>2
  <2>3. Alike(code, 0, raw, k, c)
    BY <1>4, <1>5, <2>2, AlikePrefix
  <2> QED BY <2>1, <2>2, <2>3
<1>8. Wire!ReadVarint(raw, Len(key)) = [ok |-> TRUE, value |-> Len(bytes), next |-> Len(start)]
  <2> HIDE DEF key, raw, start
  <2> QED BY <1>1, <1>3, <1>4, <1>5, <1>7, NumberRead DEF Bytes
<1>9. SubSeq(raw, Len(start) + 1, Len(start) + Len(bytes)) = bytes
  <2> HIDE DEF raw, start
  <2>1. SubSeq(bytes, 0 + 1, 0 + Len(bytes)) =
          SubSeq(raw, Len(start) + 1, Len(start) + Len(bytes))
    <3>1. PICK k \in Nat, c \in Nat : k = Len(start) /\ c = Len(bytes)
      BY <1>3, <1>4
    <3>2. Bytes(bytes) /\ Bytes(raw) /\ Alike(bytes, 0, raw, k, c)
      BY <1>3, <1>5, <3>1 DEF Bytes
    <3>3. SubSeq(bytes, 0 + 1, 0 + c) = SubSeq(raw, k + 1, k + c)
      BY <3>2, PartLocal
    <3> QED BY <3>1, <3>3
  <2>2. SubSeq(bytes, 1, Len(bytes)) = bytes
    BY <1>3, SubSeqFull
  <2> QED BY <1>3, <2>1, <2>2
<1>10. Wire!Take(raw, Len(start), Len(bytes)) =
         [ok |-> TRUE, value |-> bytes, next |-> Len(raw)]
  <2> HIDE DEF raw, start
  <2>1. ~(Len(start) + Len(bytes) > Len(raw))
    BY <1>3, <1>4, <1>5
  <2> QED BY <1>5, <1>9, <2>1 DEF Wire!Take
<1>11. Wire!ReadValue(2, raw, Len(key)) = [ok |-> TRUE, value |-> bytes, next |-> Len(raw)]
  <2> HIDE DEF raw, start, key
  <2>1. Wire!LengthPrefixed(raw, Len(key)) = Wire!Take(raw, Len(start), Len(bytes))
    BY <1>8 DEF Wire!LengthPrefixed
  <2> QED BY <1>10, <2>1 DEF Wire!ReadValue
<1> HIDE DEF raw
<1>12. [number |-> number, kind |-> Wire!Kind[2], value |-> bytes, raw |-> raw] \in WireField
  <2> DEFINE read == [ok |-> TRUE, value |-> bytes, next |-> Len(raw)]
  <2>1. read = [ok |-> TRUE, value |-> bytes, next |-> Len(raw)]
    OBVIOUS
  <2> HIDE DEF read
  <2>2. 2 \in {0, 2} /\ Bytes(raw) /\ Prefix(Wire!EncodeKey(number, 2), raw)
    BY <1>5, <1>7 DEF Bytes
  <2>3. Wire!ReadValue(2, raw, Len(Wire!EncodeKey(number, 2))) = read
    BY <1>11, <2>1
  <2> QED BY <2>1, <2>2, <2>3, FieldFrom
<1>13. Wire!Kind[2] = "bytes"
  BY DEF Wire!Kind
<1> QED BY <1>6, <1>12, <1>13

-----------------------------------------------------------------------------
(* Changing one field *)

LEMMA LeastIs ==
  ASSUME NEW S, S \subseteq Nat, NEW x \in S, \A y \in S : x <= y
  PROVE  Wire!Least(S) = x
<1> DEFINE c == CHOOSE n \in S : \A m \in S : n <= m
<1>1. c \in S /\ \A m \in S : c <= m
  BY Zenon
<1>2. Wire!Least(S) = c
  BY DEF Wire!Least
<1> HIDE DEF c
<1>3. c \in Nat /\ x \in Nat /\ c <= x /\ x <= c
  BY <1>1
<1> QED BY <1>2, <1>3

\* The first field of a number, where there is one.
LEMMA FirstIs ==
  ASSUME NEW fields \in Seq(WireField), NEW number, Wire!Having(fields, number) # {}
  PROVE  LET first == Wire!Least(Wire!Having(fields, number))
         IN  /\ first \in 1 .. Len(fields) /\ fields[first].number = number
             /\ \A m \in Wire!Having(fields, number) : first <= m
<1> DEFINE having == Wire!Having(fields, number)
<1>1. DOMAIN fields = 1 .. Len(fields) /\ Len(fields) \in Nat
  BY LenProperties
<1>2. \A m \in having : m \in 1 .. Len(fields) /\ m \in Nat /\ fields[m].number = number
  BY <1>1 DEF Wire!Having
<1> HIDE DEF having
<1>3. PICK x \in having : \A y \in having : x <= y
  <2>1. having \subseteq Nat /\ having # {}
    BY <1>2 DEF having
  <2> QED BY <2>1, NatMin
<1>4. Wire!Least(having) = x
  <2>1. having \subseteq Nat
    BY <1>2
  <2> QED BY <1>3, <2>1, LeastIs
<1> QED BY <1>2, <1>3, <1>4 DEF having

Swapped(fields, n, field) == [fields EXCEPT ![n] = field]

\* WireField n, the first one of its number, was replaced by f, and nothing else.
OneReplaced(after, fields, n, f) ==
  /\ after \in Seq(WireField) /\ Len(after) = Len(fields)
  /\ n \in DOMAIN fields
  /\ \A m \in DOMAIN fields : m # n => after[m] = fields[m]
  /\ Wire!FirstOf(f.kind, after, f.number) = [ok |-> TRUE, value |-> f.value]

LEMMA Replaced ==
  ASSUME NEW fields \in Seq(WireField), NEW number, Wire!Having(fields, number) # {},
         NEW f \in WireField, f.number = number
  PROVE  OneReplaced(Swapped(fields, Wire!Least(Wire!Having(fields, number)), f), fields,
                     Wire!Least(Wire!Having(fields, number)), f)
<1> DEFINE first == Wire!Least(Wire!Having(fields, number))
           after == Swapped(fields, first, f)
           n == Len(fields)
           fit == {m \in Wire!Having(after, number) : after[m].kind = f.kind}
<1>1. /\ first \in 1 .. n /\ fields[first].number = number
      /\ \A m \in Wire!Having(fields, number) : first <= m
  BY FirstIs
<1>2. n \in Nat /\ fields \in [1 .. n -> WireField] /\ DOMAIN fields = 1 .. n
  BY LenProperties
<1> HIDE DEF first, n
<1>3. /\ after \in [1 .. n -> WireField] /\ after[first] = f
      /\ \A m \in 1 .. n : m # first => after[m] = fields[m]
  BY <1>1, <1>2 DEF Swapped
<1> HIDE DEF after
<1>4. after \in Seq(WireField) /\ Len(after) = n /\ DOMAIN after = 1 .. n
  BY <1>2, <1>3
<1>5. Wire!Having(after, number) = Wire!Having(fields, number)
  BY <1>1, <1>2, <1>3, <1>4 DEF Wire!Having
<1>6. first \in fit /\ (\A m \in fit : first <= m) /\ fit \subseteq Nat
  BY <1>1, <1>2, <1>3, <1>4, <1>5 DEF Wire!Having
<1> HIDE DEF fit
<1>7. Wire!Least(fit) = first /\ fit # {}
  BY <1>6, LeastIs
<1>8. Wire!FirstOf(f.kind, after, number) =
        IF fit = {} THEN Wire!Refused ELSE [ok |-> TRUE, value |-> after[Wire!Least(fit)].value]
  BY DEF Wire!FirstOf, fit
<1>9. Wire!FirstOf(f.kind, after, number) = [ok |-> TRUE, value |-> f.value]
  BY <1>3, <1>7, <1>8
<1> QED BY <1>1, <1>2, <1>3, <1>4, <1>9 DEF OneReplaced, after, first, n

\* The value and the bytes of a field are replaced.
Patched(fields, n, value, raw) == [fields EXCEPT ![n].value = value, ![n].raw = raw]

LEMMA PatchedIs ==
  ASSUME NEW fields, NEW n, Whole(fields[n]), NEW value, NEW raw
  PROVE  Patched(fields, n, value, raw) =
           Swapped(fields, n, [number |-> fields[n].number, kind |-> fields[n].kind,
                               value |-> value, raw |-> raw])
<1> DEFINE old == fields[n]
           new == [number |-> old.number, kind |-> old.kind, value |-> value, raw |-> raw]
<1>1. Patched(fields, n, value, raw) =
        [fields EXCEPT ![n] = [[old EXCEPT !.value = value] EXCEPT !.raw = raw]]
  BY DEF Patched
<1>2. PICK a, b, c, d : old = [number |-> a, kind |-> b, value |-> c, raw |-> d]
  BY DEF Whole
<1> HIDE DEF old
<1> DEFINE half == [old EXCEPT !.value = value]
<1>3. half = [number |-> a, kind |-> b, value |-> value, raw |-> d]
  BY <1>2
<1> HIDE DEF half
<1>4. [half EXCEPT !.raw = raw] = [number |-> a, kind |-> b, value |-> value, raw |-> raw]
  BY <1>3
<1>5. new = [number |-> a, kind |-> b, value |-> value, raw |-> raw]
  BY <1>2
<1> QED BY <1>1, <1>4, <1>5 DEF half, old, Swapped

\* A message of which one value was replaced is read again as that message: the new value
\* is found, and every other field is what it was (wire.rs:99).
THEOREM ReplacesOne ==
  ASSUME Sizes, NEW numbers
  PROVE  Wire!ReplacesOne(Seq(Wire!Byte), numbers, Strings)
<1> SUFFICES ASSUME NEW input \in Seq(Wire!Byte), NEW number \in numbers, NEW bytes \in Strings,
                    Wire!Parse(input).ok,
                    Wire!ReplaceFirstBytes(Wire!Parse(input).fields, number, bytes).ok,
                    Len(Wire!Encode(Wire!ReplaceFirstBytes(Wire!Parse(input).fields, number,
                                                           bytes).fields)) <= MaxMessage
             PROVE  LET before == Wire!Parse(input).fields
                        after  == Wire!ReplaceFirstBytes(before, number, bytes)
                        again  == Wire!Parse(Wire!Encode(after.fields))
                    IN  /\ again.ok /\ again.fields = after.fields
                        /\ Wire!FirstOf("bytes", again.fields, number).value = bytes
                        /\ \E n \in DOMAIN before :
                             \A m \in DOMAIN before : m # n => again.fields[m] = before[m]
  BY ZenonT(30) DEF Wire!ReplacesOne
<1> DEFINE before == Wire!Parse(input).fields
           after == Wire!ReplaceFirstBytes(before, number, bytes)
           again == Wire!Parse(Wire!Encode(after.fields))
           having == Wire!Having(before, number)
           first == Wire!Least(having)
           f == [number |-> number, kind |-> "bytes", value |-> bytes,
                 raw |-> Wire!EncodeBytes(number, bytes)]
<1>1. before \in Seq(WireField)
  BY Parsed DEF Bytes
<1> HIDE DEF before
<1>2. having # {} /\ before[first].kind = "bytes"
  BY DEF Wire!ReplaceFirstBytes, Wire!Refused, before
<1>3. first \in 1 .. Len(before) /\ before[first].number = number
  BY <1>1, <1>2, FirstIs
<1>4. after = [ok |-> TRUE, fields |-> [before EXCEPT ![first].value = bytes,
                                          ![first].raw = Wire!EncodeBytes(number, bytes)]]
  BY <1>2 DEF Wire!ReplaceFirstBytes
<1> HIDE DEF first, having
<1>5. before[first] \in WireField
  BY <1>1, <1>3, ElementOfSeq
<1>6. number \in 1 .. MaxNumber /\ Whole(before[first])
  BY <1>3, <1>5, FieldIs
<1>7. f \in WireField
  BY <1>6, BytesField
<1>8. after.fields = Swapped(before, first, f)
  <2>1. after.fields = Patched(before, first, bytes, Wire!EncodeBytes(number, bytes))
    BY <1>4 DEF Patched
  <2>2. Patched(before, first, bytes, Wire!EncodeBytes(number, bytes)) =
          Swapped(before, first, [number |-> before[first].number, kind |-> before[first].kind,
                                  value |-> bytes, raw |-> Wire!EncodeBytes(number, bytes)])
    BY <1>6, PatchedIs
  <2>3. before[first].kind = "bytes"
    BY <1>2 DEF first, having
  <2> QED BY <1>3, <2>1, <2>2, <2>3
<1>9. f.number = number /\ f.kind = "bytes" /\ f.value = bytes
  OBVIOUS
<1> HIDE DEF f, after
<1>10. /\ after.fields \in Seq(WireField) /\ first \in DOMAIN before
       /\ \A m \in DOMAIN before : m # first => after.fields[m] = before[m]
       /\ Wire!FirstOf("bytes", after.fields, number) = [ok |-> TRUE, value |-> bytes]
  <2>1. OneReplaced(Swapped(before, first, f), before, first, f)
    BY <1>1, <1>2, <1>7, <1>9, Replaced DEF first, having
  <2> QED BY <1>8, <1>9, <2>1 DEF OneReplaced
<1>11. again.ok /\ again.fields = after.fields
  <2>1. Len(Wire!Encode(after.fields)) <= MaxMessage
    BY DEF after, before
  <2>2. again = [ok |-> TRUE, next |-> Len(Wire!Encode(after.fields)), fields |-> after.fields]
    BY <1>10, <2>1, ParsedBack
  <2> QED BY <2>2
<1>12. Wire!FirstOf("bytes", again.fields, number).value = bytes
  BY <1>10, <1>11
<1> HIDE DEF again
<1>13. \E n \in DOMAIN before : \A m \in DOMAIN before : m # n => again.fields[m] = before[m]
  BY <1>10, <1>11
<1> QED BY <1>11, <1>12, <1>13, Zenon DEF again, after, before

\* The same of a number, whether it replaces another field or is appended (wire.rs:116).
THEOREM SetsOne ==
  ASSUME Sizes
  PROVE  Wire!SetsOne(Seq(Wire!Byte), 1 .. MaxNumber)
<1> SUFFICES ASSUME NEW input \in Seq(Wire!Byte), NEW number \in 1 .. MaxNumber,
                    NEW value \in Wire!Word, Wire!Parse(input).ok,
                    Len(Wire!Encode(Wire!SetVarint(Wire!Parse(input).fields, number, value)))
                      <= MaxMessage
             PROVE  LET before == Wire!Parse(input).fields
                        after  == Wire!SetVarint(before, number, value)
                        again  == Wire!Parse(Wire!Encode(after))
                    IN  /\ again.ok /\ again.fields = after
                        /\ Wire!FirstOf("varint", after, number).value = value
                        /\ Len(after) <= Len(before) + 1
  BY Zenon DEF Wire!SetsOne
<1> DEFINE before == Wire!Parse(input).fields
           after == Wire!SetVarint(before, number, value)
           again == Wire!Parse(Wire!Encode(after))
           having == Wire!Having(before, number)
           first == Wire!Least(having)
           n == Len(before)
           f == [number |-> number, kind |-> "varint", value |-> value,
                 raw |-> Wire!EncodeUint(number, value)]
<1>1. before \in Seq(WireField)
  BY Parsed DEF Bytes
<1> HIDE DEF before
<1>2. f \in WireField
  BY UintField
<1>3. f.number = number /\ f.kind = "varint" /\ f.value = value
  OBVIOUS
<1>4. after = IF having = {} THEN Append(before, f) ELSE Swapped(before, first, f)
  BY DEF Wire!SetVarint, Swapped
<1>5. n \in Nat
  BY <1>1, LenProperties
<1> HIDE DEF f, after, first, having
<1>6. /\ after \in Seq(WireField) /\ Len(after) \in Nat /\ Len(after) <= n + 1
      /\ Wire!FirstOf("varint", after, number) = [ok |-> TRUE, value |-> value]
  <2>1. CASE having # {}
    <3>1. after = Swapped(before, first, f)
      BY <1>4, <2>1
    <3>2. /\ after \in Seq(WireField) /\ Len(after) = n
          /\ Wire!FirstOf("varint", after, number) = [ok |-> TRUE, value |-> value]
      <4>1. OneReplaced(Swapped(before, first, f), before, first, f)
        BY <1>1, <1>2, <1>3, <2>1, Replaced DEF first, having
      <4> QED BY <1>3, <3>1, <4>1 DEF OneReplaced
    <3> QED BY <1>5, <3>2
  <2>2. CASE having = {}
    <3>1. after = Append(before, f)
      BY <1>4, <2>2
    <3>2. /\ after \in Seq(WireField) /\ Len(after) = n + 1 /\ after[n + 1] = f
          /\ \A m \in 1 .. n : after[m] = before[m]
      BY <1>1, <1>2, <3>1, AppendProperties
    <3> DEFINE fit == {m \in Wire!Having(after, number) : after[m].kind = "varint"}
    <3>3. DOMAIN after = 1 .. n + 1 /\ DOMAIN before = 1 .. n
      BY <1>1, <1>5, <3>2, LenProperties
    <3>4. \A m \in 1 .. n : before[m].number # number
      BY <2>2, <3>3 DEF having, Wire!Having
    <3>5. \A m \in Wire!Having(after, number) : m = n + 1
      BY <1>5, <3>2, <3>3, <3>4 DEF Wire!Having
    <3>6. n + 1 \in Wire!Having(after, number)
      BY <1>3, <1>5, <3>2, <3>3 DEF Wire!Having
    <3>7. fit = {n + 1}
      BY <1>3, <3>2, <3>5, <3>6
    <3>8. Wire!FirstOf("varint", after, number) =
            IF fit = {} THEN Wire!Refused ELSE [ok |-> TRUE, value |-> after[Wire!Least(fit)].value]
      BY DEF Wire!FirstOf
    <3> HIDE DEF fit
    <3>9. Wire!Least(fit) = n + 1
      <4>1. fit \subseteq Nat /\ n + 1 \in fit /\ \A y \in fit : n + 1 <= y
        BY <1>5, <3>7
      <4> QED BY <4>1, LeastIs
    <3>10. Wire!FirstOf("varint", after, number) = [ok |-> TRUE, value |-> value]
      BY <1>3, <3>2, <3>7, <3>8, <3>9
    <3> QED BY <1>5, <3>2, <3>10
  <2> QED BY <2>1, <2>2
<1>7. again.ok /\ again.fields = after
  <2>1. Len(Wire!Encode(after)) <= MaxMessage
    BY DEF after, before
  <2>2. again = [ok |-> TRUE, next |-> Len(Wire!Encode(after)), fields |-> after]
    BY <1>6, <2>1, ParsedBack
  <2> QED BY <2>2
<1>8. Wire!FirstOf("varint", after, number).value = value
  BY <1>6
<1>9. Len(after) <= Len(before) + 1
  BY <1>6 DEF n
<1> QED BY <1>7, <1>8, <1>9, Zenon DEF again, after, before

-----------------------------------------------------------------------------
(* Streams of messages *)

\* Where the reader of a stream may stand.
Streaming == {Wire!Refused} \cup [ok : {TRUE}, next : Nat, messages : Seq(Seq(WireField))]
Opened == [ok |-> TRUE, next |-> 0, messages |-> <<>>]

\* g is the reader of a stream, message by message.
Streams(g, input) ==
  /\ g \in [0 .. Len(input) -> Streaming]
  /\ g[0] = Opened
  /\ \A i \in 1 .. Len(input) : g[i] = Wire!NextMessage(input, g[i - 1])
  /\ Wire!DecodeDelimited(input) = g[Len(input)]

LEMMA OpenedIs == Opened \in Streaming
<1>1. <<>> \in Seq(Seq(WireField))
  BY EmptySeq
<1> QED BY <1>1 DEF Opened, Streaming

LEMMA StreamingIs ==
  ASSUME NEW s \in Streaming, s.ok
  PROVE  s.next \in Nat /\ s.messages \in Seq(Seq(WireField))
<1>1. ~Wire!Refused.ok
  BY DEF Wire!Refused
<1>2. s # Wire!Refused
  BY <1>1
<1>3. s \in [ok : {TRUE}, next : Nat, messages : Seq(Seq(WireField))]
  BY <1>2 DEF Streaming
<1> QED BY <1>3

LEMMA NextMessageIs ==
  ASSUME Sizes, NEW input, Bytes(input), NEW s \in Streaming
  PROVE  Wire!NextMessage(input, s) \in Streaming
<1> DEFINE body == Wire!LengthPrefixed(input, s.next)
           message == Wire!Parse(body.value)
           next == Wire!NextMessage(input, s)
<1>1. CASE ~s.ok \/ s.next >= Len(input)
  BY <1>1 DEF Wire!NextMessage
<1>2. CASE ~(~s.ok \/ s.next >= Len(input)) /\ ~(body.ok /\ message.ok)
  <2>1. next = Wire!Refused
    BY <1>2 DEF Wire!NextMessage
  <2> QED BY <2>1 DEF Streaming
<1>3. CASE ~(~s.ok \/ s.next >= Len(input)) /\ body.ok /\ message.ok
  <2>1. next = [ok |-> TRUE, next |-> body.next, messages |-> Append(s.messages, message.fields)]
    BY <1>3 DEF Wire!NextMessage
  <2>2. s.next \in Nat /\ s.messages \in Seq(Seq(WireField))
    BY <1>3, StreamingIs
  <2> DEFINE length == Wire!ReadVarint(input, s.next)
  <2>3. /\ length.value \in Nat /\ length.next \in Nat
        /\ body = Wire!Take(input, length.next, length.value)
        /\ Got(body, input, s.next)
    BY <1>3, <2>2, GotPrefixed
  <2>4. body.next \in Nat
    BY <2>3 DEF Got
  <2>5. Bytes(body.value)
    <3>1. PICK o \in Nat, k \in Nat : o = length.next /\ k = length.value
      BY <2>3
    <3> HIDE DEF body, length
    <3>2. body = Wire!Take(input, o, k) /\ body.ok
      BY <1>3, <2>3, <3>1
    <3>3. ~(o + k > Len(input))
      BY <3>2 DEF Wire!Take, Wire!Refused
    <3>4. o + k <= Len(input)
      BY <3>3, ByteIs
    <3>5. body.value = SubSeq(input, o + 1, o + k)
      BY <3>2, <3>3 DEF Wire!Take
    <3> QED BY <3>4, <3>5, PartIs
  <2>6. message.fields \in Seq(WireField)
    <3> HIDE DEF body
    <3> QED BY <1>3, <2>5, Parsed
  <2> HIDE DEF body, message
  <2>7. Append(s.messages, message.fields) \in Seq(Seq(WireField))
    BY <2>2, <2>6, AppendProperties
  <2> QED BY <2>1, <2>4, <2>7 DEF Streaming
<1> QED BY <1>1, <1>2, <1>3

LEMMA DecodeStreams ==
  ASSUME Sizes, NEW input, Bytes(input)
  PROVE  \E g : Streams(g, input)
<1> DEFINE n == Len(input)
           D == [i \in 1 .. n |-> [v \in Streaming |-> Wire!NextMessage(input, v)]]
           F == CHOOSE f : f = [m \in 0 .. n |-> IF m = 0 THEN Opened
                                                 ELSE Wire!NextMessage(input, f[m - 1])]
<1>1. n \in Nat
  BY ByteIs
<1>2. Opened \in Streaming
  BY OpenedIs
<1>3. Wire!DecodeDelimited(input) = F[n]
  BY DEF Wire!DecodeDelimited, Opened
<1>4. \A v \in Streaming : Wire!NextMessage(input, v) \in Streaming
  BY NextMessageIs
<1> HIDE DEF n
<1>5. D \in [1 .. n -> [Streaming -> Streaming]]
  BY <1>4
<1>6. PICK f \in [0 .. n -> Streaming] : RunsTo(f, n, Opened, D)
  <2> HIDE DEF D
  <2> QED BY <1>1, <1>2, <1>5, Loop
<1>7. \A i \in 0 .. n : f[i] = IF i = 0 THEN Opened ELSE Wire!NextMessage(input, f[i - 1])
  <2>1. \A i \in 0 .. n : i # 0 => f[i - 1] \in Streaming /\ i \in 1 .. n
    BY <1>1
  <2> QED BY <1>6, <2>1 DEF RunsTo
<1>8. f = [m \in 0 .. n |-> IF m = 0 THEN Opened ELSE Wire!NextMessage(input, f[m - 1])]
  BY <1>7
<1>9. F = [m \in 0 .. n |-> IF m = 0 THEN Opened ELSE Wire!NextMessage(input, F[m - 1])]
  BY <1>8, Zenon
<1> HIDE DEF F, D
<1>10. F[0] = Opened /\ \A i \in 1 .. n : F[i] = Wire!NextMessage(input, F[i - 1])
  <2>1. \A i \in 0 .. n : F[i] = IF i = 0 THEN Opened ELSE Wire!NextMessage(input, F[i - 1])
    BY <1>9, Zenon
  <2>2. 0 \in 0 .. n /\ \A i \in 1 .. n : i \in 0 .. n /\ i # 0
    BY <1>1
  <2> QED BY <2>1, <2>2
<1> DEFINE Good == {m \in Nat : m <= n => F[m] \in Streaming}
<1>11. 0 \in Good
  BY <1>2, <1>10
<1>12. ASSUME NEW m \in Nat, m \in Good PROVE m + 1 \in Good
  <2>1. SUFFICES ASSUME m + 1 <= n PROVE F[m + 1] \in Streaming
    OBVIOUS
  <2>2. m + 1 \in 1 .. n /\ (m + 1) - 1 = m /\ m <= n
    BY <1>1, <2>1
  <2>3. F[m] \in Streaming /\ F[m + 1] = Wire!NextMessage(input, F[m])
    BY <1>10, <1>12, <2>2
  <2> QED BY <1>4, <2>3
<1> HIDE DEF Good
<1>13. Nat \subseteq Good
  BY <1>11, <1>12, NatAll
<1>14. F \in [0 .. n -> Streaming]
  <2>1. \A m \in 0 .. n : F[m] \in Streaming
    BY <1>13 DEF Good
  <2>2. F = [m \in 0 .. n |-> F[m]]
    BY <1>9, Zenon
  <2> QED BY <2>1, <2>2
<1>15. Streams(F, input)
  BY <1>3, <1>10, <1>14 DEF Streams, n
<1> QED BY <1>15

\* A part of a part.
LEMMA AlikeTrans ==
  ASSUME NEW a, NEW b, NEW c, NEW o \in Nat, NEW p \in Nat, NEW k \in Nat, NEW n \in Nat,
         Len(b) \in Nat, Len(c) \in Nat,
         Alike(a, 0, b, o, k), Alike(b, 0, c, p, n), o + k <= n
  PROVE  Alike(a, 0, c, p + o, k)
<1>1. 0 + k <= Len(a) /\ p + n <= Len(c)
  BY DEF Alike
<1>2. ASSUME NEW m \in 1 .. k PROVE a[0 + m] = c[(p + o) + m]
  <2>1. o + m \in 1 .. n /\ p + (o + m) = (p + o) + m /\ 0 + (o + m) = o + m
    OBVIOUS
  <2>2. b[0 + (o + m)] = c[p + (o + m)]
    BY <2>1 DEF Alike
  <2>3. a[0 + m] = b[o + m]
    BY DEF Alike
  <2> QED BY <2>1, <2>2, <2>3
<1>3. (p + o) + k <= Len(c)
  BY <1>1
<1> QED BY <1>1, <1>2, <1>3 DEF Alike

\* A message behind its length.
Frame(one) == Wire!EncodeVarint(Len(one)) \o one

LEMMA FrameIs ==
  ASSUME Sizes, NEW one \in Seq(Wire!Byte), Wire!Parse(one).ok
  PROVE  /\ Frame(one) \in Seq(Wire!Byte) /\ Len(Frame(one)) \in Nat /\ Len(Frame(one)) > 0
         /\ Len(one) \in Nat /\ Len(one) \in Wire!Word
         /\ Len(Frame(one)) = Len(Wire!EncodeVarint(Len(one))) + Len(one)
         /\ Alike(Wire!EncodeVarint(Len(one)), 0, Frame(one), 0, Len(Wire!EncodeVarint(Len(one))))
         /\ Alike(one, 0, Frame(one), Len(Wire!EncodeVarint(Len(one))), Len(one))
<1> DEFINE code == Wire!EncodeVarint(Len(one))
<1>1. Len(one) \in Nat /\ Len(one) <= MaxMessage /\ MaxMessage \in Nat
  BY ByteIs, Parsed, SizesAre DEF Bytes
<1>2. Len(one) \in Wire!Word
  <2>1. MaxMessage \in Wire!Word
    BY DEF Sizes, Wire!SizesFit
  <2> DEFINE bound == (Top + 1) * Wire!Weight[Groups - 1]
  <2>2. \A v : v \in Wire!Word <=> v \in Nat /\ v < bound
    BY WordIs
  <2>3. bound \in Nat
    <3>1. Groups - 1 \in Nat /\ Top \in Nat
      BY WordIs, SizesAre
    <3>2. Wire!Weight[Groups - 1] \in Nat
      BY <3>1, WeightIs
    <3> QED BY <3>1, <3>2
  <2> HIDE DEF bound
  <2> QED BY <1>1, <2>1, <2>2, <2>3
<1>3. code \in Seq(Wire!Byte) /\ Len(code) \in Nat /\ Len(code) > 0
  BY <1>2, EncodedIs
<1>4. Frame(one) = code \o one
  BY DEF Frame
<1> HIDE DEF code
<1>5. /\ Frame(one) \in Seq(Wire!Byte) /\ Len(Frame(one)) = Len(code) + Len(one)
      /\ Prefix(code, Frame(one)) /\ Alike(one, 0, Frame(one), Len(code), Len(one))
  BY <1>3, <1>4, ConcatPrefix
<1>6. Alike(code, 0, Frame(one), 0, Len(code))
  BY <1>3, <1>5, PrefixAlike
<1>7. Len(Frame(one)) \in Nat /\ Len(Frame(one)) > 0
  BY <1>1, <1>3, <1>5
<1> QED BY <1>1, <1>2, <1>5, <1>6, <1>7 DEF code

\* A frame is taken from a stream as a whole.
LEMMA FrameRead ==
  ASSUME Sizes, NEW one \in Seq(Wire!Byte), Wire!Parse(one).ok, NEW input, Bytes(input),
         NEW p \in Nat, Alike(Frame(one), 0, input, p, Len(Frame(one)))
  PROVE  Wire!LengthPrefixed(input, p) =
           [ok |-> TRUE, value |-> one, next |-> p + Len(Frame(one))]
<1> DEFINE code == Wire!EncodeVarint(Len(one))
<1>1. /\ Frame(one) \in Seq(Wire!Byte) /\ Len(Frame(one)) \in Nat
      /\ Len(one) \in Nat /\ Len(one) \in Wire!Word
      /\ Len(Frame(one)) = Len(code) + Len(one)
      /\ Alike(code, 0, Frame(one), 0, Len(code))
      /\ Alike(one, 0, Frame(one), Len(code), Len(one))
  BY FrameIs
<1>2. Len(code) \in Nat /\ Len(input) \in Nat
  BY <1>1, EncodedIs, ByteIs
<1> HIDE DEF code
<1>3. PICK k \in Nat, c \in Nat, n \in Nat : k = Len(code) /\ c = Len(one) /\ n = Len(Frame(one))
  BY <1>1, <1>2
<1>4. Alike(code, 0, Frame(one), 0, k) /\ Alike(one, 0, Frame(one), k, c)
  BY <1>1, <1>3
<1>5. Alike(Frame(one), 0, input, p, n) /\ n = k + c /\ k <= n
  BY <1>1, <1>3
<1>6. Alike(code, 0, input, p, k)
  <2>1. p + k <= Len(input) /\ 0 + k <= Len(code)
    BY <1>2, <1>4, <1>5 DEF Alike
  <2>2. ASSUME NEW m \in 1 .. k PROVE code[0 + m] = input[p + m]
    <3>1. m \in 1 .. n /\ 0 + m = m
      BY <1>5
    <3>2. code[0 + m] = Frame(one)[0 + m] /\ Frame(one)[0 + m] = input[p + m]
      BY <1>4, <1>5, <3>1 DEF Alike
    <3> QED BY <3>2
  <2> QED BY <2>1, <2>2 DEF Alike
<1>7. Alike(one, 0, input, p + k, c)
  <2>1. Len(Frame(one)) \in Nat /\ k + c <= n
    BY <1>1, <1>5
  <2> QED BY <1>2, <1>4, <1>5, <2>1, AlikeTrans
<1>8. Wire!ReadVarint(input, p) = [ok |-> TRUE, value |-> c, next |-> p + k]
  <2>1. Alike(code, 0, input, p, Len(code))
    BY <1>3, <1>6
  <2>2. Wire!ReadVarint(input, p) = [ok |-> TRUE, value |-> Len(one), next |-> p + Len(code)]
    BY <1>1, <2>1, NumberRead DEF code
  <2> QED BY <1>3, <2>2
<1>9. Wire!LengthPrefixed(input, p) = Wire!Take(input, p + k, c)
  BY <1>8 DEF Wire!LengthPrefixed
<1>10. SubSeq(input, (p + k) + 1, (p + k) + c) = one
  <2>1. Bytes(one) /\ p + k \in Nat
    BY DEF Bytes
  <2>2. SubSeq(one, 0 + 1, 0 + c) = SubSeq(input, (p + k) + 1, (p + k) + c)
    BY <1>7, <2>1, PartLocal
  <2>3. SubSeq(one, 0 + 1, 0 + c) = one
    <3>1. SubSeq(one, 1, Len(one)) = one
      BY SubSeqFull
    <3>2. 0 + 1 = 1 /\ 0 + c = Len(one)
      BY <1>3
    <3> QED BY <3>1, <3>2
  <2> QED BY <2>2, <2>3, Zenon
<1>11. ~((p + k) + c > Len(input))
  BY <1>2, <1>5 DEF Alike
<1>12. Wire!Take(input, p + k, c) = [ok |-> TRUE, value |-> one, next |-> (p + k) + c]
  BY <1>10, <1>11 DEF Wire!Take
<1>13. (p + k) + c = p + Len(Frame(one))
  BY <1>3, <1>5
<1> QED BY <1>9, <1>12, <1>13

\* A round of the reader of a stream.
LEMMA FrameNext ==
  ASSUME Sizes, NEW one \in Seq(Wire!Byte), Wire!Parse(one).ok, NEW input, Bytes(input),
         NEW s, s.ok, s.next \in Nat,
         Alike(Frame(one), 0, input, s.next, Len(Frame(one)))
  PROVE  Wire!NextMessage(input, s) =
           [ok |-> TRUE, next |-> s.next + Len(Frame(one)),
            messages |-> Append(s.messages, Wire!Parse(one).fields)]
<1> DEFINE body == Wire!LengthPrefixed(input, s.next)
           message == Wire!Parse(body.value)
<1>1. Len(Frame(one)) \in Nat /\ Len(Frame(one)) > 0 /\ Len(input) \in Nat
  BY FrameIs, ByteIs
<1>2. s.next + Len(Frame(one)) <= Len(input)
  BY DEF Alike
<1>3. ~(s.next >= Len(input))
  BY <1>1, <1>2
<1>4. body = [ok |-> TRUE, value |-> one, next |-> s.next + Len(Frame(one))]
  BY FrameRead
<1> HIDE DEF body
<1>5. body.ok /\ body.value = one /\ body.next = s.next + Len(Frame(one))
  BY <1>4
<1>6. Wire!NextMessage(input, s) =
        IF ~s.ok \/ s.next >= Len(input) THEN s
        ELSE IF body.ok /\ message.ok
        THEN [ok |-> TRUE, next |-> body.next, messages |-> Append(s.messages, message.fields)]
        ELSE Wire!Refused
  BY Zenon DEF Wire!NextMessage, body
<1> QED BY <1>3, <1>5, <1>6

LEMMA Pair ==
  ASSUME NEW S, NEW a \in S, NEW b \in S
  PROVE  Append(<<a>>, b) = <<a, b>>
<1> DEFINE s == Append(<<a>>, b)
           t == <<a, b>>
<1>1. <<a>> \in Seq(S) /\ Len(<<a>>) = 1 /\ <<a>>[1] = a
  OBVIOUS
<1>2. s \in Seq(S) /\ Len(s) = 2 /\ s[1] = a /\ s[2] = b
  BY <1>1, AppendProperties
<1>3. t \in Seq(S) /\ Len(t) = 2 /\ t[1] = a /\ t[2] = b
  OBVIOUS
<1> HIDE DEF s, t
<1>4. \A m \in 1 .. Len(s) : s[m] = t[m]
  <2>1. \A m \in 1 .. 2 : m = 1 \/ m = 2
    OBVIOUS
  <2> QED BY <1>2, <1>3, <2>1
<1>5. s = t
  BY <1>2, <1>3, <1>4, SameSeq
<1> QED BY <1>5 DEF s, t

LEMMA Associative ==
  ASSUME NEW u \in Seq(Wire!Byte), NEW v \in Seq(Wire!Byte), NEW w \in Seq(Wire!Byte)
  PROVE  (u \o v) \o w = u \o (v \o w)
BY ConcatAssociative

\* Two messages that are joined, each behind its length, are told apart again: the bytes of
\* neither are ever taken for bytes of the other (wire.rs:189).
THEOREM StreamsSplit == Sizes => Wire!StreamsSplit(Seq(Wire!Byte))
<1> SUFFICES ASSUME Sizes, NEW one \in Seq(Wire!Byte), NEW two \in Seq(Wire!Byte),
                    Wire!Parse(one).ok, Wire!Parse(two).ok
             PROVE  LET stream == Wire!EncodeVarint(Len(one)) \o one \o
                                  Wire!EncodeVarint(Len(two)) \o two
                        read   == Wire!DecodeDelimited(stream)
                    IN  read.ok /\ read.messages = <<Wire!Parse(one).fields, Wire!Parse(two).fields>>
  BY Zenon DEF Wire!StreamsSplit
<1> DEFINE x == Frame(one)
           y == Frame(two)
           stream == Wire!EncodeVarint(Len(one)) \o one \o Wire!EncodeVarint(Len(two)) \o two
           joined == x \o y
<1>1. /\ x \in Seq(Wire!Byte) /\ Len(x) \in Nat /\ Len(x) > 0
      /\ y \in Seq(Wire!Byte) /\ Len(y) \in Nat /\ Len(y) > 0
      /\ Len(one) \in Wire!Word /\ Len(two) \in Wire!Word
  BY FrameIs
<1>2. stream = joined
  <2> DEFINE a == Wire!EncodeVarint(Len(one))
             b == Wire!EncodeVarint(Len(two))
  <2>1. a \in Seq(Wire!Byte) /\ b \in Seq(Wire!Byte)
    BY <1>1, EncodedIs
  <2>2. x = a \o one /\ y = b \o two
    BY DEF Frame
  <2>3. stream = ((a \o one) \o b) \o two
    OBVIOUS
  <2> HIDE DEF a, b, x, y, stream
  <2>4. (x \o b) \o two = x \o (b \o two)
    <3>1. x \in Seq(Wire!Byte) /\ b \in Seq(Wire!Byte) /\ two \in Seq(Wire!Byte)
      BY <1>1, <2>1
    <3> QED BY <3>1, Associative
  <2> QED BY <2>2, <2>3, <2>4
<1> HIDE DEF x, y, stream
<1>3. /\ joined \in Seq(Wire!Byte) /\ Bytes(joined)
      /\ Len(joined) = Len(x) + Len(y) /\ Len(joined) \in Nat
      /\ Alike(x, 0, joined, 0, Len(x)) /\ Alike(y, 0, joined, Len(x), Len(y))
  <2>1. /\ joined \in Seq(Wire!Byte) /\ Len(joined) = Len(x) + Len(y)
        /\ Prefix(x, joined) /\ Alike(y, 0, joined, Len(x), Len(y))
    BY <1>1, ConcatPrefix
  <2> HIDE DEF joined
  <2>2. Alike(x, 0, joined, 0, Len(x))
    BY <1>1, <2>1, PrefixAlike
  <2> QED BY <1>1, <2>1, <2>2 DEF Bytes
<1> HIDE DEF joined
<1>4. PICK g : Streams(g, joined)
  BY <1>3, DecodeStreams
<1>5. /\ g[0] = Opened
      /\ \A i \in 1 .. Len(joined) : g[i] = Wire!NextMessage(joined, g[i - 1])
      /\ Wire!DecodeDelimited(joined) = g[Len(joined)]
  BY <1>4 DEF Streams
<1> DEFINE P == Wire!Parse(one).fields
           Q == Wire!Parse(two).fields
<1>6. P \in Seq(WireField) /\ Q \in Seq(WireField)
  BY Parsed DEF Bytes
<1> HIDE DEF P, Q
<1>7. g[1] = [ok |-> TRUE, next |-> Len(x), messages |-> <<P>>]
  <2>1. 1 \in 1 .. Len(joined) /\ 1 - 1 = 0
    BY <1>1, <1>3
  <2>2. g[1] = Wire!NextMessage(joined, Opened)
    BY <1>5, <2>1
  <2>3. Opened.ok /\ Opened.next = 0 /\ Opened.messages = <<>>
    BY DEF Opened
  <2>4. Wire!NextMessage(joined, Opened) =
          [ok |-> TRUE, next |-> Opened.next + Len(x), messages |-> Append(Opened.messages, P)]
    <3>1. Alike(x, 0, joined, Opened.next, Len(x)) /\ Opened.next \in Nat
      BY <1>3, <2>3
    <3> QED BY <1>3, <2>3, <3>1, FrameNext DEF x, P
  <2>5. Append(<<>>, P) = <<P>>
    OBVIOUS
  <2>6. Opened.next + Len(x) = Len(x)
    BY <1>1, <2>3
  <2> QED BY <2>2, <2>3, <2>4, <2>5, <2>6
<1>8. g[2] = [ok |-> TRUE, next |-> Len(joined), messages |-> <<P, Q>>]
  <2>1. 2 \in 1 .. Len(joined) /\ 2 - 1 = 1
    BY <1>1, <1>3
  <2>2. g[2] = Wire!NextMessage(joined, g[1])
    BY <1>5, <2>1
  <2>3. g[1].ok /\ g[1].next = Len(x) /\ g[1].messages = <<P>> /\ g[1].next \in Nat
    BY <1>1, <1>7
  <2>4. Alike(y, 0, joined, g[1].next, Len(y))
    BY <1>3, <2>3
  <2>5. Wire!NextMessage(joined, g[1]) =
          [ok |-> TRUE, next |-> g[1].next + Len(y), messages |-> Append(g[1].messages, Q)]
    BY <1>3, <2>3, <2>4, FrameNext DEF y, Q
  <2>6. Append(<<P>>, Q) = <<P, Q>>
    BY <1>6, Pair
  <2> QED BY <1>3, <2>2, <2>3, <2>5, <2>6
\* The rounds that are left change nothing.
<1> DEFINE Good == {m \in Nat : 2 <= m /\ m <= Len(joined) => g[m] = g[2]}
<1>9. 0 \in Good
  OBVIOUS
<1>10. ASSUME NEW m \in Nat, m \in Good PROVE m + 1 \in Good
  <2>1. SUFFICES ASSUME 2 <= m + 1, m + 1 <= Len(joined), m + 1 # 2 PROVE g[m + 1] = g[2]
    OBVIOUS
  <2>2. 2 <= m /\ m <= Len(joined) /\ m + 1 \in 1 .. Len(joined) /\ (m + 1) - 1 = m
    BY <1>3, <2>1
  <2>3. g[m] = g[2] /\ g[m + 1] = Wire!NextMessage(joined, g[m])
    BY <1>5, <1>10, <2>2
  <2>4. g[2].next >= Len(joined)
    BY <1>3, <1>8
  <2>5. Wire!NextMessage(joined, g[2]) = g[2]
    BY <2>4 DEF Wire!NextMessage
  <2> QED BY <2>3, <2>5
<1> HIDE DEF Good
<1>11. Len(joined) \in Good
  BY <1>3, <1>9, <1>10, NatAll
<1>12. g[Len(joined)] = g[2]
  <2>1. 2 <= Len(joined) /\ Len(joined) <= Len(joined)
    BY <1>1, <1>3
  <2> QED BY <1>11, <2>1 DEF Good
<1>13. Wire!DecodeDelimited(stream).ok /\ Wire!DecodeDelimited(stream).messages = <<P, Q>>
  BY <1>2, <1>5, <1>8, <1>12
<1> QED BY <1>13, Zenon DEF stream, P, Q
=============================================================================
