-------------------------- MODULE PasswordsProofs --------------------------
(***************************************************************************)
(* Theorems of Passwords.  The inductive invariant IInv says that changes  *)
(* are numbered in their order (Timeline), what a command has before it at *)
(* each step (Phase), where the records it has collected come from (Got),  *)
(* what a fetch has covered so far (Covered), and what is left of the      *)
(* truth in a request that is under way (Asked).                           *)
(***************************************************************************)
EXTENDS Passwords, TLAPS, WellFoundedInduction

Timeline ==
  /\ cursor <= changes
  /\ \A i \in Item : removed[i] <= changes
  /\ \A i \in Item : items[i] # None => items[i].tag \in 1..changes
  /\ \A k \in Key : keys[k] # None => keys[k].tag \in 1..changes
  /\ pointer.tag \in 1..changes

Phase ==
  /\ pc # "idle" =>
       /\ op # None
       /\ outcome = "none"
       /\ pointer.key \in current
       /\ \A i \in Item : items[i] \in during[i]
  /\ op # None /\ op.kind \in Writes => commands >= 1
  /\ outcome # "none" => op # None
  /\ pc = "keys" => /\ gotItems = Nothing /\ gotKeys = {} /\ gotPointers = {}
                    /\ cursor = 0 /\ tokens = {}
  /\ tlks \subseteq shares

\* Every copy collected was on the server during the fetch, and is the item itself
\* if it is as new; every key of an item is in the zone.
Got ==
  /\ \A i \in Item : items[i] # None => keys[items[i].key] # None
  /\ \A i \in Item : \A v \in during[i] : v # None => keys[v.key] # None
  /\ \A i \in Item : gotItems[i] \subseteq during[i]
  /\ \A i \in Item : \A v \in gotItems[i] :
       /\ v.tag <= changes
       /\ items[i] # None => v.tag <= items[i].tag /\ (v.tag = items[i].tag => v = items[i])
  /\ \A k \in gotKeys : keys[k] # None
  /\ \A p \in gotPointers : p.key \in current

\* What the pages so far have not shown is ahead of the cursor.
Covered ==
  pc = "fetch" =>
    /\ cursor = 0 \/ cursor \in tokens
    /\ \A i \in Item : items[i] # None /\ items[i].tag <= cursor => items[i] \in gotItems[i]
    /\ \A k \in Key : keys[k] # None /\ keys[k].tag <= cursor => k \in gotKeys

\* While the record that a request was composed from is on the server, the request
\* has its attributes.
Asked ==
  \A r \in requests :
    /\ r.kind = "update" => r.source # None
    /\ r.kind # "delete" => r.key # None /\ keys[r.key] # None
    /\ r.source # None =>
         /\ r.source.tag <= changes
         /\ items[r.item] # None /\ items[r.item].tag = r.source.tag =>
              /\ items[r.item] = r.source
              /\ r.kind = "update" => r.attrs = r.source.attrs

IInv == /\ TypeOK /\ Timeline /\ Phase /\ Got /\ Covered /\ Asked
        /\ WriteConfirmed /\ ListFaithful

USE DEF vars, server, paging, printed, history, client

-----------------------------------------------------------------------------
(* Records *)

LEMMA VersionFields ==
  ASSUME NEW v \in Version
  PROVE  v.tag \in Nat /\ v.attrs \in Nat /\ v.secret \in Secret /\ v.key \in Key /\ v # None
BY NoneAssumption DEF Version

LEMMA VersionMade ==
  ASSUME NEW t \in Nat, NEW a \in Nat, NEW s \in Secret, NEW k \in Key,
         NEW v, v = [tag |-> t, attrs |-> a, secret |-> s, key |-> k]
  PROVE  v \in Version /\ v # None /\ v.tag = t /\ v.attrs = a /\ v.secret = s /\ v.key = k
BY NoneAssumption DEF Version

LEMMA ClassKeyFields ==
  ASSUME NEW c \in ClassKey
  PROVE  c.tag \in Nat /\ c.tlk \in Tlk /\ c # None
BY NoneAssumption DEF ClassKey

LEMMA ClassKeyMade ==
  ASSUME NEW n \in Nat, NEW t \in Tlk, NEW c, c = [tag |-> n, tlk |-> t]
  PROVE  c \in ClassKey /\ c # None /\ c.tag = n /\ c.tlk = t
BY NoneAssumption DEF ClassKey

LEMMA CurrentFields ==
  ASSUME NEW p \in Current
  PROVE  p.tag \in Nat /\ p.key \in Key
BY DEF Current

LEMMA CurrentMade ==
  ASSUME NEW n \in Nat, NEW k \in Key, NEW p, p = [tag |-> n, key |-> k]
  PROVE  p \in Current /\ p.tag = n /\ p.key = k
BY DEF Current

LEMMA OpFields ==
  ASSUME NEW o \in Op
  PROVE  o.kind \in Writes \cup {"list"} /\ o.item \in Item /\ o.secret \in Secret /\ o # None
BY NoneAssumption DEF Op, Writes

LEMMA OpMade ==
  ASSUME NEW kind \in Writes \cup {"list"}, NEW i \in Item, NEW s \in Secret,
         NEW o, o = [kind |-> kind, item |-> i, secret |-> s]
  PROVE  o \in Op /\ o # None /\ o.kind = kind /\ o.item = i /\ o.secret = s
BY NoneAssumption DEF Op, Writes

LEMMA RequestFields ==
  ASSUME NEW r \in Request
  PROVE  /\ r.kind \in Writes /\ r.item \in Item /\ r.source \in Version \cup {None}
         /\ r.attrs \in Nat /\ r.secret \in Secret /\ r.key \in Key \cup {None}
BY DEF Request, Writes

LEMMA RequestMade ==
  ASSUME NEW kind \in Writes, NEW n \in 1..MaxCommands, NEW i \in Item,
         NEW v \in Version \cup {None}, NEW a \in Nat, NEW s \in Secret,
         NEW k \in Key \cup {None}, NEW r,
         r = [kind |-> kind, id |-> n, item |-> i, source |-> v, attrs |-> a, secret |-> s,
              key |-> k]
  PROVE  /\ r \in Request
         /\ r.kind = kind /\ r.item = i /\ r.source = v /\ r.attrs = a /\ r.secret = s
         /\ r.key = k
BY DEF Request, Writes

LEMMA NothingIsEmpty ==
  Nothing \in [Item -> SUBSET Version] /\ \A i \in Item : Nothing[i] = {}
BY DEF Nothing

\* A set of numbers that is not empty has a least element.
LEMMA LeastTag ==
  ASSUME NEW S, S \subseteq Nat, S # {}
  PROVE  \E x \in S : \A y \in S : x <= y
<1>1. \E R : IsWellFoundedOn(R, Nat) /\ \A x, y \in Nat : y < x => <<y, x>> \in R
  <2>1. IsWellFoundedOn(OpToRel(<, Nat), Nat)
    BY NatLessThanWellFounded
  <2>2. \A x, y \in Nat : y < x => <<y, x>> \in OpToRel(<, Nat)
    BY DEF OpToRel
  <2>3. QED
    BY <2>1, <2>2, Zenon
<1>2. PICK R : IsWellFoundedOn(R, Nat) /\ \A x, y \in Nat : y < x => <<y, x>> \in R
  BY <1>1
<1>3. PICK x \in S : \A y \in S : ~(<<y, x>> \in R)
  BY <1>2, WFMin
<1>4. ASSUME NEW y \in S PROVE x <= y
  <2>1. x \in Nat /\ y \in Nat
    OBVIOUS
  <2>2. ~(y < x)
    BY <1>2, <1>3, <2>1, Zenon
  <2>3. QED
    BY <2>1, <2>2
<1>5. QED
  BY <1>4

\* The record found first is one of those found, and none is older.
LEMMA FirstIsOldest ==
  ASSUME NEW records, records # {}, \A r \in records : r.tag \in Nat
  PROVE  First(records) \in records /\ \A s \in records : First(records).tag <= s.tag
<1>1. {r.tag : r \in records} \subseteq Nat /\ {r.tag : r \in records} # {}
  OBVIOUS
<1>2. PICK n \in {r.tag : r \in records} : \A m \in {r.tag : r \in records} : n <= m
  BY <1>1, LeastTag
<1>3. \E r \in records : \A s \in records : r.tag <= s.tag
  BY <1>2
<1>4. QED
  BY <1>3 DEF First

-----------------------------------------------------------------------------
(* The zone *)

\* What a change to one item does, in the terms of every invariant.
LEMMA StoresEffect ==
  ASSUME TypeOK, NEW i \in Item, NEW v \in Version \cup {None}, Stores(i, v)
  PROVE  /\ items' \in [Item -> Version \cup {None}] /\ removed' \in [Item -> Nat]
         /\ changes' = changes + 1 /\ changes' \in Nat
         /\ during' \in [Item -> SUBSET (Version \cup {None})]
         /\ \A j \in Item : items'[j] = IF j = i THEN v ELSE items[j]
         /\ \A j \in Item : removed'[j] \in {removed[j], changes + 1}
         /\ \A j \in Item : during'[j] = IF j = i THEN during[j] \cup {v} ELSE during[j]
         /\ keys' = keys /\ pointer' = pointer /\ shares' = shares /\ current' = current
<1>1. changes \in Nat /\ changes' = changes + 1
  BY DEF Stores, TypeOK
<1>2. items' = [items EXCEPT ![i] = v] /\ items \in [Item -> Version \cup {None}]
  BY DEF Stores, TypeOK
<1>3. removed' = [removed EXCEPT ![i] = IF v = None THEN changes' ELSE @]
      /\ removed \in [Item -> Nat]
  BY DEF Stores, TypeOK
<1>4. during' = [during EXCEPT ![i] = @ \cup {v}]
      /\ during \in [Item -> SUBSET (Version \cup {None})]
  BY DEF Stores, TypeOK
<1>5. /\ items' \in [Item -> Version \cup {None}]
      /\ \A j \in Item : items'[j] = IF j = i THEN v ELSE items[j]
  BY <1>2
<1>6. removed' \in [Item -> Nat] /\ \A j \in Item : removed'[j] \in {removed[j], changes + 1}
  BY <1>1, <1>3
<1>7. /\ during' \in [Item -> SUBSET (Version \cup {None})]
      /\ \A j \in Item : during'[j] = IF j = i THEN during[j] \cup {v} ELSE during[j]
  BY <1>4
<1>8. keys' = keys /\ pointer' = pointer /\ shares' = shares /\ current' = current
  BY DEF Stores
<1>9. QED
  BY <1>1, <1>5, <1>6, <1>7, <1>8

LEMMA InitHolds == Init => IInv
<1> SUFFICES ASSUME Init PROVE IInv
  OBVIOUS
<1>1. PICK k \in Key, t \in Tlk :
        /\ keys = [j \in Key |-> IF j = k THEN [tag |-> 1, tlk |-> t] ELSE None]
        /\ pointer = [tag |-> 2, key |-> k]
        /\ shares \in {{}, {t}}
  BY DEF Init
<1>2. /\ [tag |-> 1, tlk |-> t] \in ClassKey /\ [tag |-> 1, tlk |-> t] # None
      /\ [tag |-> 1, tlk |-> t].tag = 1
  BY ClassKeyMade
<1>3. pointer \in Current /\ pointer.tag = 2 /\ pointer.key = k
  BY <1>1, CurrentMade
<1>4. /\ keys \in [Key -> ClassKey \cup {None}]
      /\ keys[k] # None
      /\ \A j \in Key : keys[j] # None => keys[j].tag = 1
      /\ shares \subseteq Tlk
  BY <1>1, <1>2
<1>5. TypeOK
  BY <1>3, <1>4, NothingIsEmpty, BoundAssumption DEF Init, TypeOK, Nothing
<1>6. Timeline
  BY <1>3, <1>4 DEF Init, Timeline
<1>7. Got
  BY NothingIsEmpty DEF Init, Got
<1>8. QED
  BY <1>5, <1>6, <1>7 DEF Init, IInv, Phase, Covered, Asked, WriteConfirmed, ListFaithful

\* A record of an item, its key and its tag.
LEMMA ItemAt ==
  ASSUME TypeOK, NEW i \in Item, items[i] # None
  PROVE  items[i] \in Version /\ items[i].tag \in Nat /\ items[i].key \in Key
BY VersionFields DEF TypeOK

LEMMA CopyAt ==
  ASSUME TypeOK, NEW i \in Item, NEW v \in gotItems[i]
  PROVE  v \in Version /\ v # None /\ v.tag \in Nat /\ v.attrs \in Nat /\ v.key \in Key
BY VersionFields DEF TypeOK

\* A change to an item, by another device or for a request; its number is later than
\* all that was seen, fetched or asked for before.
LEMMA StoresStep ==
  ASSUME IInv, NEW i \in Item, NEW v \in Version \cup {None}, Stores(i, v),
         v # None => v.tag = changes + 1 /\ keys[v.key] # None,
         requests' \subseteq requests,
         UNCHANGED <<pc, phase, op, commands, tlks, paging, printed>>
  PROVE  IInv'
<1>1. TypeOK /\ Timeline /\ Phase /\ Got /\ Covered /\ Asked /\ WriteConfirmed /\ ListFaithful
  BY DEF IInv
<1> DEFINE Effect ==
         /\ items' \in [Item -> Version \cup {None}] /\ removed' \in [Item -> Nat]
         /\ changes' = changes + 1 /\ changes' \in Nat
         /\ during' \in [Item -> SUBSET (Version \cup {None})]
         /\ \A j \in Item : items'[j] = IF j = i THEN v ELSE items[j]
         /\ \A j \in Item : removed'[j] \in {removed[j], changes + 1}
         /\ \A j \in Item : during'[j] = IF j = i THEN during[j] \cup {v} ELSE during[j]
         /\ keys' = keys /\ pointer' = pointer /\ shares' = shares /\ current' = current
<1>2. Effect
  BY <1>1, StoresEffect
<1>3. changes \in Nat /\ (v # None => v.tag \in Nat /\ v.key \in Key)
  BY <1>1, VersionFields DEF TypeOK
<1>4. TypeOK'
  BY <1>1, <1>2 DEF TypeOK
<1>5. Timeline'
  <2>1. cursor' <= changes' /\ pointer'.tag \in 1..changes'
    BY <1>1, <1>2, <1>3 DEF Timeline, TypeOK
  <2>2. \A j \in Item : removed'[j] <= changes'
    BY <1>1, <1>2, <1>3 DEF Timeline, TypeOK
  <2>3. ASSUME NEW j \in Item, items'[j] # None PROVE items'[j].tag \in 1..changes'
    BY <1>1, <1>2, <1>3, <2>3 DEF Timeline
  <2>4. \A k \in Key : keys'[k] # None => keys'[k].tag \in 1..changes'
    BY <1>1, <1>2, <1>3 DEF Timeline
  <2>5. QED
    BY <2>1, <2>2, <2>3, <2>4 DEF Timeline
<1>6. Phase'
  BY <1>1, <1>2 DEF Phase, Nothing
<1>7. Got'
  <2>1. ASSUME NEW j \in Item, items'[j] # None PROVE keys'[items'[j].key] # None
    BY <1>1, <1>2, <2>1 DEF Got
  <2>2. ASSUME NEW j \in Item, NEW w \in during'[j], w # None PROVE keys'[w.key] # None
    BY <1>1, <1>2, <2>2 DEF Got
  <2>3. \A j \in Item : gotItems'[j] \subseteq during'[j]
    BY <1>1, <1>2 DEF Got
  <2>4. ASSUME NEW j \in Item, NEW w \in gotItems'[j]
        PROVE  /\ w.tag <= changes'
               /\ items'[j] # None => w.tag <= items'[j].tag
                                      /\ (w.tag = items'[j].tag => w = items'[j])
    <3>1. w \in gotItems[j] /\ w.tag \in Nat /\ w.tag <= changes
      BY <1>1, <2>4, CopyAt DEF Got
    <3>2. CASE j = i
      BY <1>2, <1>3, <3>1, <3>2
    <3>3. CASE j # i
      BY <1>1, <1>2, <1>3, <3>1, <3>3 DEF Got
    <3>4. QED
      BY <3>2, <3>3
  <2>5. (\A k \in gotKeys' : keys'[k] # None) /\ \A p \in gotPointers' : p.key \in current'
    BY <1>1, <1>2 DEF Got
  <2>6. QED
    BY <2>1, <2>2, <2>3, <2>4, <2>5 DEF Got
<1>8. Covered'
  <2> SUFFICES ASSUME pc' = "fetch" PROVE Covered!2'
    BY DEF Covered
  <2>1. Covered!2 /\ cursor <= changes /\ cursor \in Nat
    BY <1>1 DEF Covered, Timeline, TypeOK
  <2>2. ASSUME NEW j \in Item, items'[j] # None, items'[j].tag <= cursor'
        PROVE  items'[j] \in gotItems'[j]
    BY <1>2, <1>3, <2>1, <2>2
  <2>3. QED
    BY <1>2, <2>1, <2>2
<1>9. Asked'
  <2> SUFFICES ASSUME NEW r \in requests
               PROVE  Asked!(r)'
    BY DEF Asked
  <2>1. r \in Request /\ r.item \in Item /\ (r.source # None => r.source.tag \in Nat)
    BY <1>1, RequestFields, VersionFields DEF TypeOK
  <2>2. Asked!(r)
    BY <1>1 DEF Asked
  <2>3. CASE r.item = i
    BY <1>2, <1>3, <2>1, <2>2, <2>3
  <2>4. CASE r.item # i
    BY <1>2, <1>3, <2>1, <2>2, <2>4
  <2>5. QED
    BY <2>3, <2>4
<1>10. WriteConfirmed'
  <2>1. op # None => op.item \in Item
    BY <1>1, OpFields DEF TypeOK
  <2>2. outcome # "none" => op # None
    BY <1>1 DEF Phase
  <2>3. QED
    BY <1>1, <1>2, <2>1, <2>2 DEF WriteConfirmed
<1>11. ListFaithful'
  <2> SUFFICES ASSUME outcome = "listed", NEW j \in Item
               PROVE  /\ listed[j] \subseteq during'[j]
                      /\ listed[j] = {} =>
                           \E w \in during'[j] : w = None \/ keys'[w.key].tlk \notin tlks'
    BY DEF ListFaithful
  <2>1. /\ listed[j] \subseteq during[j]
        /\ listed[j] = {} => \E w \in during[j] : w = None \/ keys[w.key].tlk \notin tlks
    BY <1>1 DEF ListFaithful
  <2>2. QED
    BY <1>2, <2>1
<1>12. QED
  BY <1>4, <1>5, <1>6, <1>7, <1>8, <1>9, <1>10, <1>11 DEF IInv

\* A new class key: the keys that were there stay as they are.
LEMMA AddKeyStep ==
  ASSUME IInv, NEW k \in Key, NEW t \in Tlk, AddKey(k, t)
  PROVE  IInv'
<1>1. TypeOK /\ Timeline /\ Phase /\ Got /\ Covered /\ Asked /\ WriteConfirmed /\ ListFaithful
  BY DEF IInv
<1>2. /\ changes \in Nat /\ changes' = changes + 1 /\ keys[k] = None
      /\ keys' = [keys EXCEPT ![k] = [tag |-> changes + 1, tlk |-> t]]
      /\ UNCHANGED <<items, removed, pointer, shares, client, history>>
  BY <1>1 DEF AddKey, TypeOK
<1>3. /\ [tag |-> changes + 1, tlk |-> t] \in ClassKey /\ [tag |-> changes + 1, tlk |-> t] # None
      /\ [tag |-> changes + 1, tlk |-> t].tag = changes + 1
  BY <1>2, ClassKeyMade
<1>4. /\ keys' \in [Key -> ClassKey \cup {None}]
      /\ keys'[k] # None /\ keys'[k].tag = changes + 1
      /\ \A j \in Key : j # k => keys'[j] = keys[j]
  BY <1>1, <1>2, <1>3 DEF TypeOK
<1>5. \A j \in Key : keys[j] # None => keys'[j] = keys[j]
  BY <1>2, <1>4
<1>6. TypeOK'
  BY <1>1, <1>2, <1>4, <1>5, CurrentFields DEF TypeOK
<1>7. Timeline'
  <2>1. ASSUME NEW j \in Key, keys'[j] # None PROVE keys'[j].tag \in 1..changes'
    BY <1>1, <1>2, <1>4, <2>1 DEF Timeline
  <2>2. ASSUME NEW i \in Item, items'[i] # None PROVE items'[i].tag \in 1..changes'
    BY <1>1, <1>2, <2>2 DEF Timeline
  <2>3. \A i \in Item : removed'[i] <= changes'
    BY <1>1, <1>2 DEF Timeline, TypeOK
  <2>4. cursor' <= changes' /\ pointer'.tag \in 1..changes'
    BY <1>1, <1>2 DEF Timeline, TypeOK
  <2>5. QED
    BY <2>1, <2>2, <2>3, <2>4 DEF Timeline
<1>8. Phase'
  BY <1>1, <1>2 DEF Phase, Nothing
<1>9. Got'
  <2>1. ASSUME NEW i \in Item, items[i] # None PROVE keys'[items[i].key] # None
    BY <1>1, <1>5, <2>1, ItemAt DEF Got
  <2>2. ASSUME NEW i \in Item, NEW v \in during[i], v # None PROVE keys'[v.key] # None
    <3>1. v \in Version
      BY <1>1, <2>2 DEF TypeOK
    <3>2. QED
      BY <1>1, <1>5, <2>2, <3>1, VersionFields DEF Got
  <2>3. ASSUME NEW i \in Item, NEW v \in gotItems[i] PROVE v.tag <= changes'
    BY <1>1, <1>2, <2>3, CopyAt DEF Got
  <2>4. \A j \in gotKeys : keys'[j] # None
    BY <1>1, <1>5 DEF Got, TypeOK
  <2>5. QED
    BY <1>1, <1>2, <2>1, <2>2, <2>3, <2>4 DEF Got
<1>10. Covered'
  <2> SUFFICES ASSUME pc = "fetch", NEW j \in Key, keys'[j] # None, keys'[j].tag <= cursor
               PROVE  j \in gotKeys
    BY <1>1, <1>2 DEF Covered
  <2>1. cursor <= changes /\ cursor \in Nat
    BY <1>1 DEF Timeline, TypeOK
  <2>2. j # k
    BY <1>2, <1>4, <2>1
  <2>3. QED
    BY <1>1, <1>4, <2>2 DEF Covered
<1>11. Asked'
  <2> SUFFICES ASSUME NEW r \in requests PROVE Asked!(r)'
    BY <1>2 DEF Asked
  <2>1. r \in Request /\ (r.source # None => r.source.tag \in Nat) /\ r.key \in Key \cup {None}
    BY <1>1, RequestFields, VersionFields DEF TypeOK
  <2>2. Asked!(r)
    BY <1>1 DEF Asked
  <2>3. QED
    BY <1>2, <1>5, <2>1, <2>2
<1>12. WriteConfirmed'
  BY <1>1, <1>2 DEF WriteConfirmed
<1>13. ListFaithful'
  <2> SUFFICES ASSUME outcome = "listed", NEW i \in Item
               PROVE  /\ listed[i] \subseteq during[i]
                      /\ listed[i] = {} =>
                           \E v \in during[i] : v = None \/ keys'[v.key].tlk \notin tlks
    BY <1>2 DEF ListFaithful
  <2>1. listed[i] \subseteq during[i]
    BY <1>1 DEF ListFaithful
  <2>2. ASSUME listed[i] = {}
        PROVE  \E v \in during[i] : v = None \/ keys'[v.key].tlk \notin tlks
    <3>1. PICK v \in during[i] : v = None \/ keys[v.key].tlk \notin tlks
      BY <1>1, <2>2 DEF ListFaithful
    <3>2. v # None => v \in Version /\ v.key \in Key /\ keys[v.key] # None
      BY <1>1, VersionFields DEF TypeOK, Got
    <3>3. QED
      BY <1>5, <3>1, <3>2
  <2>3. QED
    BY <2>1, <2>2
<1>14. QED
  BY <1>6, <1>7, <1>8, <1>9, <1>10, <1>11, <1>12, <1>13 DEF IInv

LEMMA MovePointerStep ==
  ASSUME IInv, NEW k \in Key, MovePointer(k)
  PROVE  IInv'
<1>1. TypeOK /\ Timeline /\ Phase /\ Got /\ Covered /\ Asked /\ WriteConfirmed /\ ListFaithful
  BY DEF IInv
<1>2. /\ changes \in Nat /\ changes' = changes + 1 /\ keys[k] # None
      /\ pointer' = [tag |-> changes + 1, key |-> k]
      /\ current' = current \cup {k}
      /\ UNCHANGED <<items, removed, keys, shares, client, during>>
  BY <1>1 DEF MovePointer, TypeOK
<1>3. pointer' \in Current /\ pointer'.tag = changes + 1 /\ pointer'.key = k
  BY <1>2, CurrentMade
<1>4. TypeOK'
  BY <1>1, <1>2, <1>3 DEF TypeOK
<1>5. Timeline'
  <2>1. ASSUME NEW j \in Key, keys'[j] # None PROVE keys'[j].tag \in 1..changes'
    BY <1>1, <1>2, <2>1 DEF Timeline
  <2>2. ASSUME NEW i \in Item, items'[i] # None PROVE items'[i].tag \in 1..changes'
    BY <1>1, <1>2, <2>2 DEF Timeline
  <2>3. \A i \in Item : removed'[i] <= changes'
    BY <1>1, <1>2 DEF Timeline, TypeOK
  <2>4. cursor' <= changes' /\ pointer'.tag \in 1..changes'
    BY <1>1, <1>2, <1>3 DEF Timeline, TypeOK
  <2>5. QED
    BY <2>1, <2>2, <2>3, <2>4 DEF Timeline
<1>6. Phase'
  BY <1>1, <1>2, <1>3 DEF Phase, Nothing
<1>7. Got'
  <2>1. ASSUME NEW i \in Item, NEW v \in gotItems[i] PROVE v.tag <= changes'
    BY <1>1, <1>2, <2>1, CopyAt DEF Got
  <2>2. QED
    BY <1>1, <1>2, <2>1 DEF Got
<1>8. Asked'
  <2> SUFFICES ASSUME NEW r \in requests PROVE Asked!(r)'
    BY <1>2 DEF Asked
  <2>1. r.source # None => r.source.tag \in Nat
    BY <1>1, RequestFields, VersionFields DEF TypeOK
  <2>2. Asked!(r)
    BY <1>1 DEF Asked
  <2>3. QED
    BY <1>2, <2>1, <2>2
<1>9. Covered' /\ WriteConfirmed' /\ ListFaithful'
  BY <1>1, <1>2 DEF Covered, WriteConfirmed, ListFaithful
<1>10. QED
  BY <1>4, <1>5, <1>6, <1>7, <1>8, <1>9 DEF IInv

LEMMA ShareStep ==
  ASSUME IInv, NEW t \in Tlk, Share(t)
  PROVE  IInv'
BY DEF Share, IInv, TypeOK, Timeline, Phase, Got, Covered, Asked, WriteConfirmed, ListFaithful,
   Nothing

-----------------------------------------------------------------------------
(* Keys and pages *)

LEMMA StartStep ==
  ASSUME IInv, NEW o \in Op, Start(o), commands' \in {commands, commands + 1},
         commands' \in 0..MaxCommands, o.kind \in Writes => commands' >= 1
  PROVE  IInv'
<1>1. TypeOK /\ Timeline /\ Got /\ Asked
  BY DEF IInv
<1>2. o # None /\ o.kind \in Writes \cup {"list"}
  BY OpFields
<1>3. pc' \in {"keys", "fetch"}
  BY DEF Start, FetchesFrom
<1>4. \A i \in Item : items[i] \in Version \cup {None}
  BY <1>1 DEF TypeOK
<1>5. /\ during' \in [Item -> SUBSET (Version \cup {None})]
      /\ \A i \in Item : during'[i] = {items[i]}
  BY <1>4 DEF Start
<1>6. pointer.key \in Key
  BY <1>1, CurrentFields DEF TypeOK
<1>7. TypeOK'
  BY <1>1, <1>3, <1>5, <1>6, NothingIsEmpty, BoundAssumption DEF Start, TypeOK
<1>8. Timeline'
  BY <1>1 DEF Start, Timeline, TypeOK
<1>9. Phase'
  BY <1>1, <1>2, <1>5 DEF Start, Phase, Nothing
<1>10. Got'
  BY <1>1, <1>5, NothingIsEmpty DEF Start, Got
<1>11. Covered'
  <2>1. cursor' = 0 /\ items' = items /\ keys' = keys
    BY DEF Start
  <2>2. \A i \in Item : items'[i] # None => ~(items'[i].tag <= cursor')
    BY <1>1, <2>1 DEF Timeline
  <2>3. \A k \in Key : keys'[k] # None => ~(keys'[k].tag <= cursor')
    BY <1>1, <2>1 DEF Timeline
  <2>4. QED
    BY <2>1, <2>2, <2>3 DEF Covered
<1>12. Asked'
  BY <1>1 DEF Start, Asked
<1>13. WriteConfirmed' /\ ListFaithful'
  BY DEF Start, WriteConfirmed, ListFaithful
<1>14. QED
  BY <1>7, <1>8, <1>9, <1>10, <1>11, <1>12, <1>13 DEF IInv

LEMMA FetchKeysStep == ASSUME IInv, FetchKeys PROVE IInv'
<1>1. TypeOK /\ Timeline /\ Phase /\ Got /\ Asked
  BY DEF IInv
<1>2. /\ pc = "keys" /\ pc' = "fetch" /\ tlks' \subseteq shares
      /\ during' = [i \in Item |-> {items[i]}]
      /\ UNCHANGED <<server, requests, phase, op, commands, paging, printed, current>>
  BY DEF FetchKeys
<1>3. /\ during' \in [Item -> SUBSET (Version \cup {None})]
      /\ \A i \in Item : during'[i] = {items[i]}
  BY <1>1, <1>2 DEF TypeOK
<1>4. TypeOK'
  BY <1>1, <1>2, <1>3 DEF TypeOK
<1>5. Timeline'
  BY <1>1, <1>2 DEF Timeline
<1>6. Phase'
  BY <1>1, <1>2, <1>3 DEF Phase
<1>7. Got'
  BY <1>1, <1>2, <1>3, NothingIsEmpty DEF Phase, Got
<1>8. Covered'
  <2>1. cursor' = 0 /\ items' = items /\ keys' = keys
    BY <1>1, <1>2 DEF Phase
  <2>2. \A i \in Item : items'[i] # None => ~(items'[i].tag <= cursor')
    BY <1>1, <2>1 DEF Timeline
  <2>3. \A k \in Key : keys'[k] # None => ~(keys'[k].tag <= cursor')
    BY <1>1, <2>1 DEF Timeline
  <2>4. QED
    BY <2>1, <2>2, <2>3 DEF Covered
<1>9. Asked'
  BY <1>1, <1>2 DEF Asked
<1>10. WriteConfirmed' /\ ListFaithful'
  BY <1>1, <1>2 DEF Phase, WriteConfirmed, ListFaithful
<1>11. QED
  BY <1>4, <1>5, <1>6, <1>7, <1>8, <1>9, <1>10 DEF IInv

\* A page ends at a change that has been made; one that promises more has that as its
\* token; the last one leaves nothing out.
LEMMA PageShape ==
  ASSUME IInv, pc = "fetch", NEW page \in Pages
  PROVE  /\ page.upto \in Nat /\ page.upto <= changes
         /\ More(page) => page.token = page.upto
         /\ Last(page) => \A m \in Pending : m <= page.upto
<1>1. TypeOK /\ Timeline /\ (cursor = 0 \/ cursor \in tokens) /\ cursor \in 0..changes
  BY DEF IInv, Covered, Timeline, TypeOK
<1>2. Pending \subseteq 0..changes
  <2>1. \A i \in Item : ChangedItem(i) \in 0..changes
    BY <1>1 DEF ChangedItem, Timeline, TypeOK
  <2>2. \A k \in Key : keys[k] # None => keys[k].tag \in 0..changes
    BY <1>1 DEF Timeline
  <2>3. pointer.tag \in 0..changes
    BY <1>1 DEF Timeline
  <2>4. QED
    BY <2>1, <2>2, <2>3 DEF Pending
<1>3. CASE page \in {[upto |-> n, status |-> IF \E m \in Pending : m > n THEN 1 ELSE 3,
                      token |-> n] : n \in Pending \cup {cursor}}
  <2>1. PICK n \in Pending \cup {cursor} :
          page = [upto |-> n, status |-> IF \E m \in Pending : m > n THEN 1 ELSE 3, token |-> n]
    BY <1>3
  <2>2. page.upto = n /\ page.token = n /\ n \in 0..changes
    BY <1>1, <1>2, <2>1
  <2>3. Last(page) => ~\E m \in Pending : m > n
    BY <2>1 DEF Last
  <2>4. Last(page) => \A m \in Pending : m <= n
    BY <1>2, <2>2, <2>3
  <2>5. QED
    BY <1>1, <2>2, <2>4 DEF TypeOK
<1>4. CASE page \in [upto : Pending \cup {cursor}, status : {0, 1}, token : {0, cursor}]
  <2>0. page.upto \in Pending \cup {cursor} /\ page.status \in {0, 1} /\ page.token \in {0, cursor}
    BY <1>4
  <2>1. page.upto \in 0..changes /\ page.status # 3 /\ page.token \in {0, cursor}
    <3>1. page.upto \in 0..changes
      <4>1. Pending \cup {cursor} \subseteq 0..changes
        BY <1>1, <1>2
      <4>2. QED
        BY <2>0, <4>1
    <3>2. page.status # 3
      BY <2>0
    <3>3. QED
      BY <2>0, <3>1, <3>2
  <2>2. ~Last(page) /\ ~More(page)
    BY <1>1, <2>1 DEF Last, More
  <2>3. QED
    BY <1>1, <2>1, <2>2 DEF TypeOK
<1>5. QED
  BY <1>3, <1>4 DEF Pages

\* What a page adds to what was collected.
LEMMA ReceiveEffect ==
  ASSUME IInv, pc = "fetch", NEW page \in Pages, Receive(page),
         UNCHANGED <<server, history>>
  PROVE  /\ gotItems' \in [Item -> SUBSET Version] /\ gotKeys' \subseteq Key
         /\ gotPointers' \subseteq Current
         /\ \A i \in Item : gotItems[i] \subseteq gotItems'[i]
         /\ \A i \in Item : items[i] # None /\ items[i].tag <= page.upto => items[i] \in gotItems'[i]
         /\ \A k \in Key : keys[k] # None /\ keys[k].tag <= page.upto => k \in gotKeys'
         /\ Got'
<1>1. TypeOK /\ Timeline /\ Phase /\ Got /\ Covered
  BY DEF IInv
<1>2. cursor \in Nat /\ page.upto \in Nat
  BY <1>1, PageShape DEF TypeOK
<1>3. \A i \in Item : gotItems'[i] =
         IF items[i] # None /\ Within(page, items[i].tag) THEN gotItems[i] \cup {items[i]}
         ELSE gotItems[i]
  BY DEF Receive
<1>4. gotItems' \in [Item -> SUBSET Version]
  <2>1. \A i \in Item : gotItems[i] \subseteq Version /\ items[i] \in Version \cup {None}
    BY <1>1 DEF TypeOK
  <2>2. QED
    BY <2>1 DEF Receive
<1>5. gotKeys' = gotKeys \cup {k \in Key : keys[k] # None /\ Within(page, keys[k].tag)}
  BY DEF Receive
<1>6. gotPointers' = gotPointers \cup (IF Within(page, pointer.tag) THEN {pointer} ELSE {})
  BY DEF Receive
<1>7. gotKeys' \subseteq Key /\ gotPointers' \subseteq Current
  BY <1>1, <1>5, <1>6 DEF TypeOK
<1>8. ASSUME NEW i \in Item, items[i] # None, items[i].tag <= page.upto
      PROVE  items[i] \in gotItems'[i]
  <2>1. items[i].tag \in Nat
    BY <1>1, <1>8, ItemAt
  <2>2. CASE items[i].tag <= cursor
    BY <1>1, <1>3, <1>8, <2>2 DEF Covered
  <2>3. CASE items[i].tag > cursor
    BY <1>3, <1>8, <2>3 DEF Within
  <2>4. QED
    BY <1>2, <2>1, <2>2, <2>3
<1>9. ASSUME NEW k \in Key, keys[k] # None, keys[k].tag <= page.upto
      PROVE  k \in gotKeys'
  <2>1. keys[k].tag \in Nat
    BY <1>1, <1>9, ClassKeyFields DEF TypeOK
  <2>2. QED
    BY <1>1, <1>2, <1>5, <1>9, <2>1 DEF Within, Covered
<1>10. Got'
  <2>1. ASSUME NEW i \in Item, NEW v \in gotItems'[i]
        PROVE  /\ v \in during[i]
               /\ v.tag <= changes
               /\ items[i] # None => v.tag <= items[i].tag /\ (v.tag = items[i].tag => v = items[i])
    <3>1. CASE v \in gotItems[i]
      BY <1>1, <3>1 DEF Got
    <3>2. CASE items[i] # None /\ v = items[i]
      <4>1. items[i].tag \in Nat /\ items[i].tag <= changes /\ items[i] \in during[i]
        BY <1>1, <3>2, ItemAt DEF Timeline, Phase
      <4>2. QED
        BY <3>2, <4>1
    <3>3. QED
      BY <1>3, <2>1, <3>1, <3>2
  <2>2. \A k \in gotKeys' : keys[k] # None
    BY <1>1, <1>5 DEF Got
  <2>3. \A p \in gotPointers' : p.key \in current
    BY <1>1, <1>6 DEF Got, Phase
  <2>4. QED
    BY <1>1, <2>1, <2>2, <2>3 DEF Got
<1>11. QED
  BY <1>3, <1>4, <1>7, <1>8, <1>9, <1>10

LEMMA ContinueStep == ASSUME IInv, Continue PROVE IInv'
<1>1. TypeOK /\ Timeline /\ Phase /\ Got /\ Covered /\ Asked /\ WriteConfirmed /\ ListFaithful
  BY DEF IInv
<1>2. PICK page \in Pages : /\ More(page)
                            /\ tokens' = tokens \cup {page.token}
                            /\ cursor' = page.token
                            /\ Receive(page)
  BY DEF Continue
<1>3. /\ pc = "fetch" /\ pages' = pages + 1 /\ pages + 1 < MaxPages
      /\ UNCHANGED <<server, requests, pc, phase, op, commands, tlks, printed, history>>
  BY DEF Continue, WithinLimit
<1>4. page.token = page.upto /\ page.upto \in Nat /\ page.upto <= changes
  BY <1>2, <1>3, PageShape
<1>5. /\ gotItems' \in [Item -> SUBSET Version] /\ gotKeys' \subseteq Key
      /\ gotPointers' \subseteq Current
      /\ \A i \in Item : items[i] # None /\ items[i].tag <= page.upto => items[i] \in gotItems'[i]
      /\ \A k \in Key : keys[k] # None /\ keys[k].tag <= page.upto => k \in gotKeys'
      /\ Got'
  BY <1>2, <1>3, ReceiveEffect
<1>6. TypeOK'
  <2>1. pages' \in 0..MaxPages
    BY <1>1, <1>3, BoundAssumption DEF TypeOK
  <2>2. cursor' \in Nat /\ tokens' \subseteq Nat
    BY <1>1, <1>2, <1>4 DEF TypeOK
  <2>3. QED
    BY <1>1, <1>3, <1>5, <2>1, <2>2 DEF TypeOK
<1>7. Timeline' /\ Phase'
  BY <1>1, <1>2, <1>3, <1>4 DEF Timeline, Phase
<1>8. Covered'
  BY <1>2, <1>3, <1>4, <1>5 DEF Covered
<1>9. Asked' /\ WriteConfirmed' /\ ListFaithful'
  BY <1>1, <1>3 DEF Asked, WriteConfirmed, ListFaithful
<1>10. QED
  BY <1>5, <1>6, <1>7, <1>8, <1>9 DEF IInv

\* The last page: nothing that was in the zone when it was sent is missing.
LEMMA CompleteEffect ==
  ASSUME IInv, NEW when, NEW kinds, NEW next \in {"compose", "idle"},
         Complete(when, kinds, next),
         outcome' \in {"none", "listed", "created", "updated", "deleted"},
         listed' \in [Item -> SUBSET Version],
         next # "idle" => outcome' = "none"
  PROVE  /\ TypeOK' /\ Timeline' /\ Phase' /\ Got' /\ Covered' /\ Asked'
         /\ \A i \in Item : items[i] # None => items[i] \in gotItems'[i]
         /\ \A k \in Key : keys[k] # None => k \in gotKeys'
<1>1. TypeOK /\ Timeline /\ Phase /\ Got /\ Covered /\ Asked
  BY DEF IInv
<1>2. PICK page \in Pages : Last(page) /\ Receive(page)
  BY DEF Complete
<1>3. /\ pc = "fetch" /\ pc' = next
      /\ UNCHANGED <<server, requests, phase, op, commands, tlks, cursor, tokens, pages, history>>
  BY DEF Complete
<1>4. \A m \in Pending : m <= page.upto
  BY <1>2, <1>3, PageShape
<1>5. /\ gotItems' \in [Item -> SUBSET Version] /\ gotKeys' \subseteq Key
      /\ gotPointers' \subseteq Current
      /\ \A i \in Item : gotItems[i] \subseteq gotItems'[i]
      /\ \A i \in Item : items[i] # None /\ items[i].tag <= page.upto => items[i] \in gotItems'[i]
      /\ \A k \in Key : keys[k] # None /\ keys[k].tag <= page.upto => k \in gotKeys'
      /\ gotKeys \subseteq gotKeys'
      /\ Got'
  BY <1>2, <1>3, ReceiveEffect DEF Receive
<1>6. ASSUME NEW i \in Item, items[i] # None PROVE items[i] \in gotItems'[i]
  <2>1. items[i].tag \in Nat /\ cursor \in Nat
    BY <1>1, <1>6, ItemAt DEF TypeOK
  <2>2. CASE items[i].tag <= cursor
    BY <1>1, <1>3, <1>5, <1>6, <2>2 DEF Covered
  <2>3. CASE items[i].tag > cursor
    <3>1. items[i].tag \in Pending
      BY <1>6, <2>3 DEF Pending, ChangedItem
    <3>2. QED
      BY <1>4, <1>5, <1>6, <3>1
  <2>4. QED
    BY <2>1, <2>2, <2>3
<1>7. ASSUME NEW k \in Key, keys[k] # None PROVE k \in gotKeys'
  <2>1. keys[k].tag \in Nat /\ cursor \in Nat
    BY <1>1, <1>7, ClassKeyFields DEF TypeOK
  <2>2. CASE keys[k].tag <= cursor
    BY <1>1, <1>3, <1>5, <1>7, <2>2 DEF Covered
  <2>3. CASE keys[k].tag > cursor
    <3>1. keys[k].tag \in Pending
      BY <1>7, <2>3 DEF Pending
    <3>2. QED
      BY <1>4, <1>5, <1>7, <3>1
  <2>4. QED
    BY <2>1, <2>2, <2>3
<1>8. TypeOK'
  BY <1>1, <1>3, <1>5 DEF TypeOK
<1>9. Timeline' /\ Asked' /\ Covered'
  BY <1>1, <1>3 DEF Timeline, Asked, Covered
<1>10. Phase'
  BY <1>1, <1>3 DEF Phase
<1>11. QED
  BY <1>5, <1>6, <1>7, <1>8, <1>9, <1>10

LEMMA MaterialStep == ASSUME IInv, Material PROVE IInv'
<1>1. /\ Complete("before", Writes, "compose") /\ pc = "fetch"
      /\ outcome' = outcome /\ listed' = listed
  BY DEF Material, Complete
<1>2. TypeOK /\ Phase
  BY DEF IInv
<1>3. outcome = "none"
  BY <1>1, <1>2 DEF Phase
<1>4. TypeOK' /\ Timeline' /\ Phase' /\ Got' /\ Covered' /\ Asked'
  BY <1>1, <1>2, <1>3, CompleteEffect DEF TypeOK
<1>5. WriteConfirmed' /\ ListFaithful'
  BY <1>1, <1>3 DEF WriteConfirmed, ListFaithful
<1>6. QED
  BY <1>4, <1>5 DEF IInv

\* What cannot be read is sealed under a key that this peer could not unwrap: no key
\* of the zone is missing from a fetch that is complete.
LEMMA ListItemsStep == ASSUME IInv, ListItems PROVE IInv'
<1>1. /\ Complete("before", {"list"}, "idle") /\ outcome' = "listed"
      /\ listed' = [i \in Item |-> Readable(gotItems'[i], gotKeys')]
  BY DEF ListItems
<1>2. TypeOK /\ Phase /\ Got
  BY DEF IInv
<1>3. pc = "fetch" /\ UNCHANGED <<server, tlks, history>>
  BY <1>1 DEF Complete
<1>4. gotItems' \in [Item -> SUBSET Version]
  <2>1. PICK page \in Pages : Receive(page)
    BY <1>1 DEF Complete
  <2>2. QED
    BY <1>3, <2>1, ReceiveEffect
<1>5. listed' \in [Item -> SUBSET Version]
  BY <1>1, <1>4 DEF Readable
<1>6. /\ TypeOK' /\ Timeline' /\ Phase' /\ Got' /\ Covered' /\ Asked'
      /\ \A i \in Item : items[i] # None => items[i] \in gotItems'[i]
      /\ \A k \in Key : keys[k] # None => k \in gotKeys'
  BY <1>1, <1>5, CompleteEffect
<1>7. ASSUME NEW i \in Item PROVE listed'[i] \subseteq during'[i]
  BY <1>1, <1>6 DEF Readable, Got
<1>8. ASSUME NEW i \in Item, listed'[i] = {}
      PROVE  \E v \in during'[i] : v = None \/ keys'[v.key].tlk \notin tlks'
  <2>1. items[i] \in during'[i]
    BY <1>2, <1>3 DEF Phase
  <2>2. CASE items[i] # None
    <3>1. items[i].key \in Key /\ keys[items[i].key] # None
      BY <1>2, <2>2, ItemAt DEF Got
    <3>2. items[i] \in gotItems'[i] /\ items[i].key \in gotKeys'
      BY <1>6, <2>2, <3>1
    <3>3. items[i] \notin Readable(gotItems'[i], gotKeys')
      BY <1>1, <1>8
    <3>4. keys'[items[i].key].tlk \notin tlks'
      BY <1>3, <3>1, <3>2, <3>3 DEF Readable, Recovered
    <3>5. QED
      BY <2>1, <3>4
  <2>3. QED
    BY <2>1, <2>2
<1>9. WriteConfirmed' /\ ListFaithful'
  BY <1>1, <1>7, <1>8 DEF WriteConfirmed, ListFaithful
<1>10. QED
  BY <1>6, <1>9 DEF IInv

-----------------------------------------------------------------------------
(* Requests *)

\* A request for what the zone still holds has the attributes of it.
LEMMA AskStep ==
  ASSUME IInv, NEW r \in Request, Ask(r), pc = "compose",
         r.kind = "update" => r.source # None,
         r.kind # "delete" => r.key # None /\ keys[r.key] # None,
         r.source # None =>
           /\ r.source.tag <= changes
           /\ items[r.item] # None /\ items[r.item].tag = r.source.tag =>
                /\ items[r.item] = r.source
                /\ r.kind = "update" => r.attrs = r.source.attrs
  PROVE  IInv'
<1>1. TypeOK /\ Timeline /\ Phase /\ Got /\ Covered /\ Asked /\ WriteConfirmed /\ ListFaithful
  BY DEF IInv
<1>2. /\ requests' = requests \cup {r} /\ pc' = "wait"
      /\ UNCHANGED <<server, phase, op, commands, tlks, paging, printed, history>>
  BY DEF Ask
<1>3. TypeOK'
  BY <1>1, <1>2 DEF TypeOK
<1>4. Timeline' /\ Phase' /\ Got' /\ Covered' /\ WriteConfirmed' /\ ListFaithful'
  BY <1>1, <1>2 DEF Timeline, Phase, Got, Covered, WriteConfirmed, ListFaithful
<1>5. Asked'
  <2> SUFFICES ASSUME NEW q \in requests' PROVE Asked!(q)'
    BY DEF Asked
  <2>1. CASE q \in requests
    BY <1>1, <1>2, <2>1 DEF Asked
  <2>2. CASE q = r
    BY <1>2, <2>2
  <2>3. QED
    BY <1>2, <2>1, <2>2
<1>6. QED
  BY <1>3, <1>4, <1>5 DEF IInv

\* The pointer found first, if its key was recovered.
LEMMA CurrentKeyIsShared ==
  ASSUME TypeOK, Phase, Got, gotPointers # {}, CurrentKey \in Recovered(gotKeys)
  PROVE  /\ CurrentKey \in Key /\ CurrentKey # None /\ keys[CurrentKey] # None
         /\ CurrentKey \in current /\ keys[CurrentKey].tlk \in shares
<1>1. gotPointers \subseteq Current
  BY DEF TypeOK
<1>2. First(gotPointers) \in gotPointers
  BY <1>1, CurrentFields, FirstIsOldest
<1>3. CurrentKey \in Key /\ CurrentKey \in current
  BY <1>1, <1>2, CurrentFields DEF CurrentKey, Got
<1>4. CurrentKey \in gotKeys /\ keys[CurrentKey].tlk \in tlks
  BY DEF Recovered
<1>5. QED
  BY <1>3, <1>4, NoneAssumption DEF Got, Phase

\* The record found first, and what follows if it is still on the server: it is the only
\* copy that was found, so that the attributes are its own.
LEMMA SourceIsFirst ==
  ASSUME TypeOK, Got, NEW i \in Item, gotItems[i] # {}
  PROVE  /\ Source(i) \in Version /\ Source(i) # None /\ Source(i).tag <= changes
         /\ items[i] # None /\ items[i].tag = Source(i).tag =>
              /\ items[i] = Source(i)
              /\ gotItems[i] = {Source(i)}
<1>1. \A v \in gotItems[i] : v \in Version /\ v # None /\ v.tag \in Nat
  BY CopyAt
<1>2. Source(i) \in gotItems[i] /\ \A v \in gotItems[i] : Source(i).tag <= v.tag
  BY <1>1, FirstIsOldest DEF Source
<1>3. ASSUME items[i] # None, items[i].tag = Source(i).tag
      PROVE  items[i] = Source(i) /\ gotItems[i] = {Source(i)}
  <2>1. \A v \in gotItems[i] : v.tag <= items[i].tag /\ (v.tag = items[i].tag => v = items[i])
    BY <1>3 DEF Got
  <2>2. items[i] = Source(i)
    BY <1>2, <1>3, <2>1
  <2>3. ASSUME NEW v \in gotItems[i] PROVE v = Source(i)
    <3>1. v.tag \in Nat /\ items[i].tag \in Nat /\ items[i].tag <= v.tag /\ v.tag <= items[i].tag
      BY <1>1, <1>2, <1>3, <2>1, <2>3
    <3>2. QED
      BY <2>1, <2>2, <3>1
  <2>4. QED
    BY <1>2, <2>2, <2>3
<1>4. QED
  BY <1>1, <1>2, <1>3 DEF Got

LEMMA Composing ==
  ASSUME TypeOK, Phase, pc = "compose", NEW kind \in Writes, op.kind = kind
  PROVE  op \in Op /\ op.item \in Item /\ op.secret \in Secret /\ commands \in 1..MaxCommands
BY OpFields, BoundAssumption DEF TypeOK, Phase

LEMMA ComposeCreateStep ==
  ASSUME IInv, ComposeCreate
  PROVE  IInv' /\ requests' \ requests \subseteq
                    {r \in Request : r.key \in current /\ keys[r.key].tlk \in shares}
<1>1. TypeOK /\ Phase /\ Got
  BY DEF IInv
<1>2. pc = "compose" /\ op.kind = "create" /\ gotPointers # {} /\ CurrentKey \in Recovered(gotKeys)
  BY DEF ComposeCreate
<1>3. /\ op.item \in Item /\ op.secret \in Secret /\ commands \in 1..MaxCommands
      /\ CurrentKey \in Key /\ CurrentKey # None /\ keys[CurrentKey] # None
      /\ CurrentKey \in current /\ keys[CurrentKey].tlk \in shares
  BY <1>1, <1>2, Composing, CurrentKeyIsShared DEF Writes
<1>4. PICK r : /\ r = [kind |-> "create", id |-> commands, item |-> op.item, source |-> None,
                       attrs |-> NewAttributes, secret |-> op.secret, key |-> CurrentKey]
               /\ Ask(r)
  BY DEF ComposeCreate
<1>5. r \in Request /\ r.kind = "create" /\ r.source = None /\ r.key = CurrentKey
  <2>1. "create" \in Writes /\ NewAttributes \in Nat
    BY DEF Writes, NewAttributes
  <2>2. QED
    BY <1>3, <1>4, <2>1, RequestMade
<1>6. IInv'
  BY <1>2, <1>3, <1>4, <1>5, AskStep
<1>7. QED
  BY <1>3, <1>4, <1>5, <1>6 DEF Ask

LEMMA ComposeUpdateStep ==
  ASSUME IInv, ComposeUpdate
  PROVE  IInv' /\ requests' \ requests \subseteq
                    {r \in Request : r.key \in current /\ keys[r.key].tlk \in shares}
<1>1. TypeOK /\ Phase /\ Got
  BY DEF IInv
<1>2. /\ pc = "compose" /\ op.kind = "update" /\ gotPointers # {}
      /\ CurrentKey \in Recovered(gotKeys) /\ Readable(gotItems[op.item], gotKeys) # {}
  BY DEF ComposeUpdate
<1>3. /\ op.item \in Item /\ op.secret \in Secret /\ commands \in 1..MaxCommands
      /\ CurrentKey \in Key /\ CurrentKey # None /\ keys[CurrentKey] # None
      /\ CurrentKey \in current /\ keys[CurrentKey].tlk \in shares
  BY <1>1, <1>2, Composing, CurrentKeyIsShared DEF Writes
<1> DEFINE i == op.item
           found == Readable(gotItems[i], gotKeys)
<1>4. found \subseteq gotItems[i] /\ \A v \in found : v \in Version /\ v.tag \in Nat /\ v.attrs \in Nat
  BY <1>1, <1>3, CopyAt DEF Readable
<1>5. First(found) \in found
  BY <1>2, <1>4, FirstIsOldest
<1>6. /\ Source(i) \in Version /\ Source(i) # None /\ Source(i).tag <= changes
      /\ items[i] # None /\ items[i].tag = Source(i).tag =>
           items[i] = Source(i) /\ First(found).attrs = Source(i).attrs
  <2>1. gotItems[i] # {}
    BY <1>4, <1>5
  <2>2. QED
    BY <1>1, <1>3, <1>4, <1>5, <2>1, SourceIsFirst
<1>7. PICK r : /\ r = [kind |-> "update", id |-> commands, item |-> i, source |-> Source(i),
                       attrs |-> First(found).attrs, secret |-> op.secret, key |-> CurrentKey]
               /\ Ask(r)
  BY DEF ComposeUpdate
<1>8. /\ r \in Request /\ r.kind = "update" /\ r.item = i /\ r.source = Source(i)
      /\ r.attrs = First(found).attrs /\ r.key = CurrentKey
  <2>1. "update" \in Writes /\ First(found).attrs \in Nat
    BY <1>4, <1>5 DEF Writes
  <2> HIDE DEF found, i
  <2>2. i \in Item /\ Source(i) \in Version \cup {None} /\ CurrentKey \in Key \cup {None}
    BY <1>3, <1>6 DEF i
  <2>3. QED
    BY <1>3, <1>7, <2>1, <2>2, RequestMade
<1>9. IInv'
  BY <1>2, <1>3, <1>6, <1>7, <1>8, AskStep
<1>10. QED
  BY <1>3, <1>7, <1>8, <1>9 DEF Ask

LEMMA ComposeDeleteStep ==
  ASSUME IInv, ComposeDelete
  PROVE  IInv' /\ \A r \in requests' \ requests : r.kind = "delete"
<1>1. TypeOK /\ Phase /\ Got
  BY DEF IInv
<1>2. pc = "compose" /\ op.kind = "delete" /\ gotItems[op.item] # {}
  BY DEF ComposeDelete
<1>3. op.item \in Item /\ op.secret \in Secret /\ commands \in 1..MaxCommands
  BY <1>1, <1>2, Composing DEF Writes
<1>4. /\ Source(op.item) \in Version /\ Source(op.item) # None /\ Source(op.item).tag <= changes
      /\ items[op.item] # None /\ items[op.item].tag = Source(op.item).tag =>
           items[op.item] = Source(op.item)
  BY <1>1, <1>2, <1>3, SourceIsFirst
<1>5. PICK r : /\ r = [kind |-> "delete", id |-> commands, item |-> op.item,
                       source |-> Source(op.item), attrs |-> 0, secret |-> op.secret, key |-> None]
               /\ Ask(r)
  BY DEF ComposeDelete
<1>6. r \in Request /\ r.kind = "delete" /\ r.item = op.item /\ r.source = Source(op.item)
  <2>1. "delete" \in Writes /\ 0 \in Nat /\ None \in Key \cup {None}
    BY DEF Writes
  <2>2. Source(op.item) \in Version \cup {None}
    BY <1>4
  <2>3. QED
    BY <1>3, <1>5, <2>1, <2>2, RequestMade
<1>7. IInv'
  BY <1>2, <1>4, <1>5, <1>6, AskStep
<1>8. QED
  BY <1>5, <1>6, <1>7 DEF Ask

LEMMA ServeStep == ASSUME IInv, NEW r \in requests, Serve(r) PROVE IInv'
<1>1. TypeOK /\ Asked
  BY DEF IInv
<1>2. /\ r \in Request /\ r.item \in Item /\ r.attrs \in Nat /\ r.secret \in Secret
      /\ r.key \in Key \cup {None} /\ changes + 1 \in Nat
  BY <1>1, RequestFields DEF TypeOK
<1>3. r.kind # "delete" => r.key \in Key /\ keys[r.key] # None
  BY <1>1, <1>2 DEF Asked
<1>4. /\ Stored(r) \in Version \cup {None}
      /\ Stored(r) # None => Stored(r).tag = changes + 1 /\ keys[Stored(r).key] # None
  <2>1. CASE r.kind = "delete"
    BY <2>1 DEF Stored
  <2>2. CASE r.kind # "delete"
    <3>1. Stored(r) = [tag |-> changes + 1, attrs |-> r.attrs, secret |-> r.secret, key |-> r.key]
      BY <2>2 DEF Stored
    <3>2. Stored(r) \in Version /\ Stored(r).tag = changes + 1 /\ Stored(r).key = r.key
      BY <1>2, <1>3, <2>2, <3>1, VersionMade
    <3>3. QED
      BY <1>3, <2>2, <3>2
  <2>3. QED
    BY <2>1, <2>2
<1>5. QED
  BY <1>2, <1>4, StoresStep DEF Serve

LEMMA LoseStep == ASSUME IInv, NEW r \in requests, Lose(r) PROVE IInv'
BY DEF Lose, IInv, TypeOK, Timeline, Phase, Got, Covered, Asked, WriteConfirmed, ListFaithful

LEMMA AnsweredStep == ASSUME IInv, Answered PROVE IInv'
<1>1. TypeOK /\ Timeline /\ Phase /\ Got /\ Asked
  BY DEF IInv
<1>2. /\ pc = "wait" /\ pc' \in {"keys", "fetch"} /\ phase' = "after"
      /\ cursor' = 0 /\ tokens' = {} /\ pages' = 0
      /\ gotItems' = Nothing /\ gotKeys' = {} /\ gotPointers' = {}
      /\ during' = [i \in Item |-> {items[i]}]
      /\ UNCHANGED <<server, requests, op, commands, tlks, printed, current>>
  BY DEF Answered
<1>3. /\ during' \in [Item -> SUBSET (Version \cup {None})]
      /\ \A i \in Item : during'[i] = {items[i]}
  BY <1>1, <1>2 DEF TypeOK
<1>4. TypeOK'
  BY <1>1, <1>2, <1>3, NothingIsEmpty, BoundAssumption DEF TypeOK
<1>5. Timeline'
  BY <1>1, <1>2 DEF Timeline, TypeOK
<1>6. Phase'
  BY <1>1, <1>2, <1>3 DEF Phase, Nothing
<1>7. Got'
  BY <1>1, <1>2, <1>3, NothingIsEmpty DEF Got
<1>8. Covered'
  <2>1. cursor' = 0 /\ items' = items /\ keys' = keys
    BY <1>2
  <2>2. \A i \in Item : items'[i] # None => ~(items'[i].tag <= cursor')
    BY <1>1, <2>1 DEF Timeline
  <2>3. \A k \in Key : keys'[k] # None => ~(keys'[k].tag <= cursor')
    BY <1>1, <2>1 DEF Timeline
  <2>4. QED
    BY <2>1, <2>2, <2>3 DEF Covered
<1>9. Asked'
  BY <1>1, <1>2 DEF Asked
<1>10. WriteConfirmed' /\ ListFaithful'
  BY <1>1, <1>2 DEF Phase, WriteConfirmed, ListFaithful
<1>11. QED
  BY <1>4, <1>5, <1>6, <1>7, <1>8, <1>9, <1>10 DEF IInv

\* What is reported was read in the confirming fetch.
LEMMA ConfirmStep ==
  ASSUME IInv, NEW kind, NEW result \in {"created", "updated", "deleted"}, Confirm(kind, result),
         result # "deleted" =>
           \E v \in Readable(gotItems'[op.item], gotKeys') : v.secret = op.secret
  PROVE  IInv'
<1>1. TypeOK /\ Phase
  BY DEF IInv
<1>2. /\ Complete("after", {kind}, "idle") /\ outcome' = result /\ listed' = listed
      /\ pc = "fetch" /\ op' = op
  BY DEF Confirm, Complete
<1>3. op.item \in Item
  BY <1>1, <1>2, OpFields DEF TypeOK, Phase
<1>4. TypeOK' /\ Timeline' /\ Phase' /\ Got' /\ Covered' /\ Asked'
  <2>1. listed' \in [Item -> SUBSET Version]
    BY <1>1, <1>2 DEF TypeOK
  <2>2. QED
    BY <1>2, <2>1, CompleteEffect
<1>5. WriteConfirmed'
  <2> SUFFICES ASSUME result # "deleted"
               PROVE  \E v \in during'[op.item] : v # None /\ v.secret = op.secret
    BY <1>2 DEF WriteConfirmed
  <2>1. PICK v \in Readable(gotItems'[op.item], gotKeys') : v.secret = op.secret
    OBVIOUS
  <2>2. v \in gotItems'[op.item]
    BY <2>1 DEF Readable
  <2>3. v \in Version /\ v \in during'[op.item]
    BY <1>3, <1>4, <2>2 DEF TypeOK, Got
  <2>4. QED
    BY <2>1, <2>3, VersionFields
<1>6. ListFaithful'
  BY <1>2 DEF ListFaithful
<1>7. QED
  BY <1>4, <1>5, <1>6 DEF IInv

LEMMA FailStep == ASSUME IInv, Fail PROVE IInv'
BY DEF Fail, IInv, TypeOK, Timeline, Phase, Got, Covered, Asked, WriteConfirmed, ListFaithful

-----------------------------------------------------------------------------
(* The theorems *)

LEMMA NextStep == ASSUME IInv, Next PROVE IInv'
<1>1. TypeOK
  BY DEF IInv
<1>2. ASSUME NEW i \in Item, NEW s \in Secret, OthersWrite(i, s) PROVE IInv'
  <2>1. pointer.key \in Key /\ keys[pointer.key] # None /\ changes + 1 \in Nat
    BY <1>1, CurrentFields DEF TypeOK
  <2>2. PICK v : /\ v = [tag |-> changes + 1, attrs |-> changes + 1, secret |-> s,
                         key |-> pointer.key]
                 /\ Stores(i, v)
    BY <1>2 DEF OthersWrite
  <2>3. v \in Version /\ v.tag = changes + 1 /\ v.key = pointer.key
    BY <2>1, <2>2, VersionMade
  <2>4. QED
    BY <1>2, <2>1, <2>2, <2>3, StoresStep DEF OthersWrite
<1>3. ASSUME NEW i \in Item, OthersDelete(i) PROVE IInv'
  BY <1>3, StoresStep DEF OthersDelete
<1>4. ASSUME NEW i \in Item, NEW s \in Secret, NEW kind \in Writes, Change(kind, i, s) PROVE IInv'
  <2>1. PICK o : o = [kind |-> kind, item |-> i, secret |-> s] /\ Start(o)
    BY <1>4 DEF Change
  <2>2. o \in Op /\ o.kind = kind
    BY <2>1, OpMade
  <2>3. commands' = commands + 1 /\ commands' \in 0..MaxCommands /\ commands' >= 1
    BY <1>1, <1>4, BoundAssumption DEF Change, TypeOK
  <2>4. QED
    BY <2>1, <2>2, <2>3, StartStep
<1>5. ASSUME List PROVE IInv'
  <2>1. PICK i \in Item, s \in Secret : Start([kind |-> "list", item |-> i, secret |-> s])
    BY <1>5 DEF List
  <2>2. PICK o : o = [kind |-> "list", item |-> i, secret |-> s] /\ Start(o)
    BY <2>1
  <2>3. o \in Op /\ o.kind = "list" /\ "list" \notin Writes
    BY <2>2, OpMade DEF Writes
  <2>4. commands' = commands /\ commands \in 0..MaxCommands
    BY <1>1, <1>5 DEF List, TypeOK
  <2>5. QED
    BY <2>2, <2>3, <2>4, StartStep
<1>6. ASSUME ConfirmCreate PROVE IInv'
  BY <1>6, ConfirmStep DEF ConfirmCreate, ReadBackCreated
<1>7. ASSUME ConfirmUpdate PROVE IInv'
  BY <1>7, ConfirmStep DEF ConfirmUpdate, ReadBackUpdated
<1>8. ASSUME ConfirmDelete PROVE IInv'
  BY <1>8, ConfirmStep DEF ConfirmDelete
<1>9. ASSUME NEW r \in requests, Serve(r) \/ Lose(r) PROVE IInv'
  BY <1>9, ServeStep, LoseStep
<1>10. ASSUME NEW k \in Key, MovePointer(k) \/ \E t \in Tlk : AddKey(k, t) PROVE IInv'
  BY <1>10, MovePointerStep, AddKeyStep
<1>11. QED
  BY <1>2, <1>3, <1>4, <1>5, <1>6, <1>7, <1>8, <1>9, <1>10, ShareStep, FetchKeysStep, ContinueStep,
     ListItemsStep, MaterialStep, ComposeCreateStep, ComposeUpdateStep, ComposeDeleteStep,
     AnsweredStep, FailStep DEF Next

LEMMA StutterStep == ASSUME IInv, UNCHANGED vars PROVE IInv'
BY DEF IInv, TypeOK, Timeline, Phase, Got, Covered, Asked, WriteConfirmed, ListFaithful, Nothing

\* The strengthened invariant holds of every state that a run of the client and the other
\* devices can reach.
THEOREM Inductive == Spec => []IInv
<1>1. IInv /\ [Next]_vars => IInv'
  BY NextStep, StutterStep
<1>2. QED
  BY InitHolds, <1>1, PTL DEF Spec

\* Every variable keeps its type.
THEOREM TypeCorrect == Spec => []TypeOK
<1>1. IInv => TypeOK
  BY DEF IInv
<1>2. QED
  BY <1>1, Inductive, PTL

\* What is printed as created or updated was on the server during the confirming fetch.
THEOREM WritesAreConfirmed == Spec => []WriteConfirmed
<1>1. IInv => WriteConfirmed
  BY DEF IInv
<1>2. QED
  BY <1>1, Inductive, PTL

\* A list shows what was on the server during the fetch; only items that were absent for
\* a time, or sealed under keys not shared, are missing.
THEOREM ListsAreFaithful == Spec => []ListFaithful
<1>1. IInv => ListFaithful
  BY DEF IInv
<1>2. QED
  BY <1>1, Inductive, PTL

\* What a request finds when it is carried out is what it was composed from.
LEMMA ServesItsSource ==
  ASSUME IInv, NEW r \in requests, Serve(r)
  PROVE  /\ items[r.item] = r.source
         /\ r.kind = "update" => items'[r.item].attrs = items[r.item].attrs
<1>1. TypeOK /\ Asked!(r) /\ r \in Request
  BY DEF IInv, Asked, TypeOK
<1>2. Matches(r) /\ Stores(r.item, Stored(r))
  BY DEF Serve
<1>3. items[r.item] = r.source
  BY <1>1, <1>2 DEF Matches
<1>4. ASSUME r.kind = "update" PROVE items'[r.item].attrs = items[r.item].attrs
  <2>1. r.source # None /\ items[r.item] = r.source /\ r.attrs = r.source.attrs
    BY <1>1, <1>2, <1>3, <1>4 DEF Matches
  <2>2. Stored(r).attrs = r.attrs
    BY <1>4 DEF Stored
  <2>3. r.item \in Item /\ items'[r.item] = Stored(r)
    BY <1>1, <1>2, RequestFields DEF Stores, TypeOK
  <2>4. QED
    BY <2>1, <2>2, <2>3
<1>5. QED
  BY <1>3, <1>4

\* No other device's change is replaced or removed.
THEOREM NoUpdateIsLost == Spec => NoLostUpdate
<1>1. IInv /\ [Next]_vars => [\A r \in requests : Serve(r) => items[r.item] = r.source]_vars
  BY ServesItsSource
<1>2. QED
  BY Inductive, <1>1, PTL DEF Spec, NoLostUpdate

\* An update leaves every attribute but the password as the server holds it.
THEOREM AttributesAreKept == Spec => UpdateKeepsAttributes
<1>1. IInv /\ [Next]_vars =>
        [\A r \in requests :
           Serve(r) /\ r.kind = "update" => items'[r.item].attrs = items[r.item].attrs]_vars
  BY ServesItsSource
<1>2. QED
  BY Inductive, <1>1, PTL DEF Spec, UpdateKeepsAttributes

\* Every request seals under a key that was current while its command ran and that this
\* peer can unwrap.
THEOREM SealsUnderCurrentKey == Spec => SealedUnderCurrentKey
<1> DEFINE Sealed == \A r \in requests' \ requests :
                       r.kind # "delete" => r.key \in current /\ keys[r.key].tlk \in shares
<1>1. ASSUME IInv, Next PROVE Sealed
  <2>1. CASE ComposeCreate \/ ComposeUpdate \/ ComposeDelete
    BY <1>1, <2>1, ComposeCreateStep, ComposeUpdateStep, ComposeDeleteStep
  <2>2. CASE requests' \subseteq requests
    BY <2>2
  <2>3. QED
    BY <1>1, <2>1, <2>2 DEF Next, OthersWrite, OthersDelete, AddKey, MovePointer, Share, List, Change,
       Start, FetchKeys, Continue, ListItems, Material, Complete, Serve, Lose, Answered,
       ConfirmCreate, ConfirmUpdate, ConfirmDelete, Confirm, Fail
<1>2. IInv /\ [Next]_vars => [Sealed]_vars
  BY <1>1
<1>3. QED
  BY Inductive, <1>2, PTL DEF Spec, SealedUnderCurrentKey
=============================================================================
