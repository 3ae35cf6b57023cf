--------------------------- MODULE ClassKeysProofs --------------------------
(***************************************************************************)
(* Proofs about ClassKeys, for whatever the session and the service may    *)
(* hold and any number of runs.                                            *)
(***************************************************************************)
EXTENDS ClassKeys, TLAPS

-----------------------------------------------------------------------------
(* The inductive invariant *)

\* The TLKs shared with the identities before the n-th.
SharedBefore(n) ==
  {share.tlk : share \in {other \in holding.shares :
     other.sound /\ \E m \in DOMAIN Candidates :
                      m < n /\ Candidates[m].peer = other.receiver}}

\* The identities in the items before the n-th.
FoundBefore(n) ==
  {Items[m].identity :
     m \in {k \in DOMAIN Items : k < n /\ Items[k].parent \in Recoverable}} \ {None}

SoundBefore(n) ==
  \A m \in DOMAIN Items : m < n /\ Items[m].parent \in Recoverable => Items[m].sound

AllSound == \A m \in DOMAIN Items : Items[m].parent \in Recoverable => Items[m].sound

\* Where the recovery has come to, at each point.
RecoveryInv ==
  /\ keys \subseteq Recoverable
  /\ pc = "shares" => tlks = SharedBefore(index)
  /\ pc \in {"shares", "keys"} => found = {}
  /\ pc = "keys" =>
       /\ Mine \subseteq keys
       /\ ~progress => \A n \in DOMAIN Records :
            n < index /\ Records[n].parent \in keys => Records[n].name \in keys
  /\ pc \in {"items", "save", "done"} => keys = Recoverable
  /\ pc = "items" => found = FoundBefore(index) /\ SoundBefore(index)
  /\ pc \in {"save", "done"} => found = Contained /\ found # {} /\ AllSound

FilesInv ==
  /\ pc \in {"idle", "shares", "keys", "items"} => files = before
  /\ before \subseteq files
  /\ files \ before \subseteq Contained
  /\ files # before => AllSound
  /\ pc = "done" => found \subseteq files

IInv == TypeOK /\ RecoveryInv /\ FilesInv

-----------------------------------------------------------------------------
(* What can be recovered *)

\* What a holding is made of.
LEMMA Shape ==
  ASSUME TypeOK
  PROVE  /\ Len(Candidates) \in Nat /\ DOMAIN Candidates = 1..Len(Candidates)
         /\ Len(Records) \in Nat /\ DOMAIN Records = 1..Len(Records)
         /\ Len(Items) \in Nat /\ DOMAIN Items = 1..Len(Items)
         /\ \A share \in holding.shares : share.tlk \in Name
         /\ \A n \in DOMAIN Records : Records[n].name \in Name /\ Records[n].parent \in Name
         /\ \A n \in DOMAIN Items : Items[n].identity \in Identity \cup {None}
<1>1. holding \in [candidates : Seq(Candidate), shares : SUBSET Share,
                   records : Seq(ClassKey), items : Seq(Item)]
  BY HoldingsAssumption DEF TypeOK
<1>2. /\ Candidates \in Seq(Candidate) /\ Records \in Seq(ClassKey) /\ Items \in Seq(Item)
      /\ holding.shares \subseteq Share
  BY <1>1 DEF Candidates, Records, Items
<1>3. \A n \in DOMAIN Records : Records[n] \in ClassKey
  BY <1>2
<1>4. \A n \in DOMAIN Items : Items[n] \in Item
  BY <1>2
<1> QED BY <1>2, <1>3, <1>4 DEF Share, ClassKey, Item

\* What can be recovered is a matter of the holding alone.
LEMMA SameHolding ==
  ASSUME UNCHANGED holding
  PROVE  /\ Candidates' = Candidates /\ Records' = Records /\ Items' = Items
         /\ Mine' = Mine /\ Recoverable' = Recoverable /\ Contained' = Contained
         /\ AllSound' = AllSound
<1>1. Candidates' = Candidates /\ Records' = Records /\ Items' = Items
  BY DEF Candidates, Records, Items
<1>2. Mine' = Mine
  BY <1>1 DEF Mine
<1>3. Recoverable' = Recoverable
  BY <1>1, <1>2 DEF Recoverable, Closed
<1>4. Contained' = Contained /\ AllSound' = AllSound
  BY <1>1, <1>3 DEF Contained, AllSound
<1> QED BY <1>1, <1>2, <1>3, <1>4

\* The TLKs shared with a saved identity can be recovered, and so can all below.
LEMMA MineIsRecoverable ==
  ASSUME TypeOK
  PROVE  Mine \subseteq Recoverable
<1>1. Mine \subseteq Name
  BY Shape DEF Mine
<1> QED BY <1>1 DEF Recoverable, Closed

LEMMA RecoverableIsClosed ==
  ASSUME TypeOK, NEW n \in DOMAIN Records, Records[n].parent \in Recoverable
  PROVE  Records[n].name \in Recoverable
<1>1. Records[n].name \in Name
  BY Shape
<1>2. ASSUME NEW s \in SUBSET Name, Closed(s) PROVE Records[n].name \in s
  BY <1>2 DEF Closed, Recoverable
<1> QED BY <1>1, <1>2 DEF Recoverable

LEMMA RecoverableIsLeast ==
  ASSUME NEW s \in SUBSET Name, Closed(s)
  PROVE  Recoverable \subseteq s
  BY DEF Recoverable

\* No share has been asked for before the first identity, and all of them after the last.
LEMMA SharesAreMine ==
  ASSUME TypeOK
  PROVE  /\ SharedBefore(1) = {}
         /\ index > Len(Candidates) => SharedBefore(index) = Mine
<1>1. SharedBefore(1) = {}
  BY Shape DEF SharedBefore
<1>2. ASSUME index > Len(Candidates) PROVE SharedBefore(index) = Mine
  <2>1. \A m \in DOMAIN Candidates : m < index
    BY <1>2, Shape DEF TypeOK
  <2> QED BY <2>1 DEF SharedBefore, Mine
<1> QED BY <1>1, <1>2

LEMMA ItemsAreContained ==
  ASSUME TypeOK
  PROVE  /\ FoundBefore(1) = {} /\ SoundBefore(1)
         /\ index > Len(Items) =>
              /\ FoundBefore(index) = Contained
              /\ SoundBefore(index) => AllSound
<1>1. FoundBefore(1) = {} /\ SoundBefore(1)
  BY Shape DEF FoundBefore, SoundBefore
<1>2. ASSUME index > Len(Items)
      PROVE  FoundBefore(index) = Contained /\ (SoundBefore(index) => AllSound)
  <2>1. \A m \in DOMAIN Items : m < index
    BY <1>2, Shape DEF TypeOK
  <2> QED BY <2>1 DEF FoundBefore, Contained, SoundBefore, AllSound
<1> QED BY <1>1, <1>2

-----------------------------------------------------------------------------
(* The invariant holds initially and every step preserves it *)

LEMMA First == 1 \in Nat \ {0} /\ FALSE \in BOOLEAN /\ TRUE \in BOOLEAN
  OBVIOUS

LEMMA InitIInv == Init => IInv
<1> SUFFICES ASSUME Init PROVE IInv
  OBVIOUS
<1>1. TypeOK
  <2>1. 0 \in 0..MaxRuns
    BY BoundAssumption
  <2> QED BY <2>1, First DEF Init, TypeOK, Labels
<1>2. RecoveryInv
  BY DEF Init, RecoveryInv
<1>3. FilesInv
  BY DEF Init, FilesInv
<1> QED BY <1>1, <1>2, <1>3 DEF IInv

LEMMA StartStep == IInv /\ Start => IInv'
<1> SUFFICES ASSUME IInv, Start PROVE IInv'
  OBVIOUS
<1>1. holding' \in Holdings \cup Later
  BY DEF Start, IInv, TypeOK
<1>2. runs' \in 0..MaxRuns
  BY BoundAssumption DEF Start, IInv, TypeOK
<1>3. TypeOK'
  BY <1>1, <1>2, First DEF IInv, TypeOK, Start, Labels
<1>4. holding'.candidates \in Seq(Candidate)
  BY <1>1, HoldingsAssumption
<1>5. \A m \in DOMAIN Candidates' : ~(m < 1)
  BY <1>4 DEF Candidates
<1>6. (SharedBefore(1))' = {}
  BY <1>5 DEF SharedBefore
<1>7. RecoveryInv'
  BY <1>6 DEF Start, RecoveryInv, SharedBefore
<1>8. FilesInv'
  BY DEF Start, FilesInv, IInv, TypeOK
<1> QED BY <1>3, <1>7, <1>8 DEF IInv

\* A command that fails leaves everything as it was.
LEMMA FailsStep ==
  ASSUME IInv, Fails
  PROVE  IInv'
<1>1. TypeOK'
  BY DEF IInv, TypeOK, Fails, Labels
<1>2. RecoveryInv'
  BY SameHolding DEF IInv, Fails, RecoveryInv
<1>3. FilesInv'
  BY SameHolding DEF IInv, FilesInv, Fails
<1> QED BY <1>1, <1>2, <1>3 DEF IInv

LEMMA FetchSharesStep == IInv /\ FetchShares => IInv'
<1> SUFFICES ASSUME IInv, FetchShares PROVE IInv'
  OBVIOUS
<1>1. TypeOK
  BY DEF IInv
<1>2. index \in DOMAIN Candidates
  BY <1>1, Shape DEF FetchShares, TypeOK
<1>3. TypeOK'
  BY <1>1, Shape DEF TypeOK, FetchShares, ForMe
<1>4. (SharedBefore(index))' = tlks'
  <2>1. SharedBefore(index + 1) =
          SharedBefore(index) \cup {s.tlk : s \in {t \in holding.shares : ForMe(t, index)}}
    <3>1. \A m \in DOMAIN Candidates : m < index + 1 <=> m < index \/ m = index
      BY <1>1, Shape DEF TypeOK
    <3> QED BY <1>2, <3>1 DEF SharedBefore, ForMe
  <2>2. (SharedBefore(index))' = SharedBefore(index + 1)
    BY SameHolding DEF SharedBefore, FetchShares
  <2> QED BY <2>1, <2>2 DEF FetchShares, IInv, RecoveryInv
<1>5. RecoveryInv'
  BY <1>4, SameHolding DEF IInv, FetchShares, RecoveryInv
<1>6. FilesInv'
  BY SameHolding DEF IInv, FilesInv, FetchShares
<1> QED BY <1>3, <1>5, <1>6 DEF IInv

LEMMA SharesFetchedStep == IInv /\ SharesFetched => IInv'
<1> SUFFICES ASSUME IInv, SharesFetched PROVE IInv'
  OBVIOUS
<1>1. TypeOK /\ tlks = Mine /\ tlks \subseteq Name
  BY SharesAreMine DEF IInv, RecoveryInv, SharesFetched, TypeOK
<1>2. TypeOK'
  <2>1. /\ pc' = "keys" /\ index' = 1 /\ keys' = tlks /\ progress' = FALSE
        /\ UNCHANGED <<holding, runs, tlks, found, files, before>>
    BY DEF SharesFetched, GoTo
  <2> QED BY <1>1, <2>1, First DEF TypeOK, Labels
<1>3. RecoveryInv'
  <2>1. \A n \in DOMAIN Records : ~(n < 1)
    BY <1>1, Shape
  <2>2. Mine \subseteq Recoverable /\ pc = "shares" /\ found = {}
    BY <1>1, MineIsRecoverable DEF IInv, RecoveryInv, SharesFetched
  <2> QED BY <1>1, <2>1, <2>2, SameHolding DEF RecoveryInv, SharesFetched, GoTo
<1>4. FilesInv'
  BY SameHolding DEF IInv, FilesInv, SharesFetched, GoTo
<1> QED BY <1>2, <1>3, <1>4 DEF IInv

LEMMA PassRecordStep == IInv /\ PassRecord => IInv'
<1> SUFFICES ASSUME IInv, PassRecord PROVE IInv'
  OBVIOUS
<1>1. TypeOK /\ pc = "keys" /\ index \in DOMAIN Records
  BY Shape DEF IInv, PassRecord, AtRecord, TypeOK
<1>2. TypeOK'
  BY <1>1 DEF TypeOK, PassRecord
<1>3. \A n \in DOMAIN Records : n < index + 1 <=> n < index \/ n = index
  BY <1>1, Shape DEF TypeOK
<1>4. RecoveryInv'
  BY <1>1, <1>3, SameHolding DEF IInv, RecoveryInv, PassRecord, Unwraps
<1>5. FilesInv'
  BY SameHolding DEF IInv, FilesInv, PassRecord
<1> QED BY <1>2, <1>4, <1>5 DEF IInv

LEMMA UnwrapRecordStep == IInv /\ UnwrapRecord => IInv'
<1> SUFFICES ASSUME IInv, UnwrapRecord PROVE IInv'
  OBVIOUS
<1>1. TypeOK /\ pc = "keys" /\ index \in DOMAIN Records
  BY Shape DEF IInv, UnwrapRecord, AtRecord, TypeOK
<1>2. Records[index].name \in Recoverable /\ Records[index].name \in Name
  BY <1>1, Shape, RecoverableIsClosed DEF IInv, RecoveryInv, UnwrapRecord, Unwraps
<1>3. TypeOK'
  BY <1>1, <1>2, First DEF TypeOK, UnwrapRecord
<1>4. RecoveryInv'
  BY <1>1, <1>2, SameHolding DEF IInv, RecoveryInv, UnwrapRecord
<1>5. FilesInv'
  BY SameHolding DEF IInv, FilesInv, UnwrapRecord
<1> QED BY <1>3, <1>4, <1>5 DEF IInv

\* A round that unwraps nothing has everything that can be recovered.
LEMMA KeyRoundStep == IInv /\ KeyRound => IInv'
<1> SUFFICES ASSUME IInv, KeyRound PROVE IInv'
  OBVIOUS
<1>1. /\ TypeOK /\ pc = "keys" /\ index' = 1 /\ progress' = FALSE
      /\ pc' = IF progress THEN "keys" ELSE "items"
      /\ UNCHANGED <<holding, runs, tlks, keys, found, files, before>>
  BY DEF IInv, KeyRound, GoTo, Stuck
<1>2. TypeOK'
  BY <1>1, First DEF TypeOK, Labels
<1>3. FilesInv'
  BY <1>1, SameHolding DEF IInv, FilesInv
<1>4. CASE progress
  <2>1. pc' = "keys"
    BY <1>1, <1>4
  <2>2. \A n \in DOMAIN Records : ~(n < 1)
    BY <1>1, Shape
  <2>3. RecoveryInv'
    BY <1>1, <2>1, <2>2, SameHolding DEF IInv, RecoveryInv
  <2> QED BY <1>2, <1>3, <2>3 DEF IInv
<1>5. CASE ~progress
  <2>1. Closed(keys)
    <3>1. \A n \in DOMAIN Records : n < index
      BY <1>1, Shape DEF KeyRound, TypeOK
    <3> QED BY <1>1, <1>5, <3>1 DEF IInv, RecoveryInv, Closed
  <2>2. keys = Recoverable
    BY <1>1, <2>1, RecoverableIsLeast DEF IInv, RecoveryInv, TypeOK
  <2>3. pc' = "items"
    BY <1>1, <1>5
  <2>4. found = {}
    BY <1>1 DEF IInv, RecoveryInv
  <2>5. RecoveryInv'
    BY <1>1, <2>2, <2>3, <2>4, SameHolding, ItemsAreContained
    DEF RecoveryInv, FoundBefore, SoundBefore
  <2> QED BY <1>2, <1>3, <2>5 DEF IInv
<1> QED BY <1>4, <1>5

LEMMA PassItemStep == IInv /\ PassItem => IInv'
<1> SUFFICES ASSUME IInv, PassItem PROVE IInv'
  OBVIOUS
<1>1. TypeOK /\ pc = "items" /\ index \in DOMAIN Items /\ keys = Recoverable
  BY Shape DEF IInv, PassItem, AtItem, TypeOK, RecoveryInv
<1>2. TypeOK'
  BY <1>1 DEF TypeOK, PassItem
<1>3. \A m \in DOMAIN Items : m < index + 1 <=> m < index \/ m = index
  BY <1>1, Shape DEF TypeOK
<1>4. (FoundBefore(index))' = FoundBefore(index) /\ (SoundBefore(index) => (SoundBefore(index))')
  BY <1>1, <1>3, SameHolding DEF PassItem, FoundBefore, SoundBefore
<1>5. RecoveryInv'
  BY <1>1, <1>4, SameHolding DEF IInv, RecoveryInv, PassItem
<1>6. FilesInv'
  BY <1>1, SameHolding DEF IInv, FilesInv, PassItem
<1> QED BY <1>2, <1>5, <1>6 DEF IInv

LEMMA OpenItemStep == IInv /\ OpenItem => IInv'
<1> SUFFICES ASSUME IInv, OpenItem PROVE IInv'
  OBVIOUS
<1>1. TypeOK /\ pc = "items" /\ index \in DOMAIN Items /\ keys = Recoverable
  BY Shape DEF IInv, OpenItem, AtItem, TypeOK, RecoveryInv
<1>2. TypeOK'
  <2>1. IdentityIn(Items[index]) \subseteq Identity
    BY <1>1, Shape DEF IdentityIn
  <2> QED BY <1>1, <2>1 DEF TypeOK, OpenItem
<1>3. \A m \in DOMAIN Items : m < index + 1 <=> m < index \/ m = index
  BY <1>1, Shape DEF TypeOK
<1>4. (FoundBefore(index))' = FoundBefore(index) \cup IdentityIn(Items[index])
  BY <1>1, <1>3, SameHolding DEF OpenItem, FoundBefore, IdentityIn
<1>5. SoundBefore(index) => (SoundBefore(index))'
  BY <1>1, <1>3, SameHolding DEF OpenItem, SoundBefore, Authentic
<1>6. RecoveryInv'
  BY <1>1, <1>4, <1>5, SameHolding DEF IInv, RecoveryInv, OpenItem
<1>7. FilesInv'
  BY <1>1, SameHolding DEF IInv, FilesInv, OpenItem
<1> QED BY <1>2, <1>6, <1>7 DEF IInv

LEMMA ItemsOpenedStep == IInv /\ ItemsOpened => IInv'
<1> SUFFICES ASSUME IInv, ItemsOpened PROVE IInv'
  OBVIOUS
<1>1. /\ TypeOK /\ pc = "items" /\ index > Len(Items) /\ found # {}
      /\ pc' = "save" /\ index' = 1
      /\ UNCHANGED <<holding, runs, progress, tlks, keys, found, files, before>>
  BY DEF IInv, ItemsOpened, GoTo
<1>2. TypeOK'
  BY <1>1, First DEF TypeOK, Labels
<1>3. found = Contained /\ AllSound /\ keys = Recoverable
  BY <1>1, ItemsAreContained DEF IInv, RecoveryInv
<1>4. RecoveryInv'
  BY <1>1, <1>3, SameHolding DEF RecoveryInv
<1>5. FilesInv'
  BY <1>1, SameHolding DEF IInv, FilesInv
<1> QED BY <1>2, <1>4, <1>5 DEF IInv

LEMMA SaveStep == IInv /\ Save => IInv'
<1> SUFFICES ASSUME IInv, Save PROVE IInv'
  OBVIOUS
<1>1. /\ TypeOK /\ pc = "save" /\ found = Contained /\ AllSound
      /\ UNCHANGED <<holding, pc, runs, index, progress, tlks, keys, found, before>>
  BY DEF IInv, RecoveryInv, Save
<1>2. PICK i \in found \ files : files' = files \cup {i}
  BY DEF Save, SavedWith
<1>3. TypeOK'
  BY <1>1, <1>2 DEF TypeOK
<1>4. RecoveryInv'
  BY <1>1, SameHolding DEF IInv, RecoveryInv
<1>5. FilesInv'
  BY <1>1, <1>2, SameHolding DEF IInv, FilesInv
<1> QED BY <1>3, <1>4, <1>5 DEF IInv

LEMMA DoneStep == IInv /\ Done => IInv'
<1> SUFFICES ASSUME IInv, Done PROVE IInv'
  OBVIOUS
<1>1. TypeOK'
  BY DEF IInv, TypeOK, Done, Labels
<1>2. RecoveryInv'
  BY SameHolding DEF IInv, RecoveryInv, Done
<1>3. FilesInv'
  BY SameHolding DEF IInv, FilesInv, Done, SavedAll
<1> QED BY <1>1, <1>2, <1>3 DEF IInv

LEMMA StutterStep == IInv /\ UNCHANGED vars => IInv'
<1> SUFFICES ASSUME IInv, UNCHANGED vars PROVE IInv'
  OBVIOUS
<1>1. TypeOK'
  BY DEF IInv, TypeOK, vars
<1>2. /\ (SharedBefore(index))' = SharedBefore(index)
      /\ (FoundBefore(index))' = FoundBefore(index)
      /\ SoundBefore(index) => (SoundBefore(index))'
  BY SameHolding DEF SharedBefore, FoundBefore, SoundBefore, vars
<1>3. RecoveryInv'
  BY <1>2, SameHolding DEF IInv, RecoveryInv, vars
<1>4. FilesInv'
  BY SameHolding DEF IInv, FilesInv, vars
<1> QED BY <1>1, <1>3, <1>4 DEF IInv

LEMMA NextIInv == IInv /\ [Next]_vars => IInv'
  BY StartStep, FailsStep, FetchSharesStep, SharesFetchedStep, PassRecordStep,
     UnwrapRecordStep, KeyRoundStep, PassItemStep, OpenItemStep, ItemsOpenedStep, SaveStep,
     DoneStep, StutterStep
  DEF Next, NoKeys, BrokenRecord, BrokenItem, NothingFound, Interrupt

\* The strengthened invariant holds in every reachable state.
THEOREM Inductive == Spec => []IInv
  BY InitIInv, NextIInv, PTL DEF Spec

-----------------------------------------------------------------------------
(* What follows *)

\* Every variable keeps its type, for any holdings and any number of runs.
THEOREM TypeCorrect == Spec => []TypeOK
<1>1. IInv => TypeOK
  BY DEF IInv
<1> QED BY <1>1, Inductive, PTL

\* The keys used are those below the TLKs shared with a saved identity, and all of
\* them once items are opened (Archive::recover_keys of ckks.rs).
THEOREM KeysInAnyOrder == Spec => []KeysAreRecoverable
<1>1. IInv => KeysAreRecoverable
  BY DEF IInv, RecoveryInv, KeysAreRecoverable
<1> QED BY <1>1, Inductive, PTL

\* A run that reports success has saved every PCS identity that can be recovered
\* (recover_safari_keys of bin/icloud-safari.rs).
THEOREM SuccessIsComplete == Spec => []DoneIsComplete
<1>1. IInv => DoneIsComplete
  BY DEF IInv, RecoveryInv, FilesInv, DoneIsComplete
<1> QED BY <1>1, Inductive, PTL

\* What a run adds to the files are authenticated identities, and it loses none
\* (recover_safari_keys of bin/icloud-safari.rs).
THEOREM FilesAreTrustworthy == Spec => []FilesAreAuthentic
<1>1. IInv => FilesAreAuthentic
  BY DEF IInv, FilesInv, FilesAreAuthentic, AllSound
<1> QED BY <1>1, Inductive, PTL
=============================================================================
