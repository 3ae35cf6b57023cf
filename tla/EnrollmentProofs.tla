-------------------------- MODULE EnrollmentProofs --------------------------
(***************************************************************************)
(* Proofs about Enrollment, for every set of commands, bottles and peers   *)
(* and without the bounds that TLC needs to be small.                      *)
(***************************************************************************)
EXTENDS Enrollment, TLAPS

-----------------------------------------------------------------------------
(* The inductive invariant *)

\* flock: a command that is running holds the lock, so only one is.
LockInv == \A p \in Proc : pc[p] # "idle" <=> lock = p

Buying   == {"loadLogin", "saveLogin", "archive", "mark", "recover"}
Fresh    == Buying \cup {"failed", "keep", "load2", "save2", "prepare",
                         "savePending"}
Settled  == {"refresh", "bind", "load3", "save3", "check", "send", "await",
             "confirm", "bindJoined"}
Drafted  == Settled \cup {"saveRefresh", "saveJoined"}
Planning == Fresh \cup Drafted \cup {"load1", "save1", "plan"}

\* What the running command has in memory, at each point.
MemoryInv(p) ==
  /\ pc[p] \in Planning => opts[p] \in Options
  /\ pc[p] \in {"save0", "save1", "saveLogin", "save2", "save3", "save4", "plan"}
       => sess[p] = octagon
  /\ pc[p] = "savePending" => /\ draft[p] \in Draft
                              /\ draft[p].epoch <= trust.epoch
                              /\ ~draft[p].joined
  /\ pc[p] \in Drafted => draft[p] \in Draft /\ pending \in Draft
                          /\ SameIdentity(draft[p], pending)
  /\ pc[p] \in Settled => draft[p] = pending
  /\ pc[p] = "saveRefresh" => /\ pending.epoch <= draft[p].epoch
                              /\ draft[p].epoch <= trust.epoch
                              /\ ~pending.joined /\ ~draft[p].joined
  /\ pc[p] = "saveJoined" => /\ pending.epoch = draft[p].epoch
                             /\ draft[p].joined
                             /\ draft[p].peer \in admitted

\* How far the purchase of the entropy has come, at each point.
PurchaseInv(p) ==
  /\ pc[p] \in Fresh => pending = None
  /\ pc[p] \in Buying => /\ recovery = None
                         /\ attempt # None => attempt = opts[p].bottle
                         /\ spent <= authorised
  /\ pc[p] \in {"mark", "recover"} => spent <= history
  /\ pc[p] \in {"recover", "failed", "keep"} => attempt = opts[p].bottle
  /\ pc[p] \in {"failed", "keep"} => recovery = None
  /\ pc[p] = "keep" => spent > 0
  /\ pc[p] \in {"load2", "save2", "prepare", "savePending"} => recovery # None

\* The trust circle only moves on after a command has begun.
BeganInv(p) ==
  /\ pc[p] # "idle" => /\ began[p] \in Trust
                       /\ began[p].epoch <= trust.epoch
                       /\ began[p].revoked \subseteq trust.revoked
                       /\ began[p].excluded \subseteq trust.excluded
  /\ pc[p] = "send" => /\ began[p].epoch <= draft[p].epoch
                       /\ draft[p].bottle \notin began[p].revoked
                       /\ draft[p].peer \notin began[p].excluded

\* What the files and the servers agree on, wherever the command is.
FilesInv ==
  /\ AttemptsAuthorised
  /\ AttemptsRecorded
  /\ AttemptsOnMarkedBottle
  /\ attempt = None => spent = 0
  /\ SavedBeforeSent
  /\ SessionMatchesPending
  /\ JoinedWasAdmitted
  /\ pending # None => pending.epoch <= trust.epoch
  /\ listed \subseteq admitted

StatusInv ==
  /\ StatusConsistent
  /\ status.seen # None => pending # None /\ SameIdentity(status.seen, pending)

IInv ==
  /\ TypeOK
  /\ LockInv
  /\ \A p \in Proc : MemoryInv(p) /\ PurchaseInv(p) /\ BeganInv(p)
  /\ FilesInv
  /\ StatusInv

-----------------------------------------------------------------------------
(* It holds initially and every step preserves it *)

LEMMA NoneIsNoRecord == None \notin Draft /\ None \notin Options /\ None \notin Trust
  BY NoneAssumption

LEMMA NoneIsNoName == None \notin Proc /\ None \notin Bottle /\ None \notin Peer
  BY NoneAssumption

\* The fields of a draft, and what joining and rebasing change.
LEMMA DraftFields ==
  ASSUME NEW d \in Draft
  PROVE  /\ d.bottle \in Bottle /\ d.peer \in Peer
         /\ d.epoch \in Nat /\ d.joined \in BOOLEAN
  BY DEF Draft

LEMMA JoinedFields ==
  ASSUME NEW d \in Draft
  PROVE  /\ Joined(d) \in Draft /\ SameIdentity(Joined(d), d)
         /\ Joined(d).epoch = d.epoch /\ Joined(d).joined
  BY DEF Draft, Joined, SameIdentity

LEMMA RebasedFields ==
  ASSUME NEW d \in Draft, trust \in Trust
  PROVE  /\ Rebased(d) \in Draft /\ SameIdentity(Rebased(d), d)
         /\ Rebased(d).epoch = trust.epoch /\ (Rebased(d).joined <=> d.joined)
  BY DEF Draft, Trust, Rebased, SameIdentity

LEMMA OptionsFields ==
  ASSUME NEW o \in Options
  PROVE  o.bottle \in Bottle
  BY DEF Options

LEMMA InitIInv == Init => IInv
  BY BoundsAssumption, NoneAssumption
  DEF Init, IInv, TypeOK, LockInv, MemoryInv, PurchaseInv, BeganInv, FilesInv,
      StatusInv, Labels, Trust, Planning, Fresh, Buying, Drafted, Settled,
      AttemptsAuthorised, AttemptsRecorded, AttemptsOnMarkedBottle,
      SavedBeforeSent, SessionMatchesPending, JoinedWasAdmitted, StatusConsistent

\* A step that leaves files and servers alone leaves what they agree on.
LEMMA FilesFrame ==
  ASSUME FilesInv, UNCHANGED <<files, circle, escrow>>
  PROVE  FilesInv'
  BY DEF FilesInv, files, circle, escrow, AttemptsAuthorised, AttemptsRecorded,
         AttemptsOnMarkedBottle, SavedBeforeSent, SessionMatchesPending,
         JoinedWasAdmitted, SameIdentity

LEMMA StatusFrame ==
  ASSUME StatusInv, UNCHANGED <<status, pending>>
  PROVE  StatusInv'
  BY DEF StatusInv, StatusConsistent, SameIdentity

\* The invariant after a step of the command p, from its parts: no other
\* command is running.
LEMMA Compose ==
  ASSUME NEW p \in Proc, LockInv,
         lock = p \/ lock = None, lock' = p, pc'[p] # "idle",
         \A q \in Proc \ {p} : pc'[q] = pc[q],
         TypeOK', MemoryInv(p)', PurchaseInv(p)', BeganInv(p)', FilesInv', StatusInv'
  PROVE  IInv'
<1>1. \A q \in Proc \ {p} : pc'[q] = "idle"
  BY NoneIsNoName DEF LockInv
<1>2. LockInv'
  BY <1>1 DEF LockInv
<1>3. \A q \in Proc : MemoryInv(q)' /\ PurchaseInv(q)' /\ BeganInv(q)'
  BY <1>1 DEF MemoryInv, PurchaseInv, BeganInv, Planning, Fresh, Buying, Drafted,
              Settled
<1> QED
  BY <1>2, <1>3 DEF IInv

\* However a command ends, no other is running and the rest is as it was.
LEMMA ExitKeepsIInv ==
  ASSUME IInv, NEW p \in Proc, pc[p] # "idle", Exit(p),
         UNCHANGED <<files, status, circle, escrow, minted>>
  PROVE  IInv'
<1>1. TypeOK'
  BY DEF IInv, TypeOK, Labels, Exit, files, circle, escrow
<1>2. lock' = None /\ \A q \in Proc : pc'[q] = "idle"
  BY NoneIsNoName DEF IInv, TypeOK, LockInv, Exit
<1>3. LockInv'
  BY <1>2, NoneIsNoName DEF LockInv
<1>4. \A q \in Proc : MemoryInv(q)' /\ PurchaseInv(q)' /\ BeganInv(q)'
  BY <1>2 DEF MemoryInv, PurchaseInv, BeganInv, Planning, Fresh, Buying, Drafted,
              Settled
<1>5. FilesInv' /\ StatusInv'
  BY FilesFrame, StatusFrame DEF IInv, files
<1> QED
  BY <1>1, <1>3, <1>4, <1>5 DEF IInv

\* The steps of the command p that do not end it.
Step(p) ==
  \/ \E o \in Options : Enroll(p, o)
  \/ OtherCommand(p) \/ Load(p) \/ Save(p) \/ Resume(p) \/ ReuseRecovery(p) \/
     PlanAttempt(p) \/ Archive(p) \/ Mark(p) \/ RecoverBottle(p) \/
     RecoverRefused(p) \/ RecoverUnsent(p) \/ KeepRecovery(p) \/ Prepare(p) \/
     SavePending(p) \/ KeepDraft(p) \/ Refresh(p) \/ SaveRefresh(p) \/ Bind(p)
     \/ Reconcile(p) \/ Check(p) \/ Send(p) \/ Answered(p) \/ Confirm(p) \/
     SaveJoined(p) \/ BindJoined(p)

LEMMA StepKeepsType ==
  ASSUME IInv, NEW p \in Proc, Step(p)
  PROVE  TypeOK'
<1>0. TypeOK /\ MemoryInv(p) /\ (pc[p] \in Planning => opts[p].bottle \in Bottle)
  BY OptionsFields DEF IInv, MemoryInv
<1> USE <1>0 DEF TypeOK, Labels, Goto, files, memory, circle, escrow
<1>1. ASSUME NEW o \in Options, Enroll(p, o)
      PROVE  TypeOK'
  BY <1>1 DEF Enroll, Begin
<1>2. CASE OtherCommand(p)
  BY <1>2 DEF OtherCommand, Begin
<1>3. CASE Load(p)
  BY <1>3 DEF Load, AfterLoad
<1>4. CASE Save(p)
  BY <1>4 DEF Save, AfterSave
<1>5. CASE Resume(p)
  BY <1>5 DEF Resume
<1>6. CASE ReuseRecovery(p)
  BY <1>6 DEF ReuseRecovery
<1>7. CASE PlanAttempt(p)
  BY <1>7 DEF PlanAttempt
<1>8. CASE Archive(p)
  BY <1>8 DEF Archive
<1>9. CASE Mark(p)
  BY <1>9 DEF Mark, Planning, Fresh, Buying
<1>10. CASE RecoverBottle(p)
  BY <1>10 DEF RecoverBottle, CountAttempt, Planning, Fresh, Buying
<1>11. CASE RecoverRefused(p)
  BY <1>11 DEF RecoverRefused, CountAttempt, Planning, Fresh, Buying
<1>12. CASE RecoverUnsent(p)
  BY <1>12 DEF RecoverUnsent
<1>13. CASE KeepRecovery(p)
  BY <1>13 DEF KeepRecovery, Planning, Fresh, Buying
<1>14. CASE Prepare(p)
  BY <1>14 DEF Prepare, Planning, Fresh, Buying, Draft, Trust
<1>15. CASE SavePending(p)
  BY <1>15 DEF SavePending, MemoryInv, Drafted, Settled
<1>16. CASE KeepDraft(p)
  BY <1>16 DEF KeepDraft
<1>17. CASE Refresh(p)
  BY <1>17, DraftFields, RebasedFields DEF Refresh, MemoryInv, Drafted,
     Settled
<1>18. CASE SaveRefresh(p)
  BY <1>18 DEF SaveRefresh, MemoryInv, Drafted, Settled
<1>19. CASE Bind(p)
  BY <1>19 DEF Bind, MemoryInv, Drafted, Settled
<1>20. CASE Reconcile(p)
  BY <1>20, DraftFields, JoinedFields DEF Reconcile, MemoryInv, Drafted,
     Settled
<1>21. CASE Check(p)
  BY <1>21 DEF Check
<1>22. CASE Send(p)
  BY <1>22 DEF Send, MemoryInv, Drafted, Settled
<1>23. CASE Answered(p)
  BY <1>23 DEF Answered
<1>24. CASE Confirm(p)
  BY <1>24, DraftFields, JoinedFields DEF Confirm, MemoryInv, Drafted, Settled
<1>25. CASE SaveJoined(p)
  BY <1>25 DEF SaveJoined, MemoryInv, Drafted, Settled
<1>26. CASE BindJoined(p)
  BY <1>26 DEF BindJoined, MemoryInv, Drafted, Settled
<1> QED
  BY <1>1, <1>2, <1>3, <1>4, <1>5, <1>6, <1>7, <1>8, <1>9, <1>10, <1>11,
     <1>12, <1>13, <1>14, <1>15, <1>16, <1>17, <1>18, <1>19, <1>20, <1>21,
     <1>22, <1>23, <1>24, <1>25, <1>26 DEF Step

LEMMA StepKeepsIInv ==
  ASSUME IInv, NEW p \in Proc, Step(p)
  PROVE  IInv'
<1> DEFINE Parts == /\ lock \in {p, None} /\ lock' = p /\ pc'[p] # "idle"
                    /\ \A q \in Proc \ {p} : pc'[q] = pc[q]
                    /\ MemoryInv(p)' /\ PurchaseInv(p)' /\ BeganInv(p)'
                    /\ FilesInv' /\ StatusInv'
<1>0. /\ TypeOK /\ LockInv /\ MemoryInv(p) /\ PurchaseInv(p) /\ BeganInv(p)
      /\ FilesInv /\ StatusInv /\ TypeOK'
  BY StepKeepsType DEF IInv
<1> USE <1>0, NoneIsNoRecord, NoneIsNoName
    DEF TypeOK, LockInv, MemoryInv, PurchaseInv, BeganInv,
        Planning, Fresh, Buying, Drafted, Settled, SameIdentity, Goto,
        files, memory, circle, escrow
<1>1. ASSUME NEW o \in Options, Enroll(p, o)
      PROVE  Parts
  <2>1. BeganInv(p)' /\ opts'[p] = o /\ pc'[p] = "load1"
    BY <1>1 DEF Enroll, Begin, Trust
  <2>2. FilesInv' /\ StatusInv'
    BY <1>1, FilesFrame, StatusFrame DEF Enroll, Begin
  <2> QED
    BY <1>1, <2>1, <2>2 DEF Enroll, Begin, LockFree
<1>2. ASSUME OtherCommand(p) PROVE Parts
  <2>1. BeganInv(p)' /\ pc'[p] = "load0"
    BY <1>2 DEF OtherCommand, Begin, Trust
  <2>2. FilesInv' /\ StatusInv'
    BY <1>2, FilesFrame, StatusFrame DEF OtherCommand, Begin
  <2> QED
    BY <1>2, <2>1, <2>2 DEF OtherCommand, Begin, LockFree
<1>3. ASSUME Load(p) PROVE Parts
  BY <1>3, SMTT(20), FilesFrame, StatusFrame DEF Load, AfterLoad, FilesInv,
     SessionMatchesPending
<1>4. ASSUME Save(p) PROVE Parts
  BY <1>4, SMTT(20) DEF Save, AfterSave, FilesInv, StatusInv,
     StatusConsistent, AttemptsAuthorised, AttemptsRecorded,
     AttemptsOnMarkedBottle, SavedBeforeSent, SessionMatchesPending,
     JoinedWasAdmitted
<1>5. ASSUME Resume(p) PROVE Parts
  BY <1>5, SMTT(20), FilesFrame, StatusFrame DEF Resume, CanResume,
     ValidPending, FilesInv, SessionMatchesPending
<1>6. ASSUME ReuseRecovery(p) PROVE Parts
  <2>1. FilesInv' /\ StatusInv'
    BY <1>6, FilesFrame, StatusFrame DEF ReuseRecovery
  <2>2. PurchaseInv(p)'
    BY <1>6, OptionsFields DEF ReuseRecovery, CanReuse
  <2> QED
    BY <1>6, <2>1, <2>2 DEF ReuseRecovery
<1>7. ASSUME PlanAttempt(p) PROVE Parts
  BY <1>7, SMTT(20) DEF PlanAttempt, CanAttempt, FilesInv, StatusInv,
     StatusConsistent, AttemptsAuthorised, AttemptsRecorded,
     AttemptsOnMarkedBottle, SavedBeforeSent, SessionMatchesPending,
     JoinedWasAdmitted
<1>8. ASSUME Archive(p) PROVE Parts
  BY <1>8, SMTT(20) DEF Archive, FilesInv, StatusInv, StatusConsistent,
     AttemptsAuthorised, AttemptsRecorded, AttemptsOnMarkedBottle,
     SavedBeforeSent, SessionMatchesPending, JoinedWasAdmitted
<1>9. ASSUME Mark(p) PROVE Parts
  BY <1>9, SMTT(20) DEF Mark, FilesInv, StatusInv, StatusConsistent,
     AttemptsAuthorised, AttemptsRecorded, AttemptsOnMarkedBottle,
     SavedBeforeSent, SessionMatchesPending, JoinedWasAdmitted
<1>10. ASSUME RecoverBottle(p) PROVE Parts
  BY <1>10, SMTT(20) DEF RecoverBottle, CountAttempt, FilesInv, StatusInv,
     StatusConsistent, AttemptsAuthorised, AttemptsRecorded,
     AttemptsOnMarkedBottle, SavedBeforeSent, SessionMatchesPending,
     JoinedWasAdmitted
<1>11. ASSUME RecoverRefused(p) PROVE Parts
  BY <1>11, SMTT(20) DEF RecoverRefused, CountAttempt, FilesInv, StatusInv,
     StatusConsistent, AttemptsAuthorised, AttemptsRecorded,
     AttemptsOnMarkedBottle, SavedBeforeSent, SessionMatchesPending,
     JoinedWasAdmitted
<1>12. ASSUME RecoverUnsent(p) PROVE Parts
  BY <1>12, SMTT(20), FilesFrame, StatusFrame DEF RecoverUnsent
<1>13. ASSUME KeepRecovery(p) PROVE Parts
  BY <1>13, SMTT(20) DEF KeepRecovery, FilesInv, StatusInv, StatusConsistent,
     AttemptsAuthorised, AttemptsRecorded, AttemptsOnMarkedBottle,
     SavedBeforeSent, SessionMatchesPending, JoinedWasAdmitted
<1>14. ASSUME Prepare(p) PROVE Parts
  BY <1>14, SMTT(20), FilesFrame, StatusFrame DEF Prepare, TrustsSponsor,
     Draft, Options, Trust, FilesInv, SessionMatchesPending
<1>15. ASSUME SavePending(p) PROVE Parts
  BY <1>15, SMTT(20) DEF SavePending, FilesInv, StatusInv, StatusConsistent,
     AttemptsAuthorised, AttemptsRecorded, AttemptsOnMarkedBottle,
     SavedBeforeSent, SessionMatchesPending, JoinedWasAdmitted
<1>16. ASSUME KeepDraft(p) PROVE Parts
  BY <1>16, SMTT(20), FilesFrame, StatusFrame DEF KeepDraft
<1>17. ASSUME Refresh(p) PROVE Parts
  <2>1. FilesInv' /\ StatusInv'
    BY <1>17, FilesFrame, StatusFrame DEF Refresh
  <2>2. draft'[p] = Rebased(draft[p]) /\ draft[p] = pending /\ pending \in Draft
    BY <1>17 DEF Refresh
  <2>3. pending.epoch <= trust.epoch /\ trust.epoch \in Nat
    BY <2>2 DEF FilesInv, Trust
  <2>4. MemoryInv(p)'
    <3>1. /\ draft'[p] \in Draft /\ SameIdentity(draft'[p], pending)
          /\ draft'[p].epoch = trust.epoch /\ ~draft'[p].joined /\ ~pending.joined
      BY <1>17, <2>2, RebasedFields DEF Refresh, CanRefresh
    <3>2. pc'[p] = "saveRefresh" /\ trust' = trust /\ pending' = pending
      BY <1>17 DEF Refresh
    <3>3. opts'[p] \in Options
      BY <1>17 DEF Refresh
    <3> HIDE DEF TypeOK, LockInv, PurchaseInv, BeganInv
    <3> QED
      BY <2>2, <2>3, <3>1, <3>2, <3>3
  <2> QED
    BY <1>17, <2>1, <2>4 DEF Refresh
<1>18. ASSUME SaveRefresh(p) PROVE Parts
  <2>1. FilesInv'
    <3>1. SavedBeforeSent'
      BY <1>18, DraftFields DEF SaveRefresh, FilesInv, SavedBeforeSent
    <3> QED
      BY <1>18, <3>1 DEF SaveRefresh, FilesInv, AttemptsAuthorised, AttemptsRecorded,
         AttemptsOnMarkedBottle, SessionMatchesPending, JoinedWasAdmitted
  <2>2. StatusInv'
    BY <1>18 DEF SaveRefresh, StatusInv, StatusConsistent
  <2> QED
    BY <1>18, <2>1, <2>2 DEF SaveRefresh
<1>19. ASSUME Bind(p) PROVE Parts
  BY <1>19, SMTT(20) DEF Bind, FilesInv, StatusInv, StatusConsistent,
     AttemptsAuthorised, AttemptsRecorded, AttemptsOnMarkedBottle,
     SavedBeforeSent, SessionMatchesPending, JoinedWasAdmitted
<1>20. ASSUME Reconcile(p) PROVE Parts
  BY <1>20, SMTT(20), DraftFields, JoinedFields, FilesFrame, StatusFrame DEF
     Reconcile, FilesInv, SessionMatchesPending
<1>21. ASSUME Check(p) PROVE Parts
  BY <1>21, SMTT(20), FilesFrame, StatusFrame DEF Check, CanSend,
     DraftIsCurrent, TrustsSponsor, Trust, FilesInv, SessionMatchesPending
<1>22. ASSUME Send(p) PROVE Parts
  <2>1. SavedBeforeSent'
    BY <1>22, DraftFields DEF Send, FilesInv, SavedBeforeSent
  <2>2. FilesInv'
    BY <1>22, <2>1 DEF Send, FilesInv, AttemptsAuthorised, AttemptsRecorded,
       AttemptsOnMarkedBottle, SessionMatchesPending, JoinedWasAdmitted
  <2>3. StatusInv'
    BY <1>22, StatusFrame DEF Send
  <2> QED
    BY <1>22, <2>2, <2>3 DEF Send
<1>23. ASSUME Answered(p) PROVE Parts
  BY <1>23, SMTT(20), FilesFrame, StatusFrame DEF Answered
<1>24. ASSUME Confirm(p) PROVE Parts
  BY <1>24, SMTT(20), DraftFields, JoinedFields, FilesFrame, StatusFrame DEF
     Confirm, FilesInv, SessionMatchesPending
<1>25. ASSUME SaveJoined(p) PROVE Parts
  BY <1>25, SMTT(20) DEF SaveJoined, FilesInv, StatusInv, StatusConsistent,
     AttemptsAuthorised, AttemptsRecorded, AttemptsOnMarkedBottle,
     SavedBeforeSent, SessionMatchesPending, JoinedWasAdmitted
<1>26. ASSUME BindJoined(p) PROVE Parts
  BY <1>26, SMTT(20) DEF BindJoined, FilesInv, StatusInv, StatusConsistent,
     AttemptsAuthorised, AttemptsRecorded, AttemptsOnMarkedBottle,
     SavedBeforeSent, SessionMatchesPending, JoinedWasAdmitted
<1>27. Parts
  BY <1>1, <1>2, <1>3, <1>4, <1>5, <1>6, <1>7, <1>8, <1>9, <1>10, <1>11,
     <1>12, <1>13, <1>14, <1>15, <1>16, <1>17, <1>18, <1>19, <1>20, <1>21,
     <1>22, <1>23, <1>24, <1>25, <1>26 DEF Step
<1> QED
  BY <1>0, <1>27, Compose

LEMMA CommandKeepsIInv ==
  ASSUME IInv, NEW p \in Proc,
         \/ \E o \in Options : Enroll(p, o)
         \/ OtherCommand(p) \/ Command(p) \/ Interrupt(p)
  PROVE  IInv'
<1>1. CASE Step(p)
  BY <1>1, StepKeepsIInv
<1>2. CASE Done(p) \/ Refuse(p) \/ Interrupt(p)
  <2>1. pc[p] # "idle"
    BY <1>2 DEF Done, Refuse, MustRefuse, Interrupt
  <2> QED
    BY <1>2, <2>1, ExitKeepsIInv DEF Done, Refuse, Interrupt
<1>3. CASE RecordFailure(p)
  <2>1. pc[p] # "idle" /\ attempt' = attempt
    BY <1>3 DEF IInv, RecordFailure, PurchaseInv
  <2> QED
    BY <1>3, <2>1, ExitKeepsIInv DEF RecordFailure, files
<1> QED
  BY <1>1, <1>2, <1>3 DEF Command, Step

\* A step that leaves the commands and the lock alone.
LEMMA OutsideKeepsIInv ==
  ASSUME IInv, UNCHANGED <<lock, files, pc, memory, escrow, minted>>,
         TypeOK', FilesInv', StatusInv', admitted \subseteq admitted',
         trust.epoch <= trust'.epoch, trust.revoked \subseteq trust'.revoked,
         trust.excluded \subseteq trust'.excluded
  PROVE  IInv'
<1> USE DEF IInv, TypeOK, files, memory, escrow
<1>1. LockInv' /\ \A p \in Proc : PurchaseInv(p)'
  BY DEF LockInv, PurchaseInv
<1>2. \A p \in Proc : MemoryInv(p)'
  <2> SUFFICES ASSUME NEW p \in Proc
               PROVE  MemoryInv(p)'
    OBVIOUS
  <2>1. draft[p] \in Draft => draft[p].epoch \in Nat
    BY DraftFields
  <2>2. trust.epoch \in Nat /\ trust'.epoch \in Nat
    BY DEF Trust
  <2>3. MemoryInv(p)
    OBVIOUS
  <2>4. pc[p] = "savePending" => draft[p].epoch <= trust'.epoch
    BY <2>1, <2>2, <2>3 DEF MemoryInv
  <2>5. pc[p] = "saveRefresh" => draft[p].epoch <= trust'.epoch
    BY <2>1, <2>2, <2>3 DEF MemoryInv, Drafted
  <2> QED
    BY <2>3, <2>4, <2>5 DEF MemoryInv, SameIdentity
<1>3. \A p \in Proc : BeganInv(p)'
  <2> SUFFICES ASSUME NEW p \in Proc
               PROVE  BeganInv(p)'
    OBVIOUS
  <2>1. BeganInv(p) /\ (began[p] \in Trust => began[p].epoch \in Nat)
    BY DEF Trust
  <2>2. trust.epoch \in Nat /\ trust'.epoch \in Nat
    BY DEF Trust
  <2> QED
    BY <2>1, <2>2 DEF BeganInv
<1> QED
  BY <1>1, <1>2, <1>3

LEMMA StatusKeepsIInv ==
  ASSUME IInv, StatusReadSession \/ StatusReadPending
  PROVE  IInv'
<1>1. /\ UNCHANGED <<lock, files, pc, memory, circle, escrow, minted>>
      /\ status' \in [pc : {"idle", "read"}, seen : Draft \cup {None},
                      verdict : {"ok", "mismatch"}]
      /\ StatusInv'
  <2> USE DEF IInv, TypeOK, StatusInv, StatusConsistent, SameIdentity, files
  <2>1. CASE StatusReadSession
    BY <2>1 DEF StatusReadSession, FilesInv, SessionMatchesPending
  <2>2. CASE StatusReadPending
    BY <2>2 DEF StatusReadPending, ValidPending
  <2> QED
    BY <2>1, <2>2
<1>2. TypeOK' /\ FilesInv'
  BY <1>1, FilesFrame DEF IInv, TypeOK, files, memory, circle, escrow
<1> QED
  BY <1>1, <1>2, OutsideKeepsIInv DEF circle, IInv, TypeOK, Trust

LEMMA EnvironmentKeepsIInv ==
  ASSUME IInv, Environment
  PROVE  IInv'
<1>1. /\ UNCHANGED <<lock, files, pc, memory, status, escrow, minted>>
      /\ net' \subseteq net /\ admitted \subseteq admitted'
      /\ admitted' \subseteq admitted \cup {d.peer : d \in net}
      /\ listed' \subseteq listed \cup admitted'
  BY DEF Environment, Admit, Drop, ChangeTrust, RevokeSponsor, Exclude
<1>2. /\ trust' \in Trust /\ trust.epoch <= trust'.epoch
      /\ trust.revoked \subseteq trust'.revoked
      /\ trust.excluded \subseteq trust'.excluded
  <2> DEFINE Later == /\ trust' \in Trust /\ trust.epoch <= trust'.epoch
                      /\ trust.revoked \subseteq trust'.revoked
                      /\ trust.excluded \subseteq trust'.excluded
  <2>1. trust \in Trust
    BY DEF IInv, TypeOK
  <2>2. CASE UNCHANGED trust
    BY <2>1, <2>2 DEF Trust
  <2>3. CASE ChangeTrust
    BY <2>1, <2>3 DEF ChangeTrust, Trust
  <2>4. ASSUME NEW b \in Bottle, RevokeSponsor(b)
        PROVE  Later
    <3>1. /\ trust.epoch \in Nat /\ trust.revoked \cup {b} \in SUBSET Bottle
          /\ trust.excluded \in SUBSET Peer
      BY <2>1 DEF Trust
    <3>2. trust' = [epoch |-> trust.epoch + 1, revoked |-> trust.revoked \cup {b},
                    excluded |-> trust.excluded]
      BY <2>1, <2>4 DEF RevokeSponsor, Trust
    <3> QED
      BY <3>1, <3>2 DEF Trust
  <2>5. ASSUME NEW peer \in Peer, Exclude(peer)
        PROVE  Later
    <3>1. /\ trust.epoch \in Nat /\ trust.excluded \cup {peer} \in SUBSET Peer
          /\ trust.revoked \in SUBSET Bottle
      BY <2>1 DEF Trust
    <3>2. trust' = [epoch |-> trust.epoch + 1, revoked |-> trust.revoked,
                    excluded |-> trust.excluded \cup {peer}]
      BY <2>1, <2>5 DEF Exclude, Trust
    <3> QED
      BY <3>1, <3>2 DEF Trust
  <2> QED
    BY <2>2, <2>3, <2>4, <2>5 DEF Environment, Admit, Drop
<1>3. TypeOK'
  <2>1. {d.peer : d \in net} \subseteq Peer
    BY DraftFields DEF IInv, TypeOK
  <2> QED
    BY <1>1, <1>2, <2>1 DEF IInv, TypeOK, files, memory, escrow
<1>4. FilesInv'
  <2>1. AttemptsAuthorised' /\ AttemptsRecorded' /\ AttemptsOnMarkedBottle'
    BY <1>1 DEF IInv, FilesInv, AttemptsAuthorised, AttemptsRecorded,
                AttemptsOnMarkedBottle, files, escrow
  <2>2. SavedBeforeSent' /\ SessionMatchesPending' /\ JoinedWasAdmitted'
    BY <1>1 DEF IInv, FilesInv, SavedBeforeSent, SessionMatchesPending,
                JoinedWasAdmitted, SameIdentity, files
  <2>3. (pending # None => pending.epoch <= trust.epoch)'
    <3>1. pending # None => pending.epoch \in Nat
      BY DraftFields DEF IInv, TypeOK
    <3>2. trust.epoch \in Nat /\ trust'.epoch \in Nat
      BY <1>2 DEF IInv, TypeOK, Trust
    <3> QED
      BY <1>1, <1>2, <3>1, <3>2 DEF IInv, FilesInv, files
  <2> QED
    BY <1>1, <2>1, <2>2, <2>3 DEF IInv, FilesInv, files, escrow
<1> QED
  BY <1>1, <1>2, <1>3, <1>4, StatusFrame, OutsideKeepsIInv DEF IInv, files

LEMMA NextIInv == IInv /\ [Next]_vars => IInv'
<1> SUFFICES ASSUME IInv, [Next]_vars
             PROVE  IInv'
  OBVIOUS
<1>1. CASE Next
  BY <1>1, CommandKeepsIInv, StatusKeepsIInv, EnvironmentKeepsIInv DEF Next
<1>2. CASE UNCHANGED vars
  BY <1>2
  DEF vars, files, memory, circle, escrow, IInv, TypeOK, LockInv, MemoryInv,
      PurchaseInv, BeganInv, FilesInv, StatusInv, AttemptsAuthorised,
      AttemptsRecorded, AttemptsOnMarkedBottle, SavedBeforeSent,
      SessionMatchesPending, JoinedWasAdmitted, StatusConsistent, SameIdentity
<1> QED
  BY <1>1, <1>2

\* The invariant above holds in every reachable state.
THEOREM Inductive == Spec => []IInv
<1>1. Init => IInv
  BY InitIInv
<1>2. IInv /\ [Next]_vars => IInv'
  BY NextIInv
<1> QED
  BY <1>1, <1>2, PTL DEF Spec

-----------------------------------------------------------------------------
(* What follows *)

\* Every variable keeps its type.
THEOREM TypeCorrect == Spec => []TypeOK
<1>1. IInv => TypeOK
  BY DEF IInv
<1> QED
  BY <1>1, Inductive, PTL

\* However runs fail, crash and are repeated, a passcode attempt that the user
\* did not authorise is never spent.
THEOREM AttemptsAreAuthorised == Spec => []AttemptsAuthorised
<1>1. IInv => AttemptsAuthorised
  BY DEF IInv, FilesInv
<1> QED
  BY <1>1, Inductive, PTL

\* Every attempt the escrow service has counted left a marker behind.
THEOREM AttemptsAreRecorded == Spec => []AttemptsRecorded
<1>1. IInv => AttemptsRecorded
  BY DEF IInv, FilesInv
<1> QED
  BY <1>1, Inductive, PTL

\* Attempts are spent on one bottle, the one the marker names.
THEOREM AttemptsAreOnMarkedBottle == Spec => []AttemptsOnMarkedBottle
<1>1. IInv => AttemptsOnMarkedBottle
  BY DEF IInv, FilesInv
<1> QED
  BY <1>1, Inductive, PTL

\* Whatever enters the circle, the keys of it were saved first.
THEOREM JoinsAreSaved == Spec => []SavedBeforeSent
<1>1. IInv => SavedBeforeSent
  BY DEF IInv, FilesInv
<1> QED
  BY <1>1, Inductive, PTL

\* The two files that hold the identity agree, so a run can always resume.
THEOREM SessionAgrees == Spec => []SessionMatchesPending
<1>1. IInv => SessionMatchesPending
  BY DEF IInv, FilesInv
<1> QED
  BY <1>1, Inductive, PTL

\* A saved "joined" is true.
THEOREM JoinedIsTrue == Spec => []JoinedWasAdmitted
<1>1. IInv => JoinedWasAdmitted
  BY DEF IInv, FilesInv
<1> QED
  BY <1>1, Inductive, PTL

\* `status` needs no lock.
THEOREM StatusNeedsNoLock == Spec => []StatusConsistent
<1>1. IInv => StatusConsistent
  BY DEF IInv, StatusInv
<1> QED
  BY <1>1, Inductive, PTL

-----------------------------------------------------------------------------
(* Steps, and the abstract specification *)

\* What a step may do to what the abstract specification sees.
LEMMA VisibleSteps ==
  ASSUME [Next]_vars
  PROVE  \/ UNCHANGED <<spent, authorised, recovery, pending, admitted, net>>
         \/ \E p \in Proc : \/ PlanAttempt(p) \/ RecoverBottle(p) \/ RecoverRefused(p)
                            \/ KeepRecovery(p) \/ SavePending(p) \/ SaveRefresh(p)
                            \/ SaveJoined(p) \/ Send(p)
         \/ \E d \in net : Admit(d) \/ Drop(d)
<1> USE DEF files, memory, circle, escrow, Begin, Exit
<1>1. ASSUME NEW p \in Proc,
             \/ \E o \in Options : Enroll(p, o)
             \/ OtherCommand(p) \/ Load(p) \/ Save(p) \/ Done(p)
             \/ Resume(p) \/ ReuseRecovery(p) \/ Archive(p) \/ Mark(p)
             \/ RecoverUnsent(p) \/ RecordFailure(p)
             \/ Prepare(p) \/ KeepDraft(p) \/ Refresh(p) \/ Bind(p) \/ Reconcile(p)
             \/ Check(p) \/ Answered(p) \/ Confirm(p) \/ BindJoined(p)
             \/ Refuse(p) \/ Interrupt(p)
      PROVE  UNCHANGED <<spent, authorised, recovery, pending, admitted, net>>
  BY <1>1, Zenon
  DEF Enroll, OtherCommand, Load, Save, Done, Resume, ReuseRecovery, Archive, Mark,
      RecoverUnsent, RecordFailure, Prepare, KeepDraft, Refresh, Bind, Reconcile,
      Check, Answered, Confirm, BindJoined, Refuse, Interrupt
<1>2. ASSUME \/ StatusReadSession \/ StatusReadPending \/ ChangeTrust
             \/ \E b \in Bottle : RevokeSponsor(b)
             \/ \E peer \in Peer : Exclude(peer)
             \/ UNCHANGED vars
      PROVE  UNCHANGED <<spent, authorised, recovery, pending, admitted, net>>
  BY <1>2, Zenon DEF StatusReadSession, StatusReadPending, ChangeTrust, RevokeSponsor,
                     Exclude, vars
<1> QED
  BY <1>1, <1>2, Zenon DEF Next, Command, Environment

\* The saved identity is never replaced and its draft only gets newer.
THEOREM PendingAdvances == Spec => PendingMonotone
<1> DEFINE Monotone == pending # None =>
                         /\ pending' # None
                         /\ SameIdentity(pending', pending)
                         /\ pending.epoch <= pending'.epoch
                         /\ pending.joined => pending'.joined
<1>1. IInv /\ [Next]_vars => Monotone
  <2> SUFFICES ASSUME IInv, [Next]_vars, pending # None
               PROVE  Monotone
    OBVIOUS
  <2> USE NoneIsNoRecord DEF SameIdentity, IInv
  <2>1. pending \in Draft /\ pending.epoch \in Nat
    BY DraftFields DEF TypeOK
  <2>2. CASE pending' = pending
    BY <2>1, <2>2
  <2>3. ASSUME NEW p \in Proc, SavePending(p)
        PROVE  FALSE
    BY <2>3 DEF SavePending, Goto, PurchaseInv, Fresh
  <2>4. ASSUME NEW p \in Proc, SaveRefresh(p)
        PROVE  Monotone
    BY <2>4 DEF SaveRefresh, Goto, MemoryInv, Drafted
  <2>5. ASSUME NEW p \in Proc, SaveJoined(p)
        PROVE  Monotone
    BY <2>1, <2>5 DEF SaveJoined, Goto, MemoryInv, Drafted
  <2> QED
    BY <2>2, <2>3, <2>4, <2>5, VisibleSteps
    DEF PlanAttempt, RecoverBottle, RecoverRefused, KeepRecovery, Send, Admit, Drop,
        files
<1>2. [][Monotone]_vars => PendingMonotone
  BY PTL DEF PendingMonotone
<1> QED
  BY <1>1, <1>2, Inductive, PTL DEF Spec

\* No join is sent on trust that was already withdrawn when the command began.
THEOREM JoinsAreTrusted == Spec => JoinCarriesTrust
<1> DEFINE Carries == \A d \in net' \ net : \E p \in Proc :
                        /\ pc[p] = "send"
                        /\ began[p].epoch <= d.epoch
                        /\ d.bottle \notin began[p].revoked
                        /\ d.peer \notin began[p].excluded
<1>1. IInv /\ [Next]_vars => Carries
  <2> SUFFICES ASSUME IInv, [Next]_vars
               PROVE  Carries
    OBVIOUS
  <2>1. CASE net' \subseteq net
    BY <2>1
  <2>2. ASSUME NEW p \in Proc, Send(p)
        PROVE  Carries
    BY <2>2 DEF Send, Goto, IInv, BeganInv
  <2> QED
    BY <2>1, <2>2, VisibleSteps
    DEF PlanAttempt, RecoverBottle, RecoverRefused, KeepRecovery, SavePending,
        SaveRefresh, SaveJoined, Admit, Drop, circle
<1>2. [][Carries]_vars => JoinCarriesTrust
  BY PTL DEF JoinCarriesTrust
<1> QED
  BY <1>1, <1>2, Inductive, PTL DEF Spec

\* Enrollment implements EnrollmentAbs.
THEOREM Implementation == Spec => ImplementsAbs
<1>1. Init => Abs!Init
  BY DEF Init, Abs!Init
<1>2. IInv /\ IInv' /\ [Next]_vars => [Abs!Next]_Abs!vars
  <2> SUFFICES ASSUME IInv, IInv', [Next]_vars
               PROVE  [Abs!Next]_Abs!vars
    OBVIOUS
  <2> USE NoneIsNoRecord, NoneIsNoName
      DEF IInv, TypeOK, Abs!Next, Abs!vars, files, circle, escrow, Goto
  <2>1. CASE UNCHANGED <<spent, authorised, recovery, pending, admitted>>
    BY <2>1
  <2>2. ASSUME NEW p \in Proc, PlanAttempt(p)
        PROVE  Abs!Authorise \/ UNCHANGED Abs!vars
    BY <2>2 DEF PlanAttempt, CanAttempt, Abs!Authorise
  <2>3. ASSUME NEW p \in Proc, RecoverBottle(p) \/ RecoverRefused(p)
        PROVE  Abs!Attempt
    <3>1. pc[p] = "recover"
      BY <2>3 DEF RecoverBottle, RecoverRefused
    <3>2. spent' = spent + 1 /\ UNCHANGED <<authorised, recovery, pending, admitted>>
      BY <2>3 DEF RecoverBottle, RecoverRefused, CountAttempt
    <3>3. recovery = None /\ spent <= authorised
      BY <3>1 DEF PurchaseInv, Buying
    <3> QED
      BY <3>2, <3>3 DEF Abs!Attempt
  <2>4. ASSUME NEW p \in Proc, KeepRecovery(p)
        PROVE  Abs!Keep
    BY <2>4, OptionsFields DEF KeepRecovery, PurchaseInv, MemoryInv, Planning, Fresh,
                Abs!Keep
  <2>5. ASSUME NEW p \in Proc, SavePending(p)
        PROVE  Abs!SaveIdentity
    BY <2>5, DraftFields DEF SavePending, PurchaseInv, MemoryInv, Fresh,
                Abs!SaveIdentity
  <2>6. ASSUME NEW p \in Proc, SaveRefresh(p) \/ SaveJoined(p)
        PROVE  UNCHANGED Abs!vars
    BY <2>6 DEF SaveRefresh, SaveJoined, MemoryInv, Drafted, SameIdentity
  <2>7. ASSUME NEW d \in net, Admit(d)
        PROVE  Abs!Enter
    BY <2>7, DraftFields DEF Admit, FilesInv, SavedBeforeSent, SameIdentity, Abs!Enter
  <2> QED
    BY <2>1, <2>2, <2>3, <2>4, <2>5, <2>6, <2>7, VisibleSteps DEF Send, Drop
<1> QED
  BY <1>1, <1>2, Inductive, PTL DEF Spec, ImplementsAbs, Abs!Spec
=============================================================================
