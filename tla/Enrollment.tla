----------------------------- MODULE Enrollment -----------------------------
(***************************************************************************)
(* `octagon enroll`: a command that recovers an escrow bottle with the     *)
(* passcode of another device, generates a peer of its own, and asks the   *)
(* trust circle to admit it.                                               *)
(*                                                                         *)
(* Each file write, request and answer of the command is one step.  An     *)
(* error return, a cancelled prompt and a crash have the same effect here: *)
(* local memory is lost, the lock is released, the files stay as they were *)
(* last written.  A file write is atomic (module StateStore says why).     *)
(*                                                                         *)
(* Simplifications:                                                        *)
(*  - one account: preserve_account_state refuses a login whose DSID       *)
(*    differs, so every checkpoint_matches_account holds;                  *)
(*  - trust.epoch stands for all that validate_current_trust compares with *)
(*    the draft (clocks, included and excluded peers, policy);             *)
(*  - the sponsor of a draft is the device that made its bottle;           *)
(*  - of the session only extra.octagon is kept.                           *)
(***************************************************************************)
EXTENDS Naturals, FiniteSets

CONSTANTS
  Proc,        \* command invocations that may run at the same time
  Bottle,      \* escrow bottles, each made by the sponsor of that name
  Peer,        \* peers whose keys the program may generate (bound)
  None,        \* an absent file, record or lock holder
  MaxEpoch,    \* bound: changes other devices make to the trust circle
  MaxRetries   \* bound: runs that authorise a further passcode attempt

ASSUME BoundsAssumption == MaxEpoch \in Nat /\ MaxRetries \in Nat

VARIABLES
  \* The state directory
  lock,        \* holder of the flock on .state.lock
  octagon,     \* live/session.json, its extra.octagon
  attempt,     \* enrollment/attempt.json: the bottle it names
  history,     \* number of files in enrollment/attempt-history
  recovery,    \* enrollment/recovery.json: the bottle it holds
  pending,     \* enrollment/pending.json
  \* Running commands
  pc, opts, sess, draft,
  began,       \* history: the trust circle when the command began
  \* The `status` command, which takes no lock
  status,
  \* The servers and the other devices
  net,         \* joinWithVoucher requests sent and not yet served
  listed,      \* our peers the circle's directory lists
  admitted,    \* history: our peers the circle ever admitted
  trust,       \* the circle: its epoch, revoked sponsors, excluded peers
  spent,       \* passcode attempts the escrow service has counted
  tried,       \* bottles it counted them on
  authorised,  \* history: further attempts users have authorised
  minted       \* history: peers generated so far

files   == <<octagon, attempt, history, recovery, pending>>
memory  == <<opts, sess, draft, began>>
circle  == <<net, listed, admitted, trust>>
escrow  == <<spent, tried, authorised>>
vars    == <<lock, files, pc, memory, status, circle, escrow, minted>>

Draft   == [bottle : Bottle, peer : Peer, epoch : Nat, joined : BOOLEAN]
Options == [bottle : Bottle, retry : BOOLEAN, refresh : BOOLEAN]
Trust   == [epoch : Nat, revoked : SUBSET Bottle, excluded : SUBSET Peer]

ASSUME NoneAssumption ==
  None \notin Proc \cup Bottle \cup Peer \cup Draft \cup Options \cup Trust

\* live_context and KeychainClient::initialize read the session, talk to the
\* servers, and write the session back.  AfterLoad and AfterSave say where the
\* command goes on.
AfterLoad == [load0 |-> "save0", load1 |-> "save1", loadLogin |-> "saveLogin",
              load2 |-> "save2", load3 |-> "save3", load4 |-> "save4"]
AfterSave == [save0 |-> "done", save1 |-> "plan", saveLogin |-> "archive",
              save2 |-> "prepare", save3 |-> "check", save4 |-> "done"]

Labels == {"idle", "load0", "save0", "load1", "save1", "plan",
           "loadLogin", "saveLogin", "archive", "mark", "recover", "failed", "keep",
           "load2", "save2", "prepare", "savePending", "refresh", "saveRefresh",
           "bind", "load3", "save3", "check", "send", "await", "confirm",
           "saveJoined", "bindJoined", "load4", "save4", "done"}

TypeOK ==
  /\ lock \in Proc \cup {None}
  /\ octagon \in Draft \cup {None}
  /\ attempt \in Bottle \cup {None}
  /\ history \in Nat
  /\ recovery \in Bottle \cup {None}
  /\ pending \in Draft \cup {None}
  /\ pc \in [Proc -> Labels]
  /\ opts \in [Proc -> Options \cup {None}]
  /\ sess \in [Proc -> Draft \cup {None}]
  /\ draft \in [Proc -> Draft \cup {None}]
  /\ began \in [Proc -> Trust \cup {None}]
  /\ status \in [pc : {"idle", "read"}, seen : Draft \cup {None},
                 verdict : {"ok", "mismatch"}]
  /\ net \subseteq Draft
  /\ listed \subseteq Peer
  /\ admitted \subseteq Peer
  /\ trust \in Trust
  /\ spent \in Nat
  /\ tried \subseteq Bottle
  /\ authorised \in Nat
  /\ minted \subseteq Peer

Init ==
  /\ lock = None
  /\ octagon = None
  /\ attempt = None
  /\ history = 0
  /\ recovery = None
  /\ pending = None
  /\ pc = [p \in Proc |-> "idle"]
  /\ opts = [p \in Proc |-> None]
  /\ sess = [p \in Proc |-> None]
  /\ draft = [p \in Proc |-> None]
  /\ began = [p \in Proc |-> None]
  /\ status = [pc |-> "idle", seen |-> None, verdict |-> "ok"]
  /\ net = {}
  /\ listed = {}
  /\ admitted = {}
  /\ trust = [epoch |-> 0, revoked |-> {}, excluded |-> {}]
  /\ spent = 0
  /\ tried = {}
  /\ authorised = 0
  /\ minted = {}

-----------------------------------------------------------------------------
(* Control *)

Goto(p, from, to) ==
  /\ pc[p] = from
  /\ pc' = [pc EXCEPT ![p] = to]

\* The command ends: the guard of the lock is dropped and its memory is gone.
Exit(p) ==
  /\ pc' = [pc EXCEPT ![p] = "idle"]
  /\ lock' = None
  /\ opts' = [opts EXCEPT ![p] = None]
  /\ sess' = [sess EXCEPT ![p] = None]
  /\ draft' = [draft EXCEPT ![p] = None]
  /\ began' = [began EXCEPT ![p] = None]

\* Mutant: commands do not take the lock.
NoLock(p) == TRUE

\* try_lock: a command that finds the lock held fails and changes nothing.
LockFree(p) == lock = None

Begin(p, o, first) ==
  /\ LockFree(p)
  /\ lock' = p
  /\ Goto(p, "idle", first)
  /\ opts' = [opts EXCEPT ![p] = o]
  /\ began' = [began EXCEPT ![p] = trust]
  /\ UNCHANGED <<files, sess, draft, status, circle, escrow, minted>>

\* octagon enroll --bottle-id ... [--refresh-trust] [--retry-escrow-recovery]
Enroll(p, o) == (o.retry => authorised < MaxRetries) /\ Begin(p, o, "load1")

\* login, refresh, escrow list and the other commands that rewrite the session
OtherCommand(p) == Begin(p, None, "load0")

Load(p) ==
  /\ pc[p] \in DOMAIN AfterLoad
  /\ sess' = [sess EXCEPT ![p] = octagon]
  /\ pc' = [pc EXCEPT ![p] = AfterLoad[pc[p]]]
  /\ UNCHANGED <<lock, files, opts, draft, began, status, circle, escrow, minted>>

\* refresh_session and preserve_account_state leave extra.octagon as it was.
Save(p) ==
  /\ pc[p] \in DOMAIN AfterSave
  /\ octagon' = sess[p]
  /\ pc' = [pc EXCEPT ![p] = AfterSave[pc[p]]]
  /\ UNCHANGED <<lock, attempt, history, recovery, pending, memory, status,
                 circle, escrow, minted>>

Done(p) ==
  /\ pc[p] = "done"
  /\ Exit(p)
  /\ UNCHANGED <<files, status, circle, escrow, minted>>

-----------------------------------------------------------------------------
(* What to do with the saved state *)

\* Mutant: validate_pending_session compares the refreshable fields too.
SameDraft(a, b) == a = b

\* validate_pending_session compares everything but the refreshable fields.
SameIdentity(a, b) == a.peer = b.peer /\ a.bottle = b.bottle

ValidPending(session, saved) == session # None => SameIdentity(session, saved)

CanResume(p) ==
  /\ pending # None
  /\ ValidPending(sess[p], pending)
  /\ pending.bottle = opts[p].bottle

CanReuse(p) ==
  /\ pending = None
  /\ sess[p] = None
  /\ recovery = opts[p].bottle

\* Mutant: another attempt does not need --retry-escrow-recovery.
CanAttemptAgain(p) ==
  /\ pending = None
  /\ sess[p] = None
  /\ recovery = None
  /\ attempt # None => attempt = opts[p].bottle

CanAttempt(p) ==
  /\ pending = None
  /\ sess[p] = None
  /\ recovery = None
  /\ attempt # None => attempt = opts[p].bottle /\ opts[p].retry

Resume(p) ==
  /\ Goto(p, "plan", "refresh")
  /\ CanResume(p)
  /\ draft' = [draft EXCEPT ![p] = pending]
  /\ UNCHANGED <<lock, files, opts, sess, began, status, circle, escrow, minted>>

ReuseRecovery(p) ==
  /\ Goto(p, "plan", "load2")
  /\ CanReuse(p)
  /\ UNCHANGED <<lock, files, memory, status, circle, escrow, minted>>

\* Signing in again comes first; it rewrites the session too.
PlanAttempt(p) ==
  /\ Goto(p, "plan", "loadLogin")
  /\ CanAttempt(p)
  /\ authorised' = IF attempt # None /\ opts[p].retry THEN authorised + 1
                                                     ELSE authorised
  /\ UNCHANGED <<lock, files, memory, status, circle, spent, tried, minted>>

-----------------------------------------------------------------------------
(* The passcode attempt *)

\* Mutant: the previous marker is overwritten without a copy.
ArchiveNothing(p) ==
  /\ Goto(p, "archive", "mark")
  /\ UNCHANGED <<lock, files, memory, status, circle, escrow, minted>>

\* The marker of the previous attempt is copied to attempt-history.
Archive(p) ==
  /\ Goto(p, "archive", "mark")
  /\ history' = IF attempt # None THEN history + 1 ELSE history
  /\ UNCHANGED <<lock, octagon, attempt, recovery, pending, memory, status,
                 circle, escrow, minted>>

Mark(p) ==
  /\ Goto(p, "mark", "recover")
  /\ attempt' = opts[p].bottle
  /\ UNCHANGED <<lock, octagon, history, recovery, pending, memory, status,
                 circle, escrow, minted>>

CountAttempt(p) ==
  /\ spent' = spent + 1
  /\ tried' = tried \cup {opts[p].bottle}

\* The service counts the attempt and the entropy reaches the command.
RecoverBottle(p) ==
  /\ Goto(p, "recover", "keep")
  /\ CountAttempt(p)
  /\ UNCHANGED <<lock, files, memory, status, circle, authorised, minted>>

\* It counts the attempt but the passcode is wrong or the answer is lost.
RecoverRefused(p) ==
  /\ Goto(p, "recover", "failed")
  /\ CountAttempt(p)
  /\ UNCHANGED <<lock, files, memory, status, circle, authorised, minted>>

\* The request never reaches the service.
RecoverUnsent(p) ==
  /\ Goto(p, "recover", "failed")
  /\ UNCHANGED <<lock, files, memory, status, circle, escrow, minted>>

\* The marker is written again with last_error, and the command fails.
RecordFailure(p) ==
  /\ pc[p] = "failed"
  /\ attempt' = opts[p].bottle
  /\ Exit(p)
  /\ UNCHANGED <<octagon, history, recovery, pending, status, circle, escrow,
                 minted>>

\* Mutant: the recovered entropy is only kept in memory.
ForgetRecovery(p) ==
  /\ Goto(p, "keep", "load2")
  /\ UNCHANGED <<lock, files, memory, status, circle, escrow, minted>>

KeepRecovery(p) ==
  /\ Goto(p, "keep", "load2")
  /\ recovery' = opts[p].bottle
  /\ UNCHANGED <<lock, octagon, attempt, history, pending, memory, status,
                 circle, escrow, minted>>

-----------------------------------------------------------------------------
(* The draft *)

\* current_trust: the sponsor is included and not excluded.
TrustsSponsor(b) == b \notin trust.revoked

Prepare(p) ==
  /\ Goto(p, "prepare", "savePending")
  /\ TrustsSponsor(opts[p].bottle)
  /\ \E peer \in Peer \ minted :
       /\ draft' = [draft EXCEPT ![p] = [bottle |-> opts[p].bottle, peer |-> peer,
                                         epoch |-> trust.epoch, joined |-> FALSE]]
       /\ minted' = minted \cup {peer}
  /\ UNCHANGED <<lock, files, opts, sess, began, status, circle, escrow>>

\* Mutant: the draft is not saved before it is used.
SaveNothing(p) ==
  /\ Goto(p, "savePending", "refresh")
  /\ UNCHANGED <<lock, files, memory, status, circle, escrow, minted>>

SavePending(p) ==
  /\ Goto(p, "savePending", "refresh")
  /\ pending' = draft[p]
  /\ UNCHANGED <<lock, octagon, attempt, history, recovery, memory, status,
                 circle, escrow, minted>>

KeepDraft(p) ==
  /\ Goto(p, "refresh", "bind")
  /\ ~opts[p].refresh
  /\ UNCHANGED <<lock, files, memory, status, circle, escrow, minted>>

\* A draft on the current trust, with the same keys, identity and voucher.
Rebased(d) == [d EXCEPT !.epoch = trust.epoch]

CanRefresh(d) ==
  /\ TrustsSponsor(d.bottle)
  /\ d.peer \notin trust.excluded
  /\ ~d.joined
  /\ d.peer \notin listed

Refresh(p) ==
  /\ Goto(p, "refresh", "saveRefresh")
  /\ opts[p].refresh
  /\ CanRefresh(draft[p])
  /\ draft' = [draft EXCEPT ![p] = Rebased(@)]
  /\ UNCHANGED <<lock, files, opts, sess, began, status, circle, escrow, minted>>

SaveRefresh(p) ==
  /\ Goto(p, "saveRefresh", "bind")
  /\ pending' = draft[p]
  /\ UNCHANGED <<lock, octagon, attempt, history, recovery, memory, status,
                 circle, escrow, minted>>

\* The session, with the draft in it, is what join compares with.
Bind(p) ==
  /\ Goto(p, "bind", "load3")
  /\ octagon' = draft[p]
  /\ UNCHANGED <<lock, attempt, history, recovery, pending, memory, status,
                 circle, escrow, minted>>

-----------------------------------------------------------------------------
(* join *)

Joined(d) == [d EXCEPT !.joined = TRUE]

\* Mutant: trust is validated before the directory is consulted.
ReconcileIfCurrent(p) ==
  /\ Goto(p, "check", "saveJoined")
  /\ sess[p] = draft[p]
  /\ draft[p].peer \in listed
  /\ draft[p].epoch = trust.epoch
  /\ draft' = [draft EXCEPT ![p] = Joined(@)]
  /\ UNCHANGED <<lock, files, opts, sess, began, status, circle, escrow, minted>>

\* The directory lists the peer: an earlier request was served after all.
Reconcile(p) ==
  /\ Goto(p, "check", "saveJoined")
  /\ sess[p] = draft[p]
  /\ draft[p].peer \in listed
  /\ draft' = [draft EXCEPT ![p] = Joined(@)]
  /\ UNCHANGED <<lock, files, opts, sess, began, status, circle, escrow, minted>>

\* Mutant: an old draft is sent as it is.
DraftIsTrusted(d) == TrustsSponsor(d.bottle) /\ d.peer \notin trust.excluded

\* validate_current_trust
DraftIsCurrent(d) ==
  /\ TrustsSponsor(d.bottle)
  /\ d.peer \notin trust.excluded
  /\ d.epoch = trust.epoch

CanSend(p) ==
  /\ sess[p] = draft[p]
  /\ draft[p].peer \notin listed
  /\ ~draft[p].joined
  /\ DraftIsCurrent(draft[p])

\* The trust circle may change again before the request leaves.
Check(p) ==
  /\ Goto(p, "check", "send")
  /\ CanSend(p)
  /\ UNCHANGED <<lock, files, memory, status, circle, escrow, minted>>

Send(p) ==
  /\ Goto(p, "send", "await")
  /\ net' = net \cup {draft[p]}
  /\ UNCHANGED <<lock, files, memory, status, listed, admitted, trust, escrow,
                 minted>>

Answered(p) ==
  /\ Goto(p, "await", "confirm")
  /\ draft[p].peer \in admitted
  /\ UNCHANGED <<lock, files, memory, status, circle, escrow, minted>>

Confirm(p) ==
  /\ Goto(p, "confirm", "saveJoined")
  /\ draft[p].peer \in listed
  /\ draft' = [draft EXCEPT ![p] = Joined(@)]
  /\ UNCHANGED <<lock, files, opts, sess, began, status, circle, escrow, minted>>

SaveJoined(p) ==
  /\ Goto(p, "saveJoined", "bindJoined")
  /\ pending' = draft[p]
  /\ UNCHANGED <<lock, octagon, attempt, history, recovery, memory, status,
                 circle, escrow, minted>>

\* Safari keys are recovered next, which starts with another session rewrite.
BindJoined(p) ==
  /\ Goto(p, "bindJoined", "load4")
  /\ octagon' = draft[p]
  /\ UNCHANGED <<lock, attempt, history, recovery, pending, memory, status,
                 circle, escrow, minted>>

-----------------------------------------------------------------------------
(* Failure *)

\* A check of the code fails.  At "check" a revoked sponsor may also have left
\* the directory, which validate_draft refuses before it looks for the peer.
MustRefuse(p) ==
  \/ pc[p] = "plan" /\ ~CanResume(p) /\ ~CanReuse(p) /\ ~CanAttempt(p)
  \/ pc[p] = "prepare" /\ ~TrustsSponsor(opts[p].bottle)
  \/ pc[p] = "refresh" /\ opts[p].refresh /\ ~CanRefresh(draft[p])
  \/ /\ pc[p] = "check"
     /\ ~CanSend(p)
     /\ (sess[p] = draft[p] /\ draft[p].peer \in listed)
          => ~TrustsSponsor(draft[p].bottle)
  \/ pc[p] = "await" /\ draft[p] \notin net /\ draft[p].peer \notin admitted
  \/ pc[p] = "confirm" /\ draft[p].peer \notin listed

Refuse(p) ==
  /\ MustRefuse(p)
  /\ Exit(p)
  /\ UNCHANGED <<files, status, circle, escrow, minted>>

\* An I/O or network error, a blank passcode, a timeout, or a crash.  Where the
\* command is about to end anyway it would change nothing that Refuse, Done or
\* RecordFailure does not: leaving it out there tells the two apart.
Interrupt(p) ==
  /\ pc[p] \notin {"idle", "done", "failed"}
  /\ ~MustRefuse(p)
  /\ Exit(p)
  /\ UNCHANGED <<files, status, circle, escrow, minted>>

-----------------------------------------------------------------------------
(* `status`, without the lock: the session first, then pending.json *)

StatusReadSession ==
  /\ status.pc = "idle"
  /\ status' = [status EXCEPT !.pc = "read", !.seen = octagon]
  /\ UNCHANGED <<lock, files, pc, memory, circle, escrow, minted>>

StatusReadPending ==
  /\ status.pc = "read"
  /\ status' = [pc |-> "idle", seen |-> None,
                verdict |-> IF pending # None /\ ~ValidPending(status.seen, pending)
                              THEN "mismatch" ELSE status.verdict]
  /\ UNCHANGED <<lock, files, pc, memory, circle, escrow, minted>>

-----------------------------------------------------------------------------
(* The circle *)

Admit(d) ==
  /\ d \in net
  /\ net' = net \ {d}
  /\ listed' = listed \cup {d.peer}
  /\ admitted' = admitted \cup {d.peer}
  /\ UNCHANGED <<lock, files, pc, memory, status, trust, escrow, minted>>

Drop(d) ==
  /\ d \in net
  /\ net' = net \ {d}
  /\ UNCHANGED <<lock, files, pc, memory, status, listed, admitted, trust,
                 escrow, minted>>

NextEpoch == trust.epoch < MaxEpoch

ChangeTrust ==
  /\ NextEpoch
  /\ trust' = [trust EXCEPT !.epoch = @ + 1]
  /\ UNCHANGED <<lock, files, pc, memory, status, net, listed, admitted, escrow,
                 minted>>

RevokeSponsor(b) ==
  /\ NextEpoch
  /\ trust' = [trust EXCEPT !.epoch = @ + 1, !.revoked = @ \cup {b}]
  /\ UNCHANGED <<lock, files, pc, memory, status, net, listed, admitted, escrow,
                 minted>>

\* Another device excludes our peer; the directory may stop listing it.
Exclude(peer) ==
  /\ NextEpoch
  /\ peer \in listed
  /\ trust' = [trust EXCEPT !.epoch = @ + 1, !.excluded = @ \cup {peer}]
  /\ listed' \in {listed, listed \ {peer}}
  /\ UNCHANGED <<lock, files, pc, memory, status, net, admitted, escrow, minted>>

-----------------------------------------------------------------------------

Command(p) ==
  \/ Load(p) \/ Save(p) \/ Done(p)
  \/ Resume(p) \/ ReuseRecovery(p) \/ PlanAttempt(p)
  \/ Archive(p) \/ Mark(p)
  \/ RecoverBottle(p) \/ RecoverRefused(p) \/ RecoverUnsent(p)
  \/ RecordFailure(p) \/ KeepRecovery(p)
  \/ Prepare(p) \/ SavePending(p) \/ KeepDraft(p) \/ Refresh(p) \/ SaveRefresh(p)
  \/ Bind(p) \/ Reconcile(p) \/ Check(p) \/ Send(p) \/ Answered(p) \/ Confirm(p)
  \/ SaveJoined(p) \/ BindJoined(p)
  \/ Refuse(p)

Environment ==
  \/ \E d \in net : Admit(d) \/ Drop(d)
  \/ ChangeTrust
  \/ \E b \in Bottle : RevokeSponsor(b)
  \/ \E peer \in Peer : Exclude(peer)

Next ==
  \/ \E p \in Proc : \/ \E o \in Options : Enroll(p, o)
                     \/ OtherCommand(p)
                     \/ Command(p)
                     \/ Interrupt(p)
  \/ StatusReadSession
  \/ StatusReadPending
  \/ Environment

Spec == Init /\ [][Next]_vars

\* The user goes on running the command with the saved bottle, with and without
\* --refresh-trust, and no step of a command or of the circle takes for ever.
\* Nothing is assumed of errors, crashes and lost requests: the property that
\* needs them to end says so.
UserPersists ==
  \A p \in Proc, b \in Bottle, r \in BOOLEAN :
    SF_vars(Enroll(p, [bottle |-> b, retry |-> FALSE, refresh |-> r]))

Fairness ==
  /\ \A p \in Proc : WF_vars(Command(p))
  /\ WF_vars(\E d \in net : Admit(d))
  /\ UserPersists

FairSpec == Spec /\ Fairness

-----------------------------------------------------------------------------
(* Properties *)

\* A second and every later passcode attempt was authorised by a run with
\* --retry-escrow-recovery, whatever failed or crashed in between
\* (docs/ENROLLMENT.md: it "permits one further attempt").
AttemptsAuthorised == spent <= 1 + authorised

\* The marker and the copies in attempt-history account for every attempt the
\* service has counted: attempt.json is written before the request leaves.
AttemptsRecorded == spent <= history + (IF attempt = None THEN 0 ELSE 1)

\* Attempts are only ever spent on the bottle that the marker names: a second
\* bottle is refused while an attempt on the first has no result.
AttemptsOnMarkedBottle == tried \subseteq {attempt}

\* Every joinWithVoucher request, in flight or served, is for the peer whose
\* keys pending.json holds, and no request is newer than the saved draft; so no
\* peer enters the circle that the program could not use afterwards.
SavedBeforeSent ==
  /\ \A d \in net : /\ pending # None
                    /\ SameIdentity(d, pending)
                    /\ d.epoch <= pending.epoch
  /\ \A peer \in admitted : pending # None /\ pending.peer = peer

\* The identity in session.json is the one in pending.json, at every point
\* where the command can be cut short: the next run is not refused with "saved
\* session and pending enrollment contain different identities".
SessionMatchesPending ==
  octagon # None => pending # None /\ SameIdentity(octagon, pending)

\* "joined": true in pending.json or session.json is never a guess.
JoinedWasAdmitted ==
  \A d \in {octagon, pending} : d # None => (d.joined => d.peer \in admitted)

\* pending.json, once written, keeps its identity; its draft is only replaced by
\* one on later trust, and "joined" is not taken back.
PendingMonotone ==
  [][pending # None =>
       /\ pending' # None
       /\ SameIdentity(pending', pending)
       /\ pending.epoch <= pending'.epoch
       /\ pending.joined => pending'.joined]_vars

\* A join request carries trust at least as new as when its command began, so a
\* sponsor revoked or a peer excluded by then is never used ("A revoked sponsor
\* is rejected", docs/ENROLLMENT.md).
JoinCarriesTrust ==
  [][\A d \in net' \ net : \E p \in Proc :
       /\ pc[p] = "send"
       /\ began[p].epoch <= d.epoch
       /\ d.bottle \notin began[p].revoked
       /\ d.peer \notin began[p].excluded]_vars

\* `status`, which reads two files without the lock while a command rewrites
\* them, never reports that they contradict each other.
StatusConsistent == status.verdict = "ok"

\* What a user and the services see of it is EnrollmentAbs.
Abs == INSTANCE EnrollmentAbs WITH
  NoPeer    <- None,
  attempts  <- spent,
  licences  <- 1 + authorised,
  recovered <- recovery # None,
  identity  <- IF pending = None THEN None ELSE pending.peer,
  members   <- admitted

ImplementsAbs == Abs!Spec

\* A saved draft is never stuck: if errors and lost requests end, a user who
\* goes on running the command gets the peer admitted and both files say so,
\* unless the sponsor is revoked or the peer excluded.
EventuallyJoined ==
  <>[][\A p \in Proc : ~Interrupt(p)]_vars /\ <>[][\A d \in net : ~Drop(d)]_vars
    => (pending # None ~>
          /\ pending # None
          /\ \/ octagon # None /\ octagon.joined /\ pending.joined
             \/ pending.bottle \in trust.revoked
             \/ pending.peer \in trust.excluded)
=============================================================================
