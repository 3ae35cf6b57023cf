--------------------------- MODULE DirectoryPaging --------------------------
(***************************************************************************)
(* fetch_directory of enrollment.rs: read the peers of the trust circle    *)
(* page by page, until a page without entries.                             *)
(*                                                                         *)
(* Peers write new statements all the while.  The service numbers all      *)
(* changes and sends what lies behind a token, each peer as it stands      *)
(* then; some changes are not about peers at all.  TrustCircle and         *)
(* Enrollment read the directory in one step: that this is right is the    *)
(* main property here.  It rests on what is assumed of the service (Sent). *)
(***************************************************************************)
EXTENDS Naturals, FiniteSets

CONSTANTS
  Peer,
  MaxPages,  \* pages of one fetch (100 in the code)
  MaxChanges \* bound: changes to the circle

ASSUME BoundAssumption == MaxPages \in Nat /\ MaxChanges \in Nat

VARIABLES
  \* The service
  circle,    \* number of each peer's latest statement, or 0
  other,     \* numbers of the changes that are not about peers
  changes,   \* number of changes so far
  \* The command
  pc,        \* "idle", "fetch", or how the last fetch ended
  directory, \* number of the statement it has of each peer
  token,     \* up to which change it has seen them, or 0
  seen,      \* tokens so far
  pages,     \* pages so far
  \* History
  snapshot   \* the circle when the last page was sent

service == <<circle, other, changes>>
client  == <<pc, directory, token, seen, pages>>
vars == <<service, client, snapshot>>

\* The number of a statement that no peer has signed.
Forged == MaxChanges + 1

Circle == [Peer -> 0..changes]

TypeOK ==
  /\ circle \in Circle
  /\ other \subseteq 1..changes
  /\ changes \in 0..MaxChanges
  /\ pc \in {"idle", "fetch", "returned", "error"}
  /\ directory \in [Peer -> 0..Forged]
  /\ token \in 0..changes
  /\ seen \subseteq 1..changes
  /\ pages \in 0..MaxPages
  /\ snapshot \in Circle

Init ==
  /\ circle = [p \in Peer |-> 0]
  /\ other = {}
  /\ changes = 0
  /\ pc = "idle"
  /\ directory = [p \in Peer |-> 0]
  /\ token = 0
  /\ seen = {}
  /\ pages = 0
  /\ snapshot = circle

-----------------------------------------------------------------------------
(* The service *)

Change ==
  /\ changes < MaxChanges
  /\ changes' = changes + 1

State(p) ==
  /\ Change
  /\ circle' = [circle EXCEPT ![p] = changes']
  /\ UNCHANGED <<other, client, snapshot>>

ChangeOther ==
  /\ Change
  /\ other' = other \cup {changes'}
  /\ UNCHANGED <<circle, client, snapshot>>

\* What lies behind the token of the request.
Behind == {n \in {circle[p] : p \in Peer} \cup other : n > token}

\* A page holds it up to some change.  Its token is for a change, or missing (0); one
\* of its statements may not be what the peer has signed.
Page == [upto : Behind, token : 0..changes, sound : BOOLEAN]

Empty == [upto |-> 0, token |-> 0, sound |-> TRUE]

\* Assumed of the service, and not checked by the command: a page is empty only if
\* nothing lies behind the token, and its own token skips nothing that it lacks.
Sent == IF Behind = {} THEN {Empty} ELSE {page \in Page : page.token <= page.upto}

On(page) == {p \in Peer : circle[p] > token /\ circle[p] <= page.upto}

-----------------------------------------------------------------------------
(* fetch_directory *)

Start ==
  /\ pc # "fetch"
  /\ pc' = "fetch"
  /\ directory' = [p \in Peer |-> 0]
  /\ token' = 0
  /\ seen' = {}
  /\ pages' = 0
  /\ UNCHANGED <<service, snapshot>>

\* Identifier and signatures of every statement.
Verified(page) == page.sound

\* The later statement of a peer replaces the earlier one.
Applied(page) ==
  [p \in Peer |->
    IF p \notin On(page) THEN directory[p]
    ELSE IF page.sound THEN circle[p] ELSE Forged]

\* A page without a token leaves the old one.
NextToken(page) == IF page.token = 0 THEN token ELSE page.token

Advances(page) == NextToken(page) # 0 /\ NextToken(page) \notin seen

WithinLimit == pages + 1 < MaxPages

\* Mutant: only a page with peers is followed by another.
PeersOn(page) == On(page) # {}

HasEntries(page) == page.upto # 0

Continue(page) ==
  /\ pc = "fetch"
  /\ WithinLimit
  /\ HasEntries(page)
  /\ Verified(page)
  /\ Advances(page)
  /\ directory' = Applied(page)
  /\ token' = NextToken(page)
  /\ seen' = seen \cup {token'}
  /\ pages' = pages + 1
  /\ UNCHANGED <<service, pc, snapshot>>

\* A page that does not count ends the fetch; there must be a circle by then.
Finish(page) ==
  /\ pc = "fetch"
  /\ ~HasEntries(page)
  /\ \E p \in Peer : directory[p] # 0
  /\ pc' = "returned"
  /\ snapshot' = circle
  /\ UNCHANGED <<service, directory, token, seen, pages>>

Fail ==
  /\ pc = "fetch"
  /\ pc' = "error"
  /\ UNCHANGED <<service, directory, token, seen, pages, snapshot>>

Next ==
  \/ \E p \in Peer : State(p)
  \/ ChangeOther
  \/ Start
  \/ \E page \in Sent : Continue(page) \/ Finish(page)
  \/ Fail

Spec == Init /\ [][Next]_vars

-----------------------------------------------------------------------------
(* Properties *)

\* The directory returned is the whole circle as it stood when the last page was sent,
\* in one moment, although its pages were sent in many: no statement is missing and
\* none is outdated (enrollment.rs:137-144, 172-176).
DirectoryIsSnapshot == pc = "returned" => directory = snapshot

\* What makes it so (enrollment.rs:197, 207): the command always has every statement up to its token.
CompleteToToken ==
  pc = "fetch" => \A p \in Peer : circle[p] <= token => directory[p] = circle[p]

\* At no time has the directory a statement that the peer did not sign, nor one later
\* than its latest (enrollment.rs:182-206).
StatementsAreSigned == pc # "idle" => \A p \in Peer : directory[p] <= circle[p]
=============================================================================
