---------------------------- MODULE TrustCircle -----------------------------
(***************************************************************************)
(* The trust circle as src/enrollment.rs computes it: current_trust, which *)
(* folds the statements of the peers in the directory in the order of      *)
(* their clocks, and the drafts that a new peer signs upon its result.     *)
(*                                                                         *)
(* The other devices write statements of their own, from what they last    *)
(* saw of the directory, so clocks tie and statements contradict each      *)
(* other.  The directory may still list peers of an earlier circle, which  *)
(* nobody of this one has vouched for.                                     *)
(*                                                                         *)
(* Peer identifiers are numbers: directory.peers is sorted by them.  The   *)
(* signatures that apply_directory_page and validate_draft verify hold.    *)
(***************************************************************************)
EXTENDS Naturals, FiniteSets, Folds

CONSTANTS
  Device,    \* identifiers of the other devices
  Founder,   \* the device that founded the circle
  Me,        \* identifier of the new peer
  None,      \* no statement, voucher or draft
  MaxClock,  \* bound on the clocks of statements
  MaxStrangers \* bound on the peers of an earlier circle

ASSUME PeerAssumption ==
  /\ Device \subseteq Nat
  /\ IsFiniteSet(Device)
  /\ Founder \in Device
  /\ Me \in Nat \ Device

Peer == Device \cup {Me}

ASSUME BoundAssumption == MaxClock \in Nat /\ MaxStrangers \in Nat

VARIABLES
  peers,      \* the directory: the statement of each peer, or None
  strangers,  \* history: peers of an earlier circle, and who joined that one
  view,       \* the trust that one of the devices computed earlier, or None
  draft,      \* the new peer's statement, signed and saved, or None
  sent        \* whether a joinWithVoucher request is in flight with it

vars == <<peers, strangers, view, draft, sent>>

\* TPPB.PeerDynamicInfo, and the peer whose voucher comes with it.
Statement == [clock : 0..MaxClock + 1, included : SUBSET Peer,
              excluded : SUBSET Peer, voucher : Peer \cup {None}]

\* What current_trust returns.
Trust == [clock : 0..MaxClock + 1, included : SUBSET Peer, excluded : SUBSET Peer]

View == [by : Device, trust : Trust]

ASSUME NoneAssumption == None \notin Peer \cup Statement \cup View

TypeOK ==
  /\ peers \in [Peer -> Statement \cup {None}]
  /\ strangers \subseteq Peer
  /\ view \in View \cup {None}
  /\ draft \in Statement \cup {None}
  /\ sent \in BOOLEAN

-----------------------------------------------------------------------------
(* current_trust *)

Listed(directory) == {p \in Peer : directory[p] # None}

Seed(directory, sponsor) ==
  LET s == directory[sponsor]
  IN  [clock |-> s.clock, included |-> s.included \ s.excluded,
       excluded |-> s.excluded]

\* The peers with later clocks, by clock; a stable sort of a sorted map.
Before(directory, p, q) ==
  \/ directory[p].clock < directory[q].clock
  \/ directory[p].clock = directory[q].clock /\ p < q

Latest(directory, some) == CHOOSE p \in some : \A q \in some \ {p} : Before(directory, q, p)

Ahead(directory, sponsor) ==
  {p \in Listed(directory) : directory[p].clock > directory[sponsor].clock}

\* Mutant: whoever signed the voucher is not looked up in the trust so far.
AnyVoucher(directory, p, trust) == directory[p].voucher # None

VoucherAdmits(directory, p, trust) ==
  LET sponsor == directory[p].voucher
  IN  /\ sponsor # None
      /\ sponsor \in trust.included \ trust.excluded
      /\ directory[sponsor] # None

\* Mutant: a voucher outweighs an exclusion.
CountsIfVouched(directory, p, trust) ==
  p \in trust.included \/ VoucherAdmits(directory, p, trust)

Counts(directory, p, trust) ==
  /\ p \notin trust.excluded
  /\ p \in trust.included \/ VoucherAdmits(directory, p, trust)

\* Mutant: peers excluded meanwhile are not removed from those included.
MergeOnly(trust, s) ==
  [clock |-> s.clock, included |-> trust.included \cup s.included,
   excluded |-> trust.excluded \cup s.excluded]

Merge(trust, s) ==
  LET excluded == trust.excluded \cup s.excluded
  IN  [clock |-> s.clock, included |-> (trust.included \cup s.included) \ excluded,
       excluded |-> excluded]

\* What the statement of a peer makes of the trust in those before it.
Heard(directory, p, trust) ==
  IF Counts(directory, p, trust) THEN Merge(trust, directory[p]) ELSE trust

CurrentTrust(directory, sponsor) ==
  MapThenFoldSet(LAMBDA p, trust : Heard(directory, p, trust), Seed(directory, sponsor),
                 LAMBDA p : p, LAMBDA some : Latest(directory, some),
                 Ahead(directory, sponsor))

\* Otherwise current_trust fails: "bottle sponsor is no longer trusted".
Trusts(directory, sponsor) ==
  /\ directory[sponsor] # None
  /\ sponsor \in CurrentTrust(directory, sponsor).included

-----------------------------------------------------------------------------
(* The new peer *)

\* The statement of a peer that joins: the trust of its sponsor, and itself.
Extended(trust, p, sponsor) ==
  [clock |-> trust.clock + 1, included |-> trust.included \cup {p},
   excluded |-> trust.excluded, voucher |-> sponsor]

Init ==
  /\ peers = [p \in Peer |-> IF p = Founder
                               THEN [clock |-> 0, included |-> {Founder},
                                     excluded |-> {}, voucher |-> None]
                               ELSE None]
  /\ strangers = {}
  /\ view = None
  /\ draft = None
  /\ sent = FALSE

\* prepare_enrollment_from_sponsor: the sponsor may be of an earlier circle.
Prepare(sponsor) ==
  /\ draft = None
  /\ Trusts(peers, sponsor)
  /\ draft' = Extended(CurrentTrust(peers, sponsor), Me, sponsor)
  /\ UNCHANGED <<peers, strangers, view, sent>>

\* refresh_enrollment; a request in flight with the draft before is taken for
\* lost here (Enrollment models both).
Refresh ==
  /\ draft # None
  /\ Trusts(peers, draft.voucher)
  /\ Me \notin CurrentTrust(peers, draft.voucher).excluded
  /\ peers[Me] = None
  /\ draft' = Extended(CurrentTrust(peers, draft.voucher), Me, draft.voucher)
  /\ sent' = FALSE
  /\ UNCHANGED <<peers, strangers, view>>

\* Mutant: the draft's exclusions are not compared.
IncludesAll ==
  /\ Trusts(peers, draft.voucher)
  /\ LET trust == CurrentTrust(peers, draft.voucher)
     IN  draft.included = trust.included \cup {Me} /\ draft.clock = trust.clock + 1

\* validate_current_trust
DraftIsCurrent ==
  /\ Trusts(peers, draft.voucher)
  /\ LET trust == CurrentTrust(peers, draft.voucher)
     IN  /\ Me \notin trust.excluded
         /\ draft = Extended(trust, Me, draft.voucher)

CanSend ==
  /\ draft # None
  /\ peers[Me] = None
  /\ DraftIsCurrent

Send ==
  /\ CanSend
  /\ sent' = TRUE
  /\ UNCHANGED <<peers, strangers, view, draft>>

\* The service lists the peer, possibly after the circle has moved on.
Admit ==
  /\ sent
  /\ peers[Me] = None
  /\ peers' = [peers EXCEPT ![Me] = draft]
  /\ strangers' = strangers \cup (IF draft.voucher \in strangers THEN {Me} ELSE {})
  /\ sent' = FALSE
  /\ UNCHANGED <<view, draft>>

-----------------------------------------------------------------------------
(* The other devices *)

States(p, s) ==
  /\ s.clock <= MaxClock
  /\ peers' = [peers EXCEPT ![p] = s]
  /\ UNCHANGED <<strangers, draft, sent>>

Enter(d, sponsor) ==
  /\ peers[d] = None
  /\ sponsor \notin strangers \cup {d}
  /\ Trusts(peers, sponsor)
  /\ States(d, Extended(CurrentTrust(peers, sponsor), d, sponsor))
  /\ UNCHANGED view

\* A device looks at the directory, and writes a statement upon it later.
Look(d) ==
  /\ view = None
  /\ d \notin strangers
  /\ Trusts(peers, d)
  /\ view' = [by |-> d, trust |-> CurrentTrust(peers, d)]
  /\ UNCHANGED <<peers, strangers, draft, sent>>

\* It adopts what it saw, or also excludes a peer.
Write(d, trust) ==
  \/ States(d, Extended(trust, d, peers[d].voucher))
  \/ \E p \in trust.included \ {d} :
       States(d, [clock |-> trust.clock + 1, included |-> trust.included \ {p},
                  excluded |-> trust.excluded \cup {p},
                  voucher |-> peers[d].voucher])

WriteLate ==
  /\ view # None
  /\ Write(view.by, view.trust)
  /\ view' = None

WriteNow(d) ==
  /\ d \notin strangers
  /\ Trusts(peers, d)
  /\ Write(d, CurrentTrust(peers, d))
  /\ UNCHANGED view

\* A peer of an earlier circle, which knows and excludes any peers, vouched for
\* by nobody or by another of that circle.
Linger(d) ==
  /\ Cardinality(strangers) < MaxStrangers
  /\ peers[d] = None
  /\ \E clock \in 1..MaxClock, other \in Device \ {d}, v \in strangers \cup {None} :
       peers' = [peers EXCEPT ![d] = [clock |-> clock, included |-> {d},
                                      excluded |-> {other}, voucher |-> v]]
  /\ strangers' = strangers \cup {d}
  /\ UNCHANGED <<view, draft, sent>>

Next ==
  \/ \E d \in Device : \/ Prepare(d) \/ Look(d) \/ WriteNow(d) \/ Linger(d)
                       \/ \E p \in Peer : Enter(d, p)
  \/ WriteLate
  \/ Refresh \/ Send \/ Admit

Spec == Init /\ [][Next]_vars

-----------------------------------------------------------------------------
(* Properties *)

Members == {s \in Listed(peers) : s \notin strangers /\ Trusts(peers, s)}

Without(directory, gone) ==
  [p \in Peer |-> IF p \in gone THEN None ELSE directory[p]]

\* The statements of peers that nobody of the circle has included or vouched
\* for change nothing in what any member trusts, whatever their clocks.
StrangersHaveNoSay ==
  \A s \in Members :
    CurrentTrust(peers, s) = CurrentTrust(Without(peers, strangers), s)

\* Nor do those of a peer that the sponsor itself has excluded, even if another
\* member still includes it or has vouched for it.
ExcludedHaveNoSay ==
  \A s \in Members : \A x \in peers[s].excluded :
    LET trust == CurrentTrust(peers, s)
    IN  x \notin trust.included /\ trust = CurrentTrust(Without(peers, {x}), s)

\* A draft that validate_current_trust accepts changes nothing but its own
\* membership: once listed, sponsor and new peer agree on the trust there was
\* before, with the new peer included.
JoinAddsOnlyMe ==
  CanSend =>
    LET sponsor == draft.voucher
        before  == CurrentTrust(peers, sponsor)
        listed  == [peers EXCEPT ![Me] = draft]
        after   == [clock |-> before.clock + 1, included |-> before.included \cup {Me},
                    excluded |-> before.excluded]
    IN  CurrentTrust(listed, sponsor) = after /\ CurrentTrust(listed, Me) = after

\* The trust in a sponsor if the statements that count are those of some peers.
Combined(s, counted) ==
  LET heard    == counted \cup {s}
      included == UNION {peers[p].included : p \in heard}
      excluded == UNION {peers[p].excluded : p \in heard}
  IN  [clock |-> CHOOSE c \in {peers[p].clock : p \in heard} :
                   \A p \in heard : peers[p].clock <= c,
       included |-> included \ excluded,
       excluded |-> excluded]

\* They are exactly the peers ahead of the sponsor that are included, or vouched
\* for, and not excluded by the statements before them that count.
WhatCounts(s, counted) ==
  \A p \in Ahead(peers, s) :
    LET earlier == Combined(s, {q \in counted : Before(peers, q, p)})
    IN  p \in counted <=>
          /\ p \notin earlier.excluded
          /\ \/ p \in earlier.included
             \/ peers[p].voucher \in earlier.included /\ peers[peers[p].voucher] # None

\* What current_trust means, without an order of evaluation.
TrustIsWhatCounts ==
  \A s \in Listed(peers) :
    /\ \E counted \in SUBSET Ahead(peers, s) : WhatCounts(s, counted)
    /\ \A counted \in SUBSET Ahead(peers, s) :
         WhatCounts(s, counted) => CurrentTrust(peers, s) = Combined(s, counted)
=============================================================================
