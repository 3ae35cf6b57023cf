-------------------------- MODULE TrustCircleProofs -------------------------
(***************************************************************************)
(* Theorems of TrustCircle, and of DirectoryPaging, which reads what it    *)
(* works on.                                                               *)
(*                                                                         *)
(* What current_trust computes is a fold over a finite set (IsFold), so    *)
(* what holds of it is shown by induction over that set: a claim that      *)
(* fails for some set of statements fails for a smallest one (SmallestSet),*)
(* from which the latest statement can be taken away (FoldInduction).      *)
(*                                                                         *)
(* Two properties hold of every well-formed directory: ExcludedHaveNoSay,  *)
(* since exclusions only grow, and TrustIsWhatCounts.  The other two need  *)
(* the inductive invariant IInv: whoever is in the circle includes only    *)
(* others that are, and was vouched for by one (Apart), as will be who     *)
(* joins (PlansApart), and no peer was vouched for by one that is not yet  *)
(* listed.                                                                 *)
(***************************************************************************)
EXTENDS TrustCircle, TLAPS, FiniteSetTheorems

\* What fetch_directory returns.
Directory == [Peer -> Statement \cup {None}]

-----------------------------------------------------------------------------
(* Induction over finite sets: a smallest set, or one of fewest elements *)

LEMMA SmallestSet ==
  ASSUME NEW A, IsFiniteSet(A), NEW C, C \subseteq SUBSET A, C # {}
  PROVE  \E U \in C : \A V \in C : V \subseteq U => V = U
<1> DEFINE R == StrictSubsetOrdering(A)
<1>1. IsWellFoundedOn(R, SUBSET A)
  BY FS_StrictSubsetOrderingWellFounded, FS_FiniteSubsetsOfFinite
<1>2. \A V, U \in SUBSET A : V \subseteq U /\ V # U => <<V, U>> \in R
  BY DEF StrictSubsetOrdering
<1> HIDE DEF R
<1>3. PICK U \in C : \A V \in C : ~(<<V, U>> \in R)
  BY <1>1, WFMin
<1> QED
  BY <1>2, <1>3

LEMMA NatMin ==
  ASSUME NEW S, S \subseteq Nat, S # {}
  PROVE  \E x \in S : \A y \in S : x <= y
<1>1. \E R : IsWellFoundedOn(R, Nat) /\ \A x, y \in Nat : y < x => <<y, x>> \in R
  <2>1. IsWellFoundedOn(OpToRel(<, Nat), Nat)
    BY NatLessThanWellFounded
  <2>2. \A x, y \in Nat : y < x => <<y, x>> \in OpToRel(<, Nat)
    BY DEF OpToRel
  <2> QED BY <2>1, <2>2, Zenon
<1>2. PICK R : IsWellFoundedOn(R, Nat) /\ \A x, y \in Nat : y < x => <<y, x>> \in R
  BY <1>1
<1>3. PICK x \in S : \A y \in S : ~(<<y, x>> \in R)
  BY <1>2, WFMin
<1>4. ASSUME NEW y \in S PROVE x <= y
  <2>1. x \in Nat /\ y \in Nat
    OBVIOUS
  <2>2. ~(y < x)
    BY <1>2, <1>3, <2>1, Zenon
  <2> QED BY <2>1, <2>2
<1> QED
  BY <1>4

-----------------------------------------------------------------------------
(* The order of the statements *)

LEMMA PeerFacts ==
  /\ Peer \subseteq Nat
  /\ IsFiniteSet(Peer)
  /\ None \notin Peer
  /\ None \notin Statement
  /\ None \notin View
BY PeerAssumption, NoneAssumption, FS_AddElement DEF Peer

LEMMA Statements ==
  ASSUME NEW d \in Directory, NEW p \in Listed(d)
  PROVE  /\ p \in Peer
         /\ d[p] \in Statement
         /\ d[p].clock \in Nat
         /\ d[p].included \subseteq Peer
         /\ d[p].excluded \subseteq Peer
BY DEF Directory, Listed, Statement

\* Statements are in a total order.
LEMMA TotalOrder ==
  ASSUME NEW d \in Directory, NEW p \in Listed(d), NEW q \in Listed(d), NEW r \in Listed(d)
  PROVE  /\ ~Before(d, p, p)
         /\ Before(d, p, q) \/ p = q \/ Before(d, q, p)
         /\ Before(d, p, q) => ~Before(d, q, p)
         /\ Before(d, p, q) /\ Before(d, q, r) => Before(d, p, r)
<1>1. /\ p \in Nat /\ q \in Nat /\ r \in Nat
      /\ d[p].clock \in Nat /\ d[q].clock \in Nat /\ d[r].clock \in Nat
  BY Statements, PeerFacts
<1> QED
  BY <1>1 DEF Before

LEMMA ListedFinite ==
  ASSUME NEW d, NEW S, S \subseteq Listed(d)
  PROVE  IsFiniteSet(S) /\ S \subseteq Peer
BY PeerFacts, FS_Subset DEF Listed

\* What Latest chooses.
IsLatest(d, S, p) == p \in S /\ \A q \in S \ {p} : Before(d, q, p)

LEMMA LatestIs ==
  ASSUME NEW d \in Directory, NEW S, S \subseteq Listed(d), S # {}
  PROVE  IsLatest(d, S, Latest(d, S))
<1> DEFINE Bad == {U \in SUBSET S : U # {} /\ \A p \in U : ~IsLatest(d, U, p)}
<1>1. SUFFICES ASSUME Bad # {} PROVE FALSE
  <2>1. ~(S \in Bad)
    BY <1>1
  <2>2. \E p \in S : IsLatest(d, S, p)
    BY <2>1
  <2> QED
    BY <2>2 DEF IsLatest, Latest
<1>2. PICK U \in Bad : \A V \in Bad : V \subseteq U => V = U
  <2>1. IsFiniteSet(S) /\ Bad \subseteq SUBSET S
    BY ListedFinite
  <2> HIDE DEF Bad
  <2> QED BY <1>1, <2>1, SmallestSet
<1>3. PICK x \in U : TRUE
  OBVIOUS
<1>4. CASE U \ {x} = {}
  BY <1>3, <1>4 DEF IsLatest
<1>5. CASE U \ {x} # {}
  <2>1. ~(U \ {x} \in Bad)
    BY <1>2, <1>3
  <2>2. PICK y \in U \ {x} : IsLatest(d, U \ {x}, y)
    BY <1>5, <2>1
  <2>3. CASE Before(d, x, y)
    <3>1. IsLatest(d, U, y)
      BY <2>2, <2>3 DEF IsLatest
    <3> QED BY <3>1, <2>2
  <2>4. CASE Before(d, y, x)
    <3>1. \A q \in U \ {x} : Before(d, q, x)
      BY <2>2, <2>4, TotalOrder DEF IsLatest
    <3> QED BY <3>1, <1>3 DEF IsLatest
  <2> QED
    BY <2>2, <2>3, <2>4, <1>3, TotalOrder
<1> QED
  BY <1>4, <1>5

LEMMA LatestUnique ==
  ASSUME NEW d \in Directory, NEW S, S \subseteq Listed(d), NEW p, IsLatest(d, S, p)
  PROVE  Latest(d, S) = p
<1>1. IsLatest(d, S, Latest(d, S))
  BY LatestIs DEF IsLatest
<1> QED
  BY <1>1, TotalOrder DEF IsLatest

-----------------------------------------------------------------------------
(* The fold *)

\* MapThenFoldSet, unfolded once.
Body(d, s, f, S) ==
  IF S = {} THEN Seed(d, s) ELSE Heard(d, Latest(d, S), f[S \ {Latest(d, S)}])

LEMMA FoldExists ==
  ASSUME NEW d \in Directory, NEW s, NEW A, A \subseteq Listed(d)
  PROVE  \E f : f = [S \in SUBSET A |-> Body(d, s, f, S)]
<1> DEFINE D(n) == {S \in SUBSET A : Cardinality(S) <= n}
           Good(n) == \E f : f = [S \in D(n) |-> Body(d, s, f, S)]
           Bad == {n \in Nat : ~Good(n)}
<1>1. \A S \in SUBSET A : IsFiniteSet(S) /\ Cardinality(S) \in Nat
  BY ListedFinite, FS_CardinalityType
<1>2. \A S \in SUBSET A : S # {} => /\ Latest(d, S) \in S
                                  /\ Cardinality(S) > 0
                                  /\ Cardinality(S \ {Latest(d, S)}) = Cardinality(S) - 1
  <2> SUFFICES ASSUME NEW S \in SUBSET A, S # {}
               PROVE  /\ Latest(d, S) \in S
                      /\ Cardinality(S) > 0
                      /\ Cardinality(S \ {Latest(d, S)}) = Cardinality(S) - 1
    OBVIOUS
  <2>1. Latest(d, S) \in S
    BY LatestIs DEF IsLatest
  <2>2. Cardinality(S \ {Latest(d, S)}) = Cardinality(S) - 1
    BY <1>1, <2>1, FS_RemoveElement
  <2>3. Cardinality(S) # 0
    BY <1>1, FS_EmptySet
  <2> QED BY <1>1, <2>1, <2>2, <2>3
<1>3. Good(0)
  <2> DEFINE f == [S \in D(0) |-> Seed(d, s)]
  <2>1. \A S \in D(0) : S = {}
    BY <1>1, FS_EmptySet
  <2>2. f = [S \in D(0) |-> Body(d, s, f, S)]
    BY <2>1 DEF Body
  <2> QED BY <2>2
<1>4. ASSUME NEW n \in Nat, Good(n) PROVE Good(n + 1)
  <2>1. PICK f : f = [S \in D(n) |-> Body(d, s, f, S)]
    BY <1>4
  <2> DEFINE g == [S \in D(n + 1) |-> Body(d, s, f, S)]
  <2>2. \A S \in D(n) : S \in D(n + 1) /\ g[S] = f[S]
    BY <2>1, <1>1
  <2>3. ASSUME NEW S \in D(n + 1) PROVE Body(d, s, f, S) = Body(d, s, g, S)
    <3>1. S # {} => S \ {Latest(d, S)} \in D(n)
      BY <1>1, <1>2
    <3> QED BY <3>1, <2>2 DEF Body
  <2>4. g = [S \in D(n + 1) |-> Body(d, s, g, S)]
    BY <2>3
  <2> QED BY <2>4
<1>5. Bad = {}
  <2> SUFFICES ASSUME Bad # {} PROVE FALSE
    OBVIOUS
  <2> HIDE DEF Good
  <2>1. PICK n \in Bad : \A m \in Bad : n <= m
    BY NatMin
  <2>2. n # 0
    BY <1>3
  <2>3. n - 1 \in Nat /\ ~(n - 1 \in Bad)
    BY <2>1, <2>2
  <2> QED BY <2>1, <2>3, <1>4
<1>6. A \in SUBSET A /\ \A S \in SUBSET A : Cardinality(S) <= Cardinality(A)
  BY <1>1, FS_Subset
<1>7. D(Cardinality(A)) = SUBSET A
  BY <1>6
<1>8. Good(Cardinality(A))
  BY <1>1, <1>5, <1>6
<1> HIDE DEF D
<1> QED BY <1>7, <1>8

\* f is the trust after each set of statements.
IsFold(d, s, f) ==
  /\ f[{}] = Seed(d, s)
  /\ \A S \in SUBSET Ahead(d, s) :
       S # {} => f[S] = Heard(d, Latest(d, S), f[S \ {Latest(d, S)}])

LEMMA Fold ==
  ASSUME NEW d \in Directory, NEW s
  PROVE  \E f : IsFold(d, s, f) /\ CurrentTrust(d, s) = f[Ahead(d, s)]
<1> DEFINE A == Ahead(d, s)
           f == CHOOSE iter : iter = [S \in SUBSET A |-> Body(d, s, iter, S)]
<1>1. A \subseteq Listed(d)
  BY DEF Ahead
<1>2. f = [S \in SUBSET A |-> Body(d, s, f, S)]
  <2> HIDE DEF A
  <2> QED BY <1>1, FoldExists, Zenon
<1>3. CurrentTrust(d, s) = f[A]
  BY DEF CurrentTrust, MapThenFoldSet, Body
<1> HIDE DEF f
<1>4. IsFold(d, s, f)
  BY <1>2 DEF IsFold, Body
<1> QED BY <1>3, <1>4

\* What holds of no statements, and of some if it holds without the latest of them,
\* holds of all.
LEMMA FoldInduction ==
  ASSUME NEW d \in Directory, NEW s, NEW f, IsFold(d, s, f), NEW Good,
         {} \in Good,
         \A S \in SUBSET Ahead(d, s) :
           S # {} /\ S \ {Latest(d, S)} \in Good => S \in Good
  PROVE  SUBSET Ahead(d, s) \subseteq Good
<1> DEFINE A == Ahead(d, s)
           Bad == {S \in SUBSET A : S \notin Good}
<1>1. SUFFICES ASSUME Bad # {} PROVE FALSE
  OBVIOUS
<1>2. IsFiniteSet(A) /\ A \subseteq Listed(d)
  BY ListedFinite DEF Ahead
<1>3. PICK S \in Bad : \A V \in Bad : V \subseteq S => V = S
  <2>1. Bad \subseteq SUBSET A
    OBVIOUS
  <2> HIDE DEF Bad
  <2> QED BY <1>1, <1>2, <2>1, SmallestSet
<1>4. S # {} /\ Latest(d, S) \in S
  BY <1>2, <1>3, LatestIs DEF IsLatest
<1>5. S \ {Latest(d, S)} \in Good
  BY <1>3, <1>4
<1> QED BY <1>3, <1>4, <1>5

-----------------------------------------------------------------------------
(* What holds of trust *)

\* Nobody is both included and excluded.
Sound(trust) == trust \in Trust /\ trust.included \cap trust.excluded = {}

LEMMA SeedSound ==
  ASSUME NEW d \in Directory, NEW s \in Listed(d)
  PROVE  Sound(Seed(d, s))
BY Statements DEF Sound, Seed, Trust, Statement

LEMMA HeardSound ==
  ASSUME NEW d \in Directory, NEW p \in Listed(d), NEW trust, Sound(trust)
  PROVE  /\ Sound(Heard(d, p, trust))
         /\ trust.excluded \subseteq Heard(d, p, trust).excluded
         /\ Heard(d, p, trust).clock \in {trust.clock, d[p].clock}
         /\ Counts(d, p, trust) => Heard(d, p, trust).clock = d[p].clock
<1>1. CASE Counts(d, p, trust)
  <2>1. Heard(d, p, trust) = Merge(trust, d[p])
    BY <1>1 DEF Heard
  <2>2. d[p] \in Statement
    BY Statements
  <2>3. Sound(Merge(trust, d[p]))
    BY <2>2 DEF Sound, Merge, Trust, Statement
  <2> QED BY <2>1, <2>3 DEF Merge
<1>2. CASE ~Counts(d, p, trust)
  BY <1>2 DEF Heard
<1> QED BY <1>1, <1>2

LEMMA FoldSound ==
  ASSUME NEW d \in Directory, NEW s \in Listed(d), NEW f, IsFold(d, s, f)
  PROVE  \A S \in SUBSET Ahead(d, s) :
           /\ Sound(f[S])
           /\ d[s].excluded \subseteq f[S].excluded
           /\ f[S].clock \in {d[p].clock : p \in S \cup {s}}
<1> DEFINE Claim(S) == /\ Sound(f[S])
                       /\ d[s].excluded \subseteq f[S].excluded
                       /\ f[S].clock \in {d[p].clock : p \in S \cup {s}}
           Good == {S \in SUBSET Ahead(d, s) : Claim(S)}
<1>1. Claim({})
  <2>1. f[{}] = Seed(d, s) /\ Sound(Seed(d, s))
    BY SeedSound DEF IsFold
  <2>2. Seed(d, s).excluded = d[s].excluded /\ Seed(d, s).clock = d[s].clock
    BY DEF Seed
  <2> QED BY <2>1, <2>2
<1>2. ASSUME NEW S \in SUBSET Ahead(d, s), S # {}, Claim(S \ {Latest(d, S)})
      PROVE  Claim(S)
  <2> DEFINE p == Latest(d, S)
             R == S \ {p}
  <2>1. p \in S /\ p \in Listed(d)
    BY <1>2, LatestIs DEF IsLatest, Ahead
  <2>2. f[S] = Heard(d, p, f[R])
    BY <1>2 DEF IsFold
  <2>3. Sound(f[R]) /\ d[s].excluded \subseteq f[R].excluded
        /\ f[R].clock \in {d[q].clock : q \in R \cup {s}}
    BY <1>2
  <2> HIDE DEF p
  <2>4. /\ Sound(Heard(d, p, f[R]))
        /\ f[R].excluded \subseteq Heard(d, p, f[R]).excluded
        /\ Heard(d, p, f[R]).clock \in {f[R].clock, d[p].clock}
    BY <2>1, <2>3, HeardSound
  <2>5. f[S].clock \in {d[q].clock : q \in S \cup {s}}
    BY <2>1, <2>2, <2>3, <2>4
  <2> QED BY <2>2, <2>3, <2>4, <2>5
<1> HIDE DEF Claim
<1>3. SUBSET Ahead(d, s) \subseteq Good
  <2>1. {} \in Good
    BY <1>1
  <2>2. \A S \in SUBSET Ahead(d, s) : S # {} /\ S \ {Latest(d, S)} \in Good => S \in Good
    BY <1>2
  <2> HIDE DEF Good
  <2> QED BY <2>1, <2>2, FoldInduction
<1> QED BY <1>3 DEF Claim

LEMMA TrustSound ==
  ASSUME NEW d \in Directory, NEW s \in Listed(d)
  PROVE  /\ Sound(CurrentTrust(d, s))
         /\ d[s].excluded \subseteq CurrentTrust(d, s).excluded
         /\ \E p \in Listed(d) : CurrentTrust(d, s).clock = d[p].clock
<1>1. PICK f : IsFold(d, s, f) /\ CurrentTrust(d, s) = f[Ahead(d, s)]
  BY Fold
<1>2. Ahead(d, s) \in SUBSET Ahead(d, s) /\ Ahead(d, s) \subseteq Listed(d)
  BY DEF Ahead
<1> QED BY <1>1, <1>2, FoldSound

-----------------------------------------------------------------------------
(* Peers without a say *)

\* Statements that never count can be left out.
LEMMA Ignored ==
  ASSUME NEW d \in Directory, NEW s \in Listed(d), NEW X, s \notin X,
         NEW f, IsFold(d, s, f),
         \A S \in SUBSET Ahead(d, s) :
           /\ f[S].included \cap X = {}
           /\ \A p \in X \cap Ahead(d, s) : ~Counts(d, p, f[S])
  PROVE  f[Ahead(d, s)] = CurrentTrust(Without(d, X), s)
<1> DEFINE e == Without(d, X)
           A == Ahead(d, s)
<1>1. /\ e \in Directory
      /\ \A p \in Peer : e[p] = IF p \in X THEN None ELSE d[p]
      /\ s \in Listed(e)
  BY DEF Without, Directory, Listed
<1> HIDE DEF e
<1>2. Listed(e) = Listed(d) \ X /\ Ahead(e, s) = A \ X
  BY <1>1 DEF Listed, Ahead
<1>3. PICK g : IsFold(e, s, g) /\ CurrentTrust(e, s) = g[Ahead(e, s)]
  BY <1>1, Fold
<1> DEFINE Good == {S \in SUBSET A : f[S] = g[S \ X]}
<1>4. {} \in Good
  <2>1. d[s] = e[s]
    BY <1>1 DEF Listed
  <2>2. f[{}] = g[{}]
    BY <1>3, <2>1 DEF IsFold, Seed
  <2>3. {} \ X = {}
    OBVIOUS
  <2> QED BY <2>2, <2>3
<1>5. ASSUME NEW S \in SUBSET A, S # {}, S \ {Latest(d, S)} \in Good
      PROVE  S \in Good
  <2> DEFINE p == Latest(d, S)
             R == S \ {p}
  <2>1. /\ IsLatest(d, S, p)
        /\ p \in S
        /\ A \subseteq Listed(d)
    BY <1>5, LatestIs DEF IsLatest, Ahead
  <2>2. f[S] = Heard(d, p, f[R]) /\ f[R] = g[R \ X]
    BY <1>5 DEF IsFold
  <2> HIDE DEF p
  <2>3. CASE p \in X
    <3>1. R \ X = S \ X
      BY <2>3
    <3>2. ~Counts(d, p, f[R])
      BY <2>1, <2>3
    <3> QED BY <2>2, <3>1, <3>2 DEF Heard
  <2>4. CASE p \notin X
    <3>1. IsLatest(e, S \ X, p)
      BY <1>1, <2>1, <2>4, PeerFacts DEF IsLatest, Before, Listed
    <3>2. Latest(e, S \ X) = p /\ S \ X # {} /\ S \ X \in SUBSET Ahead(e, s)
      BY <1>1, <1>2, <2>1, <2>4, <3>1, LatestUnique
    <3>3. g[S \ X] = Heard(e, p, g[(S \ X) \ {p}])
      BY <1>3, <3>2 DEF IsFold
    <3>4. (S \ X) \ {p} = R \ X
      OBVIOUS
    <3>5. e[p] = d[p] /\ p \in Peer
      BY <1>1, <2>1, <2>4 DEF Listed
    <3>6. Counts(e, p, f[R]) <=> Counts(d, p, f[R])
      <4>1. f[R].included \cap X = {} /\ f[R].included \subseteq Peer
        <5>1. R \in SUBSET A
          OBVIOUS
        <5> QED BY <5>1, FoldSound DEF Sound, Trust
      <4> QED BY <1>1, <3>5, <4>1 DEF Counts, VoucherAdmits
    <3>7. Heard(e, p, f[R]) = Heard(d, p, f[R])
      BY <3>5, <3>6 DEF Heard
    <3> QED BY <2>2, <3>3, <3>4, <3>7
  <2> QED BY <2>3, <2>4
<1>6. A \in Good
  <2> HIDE DEF Good
  <2> QED BY <1>4, <1>5, FoldInduction
<1> QED BY <1>2, <1>3, <1>6 DEF e

LEMMA ExcludedIgnored ==
  ASSUME NEW d \in Directory, NEW s \in Listed(d), s \in CurrentTrust(d, s).included,
         NEW x \in d[s].excluded
  PROVE  /\ x \notin CurrentTrust(d, s).included
         /\ CurrentTrust(d, s) = CurrentTrust(Without(d, {x}), s)
<1>1. PICK f : IsFold(d, s, f) /\ CurrentTrust(d, s) = f[Ahead(d, s)]
  BY Fold
<1>2. \A S \in SUBSET Ahead(d, s) :
        /\ f[S].included \cap {x} = {}
        /\ \A p \in {x} \cap Ahead(d, s) : ~Counts(d, p, f[S])
  BY <1>1, FoldSound DEF Sound, Counts
<1>3. x \notin CurrentTrust(d, s).included
  BY <1>1, <1>2
<1>4. s \notin {x}
  BY <1>3
<1> QED BY <1>1, <1>2, <1>3, <1>4, Ignored

\* Peers that nobody else includes, and vouched for only by each other.
LEMMA StrangersIgnored ==
  ASSUME NEW d \in Directory, NEW X, NEW s \in Listed(d) \ X,
         NEW Known, Known \cap X = {},
         \A p \in Listed(d) \ X : d[p].included \subseteq Known,
         \A p \in Listed(d) \cap X : d[p].voucher \in X \cup {None}
  PROVE  /\ CurrentTrust(d, s).included \subseteq Known
         /\ CurrentTrust(d, s) = CurrentTrust(Without(d, X), s)
<1> DEFINE A == Ahead(d, s)
<1>1. PICK f : IsFold(d, s, f) /\ CurrentTrust(d, s) = f[A]
  BY Fold
<1>2. \A trust, p : trust.included \subseteq Known /\ p \in X \cap A => ~Counts(d, p, trust)
  BY DEF Counts, VoucherAdmits, Ahead
<1> DEFINE Good == {S \in SUBSET A : f[S].included \subseteq Known}
<1>3. {} \in Good
  <2>1. f[{}].included = d[s].included \ d[s].excluded
    BY <1>1 DEF IsFold, Seed
  <2> QED BY <2>1
<1>4. ASSUME NEW S \in SUBSET A, S # {}, S \ {Latest(d, S)} \in Good
      PROVE  S \in Good
  <2> DEFINE p == Latest(d, S)
             R == S \ {p}
  <2>1. p \in S /\ p \in A /\ p \in Listed(d)
    BY <1>4, LatestIs DEF IsLatest, Ahead
  <2>2. f[S] = Heard(d, p, f[R]) /\ f[R].included \subseteq Known
    BY <1>1, <1>4 DEF IsFold
  <2> HIDE DEF p
  <2>3. CASE Counts(d, p, f[R])
    <3>1. p \notin X
      BY <1>2, <2>1, <2>2, <2>3
    <3>2. f[S].included \subseteq f[R].included \cup d[p].included
      BY <2>2, <2>3 DEF Heard, Merge
    <3> QED BY <2>1, <2>2, <3>1, <3>2
  <2>4. CASE ~Counts(d, p, f[R])
    BY <2>2, <2>4 DEF Heard
  <2> QED BY <2>3, <2>4
<1>5. SUBSET A \subseteq Good
  <2> HIDE DEF Good
  <2> QED BY <1>1, <1>3, <1>4, FoldInduction
<1>6. \A S \in SUBSET A :
        /\ f[S].included \subseteq Known
        /\ f[S].included \cap X = {}
        /\ \A p \in X \cap A : ~Counts(d, p, f[S])
  BY <1>2, <1>5
<1> QED BY <1>1, <1>6, Ignored

-----------------------------------------------------------------------------
(* Without an order of evaluation *)

\* Peers up to some point in the order.
Initial(S, A) == \A p \in S, q \in A : Before(peers, q, p) => q \in S

LEMMA CombinedSets ==
  ASSUME NEW s, NEW C
  PROVE  /\ \A x : x \in Combined(s, C).excluded <=>
                     \E p \in C \cup {s} : x \in peers[p].excluded
         /\ \A x : x \in Combined(s, C).included <=>
                     /\ x \notin Combined(s, C).excluded
                     /\ \E p \in C \cup {s} : x \in peers[p].included
BY DEF Combined

LEMMA CombinedClock ==
  ASSUME peers \in Directory, NEW s \in Listed(peers), NEW C, C \subseteq Listed(peers),
         NEW p \in C \cup {s}, \A q \in C \cup {s} : peers[q].clock <= peers[p].clock
  PROVE  Combined(s, C).clock = peers[p].clock
<1> DEFINE Top(n) == n \in {peers[q].clock : q \in C \cup {s}}
                      /\ \A q \in C \cup {s} : peers[q].clock <= n
<1>1. \A n : Top(n) => n = peers[p].clock
  BY Statements
<1>2. Combined(s, C).clock = CHOOSE n \in {peers[q].clock : q \in C \cup {s}} :
                               \A q \in C \cup {s} : peers[q].clock <= n
  BY DEF Combined
<1> QED BY <1>1, <1>2

\* The peers whose statements come before another's.
Earlier(s, p) == {q \in Ahead(peers, s) : Before(peers, q, p)}

\* What it makes of the statements up to some point, if those that count are the
\* ones of a given set.
LEMMA FoldCombines ==
  ASSUME peers \in Directory, NEW s \in Listed(peers), NEW f, IsFold(peers, s, f),
         NEW counted \in SUBSET Ahead(peers, s),
         \A p \in Ahead(peers, s) :
           f[Earlier(s, p)] = Combined(s, counted \cap Earlier(s, p)) =>
             (Counts(peers, p, f[Earlier(s, p)]) <=> p \in counted)
  PROVE  \A S \in SUBSET Ahead(peers, s) :
           Initial(S, Ahead(peers, s)) => f[S] = Combined(s, counted \cap S)
<1> DEFINE A == Ahead(peers, s)
<1>2. A \subseteq Listed(peers)
  BY DEF Ahead
<1> DEFINE Good == {S \in SUBSET A : Initial(S, A) => f[S] = Combined(s, counted \cap S)}
<1>3. {} \in Good
  <2>1. f[{}] = Seed(peers, s)
    BY DEF IsFold
  <2>2. Combined(s, {}).clock = peers[s].clock
    BY Statements, CombinedClock
  <2>3. /\ Combined(s, {}).excluded = peers[s].excluded
        /\ Combined(s, {}).included = peers[s].included \ peers[s].excluded
    <3>1. UNION {peers[p].excluded : p \in {} \cup {s}} = peers[s].excluded
      OBVIOUS
    <3>2. UNION {peers[p].included : p \in {} \cup {s}} = peers[s].included
      OBVIOUS
    <3> QED BY <3>1, <3>2 DEF Combined
  <2>4. Seed(peers, s) = Combined(s, {})
    BY <2>2, <2>3 DEF Seed, Combined
  <2>5. counted \cap {} = {}
    OBVIOUS
  <2> QED BY <2>1, <2>4, <2>5
<1>4. ASSUME NEW S \in SUBSET A, S # {}, S \ {Latest(peers, S)} \in Good
      PROVE  S \in Good
  <2> SUFFICES ASSUME Initial(S, A) PROVE f[S] = Combined(s, counted \cap S)
    OBVIOUS
  <2> DEFINE p == Latest(peers, S)
             R == S \ {p}
             before == Combined(s, counted \cap R)
             after == Combined(s, counted \cap S)
  <2>1. IsLatest(peers, S, p) /\ f[S] = Heard(peers, p, f[R])
    BY <1>2, <1>4, LatestIs DEF IsFold
  <2>2. R \in SUBSET A /\ (Initial(R, A) => f[R] = before)
    BY <1>4
  <2> HIDE DEF p
  <2>3. p \in A /\ p \in S /\ p \in Listed(peers)
    BY <1>2, <2>1 DEF IsLatest
  <2>4. Initial(R, A)
    <3> SUFFICES ASSUME NEW r \in R, NEW q \in A, Before(peers, q, r) PROVE q \in R
      BY DEF Initial
    <3>1. q \in S /\ Before(peers, r, p)
      BY <2>1 DEF Initial, IsLatest
    <3> QED BY <1>2, <2>3, <3>1, TotalOrder
  <2>5. f[R] = before
    BY <2>2, <2>4
  <2>6. Earlier(s, p) = R
    <3>1. ASSUME NEW q \in A, Before(peers, q, p) PROVE q \in R
      <4>1. q \in S
        BY <2>3, <3>1 DEF Initial
      <4> QED BY <1>2, <2>3, <3>1, <4>1, TotalOrder
    <3>2. \A q \in R : Before(peers, q, p)
      BY <2>1 DEF IsLatest
    <3> QED BY <3>1, <3>2 DEF Earlier
  <2>7. Counts(peers, p, f[R]) <=> p \in counted
    BY <2>3, <2>5, <2>6
  <2>8. CASE p \in counted
    <3>1. f[S] = Merge(before, peers[p])
      BY <2>1, <2>5, <2>7, <2>8 DEF Heard
    <3>2. counted \cap S = (counted \cap R) \cup {p}
      BY <2>3, <2>8
    <3>3. after.clock = peers[p].clock
      <4>1. peers[s].clock <= peers[p].clock
        BY <2>3, Statements DEF Ahead
      <4>2. \A q \in R : peers[q].clock <= peers[p].clock
        BY <1>2, <2>1, <2>3, Statements DEF IsLatest, Before
      <4>3. \A q \in (counted \cap S) \cup {s} : peers[q].clock <= peers[p].clock
        BY <2>3, <3>2, <4>1, <4>2, Statements
      <4> QED BY <1>2, <2>3, <2>8, <4>3, CombinedClock
    <3>4. after.excluded = before.excluded \cup peers[p].excluded
      BY <3>2, CombinedSets
    <3>5. \A x : x \in after.included <=>
                   x \in (before.included \cup peers[p].included) \ after.excluded
      BY <3>2, <3>4, CombinedSets
    <3>6. after.included = (before.included \cup peers[p].included) \ after.excluded
      BY <3>5
    <3>7. after = [clock |-> after.clock, included |-> after.included,
                   excluded |-> after.excluded]
      BY DEF Combined
    <3> QED BY <3>1, <3>3, <3>4, <3>6, <3>7 DEF Merge
  <2>9. CASE p \notin counted
    <3>1. counted \cap S = counted \cap R
      BY <2>9
    <3> QED BY <2>1, <2>5, <2>7, <2>9, <3>1 DEF Heard
  <2> QED BY <2>8, <2>9
<1>5. SUBSET A \subseteq Good
  <2> HIDE DEF Good
  <2> QED BY <1>3, <1>4, FoldInduction
<1> QED BY <1>5

\* Those before a peer are statements up to some point.
LEMMA EarlierFacts ==
  ASSUME peers \in Directory, NEW s \in Listed(peers), NEW p \in Ahead(peers, s)
  PROVE  /\ Earlier(s, p) \in SUBSET Ahead(peers, s)
         /\ Initial(Earlier(s, p), Ahead(peers, s))
<1>1. Ahead(peers, s) \subseteq Listed(peers)
  BY DEF Ahead
<1> QED BY <1>1, TotalOrder DEF Initial, Earlier

\* In the words of WhatCounts.
LEMMA CountsMeans ==
  ASSUME peers \in Directory, NEW s \in Listed(peers), NEW f, IsFold(peers, s, f),
         NEW S \in SUBSET Ahead(peers, s), NEW C, f[S] = Combined(s, C), NEW p
  PROVE  Counts(peers, p, f[S]) <=>
           /\ p \notin Combined(s, C).excluded
           /\ \/ p \in Combined(s, C).included
              \/ /\ peers[p].voucher \in Combined(s, C).included
                 /\ peers[peers[p].voucher] # None
<1>1. f[S].included \cap f[S].excluded = {} /\ f[S].included \subseteq Peer
  BY FoldSound DEF Sound, Trust
<1> QED BY <1>1, PeerFacts DEF Counts, VoucherAdmits

LEMMA OrderIrrelevant ==
  ASSUME peers \in Directory, NEW s \in Listed(peers),
         NEW counted \in SUBSET Ahead(peers, s), WhatCounts(s, counted)
  PROVE  CurrentTrust(peers, s) = Combined(s, counted)
<1> DEFINE A == Ahead(peers, s)
<1>1. PICK f : IsFold(peers, s, f) /\ CurrentTrust(peers, s) = f[A]
  BY Fold
<1>2. ASSUME NEW p \in A, f[Earlier(s, p)] = Combined(s, counted \cap Earlier(s, p))
      PROVE  Counts(peers, p, f[Earlier(s, p)]) <=> p \in counted
  <2>1. {q \in counted : Before(peers, q, p)} = counted \cap Earlier(s, p)
    BY DEF Earlier
  <2>2. Earlier(s, p) \in SUBSET A
    BY EarlierFacts
  <2>3. p \in counted <=>
          /\ p \notin Combined(s, counted \cap Earlier(s, p)).excluded
          /\ \/ p \in Combined(s, counted \cap Earlier(s, p)).included
             \/ /\ peers[p].voucher \in Combined(s, counted \cap Earlier(s, p)).included
                /\ peers[peers[p].voucher] # None
    BY <2>1 DEF WhatCounts
  <2> QED BY <1>1, <1>2, <2>2, <2>3, CountsMeans
<1>3. Initial(A, A) /\ counted \cap A = counted
  BY DEF Initial
<1> QED BY <1>1, <1>2, <1>3, FoldCombines

LEMMA SomeCount ==
  ASSUME peers \in Directory, NEW s \in Listed(peers)
  PROVE  \E counted \in SUBSET Ahead(peers, s) : WhatCounts(s, counted)
<1> DEFINE A == Ahead(peers, s)
<1>1. PICK f : IsFold(peers, s, f) /\ CurrentTrust(peers, s) = f[A]
  BY Fold
<1> DEFINE counted == {p \in A : Counts(peers, p, f[Earlier(s, p)])}
<1>2. \A p \in A : Counts(peers, p, f[Earlier(s, p)]) <=> p \in counted
  OBVIOUS
<1>3. counted \in SUBSET A
  OBVIOUS
<1> HIDE DEF counted
<1>4. \A S \in SUBSET A : Initial(S, A) => f[S] = Combined(s, counted \cap S)
  BY <1>1, <1>2, <1>3, FoldCombines
<1>5. ASSUME NEW p \in A
      PROVE  LET earlier == Combined(s, {q \in counted : Before(peers, q, p)})
             IN  p \in counted <=>
                   /\ p \notin earlier.excluded
                   /\ \/ p \in earlier.included
                      \/ /\ peers[p].voucher \in earlier.included
                         /\ peers[peers[p].voucher] # None
  <2>1. {q \in counted : Before(peers, q, p)} = counted \cap Earlier(s, p)
    BY <1>3 DEF Earlier
  <2>2. Earlier(s, p) \in SUBSET A /\ Initial(Earlier(s, p), A)
    BY EarlierFacts
  <2>3. f[Earlier(s, p)] = Combined(s, counted \cap Earlier(s, p))
    BY <1>4, <2>2
  <2>4. Counts(peers, p, f[Earlier(s, p)]) <=> p \in counted
    BY <1>2
  <2>5. p \in counted <=>
          /\ p \notin Combined(s, counted \cap Earlier(s, p)).excluded
          /\ \/ p \in Combined(s, counted \cap Earlier(s, p)).included
             \/ /\ peers[p].voucher \in Combined(s, counted \cap Earlier(s, p)).included
                /\ peers[peers[p].voucher] # None
    BY <1>1, <2>2, <2>3, <2>4, CountsMeans
  <2> QED BY <2>1, <2>5
<1> QED BY <1>3, <1>5 DEF WhatCounts

-----------------------------------------------------------------------------
(* A peer that joins *)

\* A directory, a sponsor that it trusts, and the same directory with the statement
\* that a new peer made of that trust.
Joins(d, s, e, trust) ==
  /\ d \in Directory
  /\ s \in Listed(d)
  /\ d[Me] = None
  /\ \A p \in Listed(d) : d[p].voucher # Me
  /\ trust = CurrentTrust(d, s)
  /\ s \in trust.included
  /\ Me \notin trust.excluded
  /\ Extended(trust, Me, s) \in Statement
  /\ e = [d EXCEPT ![Me] = Extended(trust, Me, s)]

\* What listing the new peer makes of it.
After(trust) ==
  [clock |-> trust.clock + 1, included |-> trust.included \cup {Me},
   excluded |-> trust.excluded]

\* The peers whose statements come after the new one.
Later(d, s, e) == {p \in Ahead(d, s) : ~Before(e, p, Me)}

LEMMA JoinFacts ==
  ASSUME NEW d, NEW s, NEW e, NEW trust, Joins(d, s, e, trust)
  PROVE  /\ d \in Directory /\ e \in Directory
         /\ Listed(e) = Listed(d) \cup {Me}
         /\ s \in Listed(d) /\ d[Me] = None /\ Me \notin Listed(d)
         /\ \A p \in Listed(d) : e[p] = d[p] /\ d[p].voucher # Me /\ p # Me
         /\ Ahead(d, s) \subseteq Listed(d)
         /\ e[Me].clock = trust.clock + 1
         /\ e[Me].included = trust.included \cup {Me}
         /\ e[Me].excluded = trust.excluded
         /\ e[Me].voucher = s
         /\ Sound(trust)
         /\ trust.clock \in Nat
         /\ trust.clock >= d[s].clock
         /\ Ahead(e, s) = Ahead(d, s) \cup {Me}
         /\ \A p \in Later(d, s, e) : d[p].clock > trust.clock /\ p \in Listed(d)
         /\ Ahead(e, Me) \subseteq Later(d, s, e)
<1>1. /\ e \in Directory
      /\ Me \in Peer
      /\ \A p \in Peer : e[p] = IF p = Me THEN Extended(trust, Me, s) ELSE d[p]
  BY DEF Joins, Directory, Peer
<1>2. Extended(trust, Me, s) # None
  BY PeerFacts DEF Joins
<1>3. /\ s \in Listed(d) /\ s # Me /\ Me \notin Listed(d)
      /\ \A p \in Listed(d) : e[p] = d[p] /\ p \in Peer
  BY <1>1 DEF Joins, Listed
<1>4. Listed(e) = Listed(d) \cup {Me}
  BY <1>1, <1>2, <1>3 DEF Listed
<1>5. /\ e[Me].clock = trust.clock + 1
      /\ e[Me].included = trust.included \cup {Me}
      /\ e[Me].excluded = trust.excluded
      /\ e[Me].voucher = s
  BY <1>1 DEF Extended
<1>6. Sound(trust) /\ trust.clock \in Nat /\ trust.clock >= d[s].clock
  <2>1. PICK f : IsFold(d, s, f) /\ CurrentTrust(d, s) = f[Ahead(d, s)]
    BY Fold DEF Joins
  <2>2. /\ Sound(trust)
        /\ trust.clock \in {d[p].clock : p \in Ahead(d, s) \cup {s}}
    BY <2>1, FoldSound DEF Joins
  <2>3. \A p \in Ahead(d, s) \cup {s} : d[p].clock \in Nat /\ d[p].clock >= d[s].clock
    BY <1>3, Statements DEF Joins, Ahead
  <2> QED BY <2>2, <2>3
<1>7. d[s].clock \in Nat /\ \A p \in Listed(d) : d[p].clock \in Nat
  BY <1>3, Statements DEF Joins
<1>8. Ahead(e, s) = Ahead(d, s) \cup {Me}
  BY <1>3, <1>4, <1>5, <1>6, <1>7 DEF Ahead
<1>9. \A p \in Later(d, s, e) : d[p].clock > trust.clock /\ p \in Listed(d)
  BY <1>3, <1>5, <1>6, <1>7 DEF Later, Before, Ahead
<1>10. Ahead(e, Me) \subseteq Later(d, s, e)
  BY <1>3, <1>4, <1>5, <1>6, <1>7 DEF Later, Before, Ahead
<1>11. /\ d \in Directory /\ d[Me] = None
       /\ \A p \in Listed(d) : d[p].voucher # Me
       /\ Ahead(d, s) \subseteq Listed(d)
  BY DEF Joins, Ahead
<1> QED BY <1>1, <1>3, <1>4, <1>5, <1>6, <1>8, <1>9, <1>10, <1>11

\* Had a statement after the new one counted, the clock of the trust were later.
LEMMA LaterIgnored ==
  ASSUME NEW d, NEW s, NEW e, NEW trust, Joins(d, s, e, trust),
         NEW f, IsFold(d, s, f), trust = f[Ahead(d, s)]
  PROVE  /\ trust = f[Ahead(d, s) \ Later(d, s, e)]
         /\ \A p \in Later(d, s, e) : ~Counts(d, p, trust)
<1> DEFINE A == Ahead(d, s)
           U == Later(d, s, e)
           L == A \ U
           Moved(S) == f[S].clock > trust.clock
           Same(S) == f[S] = f[S \cap L] /\ \A p \in S \cap U : ~Counts(d, p, f[S \cap L])
           Good == {S \in SUBSET A : Moved(S) \/ Same(S)}
<1>1. /\ d \in Directory /\ s \in Listed(d) /\ A \subseteq Listed(d)
      /\ U \subseteq A
      /\ trust.clock \in Nat
      /\ \A p \in U : d[p].clock > trust.clock
  <2>1. U \subseteq A
    BY DEF Later
  <2> HIDE DEF A, U, L
  <2> QED BY <2>1, JoinFacts DEF A, U
<1>2. {} \in Good
  <2>1. {} \cap L = {} /\ {} \cap U = {}
    OBVIOUS
  <2>2. Same({})
    BY <2>1
  <2> QED BY <2>2
<1>3. ASSUME NEW S \in SUBSET A, S # {}, S \ {Latest(d, S)} \in Good
      PROVE  S \in Good
  <2> DEFINE p == Latest(d, S)
             R == S \ {p}
  <2>1. IsLatest(d, S, p) /\ f[S] = Heard(d, p, f[R])
    BY <1>1, <1>3, LatestIs DEF IsFold
  <2>2. R \in SUBSET A /\ (Moved(R) \/ Same(R))
    BY <1>3
  <2> HIDE DEF p
  <2>3. p \in S /\ p \in A /\ p \in Listed(d) /\ d[p].clock \in Nat
    BY <1>1, <2>1, Statements DEF IsLatest
  <2>4. /\ f[S].clock \in {f[R].clock, d[p].clock}
        /\ Counts(d, p, f[R]) => f[S].clock = d[p].clock
        /\ f[R].clock \in Nat
    <3>1. Sound(f[R]) /\ f[R].clock \in Nat
      <4>1. Sound(f[R])
        BY <1>1, <2>2, FoldSound
      <4>2. f[R].clock \in 0..MaxClock + 1
        BY <4>1 DEF Sound, Trust
      <4> QED BY <4>1, <4>2, BoundAssumption
    <3> QED BY <1>1, <2>1, <2>3, <3>1, HeardSound
  <2>5. CASE p \in U
    <3>1. d[p].clock > trust.clock
      BY <1>1, <2>5
    <3>2. CASE Moved(R)
      BY <2>3, <2>4, <3>1, <3>2
    <3>3. CASE Same(R) /\ Counts(d, p, f[R])
      BY <2>4, <3>1, <3>3
    <3>4. CASE Same(R) /\ ~Counts(d, p, f[R])
      <4>1. R \cap L = S \cap L /\ S \cap U = (R \cap U) \cup {p}
        BY <2>3, <2>5
      <4>2. f[S] = f[R]
        BY <2>1, <3>4 DEF Heard
      <4>3. Same(S)
        BY <3>4, <4>1, <4>2
      <4> QED BY <4>3
    <3> QED BY <2>2, <3>2, <3>3, <3>4
  <2>6. CASE p \notin U
    <3>1. \A q \in S : q \notin U
      <4> SUFFICES ASSUME NEW q \in S, q # p PROVE q \notin U
        BY <2>6
      <4>1. Before(d, q, p) /\ Before(e, p, Me)
        BY <2>1, <2>3, <2>6 DEF IsLatest, Later
      <4>2. /\ e \in Directory /\ e[p] = d[p] /\ e[q] = d[q]
            /\ p \in Listed(e) /\ q \in Listed(e) /\ Me \in Listed(e)
        BY <1>1, <2>3, JoinFacts
      <4>3. Before(e, q, p)
        BY <4>1, <4>2 DEF Before
      <4>4. Before(e, q, Me)
        BY <4>1, <4>2, <4>3, TotalOrder
      <4> QED BY <4>4 DEF Later
    <3>2. S \cap L = S /\ S \cap U = {}
      BY <3>1
    <3>3. Same(S)
      BY <3>2
    <3> QED BY <3>3
  <2> QED BY <2>5, <2>6
<1>4. A \in Good
  <2> HIDE DEF Good
  <2> QED BY <1>1, <1>2, <1>3, FoldInduction
<1>5. ~Moved(A)
  BY <1>1
<1>6. Same(A)
  BY <1>4, <1>5
<1>7. A \cap L = L /\ A \cap U = U
  BY <1>1
<1> QED BY <1>6, <1>7

\* The statement of the new peer makes After of the trust it was made of, and those
\* after it change nothing more.
LEMMA LaterCountsNot ==
  ASSUME NEW d, NEW s, NEW e, NEW trust, Joins(d, s, e, trust),
         NEW p \in Later(d, s, e), ~Counts(d, p, trust)
  PROVE  Heard(e, p, After(trust)) = After(trust)
<1>1. p \in Listed(d) /\ p # Me /\ e[p] = d[p] /\ d[p].voucher # Me
  BY JoinFacts
<1>2. \A q \in Peer \ {Me} : e[q] = d[q]
  BY DEF Joins
<1>3. trust.included \subseteq Peer
  BY JoinFacts DEF Sound, Trust
<1>4. ~Counts(e, p, After(trust))
  BY <1>1, <1>2, <1>3 DEF Counts, VoucherAdmits, After
<1> QED BY <1>4 DEF Heard

LEMMA JoinedSponsor ==
  ASSUME NEW d, NEW s, NEW e, NEW trust, Joins(d, s, e, trust)
  PROVE  CurrentTrust(e, s) = After(trust)
<1> DEFINE A == Ahead(d, s)
           U == Later(d, s, e)
           L == A \ U
           B == A \cup {Me}
<1>1. PICK f : IsFold(d, s, f) /\ trust = f[A]
  BY Fold DEF Joins
<1>2. trust = f[L] /\ \A p \in U : ~Counts(d, p, trust)
  BY <1>1, LaterIgnored
<1>3. /\ d \in Directory /\ e \in Directory /\ s \in Listed(d) /\ s \in Listed(e)
      /\ Ahead(e, s) = B
      /\ A \subseteq Listed(d) /\ Me \notin A
      /\ B \subseteq Listed(e)
      /\ \A p \in Listed(d) : e[p] = d[p] /\ d[p].voucher # Me
      /\ d[Me] = None
  BY JoinFacts
<1>4. PICK g : IsFold(e, s, g) /\ CurrentTrust(e, s) = g[B]
  BY <1>3, Fold
<1>5. \A S \in SUBSET A : Sound(f[S])
  BY <1>1, <1>3, FoldSound
<1> DEFINE Good == {S \in SUBSET B : /\ S \subseteq L => g[S] = f[S]
                                     /\ L \cup {Me} \subseteq S => g[S] = After(trust)}
<1>6. {} \in Good
  BY <1>1, <1>3, <1>4 DEF IsFold, Seed
<1>7. ASSUME NEW S \in SUBSET B, S # {}, S \ {Latest(e, S)} \in Good
      PROVE  S \in Good
  <2> DEFINE p == Latest(e, S)
             R == S \ {p}
  <2>1. IsLatest(e, S, p) /\ g[S] = Heard(e, p, g[R])
    BY <1>3, <1>4, <1>7, LatestIs DEF IsFold
  <2>2. /\ R \subseteq L => g[R] = f[R]
        /\ L \cup {Me} \subseteq R => g[R] = After(trust)
    BY <1>7
  <2> HIDE DEF p
  <2>3. p \in S /\ p \in B /\ p \in Listed(e)
    BY <1>3, <2>1 DEF IsLatest
  <2>4. ASSUME S \subseteq L PROVE g[S] = f[S]
    <3>1. p \in L /\ R \subseteq L /\ g[R] = f[R] /\ R \in SUBSET A /\ S \in SUBSET A
      BY <2>2, <2>3, <2>4
    <3>2. IsLatest(d, S, p)
      BY <1>3, <2>1, <2>4, <3>1 DEF IsLatest, Before
    <3>3. f[S] = Heard(d, p, f[R])
      <4>1. Latest(d, S) = p
        BY <1>3, <3>1, <3>2, LatestUnique
      <4> QED BY <1>1, <1>7, <3>1, <4>1 DEF IsFold
    <3>4. Heard(e, p, f[R]) = Heard(d, p, f[R])
      <4>1. e[p] = d[p] /\ d[p].voucher # Me
        BY <1>3, <3>1
      <4>2. \A q \in Peer \ {Me} : e[q] = d[q]
        BY DEF Joins
      <4>3. f[R].included \subseteq Peer
        BY <1>5, <3>1 DEF Sound, Trust
      <4>4. Counts(e, p, f[R]) <=> Counts(d, p, f[R])
        BY <4>1, <4>2, <4>3 DEF Counts, VoucherAdmits
      <4> QED BY <4>1, <4>4 DEF Heard
    <3> QED BY <2>1, <3>1, <3>3, <3>4
  <2>5. ASSUME L \cup {Me} \subseteq S PROVE g[S] = After(trust)
    <3>1. CASE p = Me
      <4>1. R = L
        <5>1. \A q \in R : q \in L
          BY <1>3, <2>1, <3>1 DEF IsLatest, Later
        <5> QED BY <1>3, <2>5, <3>1, <5>1
      <4>2. g[S] = Heard(e, Me, trust)
        BY <1>2, <2>1, <2>2, <3>1, <4>1
      <4>3. Counts(e, Me, trust)
        <5>1. e[Me].voucher = s
          BY JoinFacts
        <5>2. /\ Me \notin trust.excluded /\ s \in trust.included
              /\ s \notin trust.excluded /\ e[s] # None /\ s # None
          BY <1>3, JoinFacts, PeerFacts DEF Joins, Sound, Listed
        <5> QED BY <5>1, <5>2 DEF Counts, VoucherAdmits
      <4>4. Merge(trust, e[Me]) = After(trust)
        <5>1. /\ e[Me].clock = trust.clock + 1
              /\ e[Me].included = trust.included \cup {Me}
              /\ e[Me].excluded = trust.excluded
          BY JoinFacts
        <5>2. trust.included \cap trust.excluded = {} /\ Me \notin trust.excluded
          BY JoinFacts DEF Sound, Joins
        <5>3. trust.excluded \cup trust.excluded = trust.excluded
          OBVIOUS
        <5>4. (trust.included \cup (trust.included \cup {Me})) \ trust.excluded
                = trust.included \cup {Me}
          BY <5>2
        <5> QED BY <5>1, <5>3, <5>4 DEF Merge, After
      <4> QED BY <4>2, <4>3, <4>4 DEF Heard
    <3>2. CASE p # Me
      <4>1. Before(e, Me, p)
        BY <2>1, <2>5, <3>2 DEF IsLatest
      <4>2. p \in U
        <5>1. ~Before(e, p, Me)
          BY <1>3, <2>3, <4>1, JoinFacts, TotalOrder
        <5> QED BY <2>3, <3>2, <5>1 DEF Later
      <4>3. g[R] = After(trust)
        BY <2>2, <2>5, <3>2, <4>2
      <4> QED BY <1>2, <2>1, <4>2, <4>3, LaterCountsNot
    <3> QED BY <3>1, <3>2
  <2> QED BY <2>4, <2>5
<1>8. B \in Good
  <2>1. SUBSET B \subseteq Good
    <3> HIDE DEF Good
    <3> QED BY <1>3, <1>4, <1>6, <1>7, FoldInduction
  <2> QED BY <2>1
<1>9. L \cup {Me} \subseteq B
  OBVIOUS
<1> QED BY <1>4, <1>8, <1>9

LEMMA JoinedSelf ==
  ASSUME NEW d, NEW s, NEW e, NEW trust, Joins(d, s, e, trust)
  PROVE  CurrentTrust(e, Me) = After(trust)
<1> DEFINE A == Ahead(e, Me)
<1>1. PICK f : IsFold(d, s, f) /\ trust = f[Ahead(d, s)]
  BY Fold DEF Joins
<1>2. \A p \in Later(d, s, e) : ~Counts(d, p, trust)
  BY <1>1, LaterIgnored
<1>3. e \in Directory /\ A \subseteq Later(d, s, e) /\ A \subseteq Listed(e)
  BY JoinFacts DEF Ahead
<1>4. PICK h : IsFold(e, Me, h) /\ CurrentTrust(e, Me) = h[A]
  BY <1>3, Fold
<1> DEFINE Good == {S \in SUBSET A : h[S] = After(trust)}
<1>5. {} \in Good
  <2>1. /\ e[Me].clock = trust.clock + 1
        /\ e[Me].included = trust.included \cup {Me}
        /\ e[Me].excluded = trust.excluded
    BY JoinFacts
  <2>2. (trust.included \cup {Me}) \ trust.excluded = trust.included \cup {Me}
    BY JoinFacts DEF Sound, Joins
  <2>3. Seed(e, Me) = After(trust)
    BY <2>1, <2>2 DEF Seed, After
  <2> QED BY <1>4, <2>3 DEF IsFold
<1>6. ASSUME NEW S \in SUBSET A, S # {}, S \ {Latest(e, S)} \in Good
      PROVE  S \in Good
  <2> DEFINE p == Latest(e, S)
  <2>1. p \in S /\ h[S] = Heard(e, p, h[S \ {p}])
    BY <1>3, <1>4, <1>6, LatestIs DEF IsFold, IsLatest
  <2>2. h[S \ {p}] = After(trust)
    BY <1>6
  <2> HIDE DEF p
  <2>3. Heard(e, p, After(trust)) = After(trust)
    BY <1>2, <1>3, <2>1, LaterCountsNot
  <2> QED BY <2>1, <2>2, <2>3
<1>7. A \in Good
  <2> HIDE DEF Good
  <2> QED BY <1>3, <1>4, <1>5, <1>6, FoldInduction
<1> QED BY <1>4, <1>7

-----------------------------------------------------------------------------
(* The inductive invariant *)

\* The peers of this circle.
Circle == Listed(peers) \ strangers

\* Nobody of the circle includes a peer that is not in it, or was vouched for by one.
Apart ==
  /\ strangers \subseteq Listed(peers)
  /\ \A p \in Listed(peers) : peers[p].voucher \in Listed(peers) \cup {None}
  /\ \A p \in Circle : peers[p].included \subseteq Circle /\ peers[p].voucher \notin strangers
  /\ \A p \in strangers : peers[p].voucher \in strangers \cup {None}

\* Nor will a statement that is still to be written, unless one of an earlier circle
\* vouches for the new peer.
PlansApart ==
  /\ view # None => view.by \in Circle /\ view.trust.included \subseteq Circle
  /\ draft # None =>
       /\ draft.voucher \in Listed(peers)
       /\ draft.voucher \in Circle => draft.included \subseteq Circle \cup {Me}

\* The clocks leave room for a draft until it is listed.
Newcomer ==
  /\ sent => draft # None
  /\ draft = None => peers[Me] = None
  /\ peers[Me] = None => \A p \in Listed(peers) : peers[p].clock <= MaxClock

IInv == TypeOK /\ Apart /\ PlansApart /\ Newcomer

LEMMA MemberTrust ==
  ASSUME TypeOK, Apart, NEW s \in Circle
  PROVE  /\ peers \in Directory
         /\ s \in Listed(peers)
         /\ Sound(CurrentTrust(peers, s))
         /\ CurrentTrust(peers, s).included \subseteq Circle
         /\ CurrentTrust(peers, s).excluded \subseteq Peer
         /\ CurrentTrust(peers, s).clock \in Nat
         /\ peers[Me] = None /\ Newcomer => CurrentTrust(peers, s).clock <= MaxClock
         /\ CurrentTrust(peers, s) = CurrentTrust(Without(peers, strangers), s)
<1>1. peers \in Directory /\ s \in Listed(peers)
  BY DEF TypeOK, Directory, Circle
<1> DEFINE trust == CurrentTrust(peers, s)
<1>2. Sound(trust) /\ \E p \in Listed(peers) : trust.clock = peers[p].clock
  BY <1>1, TrustSound
<1>3. trust.included \subseteq Circle /\ trust = CurrentTrust(Without(peers, strangers), s)
  <2>1. Circle \cap strangers = {} /\ s \in Listed(peers) \ strangers
    BY DEF Circle
  <2>2. \A p \in Listed(peers) \ strangers : peers[p].included \subseteq Circle
    BY DEF Apart, Circle
  <2>3. \A p \in Listed(peers) \cap strangers : peers[p].voucher \in strangers \cup {None}
    BY DEF Apart
  <2> HIDE DEF trust
  <2> QED BY <1>1, <2>1, <2>2, <2>3, StrangersIgnored DEF trust
<1> HIDE DEF trust
<1>4. trust.clock \in Nat
  BY <1>1, <1>2, Statements
<1>5. peers[Me] = None /\ Newcomer => trust.clock <= MaxClock
  BY <1>2 DEF Newcomer
<1>6. trust.excluded \subseteq Peer
  BY <1>2 DEF Sound, Trust
<1> QED BY <1>1, <1>2, <1>3, <1>4, <1>5, <1>6 DEF trust

LEMMA InitInv == Init => IInv
<1> SUFFICES ASSUME Init PROVE IInv
  OBVIOUS
<1> DEFINE founding == [clock |-> 0, included |-> {Founder}, excluded |-> {},
                        voucher |-> None]
<1>1. Founder \in Peer /\ Founder # Me /\ Me \in Peer /\ MaxClock \in Nat
  BY PeerAssumption, BoundAssumption DEF Peer
<1>2. founding \in Statement /\ founding # None
  BY <1>1, PeerFacts DEF Statement
<1>3. peers = [p \in Peer |-> IF p = Founder THEN founding ELSE None]
  BY DEF Init
<1>4. /\ founding.clock = 0 /\ founding.included = {Founder} /\ founding.voucher = None
  OBVIOUS
<1> HIDE DEF founding
<1>5. Listed(peers) = {Founder} /\ peers[Founder] = founding /\ peers[Me] = None
  BY <1>1, <1>2, <1>3 DEF Listed
<1>6. TypeOK
  BY <1>2, <1>3 DEF Init, TypeOK
<1>7. Circle = {Founder}
  BY <1>5 DEF Init, Circle
<1>8. Apart
  BY <1>4, <1>5, <1>7 DEF Init, Apart
<1>9. PlansApart
  BY DEF Init, PlansApart
<1>10. Newcomer
  BY <1>1, <1>4, <1>5 DEF Init, Newcomer
<1> QED BY <1>6, <1>8, <1>9, <1>10 DEF IInv

\* A statement that a peer makes of what the circle trusts.
Fits(p, s) ==
  /\ s \in Statement
  /\ s.included \subseteq Circle \cup {p}
  /\ s.voucher \in Circle \cup {None}

\* A peer of the circle, or one that enters it, makes a statement.
LEMMA Stated ==
  ASSUME TypeOK, Apart, NEW p \in Peer \ strangers, NEW s, Fits(p, s),
         peers' = [peers EXCEPT ![p] = s], strangers' = strangers
  PROVE  /\ peers' \in [Peer -> Statement \cup {None}]
         /\ Circle' = Circle \cup {p}
         /\ Apart'
<1>1. \A q \in Peer : peers'[q] = IF q = p THEN s ELSE peers[q]
  BY DEF TypeOK
<1>2. s \in Statement /\ s # None
  BY PeerFacts DEF Fits
<1>3. peers' \in [Peer -> Statement \cup {None}]
  BY <1>2 DEF TypeOK
<1>4. Listed(peers') = Listed(peers) \cup {p}
  BY <1>1, <1>2 DEF Listed
<1>5. Circle' = Circle \cup {p}
  BY <1>4 DEF Circle
<1>6. Apart'
  <2>1. strangers' \subseteq Listed(peers')
    BY <1>4 DEF Apart
  <2>2. \A q \in Listed(peers') : peers'[q].voucher \in Listed(peers') \cup {None}
    BY <1>1, <1>4 DEF Apart, Fits, Circle, Listed
  <2>3. \A q \in Circle' :
          peers'[q].included \subseteq Circle' /\ peers'[q].voucher \notin strangers'
    <3> SUFFICES ASSUME NEW q \in Circle \cup {p}
                 PROVE  /\ peers'[q].included \subseteq Circle \cup {p}
                        /\ peers'[q].voucher \notin strangers
      BY <1>5
    <3>1. None \notin strangers
      BY PeerFacts DEF Apart, Listed
    <3>2. CASE q = p
      BY <1>1, <3>1, <3>2 DEF Fits, Circle
    <3>3. CASE q # p
      BY <1>1, <3>3 DEF Apart, Circle, Listed
    <3> QED BY <3>2, <3>3
  <2>4. \A q \in strangers' : peers'[q].voucher \in strangers' \cup {None}
    BY <1>1, <1>4 DEF Apart, Listed
  <2> QED BY <2>1, <2>2, <2>3, <2>4 DEF Apart
<1> QED BY <1>3, <1>5, <1>6

\* A peer of an earlier circle is listed, or one that joins that circle.
LEMMA Stray ==
  ASSUME TypeOK, Apart, NEW p \in Peer, peers[p] = None, NEW s \in Statement,
         s.voucher \in strangers \cup {None},
         peers' = [peers EXCEPT ![p] = s], strangers' = strangers \cup {p}
  PROVE  /\ peers' \in [Peer -> Statement \cup {None}]
         /\ \A q \in Peer : peers'[q] = IF q = p THEN s ELSE peers[q]
         /\ Listed(peers') = Listed(peers) \cup {p}
         /\ Circle' = Circle
         /\ Apart'
<1>1. \A q \in Peer : peers'[q] = IF q = p THEN s ELSE peers[q]
  BY DEF TypeOK
<1>2. s # None /\ p # None
  BY PeerFacts
<1>3. peers' \in [Peer -> Statement \cup {None}]
  BY DEF TypeOK
<1>4. Listed(peers') = Listed(peers) \cup {p} /\ p \notin Listed(peers)
  BY <1>1, <1>2 DEF Listed
<1>5. Circle' = Circle
  BY <1>4 DEF Circle
<1>6. Apart'
  <2>1. strangers' \subseteq Listed(peers')
    BY <1>4 DEF Apart
  <2>2. \A q \in Listed(peers') : peers'[q].voucher \in Listed(peers') \cup {None}
    BY <1>1, <1>4 DEF Apart, Listed
  <2>3. \A q \in Circle' :
          peers'[q].included \subseteq Circle' /\ peers'[q].voucher \notin strangers'
    <3> SUFFICES ASSUME NEW q \in Circle
                 PROVE  /\ peers'[q].included \subseteq Circle
                        /\ peers'[q].voucher \notin strangers'
      BY <1>5
    <3>1. peers'[q] = peers[q] /\ q \in Listed(peers)
      BY <1>1, <1>4 DEF Circle, Listed
    <3>2. peers[q].voucher # p
      BY <1>2, <1>4, <3>1 DEF Apart
    <3> QED BY <3>1, <3>2 DEF Apart
  <2>4. \A q \in strangers' : peers'[q].voucher \in strangers' \cup {None}
    BY <1>1, <1>4 DEF Apart, Listed
  <2> QED BY <2>1, <2>2, <2>3, <2>4 DEF Apart
<1> QED BY <1>1, <1>3, <1>4, <1>5, <1>6

\* The same for the other devices, whose clocks are bounded.
LEMMA StatesInv ==
  ASSUME IInv, NEW p \in Device \ strangers, NEW s, Fits(p, s), States(p, s),
         view' \in {view, None}
  PROVE  IInv'
<1>1. /\ TypeOK /\ Apart /\ PlansApart /\ Newcomer
      /\ p \in Peer \ strangers /\ p # Me
      /\ peers' = [peers EXCEPT ![p] = s] /\ strangers' = strangers
      /\ draft' = draft /\ sent' = sent /\ s.clock <= MaxClock
  BY PeerAssumption DEF IInv, States, Peer
<1>2. peers' \in [Peer -> Statement \cup {None}] /\ Circle' = Circle \cup {p} /\ Apart'
  BY <1>1, Stated
<1>3. TypeOK'
  BY <1>1, <1>2 DEF TypeOK
<1>4. PlansApart'
  <2>1. \A q \in Peer : peers'[q] = IF q = p THEN s ELSE peers[q]
    BY <1>1 DEF TypeOK
  <2>2. Listed(peers') = Listed(peers) \cup {p}
    <3>1. s # None /\ p \in Peer
      BY <1>1, PeerFacts DEF Fits
    <3> QED BY <2>1, <3>1 DEF Listed
  <2>3. draft # None /\ draft.voucher \in Circle' => draft.voucher \in Circle
    BY <1>1, <1>2 DEF PlansApart, Circle
  <2> QED BY <1>1, <1>2, <2>2, <2>3 DEF PlansApart
<1>5. Newcomer'
  <2>1. \A q \in Peer : peers'[q] = IF q = p THEN s ELSE peers[q]
    BY <1>1 DEF TypeOK
  <2>2. Me \in Peer
    BY DEF Peer
  <2> QED BY <1>1, <2>1, <2>2 DEF Newcomer, Listed
<1> QED BY <1>2, <1>3, <1>4, <1>5 DEF IInv

\* What a peer of the circle writes upon some trust.
LEMMA WriteInv ==
  ASSUME IInv, NEW d \in Device, d \in Circle, NEW trust \in Trust,
         trust.included \subseteq Circle, Write(d, trust), view' \in {view, None}
  PROVE  IInv'
<1>1. d \notin strangers /\ d \in Peer
  BY DEF Circle, Peer
<1>2. /\ trust.clock \in Nat /\ trust.included \subseteq Peer /\ trust.excluded \subseteq Peer
  <2>1. trust.clock \in 0..MaxClock + 1
    BY DEF Trust
  <2> QED BY <2>1, BoundAssumption DEF Trust
<1>3. peers[d].voucher \in Circle \cup {None} /\ peers[d].voucher \in Peer \cup {None}
  <2>1. d \in Listed(peers) /\ d \in Circle
    BY DEF Circle
  <2>2. peers[d] \in Statement
    BY <1>1, <2>1 DEF IInv, TypeOK, Listed
  <2>3. peers[d].voucher \in Peer \cup {None}
    BY <2>2 DEF Statement
  <2> QED BY <2>1, <2>3 DEF IInv, Apart, Circle
<1>4. ASSUME NEW included \in SUBSET (Circle \cup {d}), NEW excluded \in SUBSET Peer,
             States(d, [clock |-> trust.clock + 1, included |-> included,
                        excluded |-> excluded, voucher |-> peers[d].voucher])
      PROVE  IInv'
  <2> DEFINE s == [clock |-> trust.clock + 1, included |-> included,
                   excluded |-> excluded, voucher |-> peers[d].voucher]
  <2>1. trust.clock + 1 \in 0..MaxClock + 1
    BY <1>2, <1>4, BoundAssumption DEF States
  <2>2. included \subseteq Peer
    BY <1>1 DEF Circle, Listed
  <2>3. s \in Statement
    BY <1>3, <2>1, <2>2 DEF Statement
  <2>4. Fits(d, s)
    BY <1>3, <2>3 DEF Fits
  <2> HIDE DEF s
  <2> QED BY <1>1, <1>4, <2>4, StatesInv DEF s
<1>5. CASE States(d, Extended(trust, d, peers[d].voucher))
  BY <1>2, <1>4, <1>5 DEF Extended
<1>6. ASSUME NEW p \in trust.included \ {d},
             States(d, [clock |-> trust.clock + 1, included |-> trust.included \ {p},
                        excluded |-> trust.excluded \cup {p},
                        voucher |-> peers[d].voucher])
      PROVE  IInv'
  <2>1. /\ trust.included \ {p} \in SUBSET (Circle \cup {d})
        /\ trust.excluded \cup {p} \in SUBSET Peer
    BY <1>2
  <2> QED BY <1>4, <1>6, <2>1
<1> QED BY <1>5, <1>6 DEF Write

\* What the new peer drafts.
LEMMA DraftFits ==
  ASSUME IInv, NEW sponsor \in Listed(peers), peers[Me] = None
  PROVE  /\ Extended(CurrentTrust(peers, sponsor), Me, sponsor) \in Statement
         /\ Extended(CurrentTrust(peers, sponsor), Me, sponsor).voucher = sponsor
         /\ sponsor \in Circle =>
              Extended(CurrentTrust(peers, sponsor), Me, sponsor).included
                \subseteq Circle \cup {Me}
<1> DEFINE trust == CurrentTrust(peers, sponsor)
<1>1. peers \in Directory /\ sponsor \in Peer /\ Me \in Peer
  BY DEF IInv, TypeOK, Directory, Listed, Peer
<1>2. Sound(trust) /\ \E p \in Listed(peers) : trust.clock = peers[p].clock
  BY <1>1, TrustSound
<1>3. sponsor \in Circle => trust.included \subseteq Circle
  BY MemberTrust DEF IInv
<1> HIDE DEF trust
<1>4. trust.clock \in Nat /\ trust.clock <= MaxClock
  BY <1>1, <1>2, Statements DEF IInv, Newcomer
<1>5. trust.included \subseteq Peer /\ trust.excluded \subseteq Peer
  BY <1>2 DEF Sound, Trust
<1>6. trust.clock + 1 \in 0..MaxClock + 1
  BY <1>4, BoundAssumption
<1>7. Extended(trust, Me, sponsor) \in Statement
  BY <1>1, <1>5, <1>6 DEF Extended, Statement
<1> QED BY <1>3, <1>7 DEF Extended, trust

LEMMA NextInv == IInv /\ [Next]_vars => IInv'
<1> SUFFICES ASSUME IInv, [Next]_vars PROVE IInv'
  OBVIOUS
<1> USE DEF IInv
<1>1. ASSUME NEW sponsor \in Device, Prepare(sponsor) PROVE IInv'
  <2>1. sponsor \in Listed(peers) /\ peers[Me] = None
    BY <1>1, PeerFacts DEF Prepare, Trusts, Listed, Newcomer, Peer
  <2> DEFINE s == Extended(CurrentTrust(peers, sponsor), Me, sponsor)
  <2>2. /\ s \in Statement /\ s.voucher = sponsor
        /\ sponsor \in Circle => s.included \subseteq Circle \cup {Me}
    BY <2>1, DraftFits
  <2>3. draft' = s /\ UNCHANGED <<peers, strangers, view, sent>>
    BY <1>1 DEF Prepare
  <2> HIDE DEF s
  <2>4. Circle' = Circle
    BY <2>3 DEF Circle
  <2>5. TypeOK' /\ Apart'
    BY <2>2, <2>3, <2>4 DEF TypeOK, Apart
  <2>6. PlansApart'
    BY <2>1, <2>2, <2>3, <2>4 DEF PlansApart
  <2>7. Newcomer'
    BY <2>1, <2>2, <2>3, PeerFacts DEF Newcomer
  <2> QED BY <2>5, <2>6, <2>7
<1>2. ASSUME NEW d \in Device, Look(d) PROVE IInv'
  <2> DEFINE trust == CurrentTrust(peers, d)
  <2>1. d \in Circle
    BY <1>2 DEF Look, Trusts, Circle, Listed, Peer
  <2>2. trust \in Trust /\ trust.included \subseteq Circle
    BY <2>1, MemberTrust DEF Sound
  <2>3. view' = [by |-> d, trust |-> trust] /\ UNCHANGED <<peers, strangers, draft, sent>>
    BY <1>2 DEF Look
  <2> HIDE DEF trust
  <2>4. view' \in View /\ view'.by = d /\ view'.trust = trust
    BY <2>2, <2>3 DEF View
  <2>5. Circle' = Circle
    BY <2>3 DEF Circle
  <2>6. TypeOK' /\ Apart' /\ Newcomer'
    BY <2>3, <2>4, <2>5 DEF TypeOK, Apart, Newcomer
  <2>7. PlansApart'
    BY <2>1, <2>2, <2>3, <2>4, <2>5 DEF PlansApart
  <2> QED BY <2>6, <2>7
<1>3. ASSUME NEW d \in Device, WriteNow(d) PROVE IInv'
  <2>1. d \in Circle
    BY <1>3 DEF WriteNow, Trusts, Circle, Listed, Peer
  <2>2. /\ CurrentTrust(peers, d) \in Trust
        /\ CurrentTrust(peers, d).included \subseteq Circle
    BY <2>1, MemberTrust DEF Sound
  <2>3. Write(d, CurrentTrust(peers, d)) /\ view' \in {view, None}
    BY <1>3 DEF WriteNow
  <2> QED BY <2>1, <2>2, <2>3, WriteInv
<1>4. ASSUME NEW d \in Device, Linger(d) PROVE IInv'
  <2>1. PICK clock \in 1..MaxClock, other \in Device \ {d}, v \in strangers \cup {None} :
          peers' = [peers EXCEPT ![d] = [clock |-> clock, included |-> {d},
                                         excluded |-> {other}, voucher |-> v]]
    BY <1>4 DEF Linger
  <2> DEFINE s == [clock |-> clock, included |-> {d}, excluded |-> {other}, voucher |-> v]
  <2>2. /\ peers[d] = None /\ strangers' = strangers \cup {d}
        /\ UNCHANGED <<view, draft, sent>>
        /\ d \in Peer /\ d # Me /\ d # None
    BY <1>4, PeerAssumption, PeerFacts DEF Linger, Peer
  <2>3. s \in Statement /\ s # None /\ s.clock <= MaxClock /\ s.voucher = v
    <3>1. clock \in 0..MaxClock + 1 /\ clock <= MaxClock
      BY BoundAssumption
    <3>2. v \in Peer \cup {None} /\ {other} \subseteq Peer /\ {d} \subseteq Peer
      BY DEF TypeOK, Peer
    <3>3. s \in Statement
      BY <3>1, <3>2 DEF Statement
    <3> QED BY <3>1, <3>3, PeerFacts
  <2>4. peers' = [peers EXCEPT ![d] = s]
    BY <2>1
  <2> HIDE DEF s
  <2>5. /\ peers' \in [Peer -> Statement \cup {None}]
        /\ \A q \in Peer : peers'[q] = IF q = d THEN s ELSE peers[q]
        /\ Listed(peers') = Listed(peers) \cup {d}
        /\ Circle' = Circle
        /\ Apart'
    BY <2>2, <2>3, <2>4, Stray
  <2>8. TypeOK'
    BY <2>2, <2>5 DEF TypeOK
  <2>10. PlansApart'
    BY <2>2, <2>5 DEF PlansApart
  <2>11. Newcomer'
    <3>1. Me \in Peer /\ peers'[Me] = peers[Me]
      BY <2>2, <2>5 DEF Peer
    <3> QED BY <2>2, <2>3, <2>5, <3>1 DEF Newcomer, Listed
  <2> QED BY <2>5, <2>8, <2>10, <2>11
<1>5. ASSUME NEW d \in Device, NEW sponsor \in Peer, Enter(d, sponsor) PROVE IInv'
  <2> DEFINE trust == CurrentTrust(peers, sponsor)
             s == Extended(trust, d, sponsor)
  <2>1. sponsor \in Circle /\ d \in Peer /\ d \notin strangers
    BY <1>5 DEF Enter, Trusts, Circle, Listed, Apart, Peer
  <2>2. /\ trust.included \subseteq Circle
        /\ trust.excluded \subseteq Peer
        /\ trust.clock \in Nat
    BY <2>1, MemberTrust
  <2>3. States(d, s) /\ view' = view
    BY <1>5 DEF Enter
  <2> HIDE DEF trust
  <2>4. s = [clock |-> trust.clock + 1, included |-> trust.included \cup {d},
             excluded |-> trust.excluded, voucher |-> sponsor]
    BY DEF Extended
  <2>5. trust.clock + 1 <= MaxClock
    BY <2>3, <2>4 DEF States
  <2>6. s \in Statement
    <3>1. trust.clock + 1 \in 0..MaxClock + 1
      BY <2>2, <2>5, BoundAssumption
    <3>2. trust.included \cup {d} \subseteq Peer
      BY <2>1, <2>2 DEF Circle, Listed
    <3> QED BY <2>2, <2>4, <3>1, <3>2 DEF Statement
  <2>7. Fits(d, s)
    BY <2>1, <2>2, <2>4, <2>6 DEF Fits
  <2> HIDE DEF s
  <2> QED BY <2>1, <2>3, <2>7, StatesInv
<1>6. CASE WriteLate
  <2>1. view \in View /\ view.by \in Circle /\ view.trust.included \subseteq Circle
    BY <1>6 DEF WriteLate, TypeOK, PlansApart
  <2>2. view.by \in Device /\ view.trust \in Trust
    BY <2>1 DEF View
  <2>3. Write(view.by, view.trust) /\ view' \in {view, None}
    BY <1>6 DEF WriteLate
  <2> QED BY <2>1, <2>2, <2>3, WriteInv
<1>7. CASE Refresh
  <2>1. draft.voucher \in Listed(peers) /\ peers[Me] = None
    BY <1>7 DEF Refresh, PlansApart
  <2> DEFINE s == Extended(CurrentTrust(peers, draft.voucher), Me, draft.voucher)
  <2>2. /\ s \in Statement /\ s.voucher = draft.voucher
        /\ draft.voucher \in Circle => s.included \subseteq Circle \cup {Me}
    BY <2>1, DraftFits
  <2>3. draft' = s /\ sent' = FALSE /\ UNCHANGED <<peers, strangers, view>>
    BY <1>7 DEF Refresh
  <2> HIDE DEF s
  <2>4. Circle' = Circle
    BY <2>3 DEF Circle
  <2>5. TypeOK' /\ Apart'
    BY <2>2, <2>3, <2>4 DEF TypeOK, Apart
  <2>6. PlansApart'
    BY <2>1, <2>2, <2>3, <2>4 DEF PlansApart
  <2>7. Newcomer'
    BY <2>1, <2>2, <2>3, PeerFacts DEF Newcomer
  <2> QED BY <2>5, <2>6, <2>7
<1>8. CASE Send
  <2>1. draft # None /\ sent' = TRUE /\ UNCHANGED <<peers, strangers, view, draft>>
    BY <1>8 DEF Send, CanSend
  <2>2. Circle' = Circle
    BY <2>1 DEF Circle
  <2> QED BY <2>1, <2>2 DEF TypeOK, Apart, PlansApart, Newcomer
<1>9. CASE Admit
  <2>1. /\ draft # None /\ draft \in Statement /\ peers[Me] = None /\ Me \in Peer
        /\ peers' = [peers EXCEPT ![Me] = draft] /\ sent' = FALSE
        /\ strangers' = strangers \cup (IF draft.voucher \in strangers THEN {Me} ELSE {})
        /\ UNCHANGED <<view, draft>>
    BY <1>9 DEF Admit, Newcomer, TypeOK, Peer
  <2>2. \A q \in Peer : peers'[q] = IF q = Me THEN draft ELSE peers[q]
    BY <2>1 DEF TypeOK
  <2>3. /\ peers' \in [Peer -> Statement \cup {None}] /\ Apart'
        /\ strangers' \subseteq Peer
        /\ Circle \subseteq Circle'
        /\ draft.voucher \in Circle' => draft.included \subseteq Circle' \cup {Me}
    <3>1. CASE draft.voucher \in strangers
      <4>1. strangers' = strangers \cup {Me}
        BY <2>1, <3>1
      <4>2. /\ peers' \in [Peer -> Statement \cup {None}]
            /\ Circle' = Circle
            /\ Apart'
        BY <2>1, <3>1, <4>1, Stray
      <4> QED BY <2>1, <3>1, <4>1, <4>2 DEF TypeOK, Circle
    <3>2. CASE draft.voucher \notin strangers
      <4>1. strangers' = strangers /\ Me \in Peer \ strangers
        BY <2>1, <3>2 DEF Apart, Listed
      <4>2. draft.voucher \in Circle
        BY <2>1, <3>2 DEF PlansApart, Circle
      <4>3. Fits(Me, draft)
        BY <2>1, <4>2 DEF Fits, PlansApart
      <4>4. /\ peers' \in [Peer -> Statement \cup {None}]
            /\ Circle' = Circle \cup {Me}
            /\ Apart'
        BY <2>1, <4>1, <4>3, Stated
      <4> QED BY <4>1, <4>3, <4>4 DEF TypeOK, Fits
    <3> QED BY <3>1, <3>2
  <2>4. TypeOK'
    BY <2>1, <2>3 DEF TypeOK
  <2>5. PlansApart'
    <3>1. draft.voucher \in Listed(peers')
      BY <2>1, <2>2, PeerFacts DEF PlansApart, Listed
    <3> QED BY <2>1, <2>3, <3>1 DEF PlansApart
  <2>6. peers'[Me] # None
    BY <2>1, <2>2, PeerFacts
  <2>7. Newcomer'
    BY <2>1, <2>6 DEF Newcomer
  <2> QED BY <2>3, <2>4, <2>5, <2>7
<1>10. CASE UNCHANGED vars
  <2>1. Circle' = Circle
    BY <1>10 DEF vars, Circle
  <2> QED BY <1>10, <2>1 DEF vars, TypeOK, Apart, PlansApart, Newcomer
<1> QED
  BY <1>1, <1>2, <1>3, <1>4, <1>5, <1>6, <1>7, <1>8, <1>9, <1>10 DEF Next

-----------------------------------------------------------------------------
(* The theorems *)

LEMMA StrangersStep ==
  ASSUME IInv
  PROVE  StrangersHaveNoSay
<1> SUFFICES ASSUME NEW s \in Members
             PROVE  CurrentTrust(peers, s) = CurrentTrust(Without(peers, strangers), s)
  BY DEF StrangersHaveNoSay
<1>1. s \in Circle
  BY DEF Members, Circle
<1> QED BY <1>1, MemberTrust DEF IInv

LEMMA ExcludedStep ==
  ASSUME TypeOK
  PROVE  ExcludedHaveNoSay
<1> SUFFICES ASSUME NEW s \in Members, NEW x \in peers[s].excluded
             PROVE  /\ x \notin CurrentTrust(peers, s).included
                    /\ CurrentTrust(peers, s) = CurrentTrust(Without(peers, {x}), s)
  BY DEF ExcludedHaveNoSay
<1>1. /\ peers \in Directory
      /\ s \in Listed(peers)
      /\ s \in CurrentTrust(peers, s).included
  BY DEF Members, Trusts, TypeOK, Directory
<1> QED BY <1>1, ExcludedIgnored

LEMMA JoinStep ==
  ASSUME IInv
  PROVE  JoinAddsOnlyMe
<1> DEFINE s == draft.voucher
           trust == CurrentTrust(peers, s)
           listed == [peers EXCEPT ![Me] = draft]
<1> SUFFICES ASSUME CanSend
             PROVE  /\ CurrentTrust(listed, s) = After(trust)
                    /\ CurrentTrust(listed, Me) = After(trust)
  BY DEF JoinAddsOnlyMe, After
<1>1. draft # None /\ peers[Me] = None /\ s \in trust.included /\ Me \notin trust.excluded
      /\ draft = Extended(trust, Me, s)
  BY DEF CanSend, DraftIsCurrent, Trusts
<1>2. draft \in Statement
  BY <1>1 DEF IInv, TypeOK
<1>3. peers \in Directory /\ s \in Listed(peers) /\ Sound(trust)
  <2>1. peers \in Directory /\ s \in Listed(peers)
    BY <1>1 DEF IInv, TypeOK, Directory, PlansApart
  <2> QED BY <2>1, TrustSound
<1>4. \A p \in Listed(peers) : peers[p].voucher # Me
  <2>1. Me \notin Listed(peers) /\ Me # None
    BY <1>1, PeerFacts DEF Listed, Peer
  <2> QED BY <2>1 DEF IInv, Apart
<1>5. Joins(peers, s, listed, trust)
  BY <1>1, <1>2, <1>3, <1>4 DEF Joins
<1> HIDE DEF s, trust, listed
<1> QED BY <1>5, JoinedSponsor, JoinedSelf

LEMMA WhatCountsStep ==
  ASSUME TypeOK
  PROVE  TrustIsWhatCounts
BY OrderIrrelevant, SomeCount DEF TypeOK, Directory, TrustIsWhatCounts

\* The directory, the drafts and what the devices saw of it are well-formed, strangers
\* stay apart from the circle, and the clocks leave room for the newcomer's.
THEOREM Inductive == Spec => []IInv
BY InitInv, NextInv, PTL DEF Spec

\* Clocks, sets and vouchers stay in their ranges (the types of TPPB).
THEOREM TypeCorrect == Spec => []TypeOK
<1>1. IInv => TypeOK
  BY DEF IInv
<1> QED BY <1>1, Inductive, PTL

\* current_trust ignores peers that nobody of the circle has included or vouched for,
\* however many they are and whatever their clocks.
THEOREM NoSayForStrangers == Spec => []StrangersHaveNoSay
BY StrangersStep, Inductive, PTL

\* A peer that the sponsor excluded has no influence on what current_trust returns,
\* whoever else includes it or has vouched for it.
THEOREM NoSayForExcluded == Spec => []ExcludedHaveNoSay
BY ExcludedStep, TypeCorrect, PTL

\* When validate_current_trust accepts a draft, listing it adds the new peer to what
\* its sponsor trusts and changes nothing else; and the new peer trusts the same.
THEOREM JoinIsMinimal == Spec => []JoinAddsOnlyMe
BY JoinStep, Inductive, PTL

\* The fold of current_trust computes the one set of statements that count: there is
\* no other set of peers that satisfies the rule for which statements count.
THEOREM TrustIsDetermined == Spec => []TrustIsWhatCounts
BY WhatCountsStep, TypeCorrect, PTL

-----------------------------------------------------------------------------
(* fetch_directory: for any number of peers, pages and changes, the pages  *)
(* of one fetch add up to the directory as it stood in one moment, which   *)
(* is what TrustCircle reads                                               *)

CONSTANTS Writer, MaxPages, MaxChanges

VARIABLES circle, other, changes, pc, listing, token, seen, pages, snapshot

Paging == INSTANCE DirectoryPaging WITH Peer <- Writer, directory <- listing

PagingBounds == MaxPages \in Nat /\ MaxChanges \in Nat

\* What is asked of a fetch under way, and that nothing the service has sent lies
\* ahead of it.
PagingInv ==
  /\ PagingBounds
  /\ Paging!TypeOK
  /\ Paging!DirectoryIsSnapshot
  /\ Paging!CompleteToToken
  /\ Paging!StatementsAreSigned

USE DEF Paging!vars, Paging!service, Paging!client, PagingBounds

LEMMA PagingInit == ASSUME PagingBounds, Paging!Init PROVE PagingInv
BY DEF Paging!Init, PagingInv, PagingBounds, Paging!TypeOK, Paging!Circle,
   Paging!Forged, Paging!DirectoryIsSnapshot, Paging!CompleteToToken,
   Paging!StatementsAreSigned

\* A new statement is later than every token.
LEMMA StateStep ==
  ASSUME PagingInv, NEW q \in Writer, Paging!State(q)
  PROVE  PagingInv'
<1> USE DEF Paging!State, Paging!Change, PagingInv, Paging!TypeOK, Paging!Circle,
           Paging!Forged
<1>1. Paging!TypeOK'
  OBVIOUS
<1>2. Paging!DirectoryIsSnapshot'
  BY DEF Paging!DirectoryIsSnapshot
<1>3. Paging!CompleteToToken'
  BY DEF Paging!CompleteToToken
<1>4. Paging!StatementsAreSigned'
  <2> SUFFICES ASSUME pc # "idle", NEW p \in Writer PROVE listing[p] <= circle'[p]
    BY DEF Paging!StatementsAreSigned
  <2>1. listing[p] <= circle[p] /\ listing[p] \in Nat /\ circle[p] \in 0..changes
    BY DEF Paging!StatementsAreSigned
  <2>2. circle'[p] = IF p = q THEN changes + 1 ELSE circle[p]
    OBVIOUS
  <2> QED BY <2>1, <2>2
<1> QED BY <1>1, <1>2, <1>3, <1>4

LEMMA ChangeOtherStep == ASSUME PagingInv, Paging!ChangeOther PROVE PagingInv'
BY DEF Paging!ChangeOther, Paging!Change, PagingInv, Paging!TypeOK, Paging!Circle,
   Paging!Forged, Paging!DirectoryIsSnapshot, Paging!CompleteToToken,
   Paging!StatementsAreSigned

LEMMA StartStep == ASSUME PagingInv, Paging!Start PROVE PagingInv'
BY DEF Paging!Start, PagingInv, Paging!TypeOK, Paging!Circle, Paging!Forged,
   Paging!DirectoryIsSnapshot, Paging!CompleteToToken, Paging!StatementsAreSigned

\* What a page holds ends no earlier than at its token.
LEMMA ContinueStep ==
  ASSUME PagingInv, NEW page \in Paging!Sent, Paging!Continue(page)
  PROVE  PagingInv'
<1> USE DEF PagingInv, PagingBounds, Paging!TypeOK, Paging!Circle, Paging!Forged,
           Paging!Continue
<1>1. /\ page.upto \in 0..changes
      /\ page.token \in 0..changes
      /\ page.token <= page.upto
      /\ page.sound
  <2>1. /\ page.upto \in Paging!Behind /\ page.token \in 0..changes
        /\ page.token <= page.upto
    BY DEF Paging!Sent, Paging!Page, Paging!HasEntries, Paging!Empty
  <2>2. page.upto \in {circle[p] : p \in Writer} \cup other
    BY <2>1 DEF Paging!Behind
  <2>3. page.upto \in 0..changes
    <3>1. CASE page.upto \in other
      <4> DEFINE n == page.upto
      <4>1. n \in 1..changes
        BY <3>1
      <4> HIDE DEF n
      <4>2. n \in 0..changes
        BY <4>1
      <4> QED BY <4>2 DEF n
    <3>2. CASE \E p \in Writer : page.upto = circle[p]
      BY <3>2
    <3> QED BY <2>2, <3>1, <3>2
  <2>4. page.sound
    BY DEF Paging!Verified
  <2> QED BY <2>1, <2>3, <2>4
<1>2. listing' = [p \in Writer |->
                    IF p \in Paging!On(page) THEN circle[p] ELSE listing[p]]
  BY <1>1 DEF Paging!Applied
<1>3. /\ token' \in 1..changes
      /\ token' = token \/ token' <= page.upto
  BY <1>1 DEF Paging!NextToken, Paging!Advances
<1>4. Paging!TypeOK'
  <2>1. listing' \in [Writer -> 0..Paging!Forged]
    BY <1>2
  <2>2. seen' \subseteq 1..changes
    BY <1>3
  <2>3. pages' \in 0..MaxPages
    BY DEF Paging!WithinLimit
  <2> QED BY <1>3, <2>1, <2>2, <2>3
<1>5. Paging!CompleteToToken'
  BY <1>1, <1>2, <1>3 DEF Paging!CompleteToToken, Paging!On
<1>6. Paging!StatementsAreSigned'
  BY <1>2 DEF Paging!StatementsAreSigned
<1>7. Paging!DirectoryIsSnapshot'
  BY DEF Paging!DirectoryIsSnapshot
<1> QED BY <1>4, <1>5, <1>6, <1>7

\* Only an empty page ends a fetch, and then nothing lies behind the token.
LEMMA FinishStep ==
  ASSUME PagingInv, NEW page \in Paging!Sent, Paging!Finish(page)
  PROVE  PagingInv'
<1> USE DEF PagingInv, PagingBounds, Paging!TypeOK, Paging!Circle, Paging!Forged,
           Paging!Finish
<1>1. Paging!Behind = {}
  <2> SUFFICES ASSUME Paging!Behind # {} PROVE FALSE
    OBVIOUS
  <2>1. page.upto \in Paging!Behind /\ page.upto = 0
    BY DEF Paging!Sent, Paging!Page, Paging!HasEntries
  <2> QED BY <2>1 DEF Paging!Behind
<1>2. \A p \in Writer : circle[p] <= token
  BY <1>1 DEF Paging!Behind
<1>3. listing = circle
  <2>1. \A p \in Writer : listing[p] = circle[p]
    BY <1>2 DEF Paging!CompleteToToken
  <2> QED BY <2>1
<1>4. Paging!TypeOK'
  OBVIOUS
<1>5. Paging!DirectoryIsSnapshot'
  BY <1>3 DEF Paging!DirectoryIsSnapshot
<1>6. Paging!CompleteToToken' /\ Paging!StatementsAreSigned'
  BY DEF Paging!CompleteToToken, Paging!StatementsAreSigned
<1> QED BY <1>4, <1>5, <1>6

LEMMA FailStep == ASSUME PagingInv, Paging!Fail PROVE PagingInv'
BY DEF Paging!Fail, PagingInv, Paging!TypeOK, Paging!Circle,
   Paging!DirectoryIsSnapshot, Paging!CompleteToToken, Paging!StatementsAreSigned

LEMMA Stuttering == ASSUME PagingInv, UNCHANGED Paging!vars PROVE PagingInv'
BY DEF PagingInv, Paging!TypeOK, Paging!Circle, Paging!DirectoryIsSnapshot,
   Paging!CompleteToToken, Paging!StatementsAreSigned

LEMMA PagingNext == ASSUME PagingInv, [Paging!Next]_Paging!vars PROVE PagingInv'
<1>1. CASE \E p \in Writer : Paging!State(p)
  BY <1>1, StateStep
<1>2. CASE Paging!ChangeOther
  BY <1>2, ChangeOtherStep
<1>3. CASE Paging!Start
  BY <1>3, StartStep
<1>4. CASE \E page \in Paging!Sent : Paging!Continue(page)
  BY <1>4, ContinueStep
<1>5. CASE \E page \in Paging!Sent : Paging!Finish(page)
  BY <1>5, FinishStep
<1>6. CASE Paging!Fail
  BY <1>6, FailStep
<1>7. CASE UNCHANGED Paging!vars
  BY <1>7, Stuttering
<1> QED BY <1>1, <1>2, <1>3, <1>4, <1>5, <1>6, <1>7 DEF Paging!Next

\* What is asked of a fetch under way holds in every reachable state of
\* fetch_directory, whatever the limits.
THEOREM PagingInductive == ASSUME PagingBounds PROVE Paging!Spec => []PagingInv
<1>1. PagingInv /\ [Paging!Next]_Paging!vars => PagingInv'
  BY PagingNext
<1>2. Paging!Init => PagingInv
  BY PagingInit
<1> QED BY <1>1, <1>2, PTL DEF Paging!Spec

\* Every variable keeps its type; the page counter stays within its limit.
THEOREM PagingTypeCorrect == ASSUME PagingBounds PROVE Paging!Spec => []Paging!TypeOK
BY PagingInductive, PTL DEF PagingInv

\* The directory that fetch_directory returns is the circle of one moment.
THEOREM ReturnsSnapshot ==
  ASSUME PagingBounds PROVE Paging!Spec => []Paging!DirectoryIsSnapshot
BY PagingInductive, PTL DEF PagingInv

\* Between pages, the directory is complete up to the token of the next request.
THEOREM PagesAreComplete ==
  ASSUME PagingBounds PROVE Paging!Spec => []Paging!CompleteToToken
BY PagingInductive, PTL DEF PagingInv

\* Only statements that their peers have signed get into the directory.
THEOREM OnlySigned ==
  ASSUME PagingBounds PROVE Paging!Spec => []Paging!StatementsAreSigned
BY PagingInductive, PTL DEF PagingInv
=============================================================================
