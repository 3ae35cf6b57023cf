--------------------------- MODULE KeyGraphProofs ---------------------------
(* Theorems about KeyGraph, for any responses. *)
EXTENDS KeyGraph, TLAPS, WellFoundedInduction

\* No set of objects that is closed misses one that has been opened.
OnlyReachable == \A s \in SUBSET DOMAIN Objects : Closed(s) => complete \subseteq s

\* The keys and identities are those of the objects opened.
FromComplete ==
  /\ identities = Introduced(complete)
  /\ \A h \in Hint : keys[h] = {Objects[n].master : n \in {m \in complete : Objects[m].hint = h}}

\* As long as a round has opened nothing, nothing it has passed can be opened.
PassedByRound ==
  ~progress => \A n \in DOMAIN Objects : n < index => n \in complete \/ ~CanOpen(Objects[n])

Ended == outcome = "recovered" => ~progress /\ index > Len(Objects)

IInv ==
  /\ TypeOK
  /\ OnlyReachable
  /\ FromComplete
  /\ PassedByRound
  /\ Ended
  /\ ErrorHasCause

-----------------------------------------------------------------------------

\* What a response is made of.
LEMMA Shape ==
  ASSUME response \in Responses
  PROVE  /\ Len(Objects) \in Nat
         /\ DOMAIN Objects = 1..Len(Objects)
         /\ \A n \in DOMAIN Objects : Objects[n] \in Object
         /\ response.held \subseteq Identity
BY ResponsesAssumption DEF Objects

\* A set of numbers that is not empty has a least element.
LEMMA NatMin ==
  ASSUME NEW S, S \subseteq Nat, S # {}
  PROVE  \E x \in S : \A y \in S : x <= y
<1>1. \E R : IsWellFoundedOn(R, Nat) /\ \A x, y \in Nat : y < x => <<y, x>> \in R
  <2>1. IsWellFoundedOn(OpToRel(<, Nat), Nat)
    BY NatLessThanWellFounded
  <2>2. \A x, y \in Nat : y < x => <<y, x>> \in OpToRel(<, Nat)
    BY DEF OpToRel
  <2>3. QED
    BY <2>1, <2>2, Zenon
<1>2. PICK R : IsWellFoundedOn(R, Nat) /\ \A x, y \in Nat : y < x => <<y, x>> \in R
  BY <1>1
<1>3. PICK x \in S : \A y \in S : ~(<<y, x>> \in R)
  BY <1>2, WFMin
<1>4. ASSUME NEW y \in S PROVE x <= y
  <2>1. x \in Nat /\ y \in Nat
    OBVIOUS
  <2>2. ~(y < x)
    BY <1>2, <1>3, <2>1, Zenon
  <2>3. QED
    BY <2>1, <2>2
<1>5. QED
  BY <1>4

\* The children of objects that are opened are identities.
LEMMA ChildType ==
  ASSUME NEW o \in Object
  PROVE  Child(o) \subseteq Identity /\ o.hint \in Hint /\ o.master \in Master
BY DEF Object, Child

\* An object that can be opened has a known recipient, and conversely.
LEMMA CanOpenMeans ==
  ASSUME NEW o
  PROVE  CanOpen(o) <=> \E m \in DOMAIN o.recipients : o.recipients[m] \in identities
BY DEF CanOpen, Known

THEOREM InitInv == Init => IInv
<1> SUFFICES ASSUME Init PROVE IInv
  OBVIOUS
<1>1. TypeOK
  <2>1. 1 \in 1..(Len(Objects) + 1)
    BY Shape DEF Init
  <2>2. response.held \subseteq Identity
    BY Shape DEF Init
  <2>3. QED
    BY <2>1, <2>2 DEF Init, TypeOK
<1>2. OnlyReachable /\ FromComplete
  BY DEF Init, OnlyReachable, FromComplete, Introduced
<1>3. PassedByRound
  BY Shape DEF Init, PassedByRound
<1>4. Ended /\ ErrorHasCause
  BY DEF Init, Ended, ErrorHasCause
<1>5. QED
  BY <1>1, <1>2, <1>3, <1>4 DEF IInv

\* The object at which a step is belongs to the response.
LEMMA AtObjectIn ==
  ASSUME TypeOK, AtObject
  PROVE  index \in DOMAIN Objects /\ Objects[index] \in Object /\ index + 1 \in 1..(Len(Objects) + 1)
BY Shape DEF TypeOK, AtObject

\* An object that can be opened with what comes from reachable ones is reachable.
LEMMA OpenIsReachable ==
  ASSUME IInv, AtObject, CanOpen(Objects[index])
  PROVE  /\ \A s \in SUBSET DOMAIN Objects : Closed(s) => index \in s
         /\ index \in Reachable
<1>1. index \in DOMAIN Objects
  BY AtObjectIn DEF IInv
<1>2. PICK m \in DOMAIN Objects[index].recipients : Objects[index].recipients[m] \in identities
  BY CanOpenMeans
<1>3. ASSUME NEW s \in SUBSET DOMAIN Objects, Closed(s) PROVE index \in s
  <2>1. complete \subseteq s
    BY <1>3 DEF IInv, OnlyReachable
  <2>2. Introduced(complete) \subseteq Introduced(s)
    BY <2>1 DEF Introduced
  <2>3. Objects[index].recipients[m] \in Introduced(s)
    BY <1>2, <2>2 DEF IInv, FromComplete
  <2>4. QED
    BY <1>1, <1>3, <2>3 DEF Closed
<1>4. QED
  BY <1>1, <1>3 DEF Reachable

LEMMA PassInv == ASSUME IInv, Pass PROVE IInv'
<1>1. TypeOK'
  BY AtObjectIn DEF IInv, TypeOK, Pass, Objects
<1>2. OnlyReachable' /\ FromComplete'
  BY DEF IInv, Pass, OnlyReachable, FromComplete, Introduced, Closed, Objects
<1>3. PassedByRound'
  <2>1. index \in Nat /\ DOMAIN Objects \subseteq Nat
    BY Shape DEF IInv, TypeOK
  <2>2. ASSUME ~progress, NEW n \in DOMAIN Objects, n < index + 1
        PROVE  n \in complete \/ ~CanOpen(Objects[n])
    <3>1. n < index \/ n = index
      BY <2>1, <2>2
    <3>2. QED
      BY <2>2, <3>1 DEF IInv, PassedByRound, Pass, Opened
  <2>3. QED
    BY <2>2 DEF Pass, PassedByRound, Objects, CanOpen, Known
<1>4. Ended'
  BY DEF Pass, AtObject, Ended, Objects
<1>5. ErrorHasCause'
  BY DEF Pass, IInv, AtObject, ErrorHasCause, Objects
<1>6. QED
  BY <1>1, <1>2, <1>3, <1>4, <1>5 DEF IInv

LEMMA OpenInv == ASSUME IInv, Open PROVE IInv'
<1> DEFINE o == Objects[index]
<1>1. AtObject /\ CanOpen(o) /\ index \in DOMAIN Objects /\ o \in Object
  BY AtObjectIn DEF IInv, Open
<1>2. TypeOK'
  BY <1>1, AtObjectIn, ChildType DEF IInv, TypeOK, Open, Objects
<1>3. OnlyReachable'
  <2>1. \A s \in SUBSET DOMAIN Objects : Closed(s) => index \in s
    BY <1>1, OpenIsReachable
  <2>2. QED
    BY <2>1 DEF IInv, OnlyReachable, Open, Closed, Introduced, Objects
<1>4. FromComplete'
  <2>1. identities' = Introduced(complete')
    BY <1>1 DEF IInv, FromComplete, Open, Introduced, Objects
  <2>2. ASSUME NEW h \in Hint
        PROVE  keys'[h] = {Objects[n].master : n \in {m \in complete' : Objects[m].hint = h}}
    <3>1. keys[h] = {Objects[n].master : n \in {m \in complete : Objects[m].hint = h}}
      BY DEF IInv, FromComplete
    <3>2. keys'[h] = IF h = o.hint THEN keys[h] \cup {o.master} ELSE keys[h]
      BY DEF IInv, TypeOK, Open
    <3>3. complete' = complete \cup {index}
      BY DEF Open
    <3>4. QED
      BY <3>1, <3>2, <3>3
  <2>3. Objects' = Objects /\ Introduced(complete)' = Introduced(complete')
    BY DEF Open, Objects, Introduced
  <2>4. QED
    BY <2>1, <2>2, <2>3 DEF FromComplete
<1>5. PassedByRound' /\ Ended'
  BY <1>1 DEF Open, PassedByRound, Ended, AtObject, Objects
<1>6. ErrorHasCause'
  BY <1>1 DEF Open, Opens, AtObject, IInv, ErrorHasCause, Objects
<1>7. QED
  BY <1>2, <1>3, <1>4, <1>5, <1>6 DEF IInv

LEMMA RefuseInv == ASSUME IInv, Refuse PROVE IInv'
<1>1. TypeOK' /\ OnlyReachable' /\ FromComplete' /\ PassedByRound'
  BY DEF IInv, Refuse, TypeOK, OnlyReachable, FromComplete, PassedByRound, Introduced, Closed,
         Objects, CanOpen, Known
<1>2. Ended'
  BY DEF Refuse, Ended
<1>3. ErrorHasCause'
  <2>1. index \in Reachable
    BY OpenIsReachable DEF Refuse
  <2>2. ~Consistent(Objects[index]) \/ Objects[index].broken # {}
    BY DEF Refuse, Opens
  <2>3. Reachable' = Reachable /\ Objects' = Objects
    BY DEF Refuse, Reachable, Closed, Introduced, Objects
  <2>4. QED
    BY <2>1, <2>2, <2>3 DEF Refuse, IInv, ErrorHasCause
<1>4. QED
  BY <1>1, <1>2, <1>3 DEF IInv

LEMMA RoundInv == ASSUME IInv, Round PROVE IInv'
<1>1. TypeOK'
  <2>1. 1 \in 1..(Len(Objects) + 1)
    BY Shape DEF IInv, TypeOK
  <2>2. QED
    BY <2>1 DEF IInv, Round, TypeOK, Objects
<1>2. OnlyReachable' /\ FromComplete'
  BY DEF IInv, Round, OnlyReachable, FromComplete, Introduced, Closed, Objects
<1>3. PassedByRound'
  BY Shape DEF IInv, Round, PassedByRound, TypeOK, Objects, CanOpen, Known
<1>4. Ended' /\ ErrorHasCause'
  BY DEF IInv, Round, Stuck, Ended, ErrorHasCause, Objects
<1>5. QED
  BY <1>1, <1>2, <1>3, <1>4 DEF IInv

LEMMA StutterInv == ASSUME IInv, UNCHANGED vars PROVE IInv'
BY DEF IInv, vars, TypeOK, OnlyReachable, FromComplete, PassedByRound, Ended, ErrorHasCause,
       Reachable, Introduced, Closed, Objects, CanOpen, Known

\* The strengthened invariant holds in every reachable state.
THEOREM Inductive == Spec => []IInv
<1>1. IInv /\ [Next]_vars => IInv'
  BY PassInv, OpenInv, RefuseInv, RoundInv, StutterInv DEF Next
<1>2. QED
  BY InitInv, <1>1, PTL DEF Spec

-----------------------------------------------------------------------------

\* Every variable keeps its type.
THEOREM TypeCorrect == Spec => []TypeOK
<1>1. IInv => TypeOK
  BY DEF IInv
<1>2. QED
  BY Inductive, <1>1, PTL

\* When recovery ends, what it has opened is closed, hence all that is reachable.
LEMMA CompleteIsReachable ==
  ASSUME IInv, outcome = "recovered"
  PROVE  complete = Reachable /\ Reachable \subseteq DOMAIN Objects
<1>1. complete \subseteq Reachable
  BY DEF IInv, TypeOK, OnlyReachable, Reachable
<1>2. Closed(complete)
  <2>1. ASSUME NEW n \in DOMAIN Objects,
               \E m \in DOMAIN Objects[n].recipients :
                 Objects[n].recipients[m] \in Introduced(complete)
        PROVE  n \in complete
    <3>1. CanOpen(Objects[n])
      BY <2>1, CanOpenMeans DEF IInv, FromComplete
    <3>2. n < index /\ ~progress
      BY Shape DEF IInv, TypeOK, Ended
    <3>3. QED
      BY <3>1, <3>2 DEF IInv, PassedByRound
  <2>2. QED
    BY <2>1 DEF Closed
<1>3. Reachable \subseteq complete
  BY <1>2 DEF IInv, TypeOK, Reachable
<1>4. QED
  BY <1>1, <1>3 DEF Reachable

\* Recovery ends with everything reachable, in whatever order the objects came.
THEOREM AllReachable == Spec => []RecoversReachable
<1>1. IInv => RecoversReachable
  BY CompleteIsReachable DEF IInv, FromComplete, RecoversReachable
<1>2. QED
  BY Inductive, <1>1, PTL

\* Only consistent objects are believed, and an error has a cause within reach.
THEOREM ErrorsAreCaused == Spec => []ErrorHasCause
<1>1. IInv => ErrorHasCause
  BY DEF IInv
<1>2. QED
  BY Inductive, <1>1, PTL

\* A field under a recovered key is read, or its hint is ambiguous.
THEOREM FieldsAreRead == Spec => []ReadsItsFields
<1>1. ASSUME IInv PROVE ReadsItsFields
  <2> SUFFICES ASSUME outcome = "recovered", NEW n \in Reachable
               PROVE  LET o == Objects[n]
                      IN  DecryptField(o.hint, o.master) =
                            IF \E m \in Reachable :
                                 Objects[m].hint = o.hint /\ Objects[m].master # o.master
                            THEN "ambiguous" ELSE "plaintext"
    BY DEF ReadsItsFields
  <2> DEFINE o == Objects[n]
             found == {Objects[m].master : m \in {j \in Reachable : Objects[j].hint = o.hint}}
  <2>1. o.hint \in Hint
    <3>1. o \in Object
      BY <1>1, Shape, CompleteIsReachable DEF IInv, TypeOK
    <3>2. QED
      BY <3>1, ChildType
  <2>2. keys[o.hint] = found
    <3>1. complete = Reachable
      BY <1>1, CompleteIsReachable
    <3>2. keys[o.hint] = {Objects[m].master : m \in {j \in complete : Objects[j].hint = o.hint}}
      BY <1>1, <2>1 DEF IInv, FromComplete
    <3>3. QED
      BY <3>1, <3>2
  <2>3. o.master \in found
    OBVIOUS
  <2>4. (\E k1, k2 \in found : k1 # k2)
          <=> \E m \in Reachable : Objects[m].hint = o.hint /\ Objects[m].master # o.master
    BY <2>3
  <2> HIDE DEF found
  <2>5. QED
    BY <2>2, <2>3, <2>4 DEF DecryptField
<1>2. QED
  BY Inductive, <1>1, PTL

\* A new record is protected for an identity that recovery has found.
THEOREM CreatedIsReadable == Spec => []NewRecordsOpen
<1>1. ASSUME IInv PROVE NewRecordsOpen
  <2> SUFFICES ASSUME outcome = "recovered", NewRecipient # None
               PROVE  /\ NewRecipient \in Introduced(Reachable)
                      /\ \E n \in DOMAIN Objects : Objects[n].public = NewRecipient
    BY DEF NewRecordsOpen
  <2>1. Parents # {} /\ Parents \subseteq Nat
    <3>1. DOMAIN Objects \subseteq Nat
      BY <1>1, Shape DEF IInv, TypeOK
    <3>2. QED
      BY <3>1 DEF NewRecipient, Parents
  <2>2. \E n \in Parents : \A m \in Parents : n <= m
    BY <2>1, NatMin
  <2>3. PICK n \in Parents : NewRecipient = Objects[n].public
    BY <2>1, <2>2 DEF NewRecipient
  <2>4. identities = Introduced(Reachable)
    <3>1. complete = Reachable
      BY <1>1, CompleteIsReachable
    <3>2. QED
      BY <1>1, <3>1 DEF IInv, FromComplete
  <2>5. QED
    BY <2>3, <2>4 DEF Parents
<1>2. QED
  BY Inductive, <1>1, PTL
=============================================================================
