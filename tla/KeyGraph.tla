------------------------------ MODULE KeyGraph ------------------------------
(***************************************************************************)
(* KeyGraph::recover of pcs.rs: from the identities at hand and the PCS    *)
(* objects of one CloudKit response, recover the master keys and all       *)
(* further identities, round after round over the objects in the order in  *)
(* which they came, until a round opens nothing.                           *)
(*                                                                         *)
(* An object wraps a master key for some identities and may hold, under    *)
(* that key, the private part of another identity.  Keys are looked up by  *)
(* a hint of four bytes, which two of them may share.  A wrapping may be   *)
(* broken, and an opened object may fail a check.                          *)
(***************************************************************************)
EXTENDS Naturals, Sequences, FiniteSets

CONSTANTS
  Identity, Master, Hint, \* PCS identities, master keys, four-byte key hints
  None,
  Responses               \* bound: the responses a service may send

\* recipients: in the order of the object; broken: those whose wrapping does not
\* unwrap; child: the identity inside; public: the one in the public export, if there is
\* any; sound: the key inside has the hint, and the rest decrypts.
Object == [recipients : Seq(Identity), broken : SUBSET Identity, child : Identity \cup {None},
           public : Identity \cup {None}, hint : Hint, master : Master, sound : BOOLEAN]

ASSUME ResponsesAssumption ==
  Responses \subseteq [objects : Seq(Object), held : SUBSET Identity]
ASSUME NoneAssumption == None \notin Identity

VARIABLES
  response,   \* what is being recovered from
  index,      \* the object that the round is at
  progress,   \* whether this round has opened one
  complete,   \* the objects opened
  identities, \* the identities known
  keys,       \* the master keys of each hint
  outcome     \* "running", "recovered" or "error"

vars == <<response, index, progress, complete, identities, keys, outcome>>

Objects == response.objects

TypeOK ==
  /\ response \in Responses
  /\ index \in 1..(Len(Objects) + 1)
  /\ progress \in BOOLEAN
  /\ complete \subseteq DOMAIN Objects
  /\ identities \subseteq Identity
  /\ keys \in [Hint -> SUBSET Master]
  /\ outcome \in {"running", "recovered", "error"}

Init ==
  /\ response \in Responses
  /\ index = 1
  /\ progress = FALSE
  /\ complete = {}
  /\ identities = response.held
  /\ keys = [h \in Hint |-> {}]
  /\ outcome = "running"

-----------------------------------------------------------------------------

Known(o) == {n \in DOMAIN o.recipients : o.recipients[n] \in identities}

\* The first recipient whose identity is known.
Recipient(o) == o.recipients[CHOOSE n \in Known(o) : \A m \in Known(o) : n <= m]

\* Mutant: an object that has been opened is opened again.
NeverOpened(n) == FALSE

Opened(n) == n \in complete

AtObject ==
  /\ outcome = "running"
  /\ index <= Len(Objects)

CanOpen(o) == Known(o) # {}

Pass ==
  /\ AtObject
  /\ Opened(index) \/ ~CanOpen(Objects[index])
  /\ index' = index + 1
  /\ UNCHANGED <<response, progress, complete, identities, keys, outcome>>

\* Mutant: the identity inside is not compared with the public one.
OpensUnchecked(o) == Recipient(o) \notin o.broken /\ o.sound

\* What is inside is what is public: an identity inside must be, but there may be none.
Consistent(o) == o.sound /\ o.child \in {None, o.public}

Opens(o) == Recipient(o) \notin o.broken /\ Consistent(o)

Child(o) == {o.child} \ {None}

Open ==
  /\ AtObject
  /\ ~Opened(index)
  /\ LET o == Objects[index]
     IN  /\ CanOpen(o)
         /\ Opens(o)
         /\ identities' = identities \cup Child(o)
         /\ keys' = [keys EXCEPT ![o.hint] = @ \cup {o.master}]
  /\ complete' = complete \cup {index}
  /\ progress' = TRUE
  /\ index' = index + 1
  /\ UNCHANGED <<response, outcome>>

\* One object that cannot be opened with a known identity fails everything.
Refuse ==
  /\ AtObject
  /\ ~Opened(index)
  /\ CanOpen(Objects[index])
  /\ ~Opens(Objects[index])
  /\ outcome' = "error"
  /\ UNCHANGED <<response, index, progress, complete, identities, keys>>

\* Mutant: one round.
NoMore == TRUE

Stuck == ~progress

Round ==
  /\ outcome = "running"
  /\ index > Len(Objects)
  /\ IF Stuck THEN outcome' = "recovered" /\ UNCHANGED <<index, progress>>
     ELSE index' = 1 /\ progress' = FALSE /\ UNCHANGED outcome
  /\ UNCHANGED <<response, complete, identities, keys>>

Next == Pass \/ Open \/ Refuse \/ Round

Spec == Init /\ [][Next]_vars

\* One process, which does not wait for anything.
Fairness == WF_vars(Next)

FairSpec == Spec /\ Fairness

-----------------------------------------------------------------------------
(* What the keys are used for: reading and rewriting fields *)

\* A field names its key by the hint; one that no key has is left as it is, and
\* one that two have is an error.  Only the right key authenticates.
DecryptField(hint, master) ==
  IF keys[hint] = {} THEN "opaque"
  ELSE IF \E k1, k2 \in keys[hint] : k1 # k2 THEN "ambiguous"
  ELSE IF master \in keys[hint] THEN "plaintext" ELSE "error"

\* A new record is protected for the first identity that is public and known, whether
\* or not its object could be opened.
Parents == {n \in DOMAIN Objects : Objects[n].public \in identities}

NewRecipient ==
  IF Parents = {} THEN None
  ELSE Objects[CHOOSE n \in Parents : \A m \in Parents : n <= m].public

-----------------------------------------------------------------------------
(* What may be reached at all: a definition without rounds or order *)

Introduced(s) == response.held \cup UNION {Child(Objects[n]) : n \in s}

\* With every object that the identities of the set can open, it has that object.
Closed(s) ==
  \A n \in DOMAIN Objects :
    (\E m \in DOMAIN Objects[n].recipients : Objects[n].recipients[m] \in Introduced(s)) => n \in s

Reachable == {n \in DOMAIN Objects : \A s \in SUBSET DOMAIN Objects : Closed(s) => n \in s}

-----------------------------------------------------------------------------
(* Properties *)

\* Recovery ends with all that can be reached and nothing else, in whatever order
\* the pages have brought the objects (pcs.rs:226-284).
RecoversReachable ==
  outcome = "recovered" =>
    /\ complete = Reachable
    /\ identities = Introduced(Reachable)
    /\ \A h \in Hint : keys[h] = {Objects[n].master : n \in {m \in Reachable : Objects[m].hint = h}}

\* Nothing is ever believed that an inconsistent object says, and an error has a
\* reachable object as its cause (pcs.rs:244-268).
ErrorHasCause ==
  /\ \A n \in complete : Consistent(Objects[n])
  /\ outcome = "error" => \E n \in Reachable : ~Consistent(Objects[n]) \/ Objects[n].broken # {}

\* A field under a recovered key is read, unless another recovered key has the
\* same hint: then it is an error, never a wrong or missing value (pcs.rs:321).
ReadsItsFields ==
  outcome = "recovered" =>
    \A n \in Reachable :
      LET o == Objects[n]
      IN  DecryptField(o.hint, o.master) =
            IF \E m \in Reachable : Objects[m].hint = o.hint /\ Objects[m].master # o.master
            THEN "ambiguous" ELSE "plaintext"

\* A record created under the recovered keys is for an identity that whoever
\* holds the same identities recovers too (pcs.rs:388-392, write.rs:676).
NewRecordsOpen ==
  outcome = "recovered" /\ NewRecipient # None =>
    /\ NewRecipient \in Introduced(Reachable)
    /\ \E n \in DOMAIN Objects : Objects[n].public = NewRecipient

\* Recovery ends.
Terminates == <>(outcome # "running")
=============================================================================
