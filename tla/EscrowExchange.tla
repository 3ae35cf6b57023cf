---------------------------- MODULE EscrowExchange ---------------------------
(***************************************************************************)
(* One passcode attempt of escrow.rs, from the choice of the record to the *)
(* entropy of the bottle: what Enrollment has as the answer to a single    *)
(* request.  There are two answers, to SRP_INIT and to RECOVER; the        *)
(* numbers between them are those of Srp, the frames those of              *)
(* StrictFormats.                                                          *)
(*                                                                         *)
(* A section of a frame is its size and what it holds.  Something sealed   *)
(* opens with its key and its initial vector and with nothing else.        *)
(***************************************************************************)
EXTENDS Naturals, Sequences

CONSTANTS
  N, g,     \* the group
  Block,    \* 16: bytes of a block and of an initial vector
  MaxRounds \* 10 000 000: rounds of the key derivation

Numbers == INSTANCE Srp

Refused == [ok |-> FALSE]

Sealed(key, iv, contents) == [key |-> key, iv |-> iv, contents |-> contents]

Unseal(key, iv, box) ==
  IF box.holds.key = key /\ box.holds.iv = iv.holds
  THEN [ok |-> TRUE, contents |-> box.holds.contents] ELSE Refused

-----------------------------------------------------------------------------
(* The record *)

\* The record of a label must be the only one, and must not name another bottle; many
\* name none.
RecordFits(records, label, bottle, Unnamed) ==
  LET matching == {n \in DOMAIN records : records[n].label = label}
  IN  /\ \E n \in matching : matching = {n}
      /\ \A n \in matching : records[n].bottle \in {bottle, Unnamed}

-----------------------------------------------------------------------------
(* Answers *)

\* A code is missing, a number, a number in text, or some other text.
Zero    == {"zero", "text zero"}
Nonzero == {"nonzero", "text nonzero"}
Codes   == {"none", "text"} \cup Zero \cup Nonzero

\* The first of the two codes that can be read as a number.
Rejection(answer) ==
  IF answer.status \in Zero \cup Nonzero THEN answer.status
  ELSE IF answer.errorCode \in Zero \cup Nonzero THEN answer.errorCode
  ELSE "none"

Taken(answer) ==
  /\ answer.http
  /\ answer.success # "false"
  /\ Rejection(answer) \notin Nonzero
  /\ answer.errorCode \in {"none", "zero"}

-----------------------------------------------------------------------------
(* The exchange *)

HeaderSize(club) == IF club THEN 40 ELSE 24

\* A frame read with another size of its header is no frame.
Opens(frame, header, count) == frame.header = header /\ Len(frame.sections) = count

\* The initial vector is one block, in whichever section; what it is for is longer.
Outer(frame, key) ==
  LET second == frame.sections[2]
      third  == frame.sections[3]
  IN  CASE frame.version = 0 /\ second.size = Block /\ third.size > Block -> Unseal(key, second, third)
        [] frame.version = 0 /\ third.size = Block /\ second.size > Block -> Unseal(key, third, second)
        [] frame.version = 2 /\ third.size >= Block                       -> Unseal(key, second, third)
        [] OTHER                                                          -> Refused

\* The passcode is needed a second time, for what only its owner may read.
Inner(frame, passcode) ==
  LET salt == frame.sections[2]
      key  == <<"derived", passcode, salt.holds, frame.rounds>>
  IN  IF /\ Opens(frame, 16, 6)
         /\ frame.rounds \in 1..MaxRounds
         /\ salt.size >= Block
      THEN Unseal(key, salt, frame.sections[4]) ELSE Refused

RecoverEntropy(frame, club, expected, key, passcode) ==
  LET outer == Outer(frame, key)
      inner == Inner(outer.contents, passcode)
  IN  IF /\ Opens(frame, HeaderSize(club), 3)
         /\ frame.sections[1].size = 32 /\ frame.sections[1].holds = expected
         /\ outer.ok /\ inner.ok
         /\ inner.contents # <<>>
      THEN [ok |-> TRUE, entropy |-> inner.contents] ELSE Refused

\* The client's answer to SRP_INIT.
Prove(a, x, k, u, init) ==
  IF Taken(init) /\ Opens(init.frame, 24, 3) /\ init.frame.sections[1].size + 4 <= 20
  THEN Numbers!Passcode(a, init.dsid, init.frame.sections[2].holds, x, k, u,
                        init.frame.sections[3].holds)
  ELSE Refused

Recover(a, x, k, u, passcode, init, Answered) ==
  LET proof  == Prove(a, x, k, u, init)
      answer == Answered[proof]
  IN  IF passcode # <<>> /\ proof.ok /\ Taken(answer)
      THEN RecoverEntropy(answer.frame, init.club, proof.expected, proof.key, passcode)
      ELSE Refused

-----------------------------------------------------------------------------
(* The service *)

Section(size, holds) == [size |-> size, holds |-> holds]
Yes(frame) == [http |-> TRUE, success |-> "none", status |-> "zero", errorCode |-> "none",
               frame |-> frame]

Init(club, salt, B) ==
  [http |-> TRUE, success |-> "true", status |-> "none", errorCode |-> "none",
   dsid |-> "dsid", club |-> club,
   frame |-> [header |-> 24,
              sections |-> <<Section(16, "session"), Section(16, salt), Section(256, B)>>]]

\* The bottle, sealed for the owner of a passcode.
Bottle(passcode, rounds, entropy) ==
  LET salt == "bottle salt"
      box  == Sealed(<<"derived", passcode, salt, rounds>>, salt, entropy)
      rest == Section(0, "rest")
  IN  [header |-> 16, rounds |-> rounds,
       sections |-> <<rest, Section(Block, salt), rest, Section(64, box), rest, rest>>]

\* The answer to RECOVER, in each of the layouts that services have used.
Reply(layout, club, expected, key, bottle) ==
  LET iv  == Section(Block, "iv")
      box == Section(128, Sealed(key, "iv", bottle))
  IN  [header |-> IF club THEN 40 ELSE 24, version |-> IF layout = "gcm" THEN 2 ELSE 0,
       sections |-> <<Section(32, expected)>> \o (IF layout = "iv last" THEN <<box, iv>> ELSE <<iv, box>>)]

Layouts == {"iv first", "iv last", "gcm"}

-----------------------------------------------------------------------------
(* Properties, over sets of inputs *)

\* What has been refused is never taken for an answer, whichever of its codes says so and in
\* whatever form (escrow.rs:205).
RefusalsAreSeen ==
  \A answer \in [http : BOOLEAN, success : {"none", "true", "false"}, status : Codes,
                 errorCode : Codes] :
    Taken(answer) => /\ answer.http /\ answer.success # "false"
                     /\ {answer.status, answer.errorCode} \cap Nonzero = {}

\* A service that knows the verifier, in whichever layout it answers, gives the owner of the
\* passcode the entropy; and no one else, even one whose numbers happen to agree
\* (escrow.rs:319).
OwnerRecovers(numbers) ==
  \A a, b, x, k, u \in numbers, club \in BOOLEAN, layout \in Layouts, tried \in {<<1>>, <<2>>} :
    LET B     == Numbers!PublicB(b, k, x)
        init  == Init(club, "salt", B)
        proof == Prove(a, x, k, u, init)
        A     == Numbers!PublicA(a)
        key   == Numbers!ServerKey(b, u, A, x)
        m1    == Numbers!Proof("dsid", "salt", A, B, key)
        reply == Yes(Reply(layout, club, Numbers!Answer(A, m1, key), key, Bottle(<<1>>, 1, <<7>>)))
        read  == Recover(a, x, k, u, tried, init, [p \in {proof} |-> reply])
    IN  proof.ok => read = IF tried = <<1>> THEN [ok |-> TRUE, entropy |-> <<7>>] ELSE Refused

\* The reply of an earlier exchange, with secrets, a salt and numbers of its own, of which u
\* depends on both public ones, is refused unless salt and public numbers are the same again:
\* whoever repeats it has not shown that he knows the verifier now (escrow.rs:327, 486).
ReplaysAreRefused(exchanges) ==
  \A now, past \in exchanges, layout \in Layouts :
    LET Asked(e)   == Init(FALSE, e.salt, e.B)
        Started(e) == Prove(e.a, e.x, e.k, e.u, Asked(e))
        reply      == Yes(Reply(layout, FALSE, Started(past).expected, Started(past).key,
                                Bottle(<<1>>, 1, <<7>>)))
        read       == Recover(now.a, now.x, now.k, now.u, <<1>>, Asked(now),
                              [p \in {Started(now)} |-> reply])
    IN  Started(now).ok /\ Started(past).ok /\ read.ok =>
          /\ now.salt = past.salt /\ now.B = past.B
          /\ Numbers!PublicA(now.a) = Numbers!PublicA(past.a)

\* The record that an attempt is spent on is unique, so that it does not depend on the order
\* of the list, and does not belong to another bottle (escrow.rs:38).
RecordIsTheBottles(lists, label, bottle, Unnamed) ==
  \A records \in lists :
    RecordFits(records, label, bottle, Unnamed) =>
      LET chosen == CHOOSE n \in DOMAIN records : records[n].label = label
      IN  \A n \in DOMAIN records : records[n].label = label =>
            n = chosen /\ records[n].bottle \in {bottle, Unnamed}
=============================================================================
