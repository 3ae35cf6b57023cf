------------------------------ MODULE WireCodec ------------------------------
(***************************************************************************)
(* The protobuf reader and writer of wire.rs, as pure operators.           *)
(*                                                                         *)
(* A byte is a number; its highest bit says that another one follows, the  *)
(* others are a group of the number.  The sizes are parameters: the code's *)
(* are beside each.  A message may be read from any bytes, by whoever they *)
(* were written, and what this program does not know must come out again   *)
(* as it went in.                                                          *)
(***************************************************************************)
EXTENDS Naturals, Sequences

CONSTANTS
  Group,       \* values of a group of a number: 128
  Groups, Top, \* groups of the longest number, and the largest last one of it: 10 and 1
  Types,       \* wire types of a key: 8
  MaxNumber,   \* largest number of a field: 2^29 - 1
  Eight, Four, \* bytes of the fixed values: 8 and 4
  MaxMessage   \* bytes of a message: 64 MiB

Byte == 0..2 * Group - 1

\* What a group is worth behind m others.
Weight[m \in Nat] == IF m = 0 THEN 1 ELSE Weight[m - 1] * Group

\* The numbers of a machine word.
Word == 0..(Top + 1) * Weight[Groups - 1] - 1

\* What the sizes must be for the operators to make sense: a key and the length of a message
\* are words.
SizesFit ==
  /\ Group \in Nat \ 0..1 /\ Groups \in Nat \ {0} /\ Top \in 0..Group - 1
  /\ Types \in Nat \ 0..5 /\ MaxNumber \in Nat
  /\ Eight \in Nat /\ Four \in Nat /\ MaxMessage \in Nat
  /\ MaxNumber * Types + (Types - 1) \in Word /\ MaxMessage \in Word

Refused == [ok |-> FALSE]

-----------------------------------------------------------------------------
(* Numbers *)

Continues(byte) == byte >= Group

\* The first n groups behind offset, the lowest first.
Number(input, offset, n) ==
  LET value[m \in 0..n] ==
        IF m = 0 THEN 0 ELSE value[m - 1] + (input[offset + m] % Group) * Weight[m - 1]
  IN  value[n]

\* The number that starts after offset, and where it ends.  A number may be written
\* longer than it need be, with empty groups at its end.
ReadVarint(input, offset) ==
  LET Ends(n) == /\ \A m \in 1..n - 1 : Continues(input[offset + m])
                 /\ ~Continues(input[offset + n])
                 /\ n = Groups => input[offset + n] <= Top
      lengths == {n \in 1..Groups : offset + n <= Len(input) /\ Ends(n)}
      n       == CHOOSE n \in lengths : TRUE
  IN  IF lengths = {} THEN Refused
      ELSE [ok |-> TRUE, value |-> Number(input, offset, n), next |-> offset + n]

\* A number without its first m groups.
Shifted(value, m) ==
  LET rest[k \in Nat] == IF k = 0 THEN value ELSE rest[k - 1] \div Group
  IN  rest[m]

\* The shortest way to write a number.
EncodeVarint(value) ==
  LET n == CHOOSE n \in 1..Groups : /\ ~Continues(Shifted(value, n - 1))
                                    /\ \A m \in 1..n - 1 : Continues(Shifted(value, m - 1))
  IN  [m \in 1..n |-> (Shifted(value, m - 1) % Group) + (IF m < n THEN Group ELSE 0)]

Take(input, offset, length) ==
  IF offset + length > Len(input) THEN Refused
  ELSE [ok |-> TRUE, value |-> SubSeq(input, offset + 1, offset + length),
        next |-> offset + length]

-----------------------------------------------------------------------------
(* Messages *)

LengthPrefixed(input, offset) ==
  LET length == ReadVarint(input, offset)
  IN  IF length.ok THEN Take(input, length.next, length.value) ELSE Refused

Kind == [t \in {0, 1, 2, 5} |->
           CASE t = 0 -> "varint" [] t = 1 -> "fixed64" [] t = 2 -> "bytes" [] OTHER -> "fixed32"]

ReadValue(type, input, offset) ==
  CASE type = 0 -> ReadVarint(input, offset)
    [] type = 1 -> Take(input, offset, Eight)
    [] type = 2 -> LengthPrefixed(input, offset)
    [] type = 5 -> Take(input, offset, Four)
    [] OTHER    -> Refused

\* One field, with the bytes it was read from.
ReadField(input, offset) ==
  LET key    == ReadVarint(input, offset)
      number == key.value \div Types
      type   == key.value % Types
      value  == ReadValue(type, input, key.next)
  IN  IF key.ok /\ number \in 1..MaxNumber /\ value.ok
      THEN [ok |-> TRUE, next |-> value.next,
            field |-> [number |-> number, kind |-> Kind[type], value |-> value.value,
                       raw |-> SubSeq(input, offset + 1, value.next)]]
      ELSE Refused

\* One round of the loop: where the reader stands, and what it has read so far.
Advance(input, reader) ==
  LET read == ReadField(input, reader.next)
  IN  IF ~reader.ok \/ reader.next >= Len(input) THEN reader
      ELSE IF read.ok THEN [ok |-> TRUE, next |-> read.next,
                            fields |-> Append(reader.fields, read.field)]
      ELSE Refused

\* There are at most as many fields as bytes.
Parse(input) ==
  LET reader[n \in 0..Len(input)] ==
        IF n = 0 THEN [ok |-> TRUE, next |-> 0, fields |-> <<>>]
        ELSE Advance(input, reader[n - 1])
  IN  IF Len(input) > MaxMessage THEN Refused ELSE reader[Len(input)]

Raw(field) == field.raw

\* One after the other.
Encode(fields) ==
  LET joined[n \in 0..Len(fields)] == IF n = 0 THEN <<>> ELSE joined[n - 1] \o Raw(fields[n])
  IN  joined[Len(fields)]

EncodeKey(number, type) == EncodeVarint(number * Types + type)
EncodeUint(number, value) == EncodeKey(number, 0) \o EncodeVarint(value)
EncodeBytes(number, bytes) == EncodeKey(number, 2) \o EncodeVarint(Len(bytes)) \o bytes

\* Positions of the fields of a number, in their order.
Having(fields, number) == {n \in DOMAIN fields : fields[n].number = number}
Least(positions) == CHOOSE n \in positions : \A m \in positions : n <= m

\* The first value of a kind: fields of the same number and another kind are passed by.
FirstOf(kind, fields, number) ==
  LET fit == {n \in Having(fields, number) : fields[n].kind = kind}
  IN  IF fit = {} THEN Refused ELSE [ok |-> TRUE, value |-> fields[Least(fit)].value]

\* Only the first field of the number is replaced, and only if it holds bytes.
ReplaceFirstBytes(fields, number, bytes) ==
  LET having == Having(fields, number)
      first  == Least(having)
  IN  IF having = {} \/ fields[first].kind # "bytes" THEN Refused
      ELSE [ok |-> TRUE,
            fields |-> [fields EXCEPT ![first].value = bytes,
                                      ![first].raw = EncodeBytes(number, bytes)]]

\* The first field of the number is overwritten, whatever it holds.
SetVarint(fields, number, value) ==
  LET field == [number |-> number, kind |-> "varint", value |-> value,
                raw |-> EncodeUint(number, value)]
      having == Having(fields, number)
  IN  IF having = {} THEN Append(fields, field)
      ELSE [fields EXCEPT ![Least(having)] = field]

\* A stream of messages, each behind its length.
NextMessage(input, reader) ==
  LET body    == LengthPrefixed(input, reader.next)
      message == Parse(body.value)
  IN  IF ~reader.ok \/ reader.next >= Len(input) THEN reader
      ELSE IF body.ok /\ message.ok
      THEN [ok |-> TRUE, next |-> body.next, messages |-> Append(reader.messages, message.fields)]
      ELSE Refused

DecodeDelimited(input) ==
  LET reader[n \in 0..Len(input)] ==
        IF n = 0 THEN [ok |-> TRUE, next |-> 0, messages |-> <<>>]
        ELSE NextMessage(input, reader[n - 1])
  IN  reader[Len(input)]

-----------------------------------------------------------------------------
(* Properties, over sets of inputs *)

\* A number is read back as it was written, and no shorter bytes stand for it: the
\* writer's form is the shortest that the reader takes (wire.rs:133, 162).
NumbersSurvive(inputs) ==
  /\ \A value \in Word :
       LET read == ReadVarint(EncodeVarint(value), 0)
       IN  read.ok /\ read.value = value /\ read.next = Len(EncodeVarint(value))
  /\ \A input \in inputs :
       LET read == ReadVarint(input, 0)
       IN  read.ok => read.value \in Word /\ Len(EncodeVarint(read.value)) <= read.next

\* Whatever bytes are accepted come out again as they went in, unknown fields and
\* overlong numbers included (wire.rs:90).
Lossless(inputs) ==
  \A input \in inputs : Parse(input).ok => Encode(Parse(input).fields) = input

\* A replaced value is the one that is read back, and everything else in the message is
\* the same, byte by byte, after another round through the reader (wire.rs:99).
ReplacesOne(inputs, numbers, values) ==
  \A input \in inputs, number \in numbers, bytes \in values :
    LET before == Parse(input).fields
        after  == ReplaceFirstBytes(before, number, bytes)
        again  == Parse(Encode(after.fields))
    IN  Parse(input).ok /\ after.ok /\ Len(Encode(after.fields)) <= MaxMessage =>
          /\ again.ok /\ again.fields = after.fields
          /\ FirstOf("bytes", again.fields, number).value = bytes
          /\ \E n \in DOMAIN before :
               \A m \in DOMAIN before : m # n => again.fields[m] = before[m]

\* The same of a number, which is appended where there is none (wire.rs:116).
SetsOne(inputs, numbers) ==
  \A input \in inputs, number \in numbers, value \in Word :
    LET before == Parse(input).fields
        after  == SetVarint(before, number, value)
        again  == Parse(Encode(after))
    IN  Parse(input).ok /\ Len(Encode(after)) <= MaxMessage =>
          /\ again.ok /\ again.fields = after
          /\ FirstOf("varint", after, number).value = value
          /\ Len(after) <= Len(before) + 1

\* Messages that are joined, each behind its length, are told apart again (wire.rs:189).
StreamsSplit(inputs) ==
  \A one, two \in {input \in inputs : Parse(input).ok} :
    LET stream == EncodeVarint(Len(one)) \o one \o EncodeVarint(Len(two)) \o two
            read   == DecodeDelimited(stream)
    IN  read.ok /\ read.messages = <<Parse(one).fields, Parse(two).fields>>
=============================================================================
