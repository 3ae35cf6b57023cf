---------------------------- MODULE StrictFormats ----------------------------
(***************************************************************************)
(* The binary formats that may be written in one way only: the DER reader  *)
(* of der.rs, the frames of an escrow record (escrow.rs) and the padding   *)
(* of a CKKS item (ckks.rs).                                               *)
(*                                                                         *)
(* Sizes are parameters.  A byte has GroupBits + 1 bits (8 in the code):   *)
(* as the first one of a node, two of them are its class, one says whether *)
(* it is constructed, the others are its tag.                              *)
(***************************************************************************)
EXTENDS Naturals, Sequences

LOCAL INSTANCE SequencesExt

CONSTANTS
  GroupBits,             \* 7
  TagBits, TagBytes,     \* 32, and 6
  LengthBytes, IntBytes, \* 8, and 8
  IntegerTag,            \* 2
  MaxDepth,              \* 32
  WordBytes              \* 4: bytes of a number in a frame

\* What the sizes must be for the operators to make sense.
SizesFit ==
  /\ GroupBits \in Nat \ 0..2
  /\ {TagBits, TagBytes, LengthBytes, IntBytes, IntegerTag, MaxDepth, WordBytes} \subseteq Nat \ {0}

Group  == 2^GroupBits
Base   == 2 * Group
LowTag == 2^(GroupBits - 2)

Refused == [ok |-> FALSE]

Slice(input, offset, length) == SubSeq(input, offset + 1, offset + length)

\* A number written with its highest byte first.
BigEndian(bytes) == FoldLeft(LAMBDA value, byte : value * Base + byte, 0, bytes)

-----------------------------------------------------------------------------
(* DER *)

\* The tag that starts after offset when it does not fit the first byte.  The shift that
\* builds it drops bits beyond those of its type and does not fail.
ReadLongTag(input, offset) ==
  LET Ends(n) == /\ \A m \in 1..n - 1 : input[offset + m] >= Group
                 /\ input[offset + n] < Group
      lengths == {n \in 1..TagBytes : offset + n <= Len(input) /\ Ends(n)}
      n       == CHOOSE n \in lengths : TRUE
      tag     == FoldLeft(LAMBDA value, byte : (value * Group + (byte % Group)) % 2^TagBits, 0,
                          Slice(input, offset, n))
  IN  IF lengths = {} \/ input[offset + 1] % Group = 0 THEN Refused
      ELSE [ok |-> TRUE, value |-> tag, next |-> offset + n]

ReadTag(input) ==
  LET low == input[1] % LowTag
  IN  IF input = <<>> THEN Refused
      ELSE IF low = LowTag - 1 THEN ReadLongTag(input, 1)
      ELSE [ok |-> TRUE, value |-> low, next |-> 1]

\* A length that needs more than one byte, in as few as possible.
ReadLongLength(input, offset, count) ==
  LET bytes == Slice(input, offset, count)
  IN  IF /\ count \in 1..LengthBytes
         /\ offset + count <= Len(input)
         /\ bytes[1] # 0
         /\ BigEndian(bytes) >= Group
      THEN [ok |-> TRUE, value |-> BigEndian(bytes), next |-> offset + count]
      ELSE Refused

ReadLength(input, offset) ==
  LET first == input[offset + 1]
  IN  IF offset >= Len(input) THEN Refused
      ELSE IF first < Group THEN [ok |-> TRUE, value |-> first, next |-> offset + 1]
      ELSE ReadLongLength(input, offset + 1, first - Group)

RECURSIVE ParseOne(_, _), ParseAll(_, _)

\* The node at the start of the input, with those inside it.
ParseOne(input, depth) ==
  LET tag         == ReadTag(input)
      length      == ReadLength(input, tag.next)
      end         == length.next + length.value
      content     == Slice(input, length.next, length.value)
      constructed == (input[1] \div LowTag) % 2 = 1
      children    == IF constructed THEN ParseAll(content, depth + 1)
                     ELSE [ok |-> TRUE, nodes |-> <<>>]
  IN  IF depth <= MaxDepth /\ tag.ok /\ length.ok /\ end <= Len(input) /\ children.ok
      THEN [ok |-> TRUE, used |-> end,
            node |-> [class |-> input[1] \div (2 * LowTag), constructed |-> constructed,
                      tag |-> tag.value, content |-> content, children |-> children.nodes,
                      raw |-> SubSeq(input, 1, end)]]
      ELSE Refused

\* Nodes one after the other, to the end of the input.
ParseAll(input, depth) ==
  LET first == ParseOne(input, depth)
      rest  == ParseAll(SubSeq(input, first.used + 1, Len(input)), depth)
  IN  IF input = <<>> THEN [ok |-> TRUE, nodes |-> <<>>]
      ELSE IF first.ok /\ rest.ok THEN [ok |-> TRUE, nodes |-> <<first.node>> \o rest.nodes]
      ELSE Refused

ParseExact(input) ==
  LET first == ParseOne(input, 0)
  IN  IF first.ok /\ first.used = Len(input) THEN first ELSE Refused

RECURSIVE Descendants(_)
Descendants(node) ==
  <<node>> \o FlattenSeq([n \in DOMAIN node.children |-> Descendants(node.children[n])])

Minimal(content) == Len(content) > 1 => content[1] # 0 \/ content[2] >= Group

IntegerOf(node) ==
  LET content == node.content
  IN  IF /\ node.class = 0 /\ node.tag = IntegerTag /\ ~node.constructed
         /\ content # <<>>
         /\ content[1] < Group
         /\ Minimal(content)
         /\ Len(content) <= IntBytes \/ (Len(content) = IntBytes + 1 /\ content[1] = 0)
      THEN [ok |-> TRUE, value |-> BigEndian(content)]
      ELSE Refused

-----------------------------------------------------------------------------
(* Frames and padding *)

\* A number in a frame, its higher part lost if it is too large.
Word(value) == [n \in 1..WordBytes |-> (value \div Base^(WordBytes - n)) % Base]

WordAt(bytes, offset) == BigEndian(Slice(bytes, offset, WordBytes))

\* A frame: its length, a header, where each section starts and the last one ends, and
\* the sections, each behind its length and filled up to its footprint.
Frame(header, sections) ==
  LET Data(n)   == sections[n][1]
      Fill(n)   == sections[n][2] - Len(Data(n)) - WordBytes
      Section(n) == Word(Len(Data(n))) \o Data(n) \o [m \in 1..Fill(n) |-> 0]
      start[n \in 1..Len(sections) + 1] == IF n = 1 THEN 0 ELSE start[n - 1] + sections[n - 1][2]
      offsets   == FlattenSeq([n \in 1..Len(sections) + 1 |-> Word(start[n])])
      body      == FlattenSeq([n \in DOMAIN sections |-> Section(n)])
      size      == WordBytes + Len(header) + Len(offsets) + Len(body)
  IN  IF \E n \in DOMAIN sections : sections[n][2] < Len(Data(n)) + WordBytes THEN Refused
      ELSE [ok |-> TRUE, bytes |-> Word(size) \o header \o offsets \o body]

Unframe(bytes, header, count) ==
  LET base      == WordBytes + header + (count + 1) * WordBytes
      Offset(n) == WordAt(bytes, WordBytes + header + n * WordBytes)
      Start(n)  == base + Offset(n)
      Size(n)   == WordAt(bytes, Start(n))
      Fits(n)   == /\ Start(n) + WordBytes <= Len(bytes)
                   /\ Start(n + 1) <= Len(bytes)
                   /\ Start(n) + WordBytes + Size(n) <= Start(n + 1)
  IN  IF /\ Len(bytes) >= base
         /\ WordAt(bytes, 0) = Len(bytes)
         /\ Offset(0) = 0
         /\ Offset(count) = Len(bytes) - base
         /\ \A n \in 0..count - 1 : Fits(n)
      THEN [ok |-> TRUE, header |-> Slice(bytes, WordBytes, header),
            sections |-> [n \in 1..count |-> Slice(bytes, Start(n - 1) + WordBytes, Size(n - 1))]]
      ELSE Refused

\* The padding is one byte with its highest bit, and zeros to the end.
RemovePadding(bytes) ==
  LET marks == {n \in DOMAIN bytes : bytes[n] # 0}
      last  == CHOOSE n \in marks : \A m \in marks : m <= n
  IN  IF marks = {} \/ bytes[last] # Group THEN Refused
      ELSE [ok |-> TRUE, bytes |-> SubSeq(bytes, 1, last - 1)]

-----------------------------------------------------------------------------
(* Properties, over sets of inputs *)

\* A node keeps all of the bytes it was read from, at every depth: read again by themselves
\* they are the same node, and the nodes inside make up its content (der.rs:1).
TreesAreWhole(inputs) ==
  \A input \in inputs :
    LET read  == ParseExact(input)
        nodes == Descendants(read.node)
    IN  read.ok =>
          /\ read.node.raw = input
          /\ \A n \in DOMAIN nodes :
               /\ ParseExact(nodes[n].raw).ok
               /\ ParseExact(nodes[n].raw).node.content = nodes[n].content
               /\ nodes[n].constructed =>
                    nodes[n].content
                      = FlattenSeq([m \in DOMAIN nodes[n].children |-> nodes[n].children[m].raw])

\* "Strict": no node is written in two ways.  That is so of tags that their type can hold;
\* of longer ones the reader loses the highest bits, so that they are left out here.
Strict(inputs) ==
  \A one, two \in {input \in inputs : ParseExact(input).ok /\ Len(input) > 0} :
    LET first  == ParseExact(one).node
        second == ParseExact(two).node
        Holds(input) == ReadTag(input).next - 1 <= TagBits \div GroupBits
    IN  /\ Holds(one) /\ Holds(two)
        /\ first.class = second.class /\ first.constructed = second.constructed
        /\ first.tag = second.tag /\ first.content = second.content
        => one = two

\* Every number of IntBytes bytes has one INTEGER, and no other is read (der.rs:30).
IntegersAreUnique ==
  LET Node(content) == [class |-> 0, tag |-> IntegerTag, constructed |-> FALSE, content |-> content]
      contents == UNION {[1..n -> 0..Base - 1] : n \in 0..IntBytes + 1}
      read     == [c \in contents |-> IntegerOf(Node(c))]
      numbers  == {c \in contents : read[c].ok}
  IN  /\ {read[c].value : c \in numbers} = 0..Base^IntBytes - 1
      /\ \A c, d \in numbers : read[c].value = read[d].value => c = d

\* What is framed comes out again, unless it is too long for its own numbers: then it is
\* refused, and never cut short (escrow.rs:415, 441).
FramesSurvive(headers, frames) ==
  \A header \in headers, sections \in frames :
    LET framed == Frame(header, sections)
        read   == Unframe(framed.bytes, Len(header), Len(sections))
    IN  framed.ok =>
          IF Len(framed.bytes) < Base^WordBytes
          THEN /\ read.ok /\ read.header = header
               /\ read.sections = [n \in DOMAIN sections |-> sections[n][1]]
          ELSE ~read.ok

\* What is in front of the padding is what was padded, whatever it ends in (ckks.rs:178).
PaddingComesOff(inputs) ==
  \A input \in inputs, zeros \in 0..2 :
    RemovePadding(input \o <<Group>> \o [n \in 1..zeros |-> 0]) = [ok |-> TRUE, bytes |-> input]
=============================================================================
