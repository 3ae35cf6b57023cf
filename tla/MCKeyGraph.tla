---------------------------- MODULE MCKeyGraph ------------------------------
(* KeyGraph over every response with few objects and identities, for TLC, and   *)
(* the formats that its objects come in, over small sets of inputs.             *)
EXTENDS KeyGraph

CONSTANTS a, b, c, \* identities; a is held
          k, l,    \* master keys, which may share their hint
          h, i,    \* hints
          Count    \* bound: objects of a response

People == {a, b, c}

\* Objects without flaws, with one master key; with two; and with flaws.
Recipients == {s \in [1..1 -> People] \cup [1..2 -> People] : Len(s) = 2 => s[1] # s[2]}
Plain(kinds) ==
  {[recipients |-> r, broken |-> {}, child |-> p, public |-> p, hint |-> kind[1],
    master |-> kind[2], sound |-> TRUE] : r \in Recipients, p \in People \cup {None}, kind \in kinds}
Flawed ==
  {[recipients |-> r, broken |-> x, child |-> p, public |-> q, hint |-> h, master |-> k,
    sound |-> y] :
     r \in Recipients, p \in {b, None}, q \in {b, c}, x \in {{}, {a}, {b}}, y \in BOOLEAN}

Lists(objects) == [1..Count -> objects]
AllResponses ==
  [objects : Lists(Plain({<<h, k>>})), held : {{a}}]
    \cup [objects : {s \in [1..2 -> Plain({<<h, k>>, <<h, l>>, <<i, l>>})] : TRUE}, held : {{a}, {a, b}}]
    \cup [objects : {s \in [1..2 -> Plain({<<h, k>>}) \cup Flawed] : TRUE}, held : {{a}, {a, b}}]

-----------------------------------------------------------------------------
(* Strict formats: bytes of four bits, of which the first of a node has one for its tag; *)
(* every string of up to three bytes, and longer ones with nested nodes, long tags and   *)
(* long lengths.                                                                         *)

Formats == INSTANCE StrictFormats WITH GroupBits <- 3, TagBits <- 6, TagBytes <- 3,
                                       LengthBytes <- 2, IntBytes <- 2, IntegerTag <- 1,
                                       MaxDepth <- 2, WordBytes <- 1

Strings(n) == UNION {[1..m -> 0..15] : m \in 0..n}
LongForms ==
  {header \o [n \in 1..m |-> byte] :
     header \in {<<0, 9, 8>>, <<0, 9, 7>>, <<2, 9, 8>>, <<2, 10, 0, 8>>, <<0, 9, 9>>, <<0, 8>>,
                 <<0, 11, 8>>, <<0, 10, 0, 8>>},
     m \in 7..9, byte \in {0, 2}}
Nodes == {input \in Strings(3) \cup [1..4 -> {0, 1, 2, 3, 8, 9}] \cup [1..5 -> {0, 3, 9}] \cup LongForms :
            Formats!ParseExact(input).ok}

ASSUME TreesOfNodes     == Formats!SizesFit /\ Formats!TreesAreWhole(Strings(4) \cup LongForms)
ASSUME OneFormForNodes  == Formats!Strict(Nodes)
ASSUME OneFormForNumber == Formats!IntegersAreUnique
ASSUME FramesRoundTrip ==
  Formats!FramesSurvive({<<>>, <<3>>},
                        UNION {[1..n -> {<<>>, <<5>>, <<0, 8>>} \X {0, 1, 2, 3, 5}] : n \in 0..3})
ASSUME PaddingRoundTrip == Formats!PaddingComesOff(Strings(2))

-----------------------------------------------------------------------------
(* Archives of up to three objects, with circles, shared objects and references to       *)
(* nothing, and datasets of two fields.                                                  *)

Reader == INSTANCE OfflineReader WITH MaxDepth <- 4

Leaf   == [kind |-> "leaf"]
Ref(n) == [kind |-> "reference", at |-> n]
Time   == [kind : {"real"}, inRange : BOOLEAN]
Arrays == [kind : {"array"}, items : {<<>>, <<Leaf, Ref(3)>>} \cup {<<Ref(n)>> : n \in 1..4}]
Dictionaries ==
  [kind : {"dictionary"},
   items : UNION {[names -> {Leaf, Ref(1), Ref(3)}] :
                    names \in {{"NS.string", "NS.objects"}, {"$class", "name"}, {"NS.data"}}}
             \cup [{"NS.time", "NS.objects"} -> Time \cup {Leaf, Ref(2)}]]
Archives ==
  [root : {Ref(1)},
   objects : [1..3 -> {Leaf} \cup {Ref(n) : n \in 1..4} \cup Arrays \cup Dictionaries]]

Fields ==
  [hinted : BOOLEAN, authentic : BOOLEAN, broken : BOOLEAN, looksLike : SUBSET {"bplist", "utf-8"}]

ASSUME ArchivesResolve == Reader!ResolvesTrees(Archives)
ASSUME FieldsAreShown  == Reader!ShowsTheAuthentic([1..2 -> Fields])
=============================================================================
