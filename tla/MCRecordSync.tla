---------------------------- MODULE MCRecordSync ----------------------------
(* RecordSync with few records, for TLC, and what goes into its requests: the   *)
(* wire format and the making of new records, over small sets of inputs.        *)
EXTENDS RecordSync, Integers, Sequences, TLC

LOCAL Lists == INSTANCE SequencesExt

\* Records are interchangeable.
Symmetry == Permutations(Name)

-----------------------------------------------------------------------------
(* The wire format: groups of four bits, words of six, so that a number has at most two *)
(* groups and the second one may be too large; short messages over telling bytes.       *)

Wire == INSTANCE WireCodec WITH Group <- 16, Groups <- 2, Top <- 3, Types <- 8, MaxNumber <- 3,
                                Eight <- 2, Four <- 1, MaxMessage <- 8

\* Keys of every wire type, of fields 1, 2 and 3, and of none; overlong numbers.
Telling    == {0, 1, 2, 8, 9, 10, 13, 17, 18, 24, 26}
Strings(n) == UNION {[1..m -> Telling] : m \in 0..n}

ASSUME WireNumbers  == Wire!SizesFit /\ Wire!NumbersSurvive(Strings(3) \cup [1..2 -> 0..31])
ASSUME WireLossless == Wire!Lossless(Strings(4))
ASSUME WireReplaces == Wire!ReplacesOne(Strings(4), {1, 2}, {<<>>, <<8>>})
ASSUME WireSets     == Wire!SetsOne(Strings(3), {1, 2})
ASSUME WireStreams  == Wire!StreamsSplit(Strings(3))

-----------------------------------------------------------------------------
(* New records: a template as Safari writes it, and that with a field added, taken out or *)
(* replaced by an odd one.                                                                *)

New == INSTANCE NewRecord WITH Old <- "old", Fresh <- "fresh", None <- "none",
                               Step <- 10, MaxSort <- 20

PlainField(name, type)        == [name |-> name, type |-> type, enc |-> FALSE, for |-> "none",
                                  opens |-> TRUE, short |-> FALSE, value |-> "old"]
SealedField(name, for, opens) == [name |-> name, type |-> "bytes", enc |-> TRUE, for |-> for,
                                  opens |-> opens, short |-> FALSE, value |-> "old"]
Short(field)                  == [field EXCEPT !.short = TRUE]

SafariBookmark ==
  <<SealedField("Title", "old", TRUE), SealedField("URL", "none", TRUE),
    SealedField("DateAdded", "old", TRUE), PlainField("ParentFolder", "reference"),
    PlainField("IdentityHash", "bytes"), PlainField("Position", "bytes"),
    PlainField("MinimumAPIVersion", "int")>>
  \o Lists!SetToSeq({PlainField(name, "string") : name \in New!Devices})
  \o Lists!SetToSeq({PlainField(name, "int") : name \in New!Generations})

SafariTab ==
  <<SealedField("Title", "old", TRUE), SealedField("URL", "none", TRUE),
    SealedField("DateLastViewed", "old", TRUE), PlainField("OwningDevice", "string")>>

OddNames == {"Title", "IdentityHash", "ParentFolder", "Position", "PreviewText",
             "MinimumAPIVersion", "Folder"}
OddFields ==
  {PlainField(name, type) : name \in OddNames, type \in {"bytes", "string", "reference", "int"}}
    \cup {SealedField(name, for, opens) : name \in OddNames, for \in {"none", "old"}, opens \in BOOLEAN}
    \cup {Short(PlainField("IdentityHash", "bytes")), Short(SealedField("IdentityHash", "old", TRUE))}

Like(template) ==
  {template}
    \cup {Append(template, field) : field \in OddFields}
    \cup {Lists!RemoveAt(template, n) : n \in DOMAIN template}
    \cup {[template EXCEPT ![n] = [field EXCEPT !.name = template[n].name]] :
            n \in DOMAIN template, field \in OddFields}

Values == [Title |-> "title", URL |-> "url", DateAdded |-> "today", DateLastViewed |-> "now",
           parent |-> "folder", position |-> "last", device |-> "this", owner |-> "that"]

\* What may be in a folder: values on both sides of zero, at half a step, and out of range.
Placed ==
  [parent : {"folder", "other"}, position : {"absent", "unreadable"}, values : {{}}]
    \cup [parent : {"folder", "other"}, position : {"read"}, values : SUBSET {-41, -3, 7, 40}]

ASSUME NewBookmarks == New!BookmarkIsNew(Like(SafariBookmark), Values, "new")
ASSUME NewTabs      == New!TabKeepsTheRest(Like(SafariTab), Values, "new")
ASSUME NewPlaces    == New!GoesLast({{r, s, t} : r, s, t \in Placed}, "folder")
=============================================================================
