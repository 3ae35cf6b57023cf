---------------------------- MODULE OfflineReader ----------------------------
(***************************************************************************)
(* How fixture.rs reads saved responses: a field of bytes is opened with   *)
(* the recovered keys, told apart by its first bytes, and, if it is an     *)
(* archive, resolved by following its references.                          *)
(*                                                                         *)
(* A property list value is a leaf, a reference to an object of the        *)
(* archive, an array, or a dictionary.  What the archive says is what was  *)
(* on some device: references may be circular or lead nowhere.             *)
(***************************************************************************)
EXTENDS Naturals, Sequences

LOCAL INSTANCE Functions

CONSTANT MaxDepth \* 64

Unresolved == [kind |-> "unresolved"]

-----------------------------------------------------------------------------
(* Archives *)

\* A dictionary that stands for one of its entries: the first of these that it has.  What
\* is under NS.time must be a number, and is a date if it is in range; it is not resolved.
Wrappers == <<"NS.string", "NS.data", "NS.time", "NS.objects">>

Stands(entries) ==
  {n \in DOMAIN Wrappers : /\ Wrappers[n] \in DOMAIN entries
                           /\ Wrappers[n] = "NS.time" => entries["NS.time"].kind = "real"}

Wrapped(entries) == Wrappers[CHOOSE n \in Stands(entries) : \A m \in Stands(entries) : n <= m]

IsTime(entries) == Stands(entries) # {} /\ Wrapped(entries) = "NS.time"

RECURSIVE ResolveValue(_, _, _)
ResolveValue(value, objects, depth) ==
  LET Resolved(inner) == ResolveValue(inner, objects, depth + 1)
      Gather(values) ==
        LET all == [n \in DOMAIN values |-> Resolved(values[n])]
        IN  IF \E n \in DOMAIN all : all[n] = Unresolved THEN Unresolved
            ELSE [kind |-> value.kind, items |-> all]
      Entries(items) ==
        IF Stands(items) = {} THEN Gather(Restrict(items, DOMAIN items \ {"$class"}))
        ELSE IF IsTime(items) THEN IF items["NS.time"].inRange THEN [kind |-> "string"] ELSE Unresolved
        ELSE Resolved(items[Wrapped(items)])
  IN  IF depth > MaxDepth THEN Unresolved
      ELSE CASE value.kind = "reference" ->
                  IF value.at \in DOMAIN objects THEN Resolved(objects[value.at]) ELSE Unresolved
             [] value.kind = "dictionary" -> Entries(value.items)
             [] value.kind = "array"      -> Gather(value.items)
             [] OTHER                     -> value

\* What cannot be resolved is shown as it is.
SemanticPlist(archive) ==
  LET resolved == ResolveValue(archive.root, archive.objects, 0)
  IN  IF resolved = Unresolved THEN [kind |-> "archive"] ELSE resolved

-----------------------------------------------------------------------------
(* Fields *)

\* What the first bytes of a plaintext may look like, in the order in which it is tried.
\* The last one fits always, and the last two cannot be broken.
Forms   == <<"zlib-bplist", "bplist", "ckdp-string", "ckdp-date", "utf-8", "bytes">>
Fragile == {"zlib-bplist", "bplist", "ckdp-string", "ckdp-date"}

DecodePlaintext(field) ==
  LET fits == {n \in DOMAIN Forms : Forms[n] \in field.looksLike \cup {"bytes"}}
      form == Forms[CHOOSE n \in fits : \A m \in fits : n <= m]
  IN  IF form \in Fragile /\ field.broken THEN "fails" ELSE form

\* A field that is not of bytes, or has no key hint that fits, is shown as it is.
Decrypted(field) ==
  IF ~field.hinted THEN "as it is"
  ELSE IF ~field.authentic THEN "fails"
  ELSE DecodePlaintext(field)

\* One field that fails makes the whole dataset fail.
DecryptDataset(fields) ==
  LET values == [n \in DOMAIN fields |-> Decrypted(fields[n])]
  IN  IF "fails" \in Range(values) THEN [ok |-> FALSE] ELSE [ok |-> TRUE, values |-> values]

-----------------------------------------------------------------------------
(* Properties, over sets of inputs *)

\* Values that are looked at while a value is resolved.
Parts(value, objects) ==
  CASE value.kind = "reference"  -> IF value.at \in DOMAIN objects THEN {objects[value.at]} ELSE {}
    [] value.kind = "array"      -> Range(value.items)
    [] value.kind = "dictionary" ->
         IF IsTime(value.items) THEN {}
         ELSE IF Stands(value.items) # {} THEN {value.items[Wrapped(value.items)]}
         ELSE {value.items[key] : key \in DOMAIN value.items \ {"$class"}}
    [] OTHER                     -> {}

\* Values at some distance from the root.
Layer(archive) ==
  LET layer[d \in 0..MaxDepth + 1] ==
        IF d = 0 THEN {archive.root}
        ELSE UNION {Parts(value, archive.objects) : value \in layer[d - 1]}
  IN  layer

\* A value that leads nowhere.
Dangles(value, objects) ==
  \/ value.kind = "reference" /\ value.at \notin DOMAIN objects
  \/ value.kind = "dictionary" /\ IsTime(value.items) /\ ~value.items["NS.time"].inRange

\* An archive is resolved if and only if no path through it is longer than the limit or
\* leads nowhere; a circular one is therefore given up, never followed for ever, and what
\* is resolved has no references left (fixture.rs:377).
ResolvesTrees(archives) ==
  \A archive \in archives :
    LET layer == Layer(archive)
    IN  /\ SemanticPlist(archive).kind = "archive" <=>
             \/ layer[MaxDepth + 1] # {}
             \/ \E d \in 0..MaxDepth : \E value \in layer[d] : Dangles(value, archive.objects)
        /\ SemanticPlist(archive).kind # "reference"

\* Nothing that did not authenticate is shown, in whatever company, and nothing that did is
\* left as ciphertext (fixture.rs:219).
ShowsTheAuthentic(datasets) ==
  \A fields \in datasets :
    LET read == DecryptDataset(fields)
    IN  read.ok => \A n \in DOMAIN fields :
                     /\ fields[n].hinted => fields[n].authentic
                     /\ read.values[n] = "as it is" <=> ~fields[n].hinted
=============================================================================
