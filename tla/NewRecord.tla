------------------------------ MODULE NewRecord ------------------------------
(***************************************************************************)
(* How write.rs makes a new bookmark or tab from the records it has: an    *)
(* existing record is the template for the shape of every field, a plan    *)
(* says for each name where the value comes from, and a bookmark goes      *)
(* behind the other children of its folder.                                *)
(*                                                                         *)
(* A field is its name, the type and whether it is encrypted, for which    *)
(* record (None, or a name, when that is part of what is authenticated),   *)
(* whether it can be opened, and a value, which may be short: four bytes   *)
(* at most.  Fresh stands for random bytes with the last four of the old.  *)
(***************************************************************************)
EXTENDS Integers, Sequences, FiniteSetsExt

CONSTANTS
  Old,    \* a value of the template's
  Fresh,  \* a random value
  None,   \* nothing
  Step,   \* 1000
  MaxSort \* 10^15: positions beyond are refused

Refused == [ok |-> FALSE]

-----------------------------------------------------------------------------
(* Plans *)

Encrypted(v)         == [do |-> "encrypt", type |-> None, value |-> v]
StringOrReference(v) == [do |-> "point", type |-> None, value |-> v]
Plain(t, v)          == [do |-> "plain", type |-> t, value |-> v]
FreshIdentityHash    == [do |-> "fresh", type |-> None, value |-> None]
Keep(t)              == [do |-> "keep", type |-> t, value |-> None]
Omit                 == [do |-> "omit", type |-> None, value |-> None]
Unknown              == [do |-> "refuse", type |-> None, value |-> None]

\* Fields that change together have one stamp of each kind.
Devices ==
  {"DateAdded_deviceIdentifier", "MinimumAPIVersion_deviceIdentifier",
   "ParentAndPosition_deviceIdentifier", "TitleURLAndIdentityHash_deviceIdentifier"}
Generations ==
  {"DateAdded_generation", "MinimumAPIVersion_generation",
   "ParentAndPosition_generation", "TitleURLAndIdentityHash_generation"}

\* The preview describes the template's page.
BookmarkOmitted ==
  {"PreviewText", "PreviewTextAndHasUserDefinedPreviewText_deviceIdentifier",
   "PreviewTextAndHasUserDefinedPreviewText_generation"}

BookmarkRequired ==
  {"Title", "URL", "DateAdded", "ParentFolder", "IdentityHash", "Position", "MinimumAPIVersion"}
    \cup Devices \cup Generations

\* A name that is not listed here is unknown, so that what it means cannot be copied.
BookmarkField(name, new) ==
  CASE name \in BookmarkOmitted              -> Omit
    [] name \in {"Title", "URL", "DateAdded"} -> Encrypted(new[name])
    [] name = "ParentFolder"                 -> StringOrReference(new.parent)
    [] name = "IdentityHash"                 -> FreshIdentityHash
    [] name = "Position"                     -> Plain("bytes", new.position)
    [] name = "MinimumAPIVersion"            -> Keep("int")
    [] name \in Devices                      -> Plain("string", new.device)
    [] name \in Generations                  -> Plain("int", "1")
    [] OTHER                                 -> Unknown

TabRequired == {"Title", "URL", "DateLastViewed", "OwningDevice"}

\* A tab has all the other fields of its template.
TabField(name, new) ==
  CASE name \in {"Title", "URL", "DateLastViewed"} -> Encrypted(new[name])
    [] name = "OwningDevice"                       -> StringOrReference(new.owner)
    [] OTHER                                       -> Keep(None)

\* The device that owns a new tab: the one asked for, or the first there is.
Owner(asked, devices) ==
  IF asked # None THEN asked ELSE IF devices = <<>> THEN None ELSE devices[1]

-----------------------------------------------------------------------------
(* The template *)

Fits(field, action) ==
  \/ action.do = "omit"
  \/ action.do = "encrypt" /\ field.enc
  \/ action.do = "point" /\ field.type \in {"string", "reference"}
  \/ action.do = "plain" /\ ~field.enc /\ field.type = action.type
  \/ action.do = "fresh" /\ (field.enc \/ (field.type = "bytes" /\ ~field.short))
  \/ action.do = "keep" /\ (action.type = None \/ (~field.enc /\ field.type = action.type))

Names(fields) == {fields[n].name : n \in DOMAIN fields}

TemplateFits(fields, required, plan) ==
  /\ \A n \in DOMAIN fields : Fits(fields[n], plan[fields[n].name])
  /\ \A n, m \in DOMAIN fields : n # m => fields[n].name # fields[m].name
  /\ required \subseteq Names(fields)

\* Pointing a reference elsewhere keeps the rest of it; anything else becomes a string.
Point(field, target) ==
  IF field.type = "reference" THEN [field EXCEPT !.value = target]
  ELSE [field EXCEPT !.type = "string", !.enc = FALSE, !.for = None, !.value = target]

\* What is encrypted is encrypted again, for the new record if it was for the old one.
Seal(field, value, record) ==
  [field EXCEPT !.value = value, !.for = IF field.for = None THEN None ELSE record]

\* All but the last four bytes are replaced, of a short value none.
Random(field) == IF field.short THEN field.value ELSE Fresh

NewValue(field, action, record) ==
  CASE action.do = "point"                       -> Point(field, action.value)
    [] action.do = "plain"                       -> [field EXCEPT !.value = action.value]
    [] action.do = "fresh" /\ ~field.enc         -> [field EXCEPT !.value = Random(field)]
    [] action.do = "fresh" /\ field.enc          -> Seal(field, Random(field), record)
    [] action.do = "encrypt"                     -> Seal(field, action.value, record)
    [] action.do = "keep" /\ field.enc           -> Seal(field, field.value, record)
    [] OTHER                                     -> field

\* Encrypted fields are opened before they are replaced, even where the old value is
\* not needed: that tells how they are authenticated.
Opened(field, action) == action.do \notin {"point", "omit"} /\ field.enc => field.opens

\* What is left of a template, in its order.
Kept(template, plan) ==
  LET kept[n \in 0..Len(template)] ==
        IF n = 0 THEN <<>>
        ELSE IF plan[template[n].name].do = "omit" THEN kept[n - 1]
        ELSE Append(kept[n - 1], template[n])
  IN  kept[Len(template)]

PrepareCreate(templates, required, plan, record) ==
  LET fitting  == {n \in DOMAIN templates : TemplateFits(templates[n], required, plan)}
      template == templates[Min(fitting)]
      kept     == Kept(template, plan)
  IN  IF fitting = {} \/ \E n \in DOMAIN kept : ~Opened(kept[n], plan[kept[n].name])
      THEN Refused
      ELSE [ok |-> TRUE, template |-> template,
            fields |-> [n \in DOMAIN kept |-> NewValue(kept[n], plan[kept[n].name], record)]]

-----------------------------------------------------------------------------
(* The place of a bookmark *)

\* A record that may be in the folder: its parent and its position, each as far as it is
\* in plain sight; a position is "absent", "unreadable", or has sort values, in halves.
\* Values are rounded up.
Ceiling(halves) == (halves + 1) \div 2

Readable(record) ==
  \/ record.position = "absent"
  \/ record.position = "read" /\ \A v \in record.values : v \in -2 * MaxSort..2 * MaxSort

\* Every copy of every child counts; without any, the first place is taken.
NextSortValue(records, parent) ==
  LET children == {r \in records : r.parent = parent}
      values   == {Ceiling(v) : v \in UNION {r.values : r \in children}}
  IN  IF \E r \in children : ~Readable(r) THEN Refused
      ELSE [ok |-> TRUE, value |-> (IF values = {} THEN 0 ELSE Max(values)) + Step]

-----------------------------------------------------------------------------
(* Properties, over sets of inputs *)

Inherited(field) ==
  \/ field.name = "MinimumAPIVersion"
  \/ field.name = "IdentityHash" /\ field.enc /\ field.short

\* A new bookmark says nothing of the one that served as its template: it has each field
\* of a bookmark once and no other, and of the old values only MinimumAPIVersion and an
\* encrypted IdentityHash too short to be replaced, and every field is authenticated for
\* the new record (write.rs:878).
BookmarkIsNew(templates, new, record) ==
  \A one, two \in templates :
    LET plan    == [name \in Names(one) \cup Names(two) |-> BookmarkField(name, new)]
        created == PrepareCreate(<<one, two>>, BookmarkRequired, plan, record)
    IN  created.ok =>
          /\ Names(created.fields) = BookmarkRequired
          /\ Len(created.fields) = Cardinality(BookmarkRequired)
          /\ \A n \in DOMAIN created.fields :
               LET field == created.fields[n]
               IN  /\ field.value = Old => Inherited(field)
                   /\ field.for \in {None, record}
                   /\ field.name \in {"Title", "URL", "DateAdded"} =>
                        field.enc /\ field.value = new[field.name]

\* A new tab keeps what it does not replace, and no field stays authenticated for the
\* template (write.rs:356).
TabKeepsTheRest(templates, new, record) ==
  \A one \in templates :
    LET plan    == [name \in Names(one) |-> TabField(name, new)]
        created == PrepareCreate(<<one>>, TabRequired, plan, record)
    IN  created.ok =>
          /\ Names(created.fields) = Names(one)
          /\ \A n \in DOMAIN created.fields :
               LET field == created.fields[n]
               IN  /\ field.for \in {None, record}
                   /\ field.value = Old <=> field.name \notin TabRequired

\* A new bookmark is behind every child of its folder whose position is in plain sight, by
\* more than rounding can take away (write.rs:970).
GoesLast(recordSets, parent) ==
  \A records \in recordSets :
    LET next == NextSortValue(records, parent)
    IN  next.ok =>
          \A r \in records :
            r.parent = parent => \A v \in r.values : 2 * next.value > v + 1
=============================================================================
