# icloud-safari: formal models

TLA+ models of icloud-safari, a command-line client that signs in to an Apple
Account, joins its Octagon trust circle with the passcode of another device, and
reads and (experimentally) changes Safari's CloudKit records and passwords. The
models are checked with TLC on small instances, and the theorems in the `*Proofs`
modules are checked with TLAPS for every value of the constants.

    tlc -workers 2 -config MCEnrollment.cfg MCEnrollment
    tlapm EnrollmentProofs.tla

## The system

The program is a set of commands. Each runs to its end in one process and keeps
nothing but files in a state directory. What makes it hard is everything around
the commands: other invocations, crashes between two writes, answers that get
lost, a rate-limited passcode service, other devices that change the same circle,
the same records and the same keychain.

| Component | State it keeps | Operations | Correct when |
| --- | --- | --- | --- |
| State store (`state.rs`) | the state directory, its lock, its files | `try_lock`, `ensure`, `write_bytes`, `read_json` | one writer at a time; a file is always one whole value, and the last one reported survives a power failure |
| Enrollment command (`bin/icloud-safari.rs` `enroll`, `status`) | `live/session.json`, `enrollment/{attempt,recovery,pending}.json`, `attempt-history/` | recover a bottle, keep it, prepare, save, refresh, join, reconcile | no passcode attempt without a licence, no second peer, nothing joins that was not saved, a saved draft can be brought to its end |
| Directory paging (`enrollment.rs` `fetch_directory`) | none | a request per page, merged into one directory | what it returns is the circle of one moment |
| Trust computation (`enrollment.rs` `current_trust`) | none: a function of the directory | fold statements by clock; prepare, refresh and validate a draft upon it | only members have a say; a join adds the new peer and nothing else |
| Escrow exchange (`enrollment/escrow.rs`) | none | SRP, frames, decryption of the bottle | one request, one counted attempt |
| Sign-in (`account.rs`, `login_credentials`, `live_context`) | `live/device.json`, `live/session.json` | SRP login, second factor, token refresh | one device for ever, enrollment kept, no other account, nothing undone by another command |
| Anisette provider (`anisette.rs`) | `anisette/` | download, extract, load | never a half-installed provider |
| CloudKit records (`cloudkit.rs`, `write.rs`) | `safari-cloudkit/<dataset>.json`, plan files | paged fetch; prepare and apply an update, delete, create | no other device's write is lost; nothing is confirmed that did not happen; no partial snapshot; a new record says nothing of its template |
| Passwords (`keychain.rs`) | none | list, create, update, delete, with zone keys fetched first | as above, and sealed under a key that is current |
| Key recovery (`ckks.rs`, `pcs.rs`, `keychain.rs`) | `pcs-identities/` | fixpoints over key references; identities saved one file at a time | all reachable keys, in any order, and no others |
| Offline reader (`fixture.rs`) | none | open, tell apart and resolve saved fields | nothing unauthenticated is shown; it ends |
| Codecs (`wire.rs`, `der.rs`, frames, padding) | none | read, write, replace | lossless, or one form for each value |
| Cryptography (`auth.rs`, `crypto.rs`) | none | SRP; ciphers | both sides agree |

The components meet in the state directory and in the servers. Every command
that writes state holds the lock for its whole run (`run`, 315-328), reads the
session, talks to the servers and writes the session back (`live_context`,
`enrollment_client`). `enroll` uses the trust computation three times: to prepare
a draft, to refresh it, and inside `join`. `keys recover` and every password
command begin with the same recovery of class keys. `status` reads without the
lock.

What is hard here is listed, line by line, under `hazards` in `PROJECT.json`, with
the properties that would catch each one going wrong.

## Modules

| Module | Models | Extends / composes |
| --- | --- | --- |
| `EnrollmentAbs` | what an enrollment promises, with no files, commands or messages | |
| `Enrollment` | `enroll`, `status`, the session rewrite of the other commands, the circle and the escrow service | implements `EnrollmentAbs` |
| `AtomicFile` | one durable, atomic file | |
| `StateStore` | `state.rs`, one system call per step | implements `AtomicFile` |
| `TrustCircle` | `current_trust`, `voucher_admits`, the drafts built on them | |
| `DirectoryPaging` | `fetch_directory`, `apply_directory_page` | premise of the two above |
| `Login` | `login`, `device init`, the read, refresh and rewrite of the session | |
| `AnisetteSetup` | download and extraction of the provider's libraries | |
| `RecordSync` | `Client::fetch`, plans, `apply_prepared_*`, `send_mutation` | |
| `Passwords` | `passwords list, create, update, delete` | |
| `ClassKeys` | `keys recover`: CKKS keys, items, saved identities | |
| `KeyGraph` | `KeyGraph::recover`, `decrypt_field`, `create_record_protection` | |
| `NewRecord` | the fields of a new bookmark or tab, its place in a folder | pure |
| `WireCodec` | the protobuf reader and writer | pure |
| `StrictFormats` | the DER reader, escrow frames, CKKS padding | pure |
| `Srp` | the arithmetic of both password exchanges | pure |
| `EscrowExchange` | `record_model`, `command`, `recover`, `recover_entropy` of `escrow.rs`: one passcode attempt | pure, the numbers of `Srp` |
| `OfflineReader` | `decrypt_dataset`, `decode_plaintext`, `resolve_archive` | pure |
| `*Proofs` | theorems of `Enrollment`, `StateStore`, `RecordSync`, `TrustCircle`, `KeyGraph`, `ClassKeys`, `Login`, `Passwords` | the module, TLAPS |
| | those of `DirectoryPaging` are in `TrustCircleProofs`, of `AnisetteSetup` in `StateStoreProofs`, of `EscrowExchange` in `LoginProofs`, of `NewRecord` and `WireCodec` in `RecordSyncProofs` | an INSTANCE of it |
| `MC*` | instances for TLC, and assumptions about the pure modules | |

A definition under a comment that begins with "Mutant:" is a plausible mistake in
the definition that follows it; no specification uses it.

### Enrollment

Files are variables named after them (`octagon` is `extra.octagon` of the
session), and each command has a program counter, its options, its copy of the
session and its draft. One action is one file write, one request or one answer,
so a crash (`Interrupt`, also an error return or a cancelled prompt) falls between
any two of them. `Refuse` is an early return that the code's own checks force,
told apart from `Interrupt` because liveness depends on it. A join request may be
served after its command has gone (`Admit`), or never (`Drop`). `LockFree` is
`try_lock`, justified by `StateStore`; that a file write is one step is justified
by `AtomicFile`. `trust.epoch` stands for everything `validate_current_trust`
compares; what that comparison is worth is the subject of `TrustCircle`, and that
the directory is read in one step is justified by `DirectoryPaging`.

### StateStore

A command walks down to the root, making directories and flushing each one's
entry (`MakeDirectory`, `SyncParent`), opens and locks `.state.lock`, and writes
a file by way of a temporary one. `onDisk` is the set of files the name may stand
for after a power failure; syncing the directory makes it a single one.
Directory entries and contents reach the disk at any time, and at the latest when
they are synced. `Fail` is a command that is cut short at any call: because the call
fails, or because the process is killed. Its temporary file may stay in either case,
since `Drop` ignores the result of `remove_file` (state.rs:158); such files are in
`left`. `TempName` is the name for the next one, which `create_new` requires to be
unused. `EventuallySaved` says that none of this keeps a later command from saving.

### TrustCircle and DirectoryPaging

`CurrentTrust` is the loop of `current_trust` as a fold over the set of peers ahead
of the sponsor, which takes the latest statement last: by clock and, for ties, by
identifier, as the stable sort of a sorted map does. The other devices are the environment: they join by voucher and
write statements, one of them upon a directory it read some time ago, so that
clocks tie and statements contradict each other. `Linger` lists a peer of an
earlier circle with any clock. A recovered bottle may be one of those:
`prepare_enrollment_from_sponsor` asks only that the sponsor is listed and trusts
itself (enrollment.rs:234), so `Prepare` asks no more. The new peer then counts as one
of the `strangers`, since no member of this circle has let it in. Signatures are taken to verify; stable clocks and
policy identifiers, which are compared the same way, are left out.

In `DirectoryPaging` the service numbers the changes to the circle, those that are
not about peers too, and answers a token with some of what lies behind it: each
peer once, as it stands then. A page may be short, empty, unsigned, or carry a
wrong token. Peers write between any two pages. The code stops only at a page
without entries, and refuses tokens that do not advance. Two assumptions about the
service are in `Sent`, as the command cannot check them: a page without entries means
that nothing lies behind the token it was asked with, and the token of a page is not
beyond what the pages so far have held. The checks of the code, `HasEntries`,
`Verified` and `Advances`, have no part in that.

### Login

Both files are variables. A command has the device it runs as, the session it has
read, the second factor it waits for and the session it is to write. Each prompt,
request and file write is an action, and `Stop` may end a command before any of
them. The server knows which account each answer with tokens went to and which
tokens it still takes; `Expire` ends a token or the trust in a device. Tokens are
numbered by `Number`, and one that no session holds any more is forgotten, so that its
number can be issued again and the service never runs out. `previous` is the session
that a command has read or written itself. A provider
announces an identity or none (`Provider`). The other online commands are there as
far as they read, refresh and rewrite the session (`LoadLive` to `Enroll`).

### AnisetteSetup

A library has a temporary file, a name and perhaps a flushed name; the APK a
version. `PowerFails` loses names that were not flushed and tears contents that
were not synced. `Kill` leaves temporary files, whose names are never used again.

### RecordSync and NewRecord

A record is its change tag and the plan whose ciphertext it holds, which is what
the code compares: ciphertexts are randomised. `Client::fetch` is a loop of pages;
a change to a name moves it behind the cursor, and a page may come with a wrong
status or token. A plan holds the exact record it was prepared from. `Matches` is
the condition of the request (`FailIfOutdated`, `FailIfExists`, the etag), checked
by the server when it carries the request out. `Acknowledge` is an answer that
says yes without the change. `Fail` is any early return or crash after a command
began. One command runs at a time, because each of them holds the lock.

`NewRecord` has what `RecordSync` leaves out of a creation: how a template is
chosen, what becomes of each of its fields, and for which record each encrypted
field is authenticated.

### Passwords

An item is its tag, its attributes, its password and the class key it is sealed
under; a class key is wrapped under a TLK, and a pointer names the current one.
A command asks for the shares of its identities one by one, passes by those that do
not unwrap, and goes on with any TLKs it has (`FetchKeys`: some of them, at least
one). It then fetches the zone page by
page (`Continue`, `Complete`) and only then composes its request, so that the three may
be of different moments. `fetch_zones` keeps every copy of an item that changes
while it runs: `gotItems` is a set of copies for each item, the attributes of an
update come from the first copy and the etag and ciphertext from the record that
`Source` finds. Requests are in `requests` until the server serves or loses them
(`Serve`, `Lose`), perhaps after the command has gone. `during` is the history
that the properties refer to: the values each item has had since the fetch began.
The fields an item is authenticated with besides are left out. A reader counts the
PCS fields among them (ckks.rs:122), `encrypt_item` does not (keychain.rs:708-718), and
an update leaves them in the record; the items of the model are those without PCS
fields, which is what website passwords are.

### ClassKeys and KeyGraph

Both are fixpoints over records in the order in which they came. In `ClassKeys`,
TLK shares are opened with the saved identities one by one, class keys in rounds
until a round unwraps none, then items; the PCS identities among them are written
one file after another, and the command may be cut short between any two and run
again against other contents (`Later`). In `KeyGraph` an object wraps a master key
for some identities, shows a public identity and may hold one inside, which must be the
same (`Consistent`); hints may collide, wrappings be broken, contents unsound. A new
record is for the first public identity that is known, opened or not. `Reachable` and `Recoverable` are least fixpoints
defined without any order: the smallest closed sets.

### Pure modules

These have no state. Their properties are operators over sets of inputs, and the
MC modules state them as assumptions, which TLC evaluates before a run. They are
parameterised by the widths of the numbers, so that the limits are within reach of
a few short strings.

| Module | Assumptions | Over |
| --- | --- | --- |
| `WireCodec` | `WireNumbers`, `WireLossless`, `WireReplaces`, `WireSets`, `WireStreams` (`MCRecordSync`), all five proved | 4-bit groups, 6-bit words, strings of up to 4 bytes that start fields of every wire type, overlong numbers included |
| `NewRecord` | `NewBookmarks`, `NewTabs`, `NewPlaces` (`MCRecordSync`), all three proved | two templates of Safari's shape, each with a field added, removed or replaced by any of 56 odd ones; folders of up to 3 records |
| `StrictFormats` | `TreesOfNodes`, `OneFormForNodes`, `OneFormForNumber`, `FramesRoundTrip`, `PaddingRoundTrip` (`MCKeyGraph`) | bytes of 4 bits: all strings of up to 3 or 4 bytes, and long tags and lengths |
| `OfflineReader` | `ArchivesResolve`, `FieldsAreShown` (`MCKeyGraph`) | all archives of 3 objects out of 33, with circles and references to nothing, depth 4; all datasets of 2 fields |
| `Srp` | `SignInAgrees`, `PasscodeAgrees` (`MCLogin`) | the group of the numbers below 11, all secrets and hashes up to 7 |
| `EscrowExchange` | `RefusalsAreSeen`, `OwnerRecovers`, `ReplaysRefused`, `OneRecord` (`MCLogin`) | answers with every combination of codes; the same group with secrets up to 3, the right and a wrong passcode, both kinds of account, three layouts of the reply; all lists of up to 3 records |

Four things the code does that the properties take into account. A DER tag in the
long form may have six bytes (der.rs:84), 42 bits for a `u32`; `checked_shl` does
not fail when bits are shifted out, so the highest ones are lost and two encodings
are read as one tag. "tag overflow" (der.rs:79) is returned only for a seventh
byte. `OneFormForNodes` is therefore stated for tags that fit. `next_sort_value`
passes by children whose position is absent or encrypted, so that `NewPlaces`
speaks of those in plain sight. And a tab keeps all fields of its template that it
does not replace (write.rs:354), which is what `NewTabs` says. And `fresh_identity_hash`
(write.rs:1277) makes all but the last four bytes of an `IdentityHash` anew, while only
a hash in plain sight must be longer than that (write.rs:945): an encrypted one of at
most four bytes is copied as it is. `NewBookmarks` therefore allows a bookmark to have
two things of its template, `MinimumAPIVersion` and such a hash (`Inherited`).

## What the runs check

| Run | Instance | Shows |
| --- | --- | --- |
| `enrollment` | 2 commands, 2 bottles, 2 peers, 2 changes of trust, 1 retry; 640,800 states | no attempt without licence and record, no second identity, no outdated join, and `ImplementsAbs` |
| `enrollment_live` | 1 command; 7,201 states | `EventuallyJoined` |
| `state_store` | 2 commands, root one directory deep, file two; 1 write and one more for each of 2 commands cut short and 1 power failure; 418,456 states | mutual exclusion, atomicity, durability, `ImplementsAtomicFile`, and a save succeeds in the end |
| `state_store_nested` | 1 command, found after a few hundred states | `NestedSaveSurvives` is violated (see Findings) |
| `trust_circle` | 3 devices, clocks up to 3, 2 peers of an earlier circle; 422,343 states | who has a say, and what a join changes |
| `directory_paging` | 2 peers, 4 pages, 5 changes; 65,946 states | the directory returned is the circle of one moment |
| `record_sync` | 2 records, 4 changes, 2 plans, 3 pages; 798,365 states | no lost update, no false confirmation, no partial snapshot |
| `passwords` | 1 item, 2 class keys, 2 TLKs, 2 passwords, 3 pages, 5 changes, 2 commands; 3,906,519 states | the same for passwords, and the key they are sealed under |
| `key_graph` | every response of 3 plain objects over 3 identities, or 2 with colliding hints or flaws; 974,985 states | all that is reachable is found, in any order; errors have a cause; it ends |
| `class_keys` | 3 class key records in any order, 2 items, 2 runs; 525,399 states | success is complete, files are authentic |
| `login` | 2 commands, 2 accounts, a provider's device and one made up, 2 tokens in use at a time; 419,146 states | one account, one device, enrollment kept, nothing undone, the user gets in |
| `anisette_setup` | 2 libraries, 2 versions; 293 states | libraries are whole, and get there |

The bounds are named in the modules (`MaxEpoch`, `MaxRetries`, `MaxWrites`,
`MaxFailures`, `MaxClock`, `MaxStrangers`, `MaxPages`, `MaxChanges`, `MaxPlans`,
`MaxCommands`, `MaxFaults`, `Number`, `MaxRuns`, `Responses`, `Holdings`, `Later`, `Count`).
They are enough for the cases that matter: a second command against the first one
at every step, a retry after a retry, an epoch that passes between checking and
sending and another before reconciling; a power failure between any two system
calls of either writer; an excluded device whose last statement is later than the
one that excludes it (that needs clock 3); a change before, during and after a
fetch, with a plan that is applied twice; a key rotated between the fetch of the
TLKs and the page with the item, and a foreign write between that page and the
late service of a request; two keys that wait for a third which comes last; a
login that ends between its two files and another one after it. One item is enough for `Passwords`, since
no command reads or writes more than one except `list`, which treats each by
itself. The proofs lift the bounds for all modules that have a specification.

The properties, and the code they are about, are stated in the comments above
them. The main ones:

- `AttemptsAuthorised`, `AttemptsRecorded`, `AttemptsOnMarkedBottle`: the passcode
  service counts attempts whether or not the answer arrives. `attempt.json` is
  written first, and only `--retry-escrow-recovery` passes it by.
- `SessionMatchesPending`, `JoinCarriesTrust`, `StatusConsistent`: the one
  identity, in two files, through crashes; what leaves is at least as new as the
  command; the unlocked reader.
- `OneGuard`, `ReadsLatest`, `SavedSurvives`; `EventuallySaved`: directories, a lock
  file and temporary files that were left behind are in nobody's way.
- `StrangersHaveNoSay`, `ExcludedHaveNoSay`: compare `current_trust` with what it
  is when the entries in question are taken out of the directory. `JoinAddsOnlyMe`
  evaluates it on the directory as it will be. `TrustIsWhatCounts` is a definition
  without an order of evaluation.
- `DirectoryIsSnapshot`: many pages, one moment.
- `NoLostUpdate`, `AppliedOnce`, `UpdateConfirmed`, `DeleteConfirmed`,
  `SnapshotFaithful`; `WriteConfirmed`, `ListFaithful`, `UpdateKeepsAttributes`,
  `SealedUnderCurrentKey` for passwords.
- `RecoversReachable`, `ErrorHasCause`; `DoneIsComplete`,
  `FilesAreAuthentic`.
- `OneAccount`, `SessionOnItsDevice`, `EnrollmentKept`: a session is put together
  from different logins. `NoneUndone`: a command replaces the session that it has read
  or written itself, never one that another has written meanwhile; this is what the lock
  is for. `EventuallySignedIn`: the session on file has a token that is accepted, again
  and again, which takes every step of a login from the first prompt to `WriteSession`.
- `LibrariesAreWhole`: what is under a name is never looked at again, so it must be
  whole whenever it is there.

### Fairness

`EventuallyJoined`: a command that has begun goes on (weak fairness of `Command`):
it is a process with timeouts on its requests. A join request that is neither lost
nor refused is served. The user goes on running the command, with and without
`--refresh-trust` (strong fairness of `Enroll`), which the README of the program
asks of them ("Repeat the same command to resume"). The trust circle changes at
most `MaxEpoch` times. `EventuallySaved`: a command goes on until it waits for the
lock (weak fairness of `Command`); of the commands that get the lock, not all end
without writing (strong fairness of `StartWrite`), and at most `MaxFaults` are cut
short. `EventuallySignedIn`: likewise, the user logs in again with
each account and provider in turn (strong fairness of `Begin`), a command that can
go on does, and one that cannot ends. `EventuallyLoaded`: the command goes on, and
the download succeeds again and again when it is tried again and again.
`Terminates`: the recovery is one process that waits for nothing. Nothing is
assumed of errors, crashes, lost requests and expiring tokens: the properties have
their end as a premise (`Calm` in `Login`, `[][Trouble => ...]` in
`AnisetteSetup`).

`CHECK_DEADLOCK FALSE` is said of three runs. In `trust_circle`, when every clock
has reached its bound and nothing is left to join, the circle is at rest; a
recovery in `key_graph` has an end; and in `class_keys` no run is left.

## What is proved

All for any sets of commands, records, keys, devices, peers and any bounds. The
assumptions are those the modules name: `None` is not an element of the other
sets, the bounds are naturals, the root is not deeper than the file, and the
responses and holdings are made of objects, keys and items, and the devices of a
circle are finitely many, numbered, and the new peer is none of them. Numbers of the
password exchanges are any naturals.

`EnrollmentProofs` proves every safety property of the run `enrollment`, the
action properties and the refinement of `EnrollmentAbs`. The inductive invariant
adds to the stated properties what the program counter implies: who holds the lock
is the one command that is not idle; what the session copy and the draft of a
command have to do with the files at each label; and that a command at `recover`
has written its marker and has a licence that is not spent. Without them, for
instance, `AttemptsAuthorised` says nothing of a command that has planned an
attempt and not yet made it.

`StateStoreProofs` proves the same for `StateStore`. Its invariant says that every file in `onDisk` is whole and synced, that its values
lie between `acked` and `writes`, and that a temporary file is whole and synced
from the label that says so. A power failure then picks among good files only.

`RecordSyncProofs` proves every property of the run `record_sync`. Its invariant
adds four things. What a command has before it at each label (`Phase`). Whose
ciphertext a record holds, that plan was carried out (`Provenance`). A plan that
was carried out meets another record than its source, because every change has a
new tag, and a creation is past its request (`Spent`): that is why it cannot be
carried out again. And what a fetch has covered (`Covered`): a name that its pages
have not shown either changes behind the cursor or was absent at some time.
`Covered` survives a page because no two changes have the same number
(`Timeline`), so that nothing else pending can be as old as the change shown.

`PasswordsProofs` proves every property of the run `passwords`. Besides `Timeline`,
`Phase` and `Covered`, its invariant says where the collected copies come from
(`Got`: each was on the server during the fetch, and one as new as the item is the
item), and what is left of the truth in a request under way (`Asked`): as long as
the record that it was composed from is there, the request has its attributes. That
is what makes `UpdateKeepsAttributes` hold although the first copy of an item and
its etag may be of different moments: the condition on the etag fails whenever the
attributes could be old.

`LoginProofs` proves the safety properties of the run `login`. Its invariant has the
turns that commands take (`Turns`), and for each label what the session in memory
shares with the one on file (`MemoryInv`): a session is composed of parts that each
were checked against the account at another time, and the invariant carries the
comparisons along.

`KeyGraphProofs` and `ClassKeysProofs` prove the fixpoints. The least fixpoint is
the intersection of the closed sets, so `OnlyReachable` (no closed set misses an
opened object) is inductive; the other direction holds because a round that opened
nothing has passed every object (`PassedByRound`), which makes what is complete a
closed set. `Reachable` needs no induction over data, and neither do the proofs.

`TrustCircleProofs` proves all four properties of the run `trust_circle`. What
`current_trust` returns is a fold, so they need induction over the set of peers
that are folded. The library's induction theorems take an operator, which cannot be
given here, but `WFMin` does not: among the sets for which a claim fails, there is a
smallest one (`SmallestSet`), and without its latest statement the claim holds of it
(`FoldInduction`). By that induction:

- exclusions only grow, and nobody is both included and excluded (`FoldSound`), so
  the statement of an excluded peer never counts, and leaving out what never counts
  changes nothing (`Ignored`): `ExcludedHaveNoSay`;
- if members include only members, what is included stays within the circle
  (`StrangersIgnored`): `StrangersHaveNoSay`. That members do so is the inductive
  invariant (`Apart`), which must hold of drafts and old readings of the directory
  as well (`PlansApart`), for they are written later; a draft may include others only if
  its sponsor is of an earlier circle, and then it has no say either (`Stray`);
- after the statements up to any point, the fold is `Combined` of those that count
  (`FoldCombines`), whichever way it is decided which those are: `TrustIsWhatCounts`,
  which also says that some set of peers satisfies the rule (`SomeCount`);
- a statement with a clock later than the result's cannot have counted
  (`LaterIgnored`). A draft's clock is one more than that of the trust it was made
  of, so whatever is folded after it was ignored before, and still is: the draft adds
  only a peer whom no statement names as its sponsor (`LaterCountsNot`). The fold
  with the draft is therefore the old one up to the draft and constant from there on:
  `JoinAddsOnlyMe`.

The same module proves `DirectoryIsSnapshot` of `DirectoryPaging` from
`CompleteToToken`: between pages the directory has every statement up to its token,
given what `Sent` assumes of the service.
`StateStoreProofs` proves `LibrariesAreWhole` of `AnisetteSetup`: only what was
extracted whole and synced gets the name of a library, so a power failure has
nothing to tear. Both are instances with the assumptions of the instantiated module
as hypotheses of the theorems.

Proved and not listed in a run, since they are consequences or parts of the
invariants: the type invariants (`TypeOK`), `SavedBeforeSent`, `JoinedWasAdmitted`,
`PendingMonotone`, `NothingTorn`, `CompleteToToken`, `StatementsAreSigned`,
`NewRecordsOpen`, `ReadsItsFields`, `KeysAreRecoverable`, `TokenReplaced`,
`DeviceKept`.

`LoginProofs` has the password exchanges as well. `SignInAgrees` and
`PasscodeAgrees` say of every modulus greater than one, every generator and all
natural secrets that client and server compute the same key: the client raises
`B - k * g^x` to `a + u * x`, the server `A * v^u` to `b`. `Power` is a recursive
function, so that laws of exponents need an induction: it exists (`PowersExist`:
the relation that follows its definition is a function on every initial segment),
and a law that failed would fail for a least exponent (`PowerOfSum`,
`PowerOfPower`). That the subtraction does not go below zero, and gives `g^b`
again, is `BaseIs`. Nothing is assumed of the modulus being prime. From there
`OwnerRecovers` and `ReplaysAreRefused` follow each layout of the reply
(`ReplyRecovers`). The latter is about any two exchanges, each with numbers of its own,
since `u` depends on both public numbers (escrow.rs:486-492) and changes with them: a
reply to another exchange is refused unless that one had the same salt and the same
public numbers on both sides. `RecordIsUnique` is there too, for any lists of records.

`RecordSyncProofs` has what goes into the requests. `GoesLast` speaks of any finite
folder; the largest of a finite set exists by the same argument as a smallest one.
`BookmarkIsNew` and `TabKeepsTheRest` speak of any records that may serve as
templates, with any fields: what is assumed of a field is that it is authenticated
for no record if it is in plain sight, that references are, and that nothing asked
for is the template's own value. The loop over the template is a recursive function;
`KeptIs` says what it leaves, and `BookmarkIsNew` that this is `Inherited`.

There, too, is the wire format: what `wire.rs` promises of every string of bytes, for
any sizes of groups, words and messages that fit together (`SizesFit`, which TLC
evaluates for its instance, and which 7, 64, 29 bits and 64 MiB satisfy). The
argument has four parts.

- A rule from each round of a loop to the next makes a function (`Recursion`, and
  `Loop` for a bounded one), so that the recursive functions of `WireCodec` are what
  they say and a claim about a round can be carried on to the next (`NatAll`).
- A number is read back as it was written (`NumberRead`): what the reader adds up from
  the first groups is what the writer has taken off (`NumbersSurvive`). The last group
  of the longest number is at most `Top`, which is why the sum is a word (`ReadIsWord`).
- What is read of a field depends on its own bytes only, wherever they stand
  (`FieldSame`). So a message that is accepted is a sequence of fields whose bytes,
  one behind the other, are the message (`Parsed`): `Lossless`. And fields that are
  written one behind the other are read as themselves (`ParsedBack`).
- Fields that the writer makes are read as what they were made of (`UintField`,
  `BytesField`); with `ParsedBack`, a message of which one field was replaced is read
  as that message (`ReplacesOne`, `SetsOne`). A length in front of a message ends it
  where it ended (`FrameNext`): `StreamsSplit`.

Model-checked only:

- liveness (`EventuallyJoined`, `EventuallySaved`, `EventuallySignedIn`, `EventuallyLoaded`,
  `Terminates`), which needs ENABLED and is out of the prover's reach;
- `StrictFormats` and `OfflineReader`, whose trees are RECURSIVE operators; and
  `RefusalsAreSeen`, whose inputs are all there are.

The `TypeOK` of `AnisetteSetup` is documentation; its `SetupInv` has what the proof
needs of it.

## Findings

`check_directories` says (state.rs:199) "Flush each new directory's entry in its
parent before going deeper, so a nested initial save survives a system crash". It
flushes only a directory that the same call has made. A command that ends between
`builder.create` (198) and `sync_directory` (201), because that call fails or
because the process is killed, leaves a directory whose entry is not on disk. The
next command finds it and passes it by, `write_bytes` reports success, and a power
failure can remove the directory with the file in it. Run `state_store_nested`
finds this; with the directories on disk, `SavedSurvives` holds and is proved.

## Not modelled

- Ciphers, signatures and key derivation (`crypto.rs`, `decrypt_spd` of `auth.rs`,
  `cbc256` of `escrow.rs`): arithmetic that TLC cannot reach; who can open what is modelled.
- The address and the headers of the escrow service, and the wording of its refusals
  (`escrow.rs` 82-185, 296-317).
- File permissions, symbolic links and path syntax (`state.rs`).
- The protocol of the Anisette provider itself, which is another library.
- The projection of records to exported values (`model.rs`, `fixture.rs`
  420-480), the hashes of saved files, prompts, arguments and messages.
- Stable clocks and policy identifiers of the trust circle.

## Plan

What is left, in this order:

1. `Login` and `Enrollment` composed, with an account whose circle is reset.
2. `Strict` and `IntegersAreUnique` as theorems, by the lemmas on numbers that
   `RecordSyncProofs` has for the wire format.
