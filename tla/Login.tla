-------------------------------- MODULE Login -------------------------------
(***************************************************************************)
(* Sign-in: `login` of bin/icloud-safari.rs with the account client of     *)
(* account.rs, `device init`, and the other commands as far as they read   *)
(* and rewrite live/session.json.                                          *)
(*                                                                         *)
(* A login reads both files, asks the Anisette provider which device it    *)
(* stands for, prompts for a password and maybe a code, and in the end     *)
(* replaces device.json and then session.json.  The commands take turns by *)
(* the lock on the state directory, and may be cut short anywhere.         *)
(*                                                                         *)
(* A name that is typed stands for the account that Apple knows under it.  *)
(* The serial number of a device, which is not compared, is left out, and  *)
(* so are the account settings, which every refresh replaces.              *)
(***************************************************************************)
EXTENDS Naturals

CONSTANTS
  Command,   \* runs of the program at one time
  Account,
  Provided,  \* device identities that an Anisette provider announces
  Generated, \* device identities that a command makes up
  None,
  Number     \* bound: names for the tokens that are in use at one time

Device   == Provided \cup Generated
Provider == Provided \cup {None} \* None: a provider that announces no identity

\* The token that a session is refreshed with, and the account it was issued to.
Token == [no : Number, to : Account]

ASSUME NoneAssumption == None \notin Device \cup Account \cup Token

VARIABLES
  deviceFile,  \* live/device.json
  sessionFile, \* live/session.json
  made,        \* device identities made up so far
  trusted,     \* server: the accounts and devices that need no second factor
  valid,       \* server: tokens that are still accepted
  pc, run,     \* of each command: where it is, and what it was asked to do
  device,      \* the device it runs as
  previous,    \* the session it has read, or has written itself
  factor,      \* the second factor whose code it waits for
  session      \* the session to be written

files  == <<deviceFile, sessionFile>>
server == <<trusted, valid>>
locals == <<pc, run, device, previous, factor, session>>
vars == <<files, made, server, locals>>

\* account, service, octagon and user: whose name, further tokens, enrollment and user
\* identifiers it holds; on: history, the device of the login that made it.
Session == [account : Account, on : Device, auth : Token, service : Account \cup {None},
            octagon : Account \cup {None}, user : Account \cup {None}]

\* What a command was asked to do.
LoginRun == [kind : {"login"}, account : Account, provider : Provider]
Run      == LoginRun \cup [kind : {"init", "refresh", "keychain", "enroll"}]

ASSUME RunAssumption == None \notin Session \cup Run

Labels ==
  {"idle", "load", "persist", "password", "authenticate", "trigger", "code", "verified",
   "mobileme", "preserve", "refresh", "write device", "write session",
   "live", "save", "initialize", "enroll"}

TypeOK ==
  /\ deviceFile \in Device \cup {None}
  /\ sessionFile \in Session \cup {None}
  /\ made \subseteq Generated
  /\ trusted \subseteq Account \X Device
  /\ valid \subseteq Token
  /\ pc \in [Command -> Labels]
  /\ run \in [Command -> Run \cup {None}]
  /\ device \in [Command -> Device \cup {None}]
  /\ previous \in [Command -> Session \cup {None}]
  /\ factor \in [Command -> {"none", "trustedDevice", "sms"}]
  /\ session \in [Command -> Session \cup {None}]

Init ==
  /\ deviceFile = None
  /\ sessionFile = None
  /\ made = {}
  /\ trusted = {}
  /\ valid = {}
  /\ pc = [c \in Command |-> "idle"]
  /\ run = [c \in Command |-> None]
  /\ device = [c \in Command |-> None]
  /\ previous = [c \in Command |-> None]
  /\ factor = [c \in Command |-> "none"]
  /\ session = [c \in Command |-> None]

-----------------------------------------------------------------------------
(* Commands *)

Goto(c, label) == pc' = [pc EXCEPT ![c] = label]

\* Mutant: commands do not wait for one another.
NoLock == TRUE

LockFree == \A c \in Command : pc[c] = "idle"

Begin(c, r) ==
  /\ pc[c] = "idle"
  /\ LockFree
  /\ Goto(c, "load")
  /\ run' = [run EXCEPT ![c] = r]
  /\ UNCHANGED <<files, made, server, device, previous, factor, session>>

\* The end of a command, in whatever way; its lock goes with it.
Exit(c) ==
  /\ Goto(c, "idle")
  /\ run' = [run EXCEPT ![c] = None]
  /\ device' = [device EXCEPT ![c] = None]
  /\ previous' = [previous EXCEPT ![c] = None]
  /\ factor' = [factor EXCEPT ![c] = "none"]
  /\ session' = [session EXCEPT ![c] = None]

Stop(c) ==
  /\ pc[c] # "idle"
  /\ Exit(c)
  /\ UNCHANGED <<files, made, server>>

\* device init: an identity is made up, unless there is one.
DeviceInit(c) ==
  /\ pc[c] = "load"
  /\ run[c].kind = "init"
  /\ deviceFile = None
  /\ \E d \in Generated \ made :
       /\ deviceFile' = d
       /\ made' = made \cup {d}
  /\ Exit(c)
  /\ UNCHANGED <<sessionFile, server>>

-----------------------------------------------------------------------------
(* login *)

\* Mutant: the identity on file is not asked for.
ReconciledAfresh(provider, prior) ==
  IF provider # None THEN {provider} ELSE Generated \ made

\* The provider's identity goes before the one on file, and that before a new one.
Reconciled(provider, prior) ==
  IF provider # None THEN {provider}
  ELSE IF prior # None THEN {prior} ELSE Generated \ made

\* A session stays on its device.
SameDevice(d) == sessionFile # None => d = deviceFile

Load(c) ==
  /\ pc[c] = "load"
  /\ run[c].kind = "login"
  /\ sessionFile # None => deviceFile # None
  /\ \E d \in Reconciled(run[c].provider, deviceFile) :
       /\ SameDevice(d)
       /\ device' = [device EXCEPT ![c] = d]
       /\ made' = made \cup ({d} \cap Generated)
  /\ previous' = [previous EXCEPT ![c] = sessionFile]
  /\ run' = [run EXCEPT ![c].provider = None] \* not asked again
  /\ Goto(c, IF deviceFile = None THEN "persist" ELSE "password")
  /\ UNCHANGED <<files, server, factor, session>>

\* Before any prompt, so that a login that is cancelled is resumed as this device.
Persist(c) ==
  /\ pc[c] = "persist"
  /\ deviceFile' = device[c]
  /\ Goto(c, "password")
  /\ UNCHANGED <<sessionFile, made, server, run, device, previous, factor, session>>

\* From a prompt or a file.
Password(c) ==
  /\ pc[c] = "password"
  /\ Goto(c, "authenticate")
  /\ UNCHANGED <<files, made, server, run, device, previous, factor, session>>

Trusted(c) == <<run[c].account, device[c]>> \in trusted

\* The server asks for a second factor from a device it does not trust, and then
\* withholds the token that the next request needs.  --sms overrules its choice.
Authenticate(c) ==
  /\ pc[c] = "authenticate"
  /\ IF Trusted(c) THEN Goto(c, "mobileme") /\ UNCHANGED factor
     ELSE /\ Goto(c, "trigger")
          /\ \E f \in {"trustedDevice", "sms"} : factor' = [factor EXCEPT ![c] = f]
  /\ UNCHANGED <<files, made, server, run, device, previous, session>>

Trigger(c) ==
  /\ pc[c] = "trigger"
  /\ Goto(c, "code")
  /\ UNCHANGED <<files, made, server, run, device, previous, factor, session>>

\* "sms" at the prompt for the code of a trusted device.  Whatever else is not a
\* code is asked for again.
SwitchToSms(c) ==
  /\ pc[c] = "code"
  /\ factor[c] = "trustedDevice"
  /\ factor' = [factor EXCEPT ![c] = "sms"]
  /\ UNCHANGED <<files, made, server, pc, run, device, previous, session>>

SubmitCode(c) ==
  /\ pc[c] = "code"
  /\ trusted' = trusted \cup {<<run[c].account, device[c]>>}
  /\ Goto(c, "verified")
  /\ factor' = [factor EXCEPT ![c] = "none"]
  /\ UNCHANGED <<files, made, valid, run, device, previous, session>>

\* Asked once more, the server must now be content.
AuthenticateAgain(c) ==
  /\ pc[c] = "verified"
  /\ Trusted(c)
  /\ Goto(c, "mobileme")
  /\ UNCHANGED <<files, made, server, run, device, previous, factor, session>>

\* The sessions that there are, on file and in memory, and their tokens.
Sessions == ({sessionFile} \cup {session[c] : c \in Command}
                           \cup {previous[c] : c \in Command}) \ {None}

Held == {s.auth : s \in Sessions}

\* A token that no session holds is forgotten: its number is free for a new one.
Free == Number \ {t.no : t \in Held}

NewToken(account) == [no |-> CHOOSE n \in Free : TRUE, to |-> account]

Issue(account) ==
  /\ Free # {}
  /\ valid' = (valid \cap Held) \cup {NewToken(account)}

\* The answer always holds the account's own token, and others perhaps.
LoginMobileMe(c) ==
  /\ pc[c] = "mobileme"
  /\ Issue(run[c].account)
  /\ \E service \in {None, run[c].account} :
       session' = [session EXCEPT ![c] =
         [account |-> run[c].account, on |-> device[c], auth |-> NewToken(run[c].account),
          service |-> service, octagon |-> None, user |-> None]]
  /\ Goto(c, "preserve")
  /\ UNCHANGED <<files, made, trusted, run, device, previous, factor>>

\* Mutant: the directory may have been another account's.
AnyAccount(new, old) == TRUE

SameAccount(new, old) == new.account = old.account

\* Mutant: a new login begins without the enrollment.
PreservedUser(new, old) == [new EXCEPT !.user = old.user]

\* Enrollment and user identifiers of the old session, but no token of it.
Preserved(new, old) == [new EXCEPT !.octagon = old.octagon, !.user = old.user]

Preserve(c) ==
  /\ pc[c] = "preserve"
  /\ IF previous[c] = None THEN UNCHANGED session
     ELSE /\ SameAccount(session[c], previous[c])
          /\ session' = [session EXCEPT ![c] = Preserved(@, previous[c])]
  /\ Goto(c, "refresh")
  /\ UNCHANGED <<files, made, server, run, device, previous, factor>>

Renewed(s, keys) ==
  [s EXCEPT !.auth = IF "auth" \in keys THEN NewToken(s.account) ELSE @,
            !.service = IF "service" \in keys THEN s.account ELSE @]

\* The service accepts the token of the session, and may answer with new ones.
Refreshed(c) ==
  /\ session[c].auth \in valid
  /\ \/ UNCHANGED <<session, valid>>
     \/ /\ Issue(session[c].account)
        /\ \E keys \in {{"auth"}, {"service"}, {"auth", "service"}} :
             session' = [session EXCEPT ![c] = Renewed(@, keys)]

RefreshLogin(c) ==
  /\ pc[c] = "refresh"
  /\ Refreshed(c)
  /\ Goto(c, "write device")
  /\ UNCHANGED <<files, made, trusted, run, device, previous, factor>>

\* Mutant: device.json has been written before the prompts.
KeepDevice(c) == deviceFile

DeviceToSave(c) == device[c]

WriteDevice(c) ==
  /\ pc[c] = "write device"
  /\ deviceFile' = DeviceToSave(c)
  /\ Goto(c, "write session")
  /\ UNCHANGED <<sessionFile, made, server, run, device, previous, factor, session>>

WriteSession(c) ==
  /\ pc[c] = "write session"
  /\ sessionFile' = session[c]
  /\ Exit(c)
  /\ UNCHANGED <<deviceFile, made, server>>

-----------------------------------------------------------------------------
(* The other online commands *)

\* live_context: both files, a refresh, and the session is written back.
LoadLive(c) ==
  /\ pc[c] = "load"
  /\ run[c].kind \in {"refresh", "keychain", "enroll"}
  /\ sessionFile # None
  /\ deviceFile # None
  /\ session' = [session EXCEPT ![c] = sessionFile]
  /\ previous' = [previous EXCEPT ![c] = sessionFile]
  /\ Goto(c, "live")
  /\ UNCHANGED <<files, made, server, run, device, factor>>

RefreshLive(c) ==
  /\ pc[c] = "live"
  /\ Refreshed(c)
  /\ Goto(c, "save")
  /\ UNCHANGED <<files, made, trusted, run, device, previous, factor>>

\* A command that needs the user identifiers gets them, and writes the session again.
Save(c) ==
  /\ pc[c] = "save"
  /\ sessionFile' = session[c]
  /\ \/ /\ \/ run[c].kind = "refresh"
           \/ run[c].kind = "keychain" /\ session[c].user # None
        /\ Exit(c)
     \/ /\ run[c].kind # "refresh"
        /\ \/ session[c].user = None /\ Goto(c, "initialize")
           \/ run[c].kind = "enroll" /\ session[c].user # None /\ Goto(c, "enroll")
        /\ previous' = [previous EXCEPT ![c] = session[c]]
        /\ UNCHANGED <<run, device, factor, session>>
  /\ UNCHANGED <<deviceFile, made, server>>

\* The service names the account's user identifier for a container.
Initialize(c) ==
  /\ pc[c] = "initialize"
  /\ session' = [session EXCEPT ![c].user = session[c].account]
  /\ Goto(c, "save")
  /\ UNCHANGED <<files, made, server, run, device, previous, factor>>

\* octagon enroll binds the session to its peer.
Enroll(c) ==
  /\ pc[c] = "enroll"
  /\ sessionFile' = [session[c] EXCEPT !.octagon = session[c].account]
  /\ Exit(c)
  /\ UNCHANGED <<deviceFile, made, server>>

\* The service ends a token, or its trust in a device.
Expire ==
  \/ /\ \E t \in valid \cap Held : valid' = valid \ {t}
     /\ UNCHANGED <<files, made, trusted, locals>>
  \/ /\ \E pair \in trusted : trusted' = trusted \ {pair}
     /\ UNCHANGED <<files, made, valid, locals>>

-----------------------------------------------------------------------------

Step(c) ==
  \/ DeviceInit(c)
  \/ Load(c) \/ Persist(c) \/ Password(c) \/ Authenticate(c) \/ Trigger(c) \/ SwitchToSms(c)
  \/ SubmitCode(c) \/ AuthenticateAgain(c) \/ LoginMobileMe(c) \/ Preserve(c)
  \/ RefreshLogin(c) \/ WriteDevice(c) \/ WriteSession(c)
  \/ LoadLive(c) \/ RefreshLive(c) \/ Save(c) \/ Initialize(c) \/ Enroll(c)

Next ==
  \/ \E c \in Command : Step(c) \/ Stop(c) \/ \E r \in Run : Begin(c, r)
  \/ Expire

Spec == Init /\ [][Next]_vars

\* The user logs in again and again, with each account and provider in turn; a
\* command that can go on does, and one that cannot ends.  No two are under way at once.
Fairness ==
  /\ \A r \in LoginRun : SF_vars(\E c \in Command : Begin(c, r))
  /\ WF_vars(\E c \in Command : Step(c))
  /\ WF_vars(\E c \in Command : ~ENABLED Step(c) /\ Stop(c))

FairSpec == Spec /\ Fairness

-----------------------------------------------------------------------------
(* Properties *)

\* The session on file is of one account: its tokens, its enrollment and its user
\* identifiers, although they come from different logins (account.rs:455-484).
OneAccount ==
  sessionFile # None =>
    /\ sessionFile.auth.to = sessionFile.account
    /\ {sessionFile.service, sessionFile.octagon, sessionFile.user} \subseteq {sessionFile.account, None}

\* A session stays with the device that logged in: device.json is that device's,
\* between the writes of the two files and however the command ends
\* (bin/icloud-safari.rs:736-744, 804).
SessionOnItsDevice == sessionFile # None => deviceFile = sessionFile.on

\* Once there is a device.json, it changes only before the first login is complete,
\* and then to what the provider announces: a cancelled first login is resumed as the
\* same device (bin/icloud-safari.rs:745).
DeviceKept ==
  [][deviceFile # None /\ deviceFile' # deviceFile =>
       sessionFile = None /\ deviceFile' \in Provided]_vars

\* No command, a new login least of all, takes the enrollment or a user identifier out
\* of the session, or puts it under another account (account.rs:65, 466-481).
EnrollmentKept ==
  [][sessionFile # None =>
       /\ sessionFile' # None
       /\ sessionFile'.account = sessionFile.account
       /\ sessionFile.octagon # None => sessionFile'.octagon = sessionFile.octagon
       /\ sessionFile.user # None => sessionFile'.user = sessionFile.user]_vars

\* A login replaces the account's token on file: it brings no earlier one back
\* (account.rs:464).
TokenReplaced ==
  [][\A c \in Command :
       WriteSession(c) /\ sessionFile # None => sessionFile'.auth # sessionFile.auth]_vars

\* Two commands at once: each replaces the session that it has read, and never one that
\* another has written meanwhile, which might hold newer tokens or an enrollment
\* (bin/icloud-safari.rs:1233).
NoneUndone ==
  [][sessionFile' # sessionFile => \E c \in Command : pc[c] # "idle" /\ previous[c] = sessionFile]_vars

SignedIn == sessionFile # None /\ sessionFile.auth \in valid

\* From some time on, no login is cut short or refused by a service in trouble, and
\* Apple ends neither tokens nor its trust in the device.
Calm ==
  <>[][/\ ~Expire
       /\ \A c \in Command : Stop(c) /\ pc[c] \notin {"save", "enroll"} => ~ENABLED Step(c)]_vars

\* Whatever was cancelled, refused, cut short or expired before, a user who keeps
\* trying gets a session whose token is accepted (bin/icloud-safari.rs:745).
EventuallySignedIn == Calm => []<>SignedIn
=============================================================================
