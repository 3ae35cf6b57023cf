----------------------------- MODULE LoginProofs ----------------------------
(***************************************************************************)
(* Proofs about Login, for any number of commands that take turns, any     *)
(* accounts, devices and tokens; and about the numbers    *)
(* that the password exchanges of Srp and EscrowExchange rest on, for      *)
(* every group and every secret.                                           *)
(***************************************************************************)
EXTENDS Login, SequenceTheorems, WellFoundedInduction, TLAPS

-----------------------------------------------------------------------------
(* The inductive invariant *)

\* The lock: commands take turns.
Turns == \A b, c \in Command : pc[b] # "idle" /\ pc[c] # "idle" => b = c

Composed == {"preserve", "refresh", "write device", "write session"}
Preparing == {"password", "authenticate", "trigger", "code", "verified", "mobileme"}
LoggingIn == {"persist"} \cup Preparing \cup Composed
Live == {"live", "save", "initialize", "enroll"}

\* Every part of a session is of its account.
Whole(s) ==
  /\ s.auth.to = s.account
  /\ s.service \in {s.account, None}
  /\ s.octagon \in {s.account, None}
  /\ s.user \in {s.account, None}

\* A session may take the place of the one on file.
Succeeds(s, file) ==
  file # None =>
    /\ s.account = file.account
    /\ s.on = file.on
    /\ s.octagon = file.octagon
    /\ file.user # None => s.user = file.user

FilesInv ==
  sessionFile # None =>
    /\ Whole(sessionFile)
    /\ deviceFile = sessionFile.on

\* What the command under way has in memory, at each point.
MemoryInv(c) ==
  /\ pc[c] # "idle" => run[c] \in Run
  /\ pc[c] \in LoggingIn =>
       /\ run[c] \in LoginRun
       /\ device[c] \in Device
       /\ sessionFile # None => device[c] = deviceFile
  /\ pc[c] \in LoggingIn \cup Live => previous[c] = sessionFile
  /\ pc[c] = "persist" => deviceFile = None
  /\ pc[c] \in Preparing \cup Composed =>
       /\ deviceFile # None
       /\ device[c] = deviceFile \/ device[c] \in Provided
  /\ pc[c] \in Composed \cup Live => session[c] \in Session /\ Whole(session[c])
  /\ pc[c] \in Composed => session[c].on = device[c]
  /\ pc[c] = "preserve" => session[c].octagon = None /\ session[c].user = None
  /\ pc[c] \in Composed /\ sessionFile # None => session[c].auth # sessionFile.auth
  /\ pc[c] \in (Composed \ {"preserve"}) \cup Live => Succeeds(session[c], sessionFile)
  /\ pc[c] = "write session" => deviceFile = device[c]
  /\ pc[c] \in Live => sessionFile # None /\ run[c].kind \in {"refresh", "keychain", "enroll"}

IInv ==
  /\ TypeOK
  /\ Turns
  /\ FilesInv
  /\ \A c \in Command : MemoryInv(c)

-----------------------------------------------------------------------------
(* Sessions *)

LEMMA NoneIsNoRecord == None \notin Session /\ None \notin Run
  BY RunAssumption

LEMMA NoneIsNoName == None \notin Device /\ None \notin Account
  BY NoneAssumption

LEMMA SessionFields ==
  ASSUME NEW s \in Session
  PROVE  /\ s.account \in Account /\ s.on \in Device
         /\ s.auth \in Token /\ s.service \in Account \cup {None}
         /\ s.octagon \in Account \cup {None} /\ s.user \in Account \cup {None}
  BY DEF Session

LEMMA RunFields ==
  ASSUME NEW r \in Run, r.kind = "login"
  PROVE  r \in LoginRun /\ r.account \in Account /\ r.provider \in Provider
  BY DEF Run, LoginRun

LEMMA PreservedFields ==
  ASSUME NEW s \in Session, NEW t \in Session
  PROVE  /\ Preserved(s, t) \in Session
         /\ Preserved(s, t).account = s.account /\ Preserved(s, t).on = s.on
         /\ Preserved(s, t).auth = s.auth
         /\ Preserved(s, t).service = s.service
         /\ Preserved(s, t).octagon = t.octagon /\ Preserved(s, t).user = t.user
  BY DEF Session, Preserved

\* A new token is nobody's yet.
LEMMA IssueFacts ==
  ASSUME TypeOK, NEW a \in Account, Issue(a)
  PROVE  /\ NewToken(a) \in Token
         /\ NewToken(a).to = a
         /\ NewToken(a) \notin Held
         /\ valid' \subseteq Token
<1>1. Free # {} /\ valid' = (valid \cap Held) \cup {NewToken(a)}
  BY DEF Issue
<1>2. PICK n \in Free : NewToken(a) = [no |-> n, to |-> a]
  BY <1>1 DEF NewToken
<1>3. n \in Number /\ \A t \in Held : t.no # n
  BY <1>2 DEF Free
<1>4. NewToken(a) \in Token /\ NewToken(a).to = a /\ NewToken(a).no = n
  BY <1>2, <1>3 DEF Token
<1> QED BY <1>1, <1>3, <1>4 DEF TypeOK

LEMMA FileIsHeld == sessionFile # None => sessionFile.auth \in Held
  BY DEF Held, Sessions

\* What a refresh changes, in the session of its command.
RenewedInto(s, t) ==
  /\ t \in Session
  /\ t.account = s.account /\ t.on = s.on
  /\ t.octagon = s.octagon /\ t.user = s.user
  /\ t.auth # s.auth => t.auth.to = s.account /\ t.auth \notin Held
  /\ t.service \in {s.service, s.account}

LEMMA RefreshedFacts ==
  ASSUME TypeOK, NEW c \in Command, session[c] \in Session, Refreshed(c)
  PROVE  /\ session' \in [Command -> Session \cup {None}]
         /\ RenewedInto(session[c], session'[c])
         /\ valid' \subseteq Token
<1>1. CASE UNCHANGED <<session, valid>>
  BY <1>1 DEF TypeOK, RenewedInto
<1>2. CASE /\ Issue(session[c].account)
           /\ \E keys \in {{"auth"}, {"service"}, {"auth", "service"}} :
                session' = [session EXCEPT ![c] = Renewed(@, keys)]
  <2>1. session[c].account \in Account
    BY SessionFields
  <2> DEFINE new == NewToken(session[c].account)
  <2>2. new \in Token /\ new.to = session[c].account /\ new \notin Held /\ valid' \subseteq Token
    BY <1>2, <2>1, IssueFacts
  <2>3. PICK keys \in {{"auth"}, {"service"}, {"auth", "service"}} :
          session' = [session EXCEPT ![c] = Renewed(session[c], keys)]
    BY <1>2
  <2>4. session'[c] = [session[c] EXCEPT
          !.auth = IF "auth" \in keys THEN new ELSE session[c].auth,
          !.service = IF "service" \in keys THEN session[c].account ELSE session[c].service]
    BY <2>3 DEF TypeOK, Renewed
  <2> HIDE DEF new
  <2>5. RenewedInto(session[c], session'[c])
    BY <2>1, <2>2, <2>4 DEF RenewedInto, Session
  <2>6. session' \in [Command -> Session \cup {None}]
    <3>1. session'[c] \in Session
      BY <2>5 DEF RenewedInto
    <3>2. session' = [session EXCEPT ![c] = session'[c]]
      BY <2>3 DEF TypeOK
    <3> QED BY <3>1, <3>2 DEF TypeOK
  <2> QED BY <2>2, <2>5, <2>6
<1> QED BY <1>1, <1>2 DEF Refreshed

-----------------------------------------------------------------------------
(* It holds initially and every step preserves it *)

LEMMA InitIInv == Init => IInv
  BY NoneIsNoRecord
  DEF Init, IInv, TypeOK, Labels, Turns, FilesInv, MemoryInv, LoggingIn, Preparing, Composed, Live

\* The invariant after a step of the command c, from its parts: no other command is
\* under way.
LEMMA Compose ==
  ASSUME IInv, NEW c \in Command, pc[c] # "idle",
         \A b \in Command \ {c} : pc'[b] = pc[b],
         TypeOK', FilesInv', MemoryInv(c)'
  PROVE  IInv'
<1>1. \A b \in Command \ {c} : pc'[b] = "idle"
  BY DEF IInv, Turns
<1>2. Turns'
  BY <1>1 DEF Turns
<1>3. ASSUME NEW b \in Command \ {c} PROVE MemoryInv(b)'
  BY <1>1 DEF MemoryInv, LoggingIn, Preparing, Composed, Live
<1> QED BY <1>2, <1>3 DEF IInv

\* So after the end of a command.
LEMMA ExitFacts ==
  ASSUME IInv, NEW c \in Command, Exit(c)
  PROVE  /\ pc' = [pc EXCEPT ![c] = "idle"] /\ pc'[c] = "idle"
         /\ pc' \in [Command -> Labels]
         /\ run' \in [Command -> Run \cup {None}]
         /\ device' \in [Command -> Device \cup {None}]
         /\ previous' \in [Command -> Session \cup {None}]
         /\ factor' \in [Command -> {"none", "trustedDevice", "sms"}]
         /\ session' \in [Command -> Session \cup {None}]
         /\ MemoryInv(c)'
<1>1. /\ pc' = [pc EXCEPT ![c] = "idle"] /\ pc'[c] = "idle"
      /\ pc' \in [Command -> Labels]
      /\ run' \in [Command -> Run \cup {None}]
      /\ device' \in [Command -> Device \cup {None}]
      /\ previous' \in [Command -> Session \cup {None}]
      /\ factor' \in [Command -> {"none", "trustedDevice", "sms"}]
      /\ session' \in [Command -> Session \cup {None}]
  BY DEF IInv, TypeOK, Exit, Goto, Labels
<1>2. MemoryInv(c)'
  BY <1>1 DEF MemoryInv, LoggingIn, Preparing, Composed, Live
<1> QED BY <1>1, <1>2

LEMMA BeginStep ==
  ASSUME IInv, NEW c \in Command, NEW r \in Run, Begin(c, r)
  PROVE  IInv'
<1>1. /\ \A b \in Command : pc[b] = "idle"
      /\ pc' = [pc EXCEPT ![c] = "load"]
      /\ run' = [run EXCEPT ![c] = r]
      /\ UNCHANGED <<files, made, server, device, previous, factor, session>>
  BY DEF Begin, LockFree, Goto
<1>2. TypeOK'
  BY <1>1 DEF IInv, TypeOK, files, server, Labels
<1>3. Turns'
  BY <1>1 DEF Turns, IInv, TypeOK
<1>4. FilesInv'
  BY <1>1 DEF IInv, FilesInv, Whole, files, server
<1>5. ASSUME NEW b \in Command PROVE MemoryInv(b)'
  BY <1>1 DEF IInv, TypeOK, MemoryInv, LoggingIn, Preparing, Composed, Live
<1> QED BY <1>2, <1>3, <1>4, <1>5 DEF IInv

LEMMA StopStep ==
  ASSUME IInv, NEW c \in Command, Stop(c)
  PROVE  IInv'
<1>1. Exit(c) /\ pc[c] # "idle" /\ UNCHANGED <<files, made, server>>
  BY DEF Stop
<1>2. TypeOK'
  BY <1>1, ExitFacts DEF IInv, TypeOK, files, server
<1>3. FilesInv'
  BY <1>1 DEF IInv, FilesInv, Whole, files, server
<1> QED BY <1>1, <1>2, <1>3, ExitFacts, Compose DEF IInv, TypeOK

LEMMA DeviceInitStep ==
  ASSUME IInv, NEW c \in Command, DeviceInit(c)
  PROVE  IInv'
<1>1. /\ Exit(c) /\ pc[c] # "idle" /\ deviceFile = None
      /\ UNCHANGED <<sessionFile, server>>
  BY DEF DeviceInit
<1>2. TypeOK'
  BY <1>1, ExitFacts DEF DeviceInit, IInv, TypeOK, server, Device
<1>3. sessionFile = None
  BY <1>1, NoneIsNoName, SessionFields DEF IInv, FilesInv, TypeOK
<1>4. FilesInv'
  BY <1>1, <1>3 DEF FilesInv
<1> QED BY <1>1, <1>2, <1>4, ExitFacts, Compose DEF IInv, TypeOK

LEMMA LoadStep ==
  ASSUME IInv, NEW c \in Command, Load(c)
  PROVE  IInv'
<1>1. /\ pc[c] = "load" /\ run[c] \in LoginRun
      /\ sessionFile # None => deviceFile # None
      /\ previous' = [previous EXCEPT ![c] = sessionFile]
      /\ run' = [run EXCEPT ![c].provider = None]
      /\ pc' = [pc EXCEPT ![c] = IF deviceFile = None THEN "persist" ELSE "password"]
      /\ UNCHANGED <<files, server, factor, session>>
  BY RunFields DEF Load, Goto, IInv, MemoryInv
<1>2. PICK d \in Reconciled(run[c].provider, deviceFile) :
        /\ SameDevice(d)
        /\ device' = [device EXCEPT ![c] = d]
        /\ made' = made \cup ({d} \cap Generated)
  BY DEF Load
<1>3. d \in Device /\ (deviceFile # None => d = deviceFile \/ d \in Provided)
  BY <1>1 DEF Reconciled, IInv, TypeOK, Device, Provider, LoginRun
<1>4. run'[c] \in LoginRun
  BY <1>1 DEF IInv, TypeOK, LoginRun, Provider
<1>5. TypeOK'
  BY <1>1, <1>2, <1>3, <1>4 DEF IInv, TypeOK, files, server, Labels, Run
<1>6. FilesInv'
  BY <1>1 DEF IInv, FilesInv, Whole, files, server
<1>7. MemoryInv(c)'
  BY <1>1, <1>2, <1>3, <1>4
  DEF IInv, TypeOK, MemoryInv, LoggingIn, Preparing, Composed, Live, SameDevice, files, Run
<1> QED BY <1>1, <1>5, <1>6, <1>7, Compose DEF IInv, TypeOK

LEMMA PersistStep ==
  ASSUME IInv, NEW c \in Command, Persist(c)
  PROVE  IInv'
<1>1. /\ pc[c] = "persist" /\ deviceFile' = device[c]
      /\ pc' = [pc EXCEPT ![c] = "password"]
      /\ UNCHANGED <<sessionFile, made, server, run, device, previous, factor, session>>
  BY DEF Persist, Goto
<1>2. device[c] \in Device /\ device[c] # None /\ deviceFile = None
  BY <1>1, NoneIsNoName DEF IInv, MemoryInv, LoggingIn
<1>3. sessionFile = None
  BY <1>1, <1>2, NoneIsNoName, SessionFields DEF IInv, FilesInv, TypeOK
<1>4. TypeOK'
  BY <1>1, <1>2 DEF IInv, TypeOK, server, Labels
<1>5. FilesInv'
  BY <1>1, <1>3 DEF FilesInv
<1>6. MemoryInv(c)'
  BY <1>1, <1>2, <1>3 DEF IInv, TypeOK, MemoryInv, LoggingIn, Preparing, Composed, Live
<1> QED BY <1>1, <1>4, <1>5, <1>6, Compose DEF IInv, TypeOK

\* Prompts and requests that change nothing but the service's trust in the device.
LEMMA PromptStep ==
  ASSUME IInv, NEW c \in Command, NEW label \in Preparing,
         pc[c] \in Preparing, pc' = [pc EXCEPT ![c] = label],
         factor' \in [Command -> {"none", "trustedDevice", "sms"}],
         trusted' \subseteq Account \X Device,
         UNCHANGED <<files, made, valid, run, device, previous, session>>
  PROVE  IInv'
<1>1. TypeOK'
  BY DEF IInv, TypeOK, files, Labels, Preparing
<1>2. FilesInv'
  BY DEF IInv, FilesInv, Whole, files
<1>3. MemoryInv(c)'
  BY DEF IInv, TypeOK, MemoryInv, LoggingIn, Preparing, Composed, Live, files
<1>4. pc[c] # "idle" /\ \A b \in Command \ {c} : pc'[b] = pc[b]
  BY DEF Preparing, IInv, TypeOK
<1> QED BY <1>1, <1>2, <1>3, <1>4, Compose

LEMMA PromptsStep ==
  ASSUME IInv, NEW c \in Command,
         \/ Password(c) \/ Authenticate(c) \/ Trigger(c) \/ SwitchToSms(c)
         \/ SubmitCode(c) \/ AuthenticateAgain(c)
  PROVE  IInv'
<1> USE PromptStep DEF Goto, Preparing, server
<1>1. /\ factor \in [Command -> {"none", "trustedDevice", "sms"}]
      /\ trusted \subseteq Account \X Device /\ pc \in [Command -> Labels]
  BY DEF IInv, TypeOK
<1>2. CASE Password(c)
  BY <1>1, <1>2 DEF Password
<1>3. CASE Authenticate(c)
  <2>1. factor' \in [Command -> {"none", "trustedDevice", "sms"}]
    BY <1>1, <1>3 DEF Authenticate
  <2> QED BY <1>1, <1>3, <2>1 DEF Authenticate
<1>4. CASE Trigger(c)
  BY <1>1, <1>4 DEF Trigger
<1>5. CASE SwitchToSms(c)
  <2>1. pc' = [pc EXCEPT ![c] = "code"]
    BY <1>1, <1>5 DEF SwitchToSms
  <2>2. factor' \in [Command -> {"none", "trustedDevice", "sms"}]
    BY <1>1, <1>5 DEF SwitchToSms
  <2> QED BY <1>1, <1>5, <2>1, <2>2 DEF SwitchToSms
<1>6. CASE SubmitCode(c)
  <2>1. run[c].account \in Account /\ device[c] \in Device
    BY <1>6 DEF SubmitCode, IInv, MemoryInv, LoggingIn, LoginRun
  <2>2. trusted' \subseteq Account \X Device
    BY <1>1, <1>6, <2>1 DEF SubmitCode
  <2>3. factor' \in [Command -> {"none", "trustedDevice", "sms"}]
    BY <1>1, <1>6 DEF SubmitCode
  <2> QED BY <1>1, <1>6, <2>2, <2>3 DEF SubmitCode
<1>7. CASE AuthenticateAgain(c)
  BY <1>1, <1>7 DEF AuthenticateAgain
<1> QED BY <1>2, <1>3, <1>4, <1>5, <1>6, <1>7

LEMMA LoginMobileMeStep ==
  ASSUME IInv, NEW c \in Command, LoginMobileMe(c)
  PROVE  IInv'
<1>1. /\ pc[c] = "mobileme" /\ Issue(run[c].account)
      /\ pc' = [pc EXCEPT ![c] = "preserve"]
      /\ UNCHANGED <<files, made, trusted, run, device, previous, factor>>
  BY DEF LoginMobileMe, Goto
<1>2. /\ run[c] \in LoginRun /\ run[c].account \in Account /\ device[c] \in Device
      /\ TypeOK
  BY <1>1 DEF IInv, MemoryInv, LoggingIn, Preparing, LoginRun
<1>3. PICK service \in {None, run[c].account} :
        session' = [session EXCEPT ![c] =
          [account |-> run[c].account, on |-> device[c], auth |-> NewToken(run[c].account),
           service |-> service, octagon |-> None, user |-> None]]
  BY DEF LoginMobileMe
<1> DEFINE new == NewToken(run[c].account)
<1>4. new \in Token /\ new.to = run[c].account /\ new \notin Held /\ valid' \subseteq Token
  BY <1>1, <1>2, IssueFacts
<1>5. session'[c] =
        [account |-> run[c].account, on |-> device[c], auth |-> new,
         service |-> service, octagon |-> None, user |-> None]
  BY <1>2, <1>3 DEF TypeOK
<1> HIDE DEF new
<1>6. session'[c] \in Session
  BY <1>2, <1>4, <1>5 DEF Session
<1>7. TypeOK'
  BY <1>1, <1>2, <1>3, <1>4, <1>5, <1>6 DEF TypeOK, files, Labels
<1>8. FilesInv'
  BY <1>1 DEF IInv, FilesInv, Whole, files
<1>9. MemoryInv(c)'
  <2>1. Whole(session'[c])
    BY <1>4, <1>5 DEF Whole
  <2>2. sessionFile # None => session'[c].auth # sessionFile.auth
    BY <1>4, <1>5, FileIsHeld
  <2>3. session'[c].on = device[c] /\ session'[c].octagon = None /\ session'[c].user = None
    BY <1>5
  <2>4. pc'[c] = "preserve"
    BY <1>1, <1>2 DEF TypeOK
  <2> HIDE <1>5
  <2> QED BY <1>1, <1>6, <2>1, <2>2, <2>3, <2>4
          DEF IInv, MemoryInv, LoggingIn, Preparing, Composed, Live, files
<1> QED BY <1>1, <1>2, <1>7, <1>8, <1>9, Compose DEF TypeOK

LEMMA PreserveStep ==
  ASSUME IInv, NEW c \in Command, Preserve(c)
  PROVE  IInv'
<1>1. /\ pc[c] = "preserve" /\ pc' = [pc EXCEPT ![c] = "refresh"]
      /\ UNCHANGED <<files, made, server, run, device, previous, factor>>
  BY DEF Preserve, Goto
<1>2. /\ TypeOK /\ session[c] \in Session /\ Whole(session[c])
      /\ previous[c] = sessionFile /\ session[c].on = device[c]
      /\ session[c].octagon = None /\ session[c].user = None
      /\ sessionFile # None => device[c] = deviceFile /\ session[c].auth # sessionFile.auth
  BY <1>1 DEF IInv, MemoryInv, LoggingIn, Composed
<1>3. /\ session' \in [Command -> Session \cup {None}]
      /\ session'[c] \in Session /\ Whole(session'[c]) /\ session'[c].on = device[c]
      /\ Succeeds(session'[c], sessionFile)
      /\ sessionFile # None => session'[c].auth # sessionFile.auth
  <2>1. CASE sessionFile = None
    BY <1>2, <2>1 DEF Preserve, Succeeds, TypeOK
  <2>2. CASE sessionFile # None
    <3>1. /\ sessionFile \in Session /\ Whole(sessionFile) /\ deviceFile = sessionFile.on
          /\ session[c].account = sessionFile.account
          /\ session' = [session EXCEPT ![c] = Preserved(session[c], sessionFile)]
      BY <1>2, <2>2 DEF Preserve, SameAccount, IInv, FilesInv, TypeOK
    <3>2. session'[c] = Preserved(session[c], sessionFile)
      BY <1>2, <3>1 DEF TypeOK
    <3>3. /\ session'[c] \in Session
          /\ session'[c].account = session[c].account /\ session'[c].on = session[c].on
          /\ session'[c].auth = session[c].auth /\ session'[c].service = session[c].service
          /\ session'[c].octagon = sessionFile.octagon /\ session'[c].user = sessionFile.user
      BY <1>2, <3>1, <3>2, PreservedFields
    <3>4. Whole(session'[c])
      BY <1>2, <3>1, <3>3 DEF Whole
    <3>5. Succeeds(session'[c], sessionFile)
      BY <1>2, <2>2, <3>1, <3>3 DEF Succeeds
    <3>6. session' \in [Command -> Session \cup {None}]
      BY <1>2, <3>1, <3>2, <3>3 DEF TypeOK
    <3> QED BY <1>2, <3>3, <3>4, <3>5, <3>6
  <2> QED BY <2>1, <2>2
<1>4. TypeOK'
  BY <1>1, <1>2, <1>3 DEF TypeOK, files, server, Labels
<1>5. FilesInv'
  BY <1>1 DEF IInv, FilesInv, Whole, files, server
<1>6. MemoryInv(c)'
  BY <1>1, <1>2, <1>3
  DEF IInv, MemoryInv, TypeOK, LoggingIn, Preparing, Composed, Live, files, server,
      Whole, Succeeds
<1> QED BY <1>1, <1>2, <1>4, <1>5, <1>6, Compose DEF TypeOK

\* A refresh, in a login or another command.
LEMMA RefreshedStep ==
  ASSUME IInv, NEW c \in Command, Refreshed(c),
         session[c] \in Session, Whole(session[c]), Succeeds(session[c], sessionFile),
         UNCHANGED <<files, made, trusted, run, device, previous, factor>>,
         pc' \in [Command -> Labels]
  PROVE  /\ TypeOK' /\ FilesInv'
         /\ session'[c] \in Session /\ Whole(session'[c]) /\ Succeeds(session'[c], sessionFile')
         /\ session'[c].on = session[c].on
         /\ session'[c].auth # session[c].auth =>
              (sessionFile # None => session'[c].auth # sessionFile.auth)
<1>1. TypeOK
  BY DEF IInv
<1>2. /\ session' \in [Command -> Session \cup {None}]
      /\ RenewedInto(session[c], session'[c])
      /\ valid' \subseteq Token
  BY <1>1, RefreshedFacts
<1>3. TypeOK'
  BY <1>1, <1>2 DEF TypeOK, files
<1>4. FilesInv'
  BY DEF IInv, FilesInv, Whole, files
<1>5. session'[c] \in Session /\ session'[c].on = session[c].on /\ Whole(session'[c])
  BY <1>2 DEF RenewedInto, Whole
<1>6. Succeeds(session'[c], sessionFile')
  BY <1>2 DEF Succeeds, RenewedInto, files
<1>7. session'[c].auth # session[c].auth =>
        (sessionFile # None => session'[c].auth # sessionFile.auth)
  BY <1>2, FileIsHeld DEF RenewedInto
<1> QED BY <1>3, <1>4, <1>5, <1>6, <1>7

LEMMA RefreshLoginStep ==
  ASSUME IInv, NEW c \in Command, RefreshLogin(c)
  PROVE  IInv'
<1>1. /\ pc[c] = "refresh" /\ Refreshed(c) /\ pc' = [pc EXCEPT ![c] = "write device"]
      /\ UNCHANGED <<files, made, trusted, run, device, previous, factor>>
  BY DEF RefreshLogin, Goto
<1>2. /\ session[c] \in Session /\ Whole(session[c])
      /\ Succeeds(session[c], sessionFile) /\ pc \in [Command -> Labels]
      /\ session[c].on = device[c]
      /\ sessionFile # None => session[c].auth # sessionFile.auth
  BY <1>1 DEF IInv, MemoryInv, Composed, TypeOK
<1>3. pc' \in [Command -> Labels] /\ pc'[c] = "write device"
  BY <1>1, <1>2 DEF Labels
<1>4. /\ TypeOK' /\ FilesInv'
      /\ session'[c] \in Session /\ Whole(session'[c])
      /\ Succeeds(session'[c], sessionFile') /\ session'[c].on = session[c].on
      /\ sessionFile # None => session'[c].auth # sessionFile.auth
  BY <1>1, <1>2, <1>3, RefreshedStep
<1>5. MemoryInv(c)'
  BY <1>1, <1>2, <1>3, <1>4
  DEF IInv, MemoryInv, LoggingIn, Preparing, Composed, Live, files
<1> QED BY <1>1, <1>2, <1>4, <1>5, Compose

LEMMA WriteDeviceStep ==
  ASSUME IInv, NEW c \in Command, WriteDevice(c)
  PROVE  IInv'
<1>1. /\ pc[c] = "write device" /\ pc' = [pc EXCEPT ![c] = "write session"]
      /\ deviceFile' = device[c]
      /\ UNCHANGED <<sessionFile, made, server, run, device, previous, factor, session>>
  BY DEF WriteDevice, DeviceToSave, Goto
<1>2. /\ TypeOK /\ device[c] \in Device /\ device[c] # None
      /\ sessionFile # None => device[c] = deviceFile
  BY <1>1, NoneIsNoName DEF IInv, MemoryInv, LoggingIn, Composed
<1>3. TypeOK'
  BY <1>1, <1>2 DEF TypeOK, server, Labels
<1>4. FilesInv'
  BY <1>1, <1>2 DEF IInv, FilesInv, server
<1>5. pc'[c] = "write session"
  BY <1>1, <1>2 DEF TypeOK
<1>6. MemoryInv(c)'
  BY <1>1, <1>2, <1>5 DEF IInv, MemoryInv, LoggingIn, Preparing, Composed, Live, server
<1> QED BY <1>1, <1>2, <1>3, <1>4, <1>6, Compose DEF TypeOK

LEMMA WriteSessionStep ==
  ASSUME IInv, NEW c \in Command, WriteSession(c)
  PROVE  IInv'
<1>1. /\ pc[c] = "write session" /\ Exit(c) /\ sessionFile' = session[c]
      /\ UNCHANGED <<deviceFile, made, server>>
  BY DEF WriteSession
<1>2. /\ TypeOK /\ session[c] \in Session /\ Whole(session[c])
      /\ session[c].on = device[c] /\ deviceFile = device[c]
  BY <1>1 DEF IInv, MemoryInv, Composed
<1>3. TypeOK'
  BY <1>1, <1>2, ExitFacts DEF TypeOK, server
<1>4. FilesInv'
  BY <1>1, <1>2 DEF FilesInv, server
<1> QED BY <1>1, <1>2, <1>3, <1>4, ExitFacts, Compose DEF TypeOK

LEMMA LoadLiveStep ==
  ASSUME IInv, NEW c \in Command, LoadLive(c)
  PROVE  IInv'
<1>1. /\ pc[c] = "load" /\ run[c].kind \in {"refresh", "keychain", "enroll"}
      /\ sessionFile # None
      /\ session' = [session EXCEPT ![c] = sessionFile]
      /\ previous' = [previous EXCEPT ![c] = sessionFile]
      /\ pc' = [pc EXCEPT ![c] = "live"]
      /\ UNCHANGED <<files, made, server, run, device, factor>>
  BY DEF LoadLive, Goto
<1>2. /\ TypeOK /\ sessionFile \in Session /\ Whole(sessionFile)
  BY <1>1 DEF IInv, FilesInv, TypeOK
<1>3. TypeOK'
  BY <1>1, <1>2 DEF TypeOK, files, server, Labels
<1>4. FilesInv'
  BY <1>1 DEF IInv, FilesInv, files, server
<1>5. pc'[c] = "live" /\ session'[c] = sessionFile /\ previous'[c] = sessionFile
  BY <1>1, <1>2 DEF TypeOK
<1>6. Succeeds(sessionFile, sessionFile)
  BY DEF Succeeds
<1>7. MemoryInv(c)'
  BY <1>1, <1>2, <1>5, <1>6
  DEF IInv, MemoryInv, LoggingIn, Preparing, Composed, Live, files, server
<1> QED BY <1>1, <1>2, <1>3, <1>4, <1>7, Compose DEF TypeOK

LEMMA RefreshLiveStep ==
  ASSUME IInv, NEW c \in Command, RefreshLive(c)
  PROVE  IInv'
<1>1. /\ pc[c] = "live" /\ Refreshed(c) /\ pc' = [pc EXCEPT ![c] = "save"]
      /\ UNCHANGED <<files, made, trusted, run, device, previous, factor>>
  BY DEF RefreshLive, Goto
<1>2. /\ session[c] \in Session /\ Whole(session[c])
      /\ Succeeds(session[c], sessionFile) /\ pc \in [Command -> Labels]
      /\ sessionFile # None /\ run[c].kind \in {"refresh", "keychain", "enroll"}
      /\ run[c] \in Run /\ previous[c] = sessionFile
  BY <1>1 DEF IInv, MemoryInv, Live, TypeOK
<1>3. pc' \in [Command -> Labels] /\ pc'[c] = "save"
  BY <1>1, <1>2 DEF Labels
<1>4. /\ TypeOK' /\ FilesInv'
      /\ session'[c] \in Session /\ Whole(session'[c])
      /\ Succeeds(session'[c], sessionFile')
  BY <1>1, <1>2, <1>3, RefreshedStep
<1>5. MemoryInv(c)'
  BY <1>1, <1>2, <1>3, <1>4
  DEF MemoryInv, LoggingIn, Preparing, Composed, Live, files
<1> QED BY <1>1, <1>2, <1>4, <1>5, Compose

LEMMA SaveStep ==
  ASSUME IInv, NEW c \in Command, Save(c)
  PROVE  IInv'
<1>1. /\ pc[c] = "save" /\ sessionFile' = session[c]
      /\ UNCHANGED <<deviceFile, made, server>>
      /\ \/ Exit(c)
         \/ /\ Goto(c, "initialize") \/ Goto(c, "enroll")
            /\ previous' = [previous EXCEPT ![c] = session[c]]
            /\ UNCHANGED <<run, device, factor, session>>
  BY DEF Save
<1>2. /\ TypeOK /\ session[c] \in Session /\ Whole(session[c])
      /\ sessionFile # None /\ Succeeds(session[c], sessionFile)
      /\ deviceFile = sessionFile.on /\ session[c] # None
      /\ run[c] \in Run /\ run[c].kind \in {"refresh", "keychain", "enroll"}
  BY <1>1, NoneIsNoRecord DEF IInv, MemoryInv, Live, FilesInv
<1>3. FilesInv'
  BY <1>1, <1>2 DEF FilesInv, Succeeds, server
<1>4. CASE Exit(c)
  <2>1. TypeOK'
    BY <1>1, <1>2, <1>4, ExitFacts DEF TypeOK, server
  <2> QED BY <1>1, <1>2, <1>3, <1>4, <2>1, ExitFacts, Compose DEF TypeOK
<1>5. CASE /\ Goto(c, "initialize") \/ Goto(c, "enroll")
           /\ previous' = [previous EXCEPT ![c] = session[c]]
           /\ UNCHANGED <<run, device, factor, session>>
  <2>1. PICK label \in {"initialize", "enroll"} : pc' = [pc EXCEPT ![c] = label]
    BY <1>5 DEF Goto
  <2>2. TypeOK'
    BY <1>1, <1>2, <1>5, <2>1 DEF TypeOK, server, Labels
  <2>3. pc'[c] = label
    BY <1>2, <2>1 DEF TypeOK
  <2>4. Succeeds(session[c], session[c]) /\ previous'[c] = session[c]
    BY <1>2, <1>5 DEF Succeeds, TypeOK
  <2>5. MemoryInv(c)'
    BY <1>1, <1>2, <1>5, <2>3, <2>4
    DEF MemoryInv, LoggingIn, Preparing, Composed, Live, server
  <2> QED BY <1>1, <1>2, <1>3, <2>1, <2>2, <2>5, Compose DEF TypeOK
<1> QED BY <1>1, <1>4, <1>5

LEMMA InitializeStep ==
  ASSUME IInv, NEW c \in Command, Initialize(c)
  PROVE  IInv'
<1>1. /\ pc[c] = "initialize" /\ pc' = [pc EXCEPT ![c] = "save"]
      /\ session' = [session EXCEPT ![c].user = session[c].account]
      /\ UNCHANGED <<files, made, server, run, device, previous, factor>>
  BY DEF Initialize, Goto
<1>2. /\ TypeOK /\ session[c] \in Session /\ Whole(session[c])
      /\ sessionFile # None /\ Succeeds(session[c], sessionFile)
      /\ run[c] \in Run /\ run[c].kind \in {"refresh", "keychain", "enroll"}
      /\ sessionFile \in Session /\ Whole(sessionFile) /\ previous[c] = sessionFile
  BY <1>1 DEF IInv, MemoryInv, Live, FilesInv, TypeOK
<1>3. session'[c] = [session[c] EXCEPT !.user = session[c].account]
  BY <1>1, <1>2 DEF TypeOK
<1>4. /\ session'[c] \in Session /\ session'[c].user = session[c].account
      /\ session'[c].account = session[c].account /\ session'[c].on = session[c].on
      /\ session'[c].auth = session[c].auth
      /\ session'[c].service = session[c].service /\ session'[c].octagon = session[c].octagon
  BY <1>2, <1>3 DEF Session
<1>5. Whole(session'[c])
  BY <1>2, <1>4 DEF Whole
<1>6. Succeeds(session'[c], sessionFile)
  BY <1>2, <1>4 DEF Succeeds, Whole
<1>7. TypeOK'
  BY <1>1, <1>2, <1>4 DEF TypeOK, files, server, Labels
<1>8. FilesInv'
  BY <1>1 DEF IInv, FilesInv, files, server
<1>9. pc'[c] = "save"
  BY <1>1, <1>2 DEF TypeOK
<1>10. MemoryInv(c)'
  BY <1>1, <1>2, <1>4, <1>5, <1>6, <1>9
  DEF MemoryInv, LoggingIn, Preparing, Composed, Live, files, server
<1> QED BY <1>1, <1>2, <1>7, <1>8, <1>10, Compose DEF TypeOK

LEMMA EnrollStep ==
  ASSUME IInv, NEW c \in Command, Enroll(c)
  PROVE  IInv'
<1>1. /\ pc[c] = "enroll" /\ Exit(c) /\ UNCHANGED <<deviceFile, made, server>>
      /\ sessionFile' = [session[c] EXCEPT !.octagon = session[c].account]
  BY DEF Enroll
<1>2. /\ TypeOK /\ session[c] \in Session /\ Whole(session[c])
      /\ sessionFile # None /\ Succeeds(session[c], sessionFile)
      /\ deviceFile = sessionFile.on
  BY <1>1 DEF IInv, MemoryInv, Live, FilesInv
<1>3. /\ sessionFile' \in Session /\ sessionFile'.octagon = session[c].account
      /\ sessionFile'.account = session[c].account /\ sessionFile'.on = session[c].on
      /\ sessionFile'.auth = session[c].auth
      /\ sessionFile'.service = session[c].service /\ sessionFile'.user = session[c].user
  BY <1>1, <1>2 DEF Session
<1>4. Whole(sessionFile')
  BY <1>2, <1>3 DEF Whole
<1>5. TypeOK'
  BY <1>1, <1>2, <1>3, ExitFacts DEF TypeOK, server
<1>6. FilesInv'
  BY <1>1, <1>2, <1>3, <1>4 DEF FilesInv, Succeeds, server
<1> QED BY <1>1, <1>2, <1>5, <1>6, ExitFacts, Compose DEF TypeOK

LEMMA ExpireStep ==
  ASSUME IInv, Expire
  PROVE  IInv'
<1>1. /\ UNCHANGED <<files, made, locals>>
      /\ valid' \subseteq valid /\ trusted' \subseteq trusted
  BY DEF Expire
<1>2. TypeOK'
  BY <1>1 DEF IInv, TypeOK, files, locals
<1>3. Turns' /\ FilesInv'
  BY <1>1 DEF IInv, Turns, FilesInv, files, locals
<1>4. ASSUME NEW c \in Command PROVE MemoryInv(c)'
  BY <1>1 DEF IInv, MemoryInv, files, locals
<1> QED BY <1>2, <1>3, <1>4 DEF IInv

LEMMA StutterStep == IInv /\ UNCHANGED vars => IInv'
<1> SUFFICES ASSUME IInv, UNCHANGED vars PROVE IInv'
  OBVIOUS
<1>1. UNCHANGED <<files, made, server, locals>>
  BY DEF vars
<1>2. TypeOK'
  BY <1>1 DEF IInv, TypeOK, files, server, locals
<1>3. Turns' /\ FilesInv'
  BY <1>1 DEF IInv, Turns, FilesInv, files, server, locals
<1>4. ASSUME NEW c \in Command PROVE MemoryInv(c)'
  BY <1>1 DEF IInv, MemoryInv, files, server, locals
<1> QED BY <1>2, <1>3, <1>4 DEF IInv

LEMMA NextIInv == IInv /\ [Next]_vars => IInv'
<1> SUFFICES ASSUME IInv, [Next]_vars PROVE IInv'
  OBVIOUS
<1>1. ASSUME NEW c \in Command, Step(c) PROVE IInv'
  BY <1>1, DeviceInitStep, LoadStep, PersistStep, PromptsStep, LoginMobileMeStep,
     PreserveStep, RefreshLoginStep, WriteDeviceStep, WriteSessionStep, LoadLiveStep,
     RefreshLiveStep, SaveStep, InitializeStep, EnrollStep
  DEF Step
<1> QED BY <1>1, BeginStep, StopStep, ExpireStep, StutterStep DEF Next

\* The strengthened invariant holds in every reachable state.
THEOREM Inductive == Spec => []IInv
  BY InitIInv, NextIInv, PTL DEF Spec

-----------------------------------------------------------------------------
(* What follows *)

\* Every variable keeps its type, for any number of commands, accounts and devices.
THEOREM TypeCorrect == Spec => []TypeOK
<1>1. IInv => TypeOK
  BY DEF IInv
<1> QED BY <1>1, Inductive, PTL

\* Every token, enrollment and user identifier on file is of the session's account
\* (preserve_account_state of account.rs).
THEOREM SessionIsOneAccounts == Spec => []OneAccount
<1>1. IInv => OneAccount
  BY DEF IInv, FilesInv, Whole, OneAccount
<1> QED BY <1>1, Inductive, PTL

\* device.json is the device of the session on file (login_credentials).
THEOREM SessionKeepsDevice == Spec => []SessionOnItsDevice
<1>1. IInv => SessionOnItsDevice
  BY DEF IInv, FilesInv, SessionOnItsDevice
<1> QED BY <1>1, Inductive, PTL

\* What one step makes of the session on file.
Advance ==
  sessionFile # None =>
    /\ sessionFile' # None
    /\ sessionFile'.account = sessionFile.account
    /\ sessionFile.octagon # None => sessionFile'.octagon = sessionFile.octagon
    /\ sessionFile.user # None => sessionFile'.user = sessionFile.user

LEMMA StepsAdvance ==
  ASSUME IInv, [Next]_vars
  PROVE  Advance
<1>1. ASSUME NEW c \in Command, WriteSession(c) \/ Save(c) PROVE Advance
  <2>1. sessionFile' = session[c] /\ session[c] \in Session
        /\ Succeeds(session[c], sessionFile)
    BY <1>1 DEF WriteSession, Save, IInv, MemoryInv, Composed, Live
  <2> QED BY <2>1, NoneIsNoRecord DEF Succeeds, Advance
<1>2. ASSUME NEW c \in Command, Enroll(c) PROVE Advance
  <2>1. /\ sessionFile' = [session[c] EXCEPT !.octagon = session[c].account]
        /\ session[c] \in Session /\ Succeeds(session[c], sessionFile)
    BY <1>2 DEF Enroll, IInv, MemoryInv, Live
  <2>2. /\ sessionFile' \in Session /\ sessionFile'.octagon = session[c].account
        /\ sessionFile'.account = session[c].account
        /\ sessionFile'.user = session[c].user
    BY <2>1 DEF Session
  <2>3. sessionFile # None => sessionFile.octagon \in {sessionFile.account, None}
    BY DEF IInv, FilesInv, Whole
  <2> HIDE <2>1
  <2>4. Succeeds(session[c], sessionFile)
    BY <2>1
  <2> QED BY <2>2, <2>3, <2>4, NoneIsNoRecord DEF Succeeds, Advance
<1>3. ASSUME NEW c \in Command, Step(c), ~WriteSession(c), ~Save(c), ~Enroll(c)
      PROVE  UNCHANGED sessionFile
  BY <1>3
  DEF Step, DeviceInit, Load, Persist, Password, Authenticate, Trigger, SwitchToSms,
      SubmitCode, AuthenticateAgain, LoginMobileMe, Preserve, RefreshLogin,
      WriteDevice, LoadLive, RefreshLive, Initialize, files
<1>4. CASE UNCHANGED sessionFile
  BY <1>4 DEF Advance
<1> QED BY <1>1, <1>2, <1>3, <1>4 DEF Next, Begin, Stop, Expire, vars, files

\* No command takes an enrollment or a user identifier out of the session
\* (complete_login, live_context).
THEOREM EnrollmentIsKept == Spec => EnrollmentKept
<1>1. IInv /\ [Next]_vars =>
        [sessionFile # None =>
           /\ sessionFile' # None
           /\ sessionFile'.account = sessionFile.account
           /\ sessionFile.octagon # None => sessionFile'.octagon = sessionFile.octagon
           /\ sessionFile.user # None => sessionFile'.user = sessionFile.user]_vars
  BY StepsAdvance DEF Advance
<1> QED BY <1>1, Inductive, PTL DEF Spec, EnrollmentKept

\* A login leaves no token on file that was there before it (complete_login).
THEOREM TokenIsReplaced == Spec => TokenReplaced
<1>1. ASSUME IInv, NEW c \in Command, WriteSession(c), sessionFile # None
      PROVE  sessionFile'.auth # sessionFile.auth
  BY <1>1 DEF WriteSession, IInv, MemoryInv, Composed
<1>2. IInv /\ [Next]_vars =>
        [\A c \in Command :
           WriteSession(c) /\ sessionFile # None => sessionFile'.auth # sessionFile.auth]_vars
  BY <1>1
<1> QED BY <1>2, Inductive, PTL DEF Spec, TokenReplaced

\* No command writes over a session that another has written since it read it
\* (live_context, login_credentials).
THEOREM NothingIsUndone == Spec => NoneUndone
<1>1. ASSUME IInv, [Next]_vars, sessionFile' # sessionFile
      PROVE  \E c \in Command : pc[c] # "idle" /\ previous[c] = sessionFile
  <2>1. ASSUME NEW c \in Command, Step(c), ~WriteSession(c), ~Save(c), ~Enroll(c)
        PROVE  FALSE
    BY <1>1, <2>1
    DEF Step, DeviceInit, Load, Persist, Password, Authenticate, Trigger, SwitchToSms,
        SubmitCode, AuthenticateAgain, LoginMobileMe, Preserve, RefreshLogin,
        WriteDevice, LoadLive, RefreshLive, Initialize, files
  <2>2. PICK c \in Command : WriteSession(c) \/ Save(c) \/ Enroll(c)
    BY <1>1, <2>1 DEF Next, Begin, Stop, Expire, vars, files
  <2> QED
    BY <1>1, <2>2
    DEF WriteSession, Save, Enroll, IInv, MemoryInv, LoggingIn, Composed, Live
<1>2. IInv /\ [Next]_vars =>
        [sessionFile' # sessionFile =>
           \E c \in Command : pc[c] # "idle" /\ previous[c] = sessionFile]_vars
  BY <1>1
<1> QED BY <1>2, Inductive, PTL DEF Spec, NoneUndone

\* Once written, device.json changes only to what the provider announces, before the
\* first login is complete (login_credentials).
THEOREM DeviceIsKept == Spec => DeviceKept
<1>1. ASSUME IInv, [Next]_vars, deviceFile # None, deviceFile' # deviceFile
      PROVE  sessionFile = None /\ deviceFile' \in Provided
  <2>1. ASSUME NEW c \in Command, Step(c), ~WriteDevice(c), ~Persist(c), ~DeviceInit(c)
        PROVE  FALSE
    BY <1>1, <2>1
    DEF Step, Load, Password, Authenticate, Trigger, SwitchToSms, SubmitCode,
        AuthenticateAgain, LoginMobileMe, Preserve, RefreshLogin, WriteSession, LoadLive,
        RefreshLive, Save, Initialize, Enroll, files
  <2>2. PICK c \in Command : WriteDevice(c) \/ Persist(c) \/ DeviceInit(c)
    BY <1>1, <2>1 DEF Next, Begin, Stop, Expire, vars, files
  <2>3. WriteDevice(c)
    BY <1>1, <2>2 DEF Persist, DeviceInit, IInv, MemoryInv
  <2> QED BY <1>1, <2>3
      DEF WriteDevice, DeviceToSave, IInv, MemoryInv, LoggingIn, Preparing, Composed
<1>2. IInv /\ [Next]_vars =>
        [deviceFile # None /\ deviceFile' # deviceFile =>
           sessionFile = None /\ deviceFile' \in Provided]_vars
  BY <1>1
<1> QED BY <1>2, Inductive, PTL DEF Spec, DeviceKept

-----------------------------------------------------------------------------
(* The password exchanges: numbers that both sides compute.  Power is a   *)
(* recursive function, so what holds of it is shown by induction over the  *)
(* exponent: a claim that fails for some number fails for a least one.     *)

CONSTANTS N, g, Block, MaxRounds

Escrow == INSTANCE EscrowExchange

\* The passcodes and the entropy of the model.
Right   == <<1>>
Wrong   == <<2>>
Entropy == <<7>>

LEMMA NatMin ==
  ASSUME NEW S, S \subseteq Nat, S # {}
  PROVE  \E x \in S : \A y \in S : x <= y
<1>1. \E R : IsWellFoundedOn(R, Nat) /\ \A x, y \in Nat : y < x => <<y, x>> \in R
  <2>1. IsWellFoundedOn(OpToRel(<, Nat), Nat)
    BY NatLessThanWellFounded
  <2>2. \A x, y \in Nat : y < x => <<y, x>> \in OpToRel(<, Nat)
    BY DEF OpToRel
  <2> QED BY <2>1, <2>2, Zenon
<1>2. PICK R : IsWellFoundedOn(R, Nat) /\ \A x, y \in Nat : y < x => <<y, x>> \in R
  BY <1>1
<1>3. PICK x \in S : \A y \in S : ~(<<y, x>> \in R)
  BY <1>2, WFMin
<1>4. ASSUME NEW y \in S PROVE x <= y
  <2>1. x \in Nat /\ y \in Nat
    OBVIOUS
  <2>2. ~(y < x)
    BY <1>2, <1>3, <2>1, Zenon
  <2> QED BY <2>1, <2>2
<1> QED
  BY <1>4

\* Induction over the numbers, for a set of them.
LEMMA NatAll ==
  ASSUME NEW Good, 0 \in Good, \A n \in Nat : n \in Good => n + 1 \in Good
  PROVE  Nat \subseteq Good
<1> DEFINE Bad == Nat \ Good
<1>1. SUFFICES ASSUME Bad # {} PROVE FALSE
  OBVIOUS
<1>2. PICK n \in Bad : \A m \in Bad : n <= m
  <2>1. Bad \subseteq Nat
    OBVIOUS
  <2> HIDE DEF Bad
  <2> QED BY <1>1, <2>1, NatMin
<1>3. n # 0
  BY <1>2
<1>4. n - 1 \in Nat /\ n - 1 \notin Bad /\ (n - 1) + 1 = n
  BY <1>2, <1>3
<1> QED
  BY <1>2, <1>4

-----------------------------------------------------------------------------
(* Remainders *)

LEMMA ModIs ==
  ASSUME N \in Nat, N > 1, NEW a \in Nat
  PROVE  /\ (a % N) \in 0 .. N - 1
         /\ \E q \in Nat : a = (q * N) + (a % N)
<1>1. (a % N) \in 0 .. N - 1
  OBVIOUS
<1>2. (a \div N) \in Nat
  OBVIOUS
<1>3. a = ((a \div N) * N) + (a % N)
  OBVIOUS
<1> QED BY <1>1, <1>2, <1>3

LEMMA ModUnique ==
  ASSUME N \in Nat, N > 1, NEW q \in Nat, NEW r \in 0 .. N - 1
  PROVE  ((q * N) + r) % N = r
OBVIOUS

LEMMA ModMul ==
  ASSUME N \in Nat, N > 1, NEW a \in Nat, NEW b \in Nat
  PROVE  ((a % N) * b) % N = (a * b) % N
<1>1. PICK q \in Nat : a = (q * N) + (a % N)
  BY ModIs
<1> DEFINE r == a % N
<1>2. r \in Nat
  BY ModIs
<1>3. PICK s \in Nat : r * b = (s * N) + ((r * b) % N)
  <2>1. r * b \in Nat
    BY <1>2
  <2> HIDE DEF r
  <2> QED BY <2>1, ModIs
<1> DEFINE t == (r * b) % N
<1>4. t \in 0 .. N - 1
  <2>1. r * b \in Nat
    BY <1>2
  <2> HIDE DEF r
  <2> QED BY <2>1, ModIs
<1>5. a * b = ((q * b + s) * N) + t
  <2>1. a = q * N + r
    BY <1>1
  <2>2. r * b = s * N + t
    BY <1>3
  <2> HIDE DEF r, t
  <2>3. a * b = (q * b) * N + r * b
    BY <2>1, <1>2
  <2> QED BY <2>2, <2>3, <1>2, <1>4
<1>6. q * b + s \in Nat
  OBVIOUS
<1>7. (((q * b + s) * N) + t) % N = t
  <2> HIDE DEF t
  <2> QED BY <1>4, <1>6, ModUnique
<1> QED BY <1>5, <1>7

-----------------------------------------------------------------------------
(* Powers *)

\* p is the powers of x up to that of n.
IsPowers(p, n, x) == p = [i \in 0 .. n |-> IF i = 0 THEN 1 ELSE (p[i - 1] * x) % N]

LEMMA PowersExist ==
  ASSUME NEW x, NEW n \in Nat
  PROVE  \E p : IsPowers(p, n, x)
<1> DEFINE Good == {m \in Nat : \E p : IsPowers(p, m, x)}
<1>1. 0 \in Good
  <2> DEFINE p == [i \in 0 .. 0 |-> 1]
  <2>1. IsPowers(p, 0, x)
    BY DEF IsPowers
  <2> HIDE DEF p
  <2> QED BY <2>1
<1>2. ASSUME NEW m \in Nat, m \in Good PROVE m + 1 \in Good
  <2>1. PICK p : IsPowers(p, m, x)
    BY <1>2
  <2> DEFINE q == [i \in 0 .. m + 1 |-> IF i = 0 THEN 1 ELSE (p[i - 1] * x) % N]
  <2>2. \A i \in 0 .. m : p[i] = q[i]
    BY <2>1 DEF IsPowers
  <2>3. \A i \in 0 .. m + 1 : i # 0 => p[i - 1] = q[i - 1]
    <3>1. \A i \in 0 .. m + 1 : i # 0 => i - 1 \in 0 .. m
      OBVIOUS
    <3> HIDE DEF q
    <3> QED BY <2>2, <3>1
  <2>4. q = [i \in 0 .. m + 1 |-> IF i = 0 THEN 1 ELSE (q[i - 1] * x) % N]
    BY <2>3
  <2>5. IsPowers(q, m + 1, x)
    BY <2>4, Zenon DEF IsPowers
  <2> HIDE DEF q
  <2> QED BY <2>5
<1> HIDE DEF Good
<1>3. Nat \subseteq Good
  BY <1>1, <1>2, NatAll
<1> QED BY <1>3 DEF Good

LEMMA PowersUnique ==
  ASSUME NEW x, NEW m \in Nat, NEW n \in Nat, NEW p, NEW q,
         IsPowers(p, m, x), IsPowers(q, n, x)
  PROVE  \A i \in 0 .. m : i <= n => p[i] = q[i]
<1> DEFINE Good == {i \in Nat : i <= m /\ i <= n => p[i] = q[i]}
<1>1. /\ \A i \in 0 .. m : p[i] = IF i = 0 THEN 1 ELSE (p[i - 1] * x) % N
      /\ \A i \in 0 .. n : q[i] = IF i = 0 THEN 1 ELSE (q[i - 1] * x) % N
  BY DEF IsPowers
<1>2. 0 \in Good
  BY <1>1
<1>3. ASSUME NEW i \in Nat, i \in Good PROVE i + 1 \in Good
  <2>1. SUFFICES ASSUME i + 1 <= m, i + 1 <= n PROVE p[i + 1] = q[i + 1]
    OBVIOUS
  <2>2. p[i] = q[i]
    BY <1>3, <2>1
  <2>3. i + 1 \in 0 .. m /\ i + 1 \in 0 .. n /\ i + 1 # 0 /\ (i + 1) - 1 = i
    BY <2>1
  <2>4. p[i + 1] = (p[i] * x) % N /\ q[i + 1] = (q[i] * x) % N
    BY <1>1, <2>3
  <2> QED BY <2>2, <2>4
<1> HIDE DEF Good
<1>4. Nat \subseteq Good
  BY <1>2, <1>3, NatAll
<1> QED BY <1>4 DEF Good

\* The definition of Power by recursion has what it says.
LEMMA PowerIs ==
  ASSUME NEW x
  PROVE  /\ Escrow!Numbers!Power(x, 0) = 1
         /\ \A n \in Nat : Escrow!Numbers!Power(x, n + 1) = (Escrow!Numbers!Power(x, n) * x) % N
<1> DEFINE P(n) == CHOOSE p : IsPowers(p, n, x)
           f == [n \in Nat |-> P(n)[n]]
           power == CHOOSE p : p = [n \in Nat |-> IF n = 0 THEN 1 ELSE (p[n - 1] * x) % N]
<1>1. \A n \in Nat : IsPowers(P(n), n, x)
  BY PowersExist
<1> HIDE DEF P
<1>2. \A n \in Nat : f[n] = IF n = 0 THEN 1 ELSE (f[n - 1] * x) % N
  <2> SUFFICES ASSUME NEW n \in Nat
               PROVE  f[n] = IF n = 0 THEN 1 ELSE (f[n - 1] * x) % N
    OBVIOUS
  <2>1. P(n)[n] = IF n = 0 THEN 1 ELSE (P(n)[n - 1] * x) % N
    <3>1. P(n) = [i \in 0 .. n |-> IF i = 0 THEN 1 ELSE (P(n)[i - 1] * x) % N]
      BY <1>1 DEF IsPowers
    <3>2. n \in 0 .. n
      OBVIOUS
    <3> QED BY <3>1, <3>2
  <2>2. ASSUME n # 0 PROVE P(n)[n - 1] = P(n - 1)[n - 1]
    <3>1. n - 1 \in Nat /\ n - 1 \in 0 .. n /\ n - 1 <= n - 1
      BY <2>2
    <3> QED BY <1>1, <3>1, PowersUnique
  <2>3. n # 0 => n - 1 \in Nat
    OBVIOUS
  <2> QED BY <2>1, <2>2, <2>3
<1>3. f = [n \in Nat |-> IF n = 0 THEN 1 ELSE (f[n - 1] * x) % N]
  BY <1>2
<1> HIDE DEF f
<1>4. power = [n \in Nat |-> IF n = 0 THEN 1 ELSE (power[n - 1] * x) % N]
  BY <1>3, Zenon
<1>5. \A n : Escrow!Numbers!Power(x, n) = power[n]
  BY DEF Escrow!Numbers!Power
<1> HIDE DEF power
<1>6. power[0] = 1
  BY <1>4
<1>7. \A n \in Nat : power[n + 1] = (power[n] * x) % N
  <2> TAKE n \in Nat
  <2>1. n + 1 \in Nat /\ n + 1 # 0 /\ (n + 1) - 1 = n
    OBVIOUS
  <2> QED BY <1>4, <2>1
<1> QED BY <1>5, <1>6, <1>7

LEMMA PowerNat ==
  ASSUME N \in Nat, N > 1, NEW x \in Nat, NEW n \in Nat
  PROVE  Escrow!Numbers!Power(x, n) \in 0 .. N - 1
<1> DEFINE Good == {i \in Nat : Escrow!Numbers!Power(x, i) \in 0 .. N - 1}
<1>1. 0 \in Good
  BY PowerIs
<1>2. ASSUME NEW i \in Nat, i \in Good PROVE i + 1 \in Good
  <2>1. Escrow!Numbers!Power(x, i) * x \in Nat
    BY <1>2
  <2>2. (Escrow!Numbers!Power(x, i) * x) % N \in 0 .. N - 1
    BY <2>1, ModIs
  <2> QED BY <2>2, PowerIs
<1> HIDE DEF Good
<1>3. Nat \subseteq Good
  BY <1>1, <1>2, NatAll
<1> QED BY <1>3 DEF Good

LEMMA PowerOfSum ==
  ASSUME N \in Nat, N > 1, NEW x \in Nat, NEW m \in Nat, NEW n \in Nat
  PROVE  Escrow!Numbers!Power(x, m + n)
           = (Escrow!Numbers!Power(x, m) * Escrow!Numbers!Power(x, n)) % N
<1> DEFINE P(i) == Escrow!Numbers!Power(x, i)
           Good == {i \in Nat : P(m + i) = (P(m) * P(i)) % N}
<1>1. \A i \in Nat : P(i) \in Nat /\ P(i) < N
  BY PowerNat
<1>2. P(0) = 1 /\ \A i \in Nat : P(i + 1) = (P(i) * x) % N
  BY PowerIs
<1> HIDE DEF P
<1>3. 0 \in Good
  <2>1. P(m) % N = P(m)
    <3>1. P(m) \in 0 .. N - 1 /\ (0 * N) + P(m) = P(m)
      BY <1>1
    <3> QED BY <3>1, ModUnique
  <2>2. m + 0 = m /\ P(m) * 1 = P(m)
    BY <1>1
  <2> QED BY <1>2, <2>1, <2>2
<1>4. ASSUME NEW i \in Nat, i \in Good PROVE i + 1 \in Good
  <2>1. P(m) \in Nat /\ P(i) \in Nat /\ P(i) * x \in Nat /\ P(m) * P(i) \in Nat
    BY <1>1
  <2>2. P(m + (i + 1)) = (P(m + i) * x) % N
    <3>1. m + (i + 1) = (m + i) + 1 /\ m + i \in Nat
      OBVIOUS
    <3> QED BY <1>2, <3>1
  <2>3. P(m + i) = (P(m) * P(i)) % N
    BY <1>4
  <2>4. (((P(m) * P(i)) % N) * x) % N = ((P(m) * P(i)) * x) % N
    BY <2>1, ModMul
  <2>5. (((P(i) * x) % N) * P(m)) % N = ((P(i) * x) * P(m)) % N
    BY <2>1, ModMul
  <2>6. (P(m) * P(i)) * x = (P(i) * x) * P(m)
    BY <2>1
  <2>7. ((P(i) * x) % N) * P(m) = P(m) * ((P(i) * x) % N)
    <3>1. ((P(i) * x) % N) \in 0 .. N - 1
      BY <2>1, ModIs
    <3> QED BY <2>1, <3>1
  <2>8. P(i + 1) = (P(i) * x) % N
    BY <1>2
  <2> QED BY <2>2, <2>3, <2>4, <2>5, <2>6, <2>7, <2>8
<1> HIDE DEF Good
<1>5. Nat \subseteq Good
  BY <1>3, <1>4, NatAll
<1> QED BY <1>5 DEF Good, P

LEMMA PowerOfPower ==
  ASSUME N \in Nat, N > 1, NEW x \in Nat, NEW m \in Nat, NEW n \in Nat
  PROVE  Escrow!Numbers!Power(Escrow!Numbers!Power(x, m), n) = Escrow!Numbers!Power(x, m * n)
<1> DEFINE y == Escrow!Numbers!Power(x, m)
           Good == {i \in Nat : Escrow!Numbers!Power(y, i) = Escrow!Numbers!Power(x, m * i)}
<1>1. 0 \in Good
  <2>1. m * 0 = 0
    OBVIOUS
  <2> QED BY <2>1, PowerIs
<1>2. ASSUME NEW i \in Nat, i \in Good PROVE i + 1 \in Good
  <2>1. Escrow!Numbers!Power(y, i + 1) = (Escrow!Numbers!Power(y, i) * y) % N
    BY PowerIs
  <2>2. m * (i + 1) = m * i + m /\ m * i \in Nat
    OBVIOUS
  <2>3. Escrow!Numbers!Power(x, m * i + m) = (Escrow!Numbers!Power(x, m * i) * y) % N
    BY <2>2, PowerOfSum
  <2> QED BY <1>2, <2>1, <2>2, <2>3
<1> HIDE DEF Good, y
<1>3. Nat \subseteq Good
  BY <1>1, <1>2, NatAll
<1> QED BY <1>3 DEF Good, y

\* The client takes k * g^x away from what the server sent, and is left with g^b.
LEMMA BaseIs ==
  ASSUME N \in Nat, N > 1, g \in Nat, NEW b \in Nat, NEW k \in Nat, NEW x \in Nat
  PROVE  Escrow!Numbers!Base(x, k, Escrow!Numbers!PublicB(b, k, x)) = Escrow!Numbers!Power(g, b)
<1> DEFINE v == k * Escrow!Numbers!Power(g, x)
           w == Escrow!Numbers!Power(g, b)
<1>1. v \in Nat /\ w \in 0 .. N - 1
  <2>1. Escrow!Numbers!Power(g, x) \in 0 .. N - 1 /\ Escrow!Numbers!Power(g, b) \in 0 .. N - 1
    BY PowerNat
  <2>2. \A y \in 0 .. N - 1 : k * y \in Nat
    OBVIOUS
  <2> QED BY <2>1, <2>2
<1>2. Escrow!Numbers!Base(x, k, Escrow!Numbers!PublicB(b, k, x))
        = (((v + w) % N) + (N - (v % N))) % N
  BY Zenon DEF Escrow!Numbers!Base, Escrow!Numbers!PublicB, Escrow!Numbers!Verifier
<1> HIDE DEF v, w
<1>3. PICK q \in Nat : v = (q * N) + (v % N)
  BY <1>1, ModIs
<1> DEFINE r == v % N
<1>4. r \in 0 .. N - 1 /\ v = q * N + r
  BY <1>1, <1>3, ModIs
<1> HIDE DEF r
<1>5. CASE r + w < N
  <2>1. v + w = (q * N) + (r + w) /\ r + w \in 0 .. N - 1
    BY <1>1, <1>4, <1>5
  <2>2. (v + w) % N = r + w
    BY <2>1, ModUnique
  <2>3. (r + w) + (N - r) = (1 * N) + w
    BY <1>1, <1>4
  <2>4. ((1 * N) + w) % N = w
    BY <1>1, ModUnique
  <2> QED BY <1>2, <2>2, <2>3, <2>4 DEF r, w
<1>6. CASE r + w >= N
  <2>1. v + w = ((q + 1) * N) + ((r + w) - N) /\ (r + w) - N \in 0 .. N - 1 /\ q + 1 \in Nat
    BY <1>1, <1>4, <1>6
  <2>2. (v + w) % N = (r + w) - N
    BY <2>1, ModUnique
  <2>3. ((r + w) - N) + (N - r) = (0 * N) + w
    BY <1>1, <1>4
  <2>4. ((0 * N) + w) % N = w
    BY <1>1, ModUnique
  <2> QED BY <1>2, <2>2, <2>3, <2>4 DEF r, w
<1> QED
  BY <1>1, <1>4, <1>5, <1>6

LEMMA SameKey ==
  ASSUME N \in Nat, N > 1, g \in Nat,
         NEW a \in Nat, NEW b \in Nat, NEW x \in Nat, NEW k \in Nat, NEW u \in Nat
  PROVE  Escrow!Numbers!Shared(a, x, k, u, Escrow!Numbers!PublicB(b, k, x))
           = Escrow!Numbers!ServerKey(b, u, Escrow!Numbers!PublicA(a), x)
<1> DEFINE G(n) == Escrow!Numbers!Power(g, n)
<1>1. /\ u * x \in Nat /\ x * u \in Nat /\ u * x = x * u
      /\ a + u * x \in Nat
      /\ b * (a + u * x) = (a + u * x) * b
  OBVIOUS
<1>2. Escrow!Numbers!Shared(a, x, k, u, Escrow!Numbers!PublicB(b, k, x)) = G(b * (a + u * x))
  <2>1. Escrow!Numbers!Shared(a, x, k, u, Escrow!Numbers!PublicB(b, k, x))
          = Escrow!Numbers!Power(G(b), a + u * x)
    BY BaseIs DEF Escrow!Numbers!Shared
  <2> QED BY <1>1, <2>1, PowerOfPower
<1>3. Escrow!Numbers!ServerKey(b, u, Escrow!Numbers!PublicA(a), x)
        = Escrow!Numbers!Power((G(a) * Escrow!Numbers!Power(G(x), u)) % N, b)
  BY DEF Escrow!Numbers!ServerKey, Escrow!Numbers!PublicA, Escrow!Numbers!Verifier
<1>4. Escrow!Numbers!Power(G(x), u) = G(u * x)
  BY <1>1, PowerOfPower
<1>5. (G(a) * G(u * x)) % N = G(a + u * x)
  BY <1>1, PowerOfSum
<1>6. Escrow!Numbers!Power(G(a + u * x), b) = G((a + u * x) * b)
  BY <1>1, PowerOfPower
<1> QED
  BY <1>1, <1>2, <1>3, <1>4, <1>5, <1>6

\* Whatever the secrets, the hashes and the group, both sides of a sign-in have the same
\* key, although the client's subtraction may go below zero (auth.rs:106): the right
\* password is never refused.
THEOREM SignInAgrees ==
  ASSUME N \in Nat, N > 1, g \in Nat
  PROVE  Escrow!Numbers!BothAgree(Escrow!Numbers!SignIn, Nat)
BY SameKey DEF Escrow!Numbers!BothAgree, Escrow!Numbers!SignIn, Escrow!Numbers!Complete,
               Escrow!Numbers!Refused, Escrow!Numbers!VerifyServerProof

\* So have both sides of the exchange of a passcode (escrow.rs:496).
THEOREM PasscodeAgrees ==
  ASSUME N \in Nat, N > 1, g \in Nat
  PROVE  Escrow!Numbers!BothAgree(Escrow!Numbers!Passcode, Nat)
BY SameKey DEF Escrow!Numbers!BothAgree, Escrow!Numbers!Passcode, Escrow!Numbers!Complete,
               Escrow!Numbers!Refused, Escrow!Numbers!VerifyServerProof

-----------------------------------------------------------------------------
(* The exchange of a passcode, from the proof to the entropy of the bottle *)

\* The exchange goes on to the numbers if the service answers as it should.
LEMMA ProveIs ==
  ASSUME NEW a, NEW x, NEW k, NEW u, NEW club, NEW salt, NEW B
  PROVE  Escrow!Prove(a, x, k, u, Escrow!Init(club, salt, B))
           = Escrow!Numbers!Passcode(a, "dsid", salt, x, k, u, B)
<1> DEFINE init == Escrow!Init(club, salt, B)
<1>1. /\ init.dsid = "dsid" /\ init.frame.header = 24
      /\ Len(init.frame.sections) = 3
      /\ init.frame.sections[1].size = 16
      /\ init.frame.sections[2].holds = salt
      /\ init.frame.sections[3].holds = B
  BY DEF Escrow!Init, Escrow!Section
<1>2. Escrow!Taken(init)
  BY DEF Escrow!Init, Escrow!Taken, Escrow!Rejection, Escrow!Zero, Escrow!Nonzero
<1>3. Escrow!Opens(init.frame, 24, 3)
  BY <1>1 DEF Escrow!Opens
<1> HIDE DEF init
<1>4. Escrow!Prove(a, x, k, u, init) = Escrow!Numbers!Passcode(a, "dsid", salt, x, k, u, B)
  BY <1>1, <1>2, <1>3 DEF Escrow!Prove
<1> QED BY <1>4 DEF init

\* The service has said yes, and sent what it was asked for.
LEMMA YesIs ==
  ASSUME NEW frame
  PROVE  Escrow!Taken(Escrow!Yes(frame)) /\ Escrow!Yes(frame).frame = frame
BY DEF Escrow!Yes, Escrow!Taken, Escrow!Rejection, Escrow!Zero, Escrow!Nonzero

\* Something sealed opens with its key alone.
LEMMA UnsealIs ==
  ASSUME NEW key, NEW sealedWith, NEW iv, NEW box, NEW contents,
         box.holds = Escrow!Sealed(sealedWith, iv.holds, contents)
  PROVE  Escrow!Unseal(key, iv, box)
           = IF key = sealedWith THEN [ok |-> TRUE, contents |-> contents] ELSE Escrow!Refused
<1> DEFINE holds == Escrow!Sealed(sealedWith, iv.holds, contents)
<1>1. holds.key = sealedWith /\ holds.iv = iv.holds /\ holds.contents = contents
  BY DEF Escrow!Sealed
<1> HIDE DEF holds
<1>2. Escrow!Unseal(key, iv, box)
        = IF holds.key = key /\ holds.iv = iv.holds
          THEN [ok |-> TRUE, contents |-> holds.contents] ELSE Escrow!Refused
  BY Zenon DEF Escrow!Unseal, holds
<1> QED BY <1>1, <1>2

\* A bottle opens for its passcode and for no other.
LEMMA BottleOpens ==
  ASSUME Block \in Nat, MaxRounds \in Nat, MaxRounds > 0,
         NEW passcode, NEW tried, NEW entropy
  PROVE  Escrow!Inner(Escrow!Bottle(passcode, 1, entropy), tried)
           = IF tried = passcode THEN [ok |-> TRUE, contents |-> entropy] ELSE Escrow!Refused
<1> DEFINE b == Escrow!Bottle(passcode, 1, entropy)
           salt == b.sections[2]
           box  == b.sections[4]
           Key(p) == <<"derived", p, "bottle salt", 1>>
<1>1. b.header = 16 /\ b.rounds = 1 /\ Len(b.sections) = 6
  BY DEF Escrow!Bottle
<1>2. salt.size = Block
  BY DEF Escrow!Bottle, Escrow!Section
<1>2a. salt.holds = "bottle salt"
  BY DEF Escrow!Bottle, Escrow!Section
<1>3. box.holds = Escrow!Sealed(Key(passcode), "bottle salt", entropy)
  BY DEF Escrow!Bottle, Escrow!Section
<1>4. Key(tried) = Key(passcode) <=> tried = passcode
  OBVIOUS
<1> HIDE DEF b
<1>5. Escrow!Inner(b, tried) = Escrow!Unseal(Key(tried), salt, box)
  <2>1. Escrow!Opens(b, 16, 6)
    BY <1>1, Zenon DEF Escrow!Opens
  <2>2. b.rounds \in 1 .. MaxRounds
    BY <1>1
  <2>3. salt.size >= Block
    BY <1>2
  <2>4. Escrow!Inner(b, tried)
          = Escrow!Unseal(<<"derived", tried, salt.holds, b.rounds>>, salt, box)
    BY <2>1, <2>2, <2>3, Zenon DEF Escrow!Inner
  <2> QED BY <1>1, <1>2a, <2>4, Zenon
<1>6. \A key, other : box.holds = Escrow!Sealed(other, salt.holds, entropy) =>
                        Escrow!Unseal(key, salt, box)
                          = IF key = other THEN [ok |-> TRUE, contents |-> entropy]
                            ELSE Escrow!Refused
  <2> HIDE DEF salt, box
  <2> QED BY UnsealIs
<1> HIDE DEF Key, salt, box
<1>7. box.holds = Escrow!Sealed(Key(passcode), salt.holds, entropy)
  BY <1>2a, <1>3, Zenon
<1>8. Escrow!Unseal(Key(tried), salt, box)
        = IF Key(tried) = Key(passcode) THEN [ok |-> TRUE, contents |-> entropy]
          ELSE Escrow!Refused
  BY <1>6, <1>7, Zenon
<1> QED BY <1>4, <1>5, <1>8, Zenon DEF b

LEMMA ThreeSections ==
  ASSUME NEW one, NEW two, NEW three
  PROVE  <<one>> \o <<two, three>> = <<one, two, three>>
<1> DEFINE S == {one, two, three}
           s == <<one>>
           t == <<two, three>>
           r == <<one, two, three>>
<1>1. s \in Seq(S) /\ t \in Seq(S) /\ r \in Seq(S)
  OBVIOUS
<1>2. /\ Len(s) = 1 /\ Len(t) = 2 /\ Len(r) = 3
      /\ s[1] = one /\ t[1] = two /\ t[2] = three
      /\ r[1] = one /\ r[2] = two /\ r[3] = three
  OBVIOUS
<1> HIDE DEF S, s, t, r
<1>3. /\ s \o t \in Seq(S)
      /\ Len(s \o t) = 3
      /\ \A n \in 1 .. 3 : (s \o t)[n] = IF n <= 1 THEN s[n] ELSE t[n - 1]
  <2>1. /\ s \o t \in Seq(S)
        /\ Len(s \o t) = Len(s) + Len(t)
        /\ \A n \in 1 .. Len(s) + Len(t) :
             (s \o t)[n] = IF n <= Len(s) THEN s[n] ELSE t[n - Len(s)]
    BY <1>1, ConcatProperties
  <2>2. Len(s) = 1 /\ Len(s) + Len(t) = 3
    BY <1>2
  <2> QED BY <2>1, <2>2
<1>4. \A n \in 1 .. 3 : (s \o t)[n] = r[n]
  BY <1>2, <1>3
<1>5. s \o t = r
  BY <1>1, <1>2, <1>3, <1>4, SeqEqual
<1> QED BY <1>5 DEF s, t, r

\* A reply opens in each of its layouts.
LEMMA ReplyOpens ==
  ASSUME Block \in Nat, Block < 128, NEW layout \in Escrow!Layouts
  PROVE  \A club, expected, key, bottle :
           LET reply == Escrow!Reply(layout, club, expected, key, bottle)
           IN  /\ Escrow!Opens(reply, Escrow!HeaderSize(club), 3)
               /\ reply.sections[1].size = 32 /\ reply.sections[1].holds = expected
               /\ Escrow!Outer(reply, key) = [ok |-> TRUE, contents |-> bottle]
<1> TAKE club, expected, key, bottle
<1> DEFINE reply == Escrow!Reply(layout, club, expected, key, bottle)
<1> DEFINE first == Escrow!Section(32, expected)
           iv    == Escrow!Section(Block, "iv")
           box   == Escrow!Section(128, Escrow!Sealed(key, "iv", bottle))
           opened == [ok |-> TRUE, contents |-> bottle]
<1>1. /\ first.size = 32 /\ first.holds = expected
      /\ iv.holds = "iv"
      /\ box.holds = Escrow!Sealed(key, "iv", bottle)
  BY DEF Escrow!Section
<1>1a. iv.size = Block /\ box.size = 128
  BY DEF Escrow!Section
<1>2. /\ reply.header = Escrow!HeaderSize(club)
      /\ reply.version = (IF layout = "gcm" THEN 2 ELSE 0)
      /\ reply.sections = IF layout = "iv last" THEN <<first, box, iv>> ELSE <<first, iv, box>>
  <2> DEFINE sections == <<first>> \o (IF layout = "iv last" THEN <<box, iv>> ELSE <<iv, box>>)
  <2>1. reply = [header |-> IF club THEN 40 ELSE 24, version |-> IF layout = "gcm" THEN 2 ELSE 0,
                 sections |-> sections]
    BY Zenon DEF Escrow!Reply
  <2>2. sections = IF layout = "iv last" THEN <<first, box, iv>> ELSE <<first, iv, box>>
    <3> HIDE DEF first, iv, box
    <3>1. /\ <<first>> \o <<box, iv>> = <<first, box, iv>>
          /\ <<first>> \o <<iv, box>> = <<first, iv, box>>
      BY ThreeSections
    <3> QED BY <3>1, Zenon
  <2> HIDE DEF sections
  <2>3. /\ reply.header = (IF club THEN 40 ELSE 24)
        /\ reply.version = (IF layout = "gcm" THEN 2 ELSE 0)
        /\ reply.sections = sections
    <3> HIDE DEF reply
    <3> QED BY <2>1
  <2> QED BY <2>2, <2>3, Zenon DEF Escrow!HeaderSize
<1>3. Escrow!Unseal(key, iv, box) = opened
  <2> HIDE DEF iv, box
  <2>1. box.holds = Escrow!Sealed(key, iv.holds, bottle)
    BY <1>1, Zenon
  <2>2. \A other : Escrow!Unseal(other, iv, box)
                     = IF other = key THEN [ok |-> TRUE, contents |-> bottle] ELSE Escrow!Refused
    BY <2>1, UnsealIs
  <2> QED BY <2>2, Zenon
<1> HIDE DEF first, iv, box, opened, reply
<1>3a. \/ reply.version = 0 /\ reply.sections = <<first, iv, box>>
       \/ reply.version = 0 /\ reply.sections = <<first, box, iv>>
       \/ reply.version = 2 /\ reply.sections = <<first, iv, box>>
  <2>1. "gcm" # "iv last"
    OBVIOUS
  <2> QED BY <1>2, <2>1, Zenon
<1>4. Len(reply.sections) = 3 /\ reply.sections[1] = first
  BY <1>3a
<1>5. Escrow!Outer(reply, key) = opened
  <2> DEFINE second == reply.sections[2]
             third  == reply.sections[3]
  <2>1. CASE reply.version = 0 /\ reply.sections = <<first, iv, box>>
    <3>1. second = iv /\ third = box
      BY <2>1
    <3>2. second.size = Block /\ third.size > Block /\ third.size # Block
      BY <1>1a, <3>1
    <3>3. Escrow!Outer(reply, key) = Escrow!Unseal(key, second, third)
      BY <2>1, <3>2 DEF Escrow!Outer
    <3> QED BY <1>3, <3>1, <3>3, Zenon
  <2>2. CASE reply.version = 0 /\ reply.sections = <<first, box, iv>>
    <3>1. second = box /\ third = iv
      BY <2>2
    <3>2. third.size = Block /\ second.size > Block /\ second.size # Block /\ ~(third.size > Block)
      BY <1>1a, <3>1
    <3>3. Escrow!Outer(reply, key) = Escrow!Unseal(key, third, second)
      BY <2>2, <3>2 DEF Escrow!Outer
    <3> QED BY <1>3, <3>1, <3>3, Zenon
  <2>3. CASE reply.version = 2 /\ reply.sections = <<first, iv, box>>
    <3>1. second = iv /\ third = box
      BY <2>3
    <3>2. third.size >= Block
      BY <1>1a, <3>1
    <3>3. Escrow!Outer(reply, key) = Escrow!Unseal(key, second, third)
      BY <2>3, <3>2 DEF Escrow!Outer
    <3> QED BY <1>3, <3>1, <3>3, Zenon
  <2> QED BY <1>3a, <2>1, <2>2, <2>3
<1> QED BY <1>1, <1>2, <1>4, <1>5, Zenon DEF Escrow!Opens, opened, reply

\* Both of them together.
LEMMA ReplyRecovers ==
  ASSUME Block \in Nat, Block < 128, MaxRounds \in Nat, MaxRounds > 0,
         NEW layout \in Escrow!Layouts
  PROVE  \A club, expected, key, passcode, tried, entropy :
           entropy # <<>> =>
             Escrow!RecoverEntropy(
                 Escrow!Reply(layout, club, expected, key, Escrow!Bottle(passcode, 1, entropy)),
                 club, expected, key, tried)
               = IF tried = passcode THEN [ok |-> TRUE, entropy |-> entropy] ELSE Escrow!Refused
<1> TAKE club, expected, key, passcode, tried, entropy
<1> HAVE entropy # <<>>
<1> DEFINE bottle == Escrow!Bottle(passcode, 1, entropy)
           frame  == Escrow!Reply(layout, club, expected, key, bottle)
           outer  == Escrow!Outer(frame, key)
           inner  == Escrow!Inner(outer.contents, tried)
<1>1. /\ Escrow!Opens(frame, Escrow!HeaderSize(club), 3)
      /\ frame.sections[1].size = 32 /\ frame.sections[1].holds = expected
      /\ outer = [ok |-> TRUE, contents |-> bottle]
  BY ReplyOpens
<1>2. outer.ok /\ outer.contents = bottle
  <2> HIDE DEF outer, bottle
  <2> QED BY <1>1
<1>3. Escrow!Inner(bottle, tried)
        = IF tried = passcode THEN [ok |-> TRUE, contents |-> entropy] ELSE Escrow!Refused
  BY BottleOpens
<1> HIDE DEF bottle, outer
<1>4. inner = IF tried = passcode THEN [ok |-> TRUE, contents |-> entropy] ELSE Escrow!Refused
  BY <1>2, <1>3, Zenon
<1> HIDE DEF inner
<1>5. Escrow!RecoverEntropy(frame, club, expected, key, tried)
        = IF inner.ok /\ inner.contents # <<>>
          THEN [ok |-> TRUE, entropy |-> inner.contents] ELSE Escrow!Refused
  BY <1>1, <1>2, Zenon DEF Escrow!RecoverEntropy, outer, inner
<1> HIDE DEF frame
<1>6. CASE tried = passcode
  <2>1. inner.ok /\ inner.contents = entropy
    BY <1>4, <1>6
  <2> QED BY <1>5, <1>6, <2>1, Zenon DEF frame, bottle
<1>7. CASE tried # passcode
  <2>1. ~inner.ok
    BY <1>4, <1>7 DEF Escrow!Refused
  <2> QED BY <1>5, <1>7, <2>1, Zenon DEF frame, bottle
<1> QED BY <1>6, <1>7

\* What the client of the right password ends with.
LEMMA PasscodeEnds ==
  ASSUME N \in Nat, N > 1, g \in Nat,
         NEW a \in Nat, NEW b \in Nat, NEW x \in Nat, NEW k \in Nat, NEW u \in Nat,
         NEW user, NEW salt,
         Escrow!Numbers!Passcode(a, user, salt, x, k, u, Escrow!Numbers!PublicB(b, k, x)).ok
  PROVE  LET B     == Escrow!Numbers!PublicB(b, k, x)
             A     == Escrow!Numbers!PublicA(a)
             key   == Escrow!Numbers!ServerKey(b, u, A, x)
             proof == Escrow!Numbers!Passcode(a, user, salt, x, k, u, B)
         IN  /\ proof.key = key
             /\ proof.expected
                  = Escrow!Numbers!Answer(A, Escrow!Numbers!Proof(user, salt, A, B, key), key)
BY SameKey DEF Escrow!Numbers!Passcode, Escrow!Numbers!Refused, Escrow!Numbers!Complete

\* A service that knows the verifier gives the owner of the passcode the entropy of the
\* bottle, and nobody else, in every group, with every secret and in every layout of the
\* reply (escrow.rs:319); a block is 16 bytes and the frames of the model hold 128.
THEOREM OwnerRecovers ==
  ASSUME N \in Nat, N > 1, g \in Nat, Block \in Nat, Block < 128,
         MaxRounds \in Nat, MaxRounds > 0
  PROVE  Escrow!OwnerRecovers(Nat)
<1> SUFFICES ASSUME NEW a \in Nat, NEW b \in Nat, NEW x \in Nat, NEW k \in Nat, NEW u \in Nat,
                    NEW club \in BOOLEAN, NEW layout \in Escrow!Layouts,
                    NEW tried \in {Right, Wrong}
             PROVE  LET B     == Escrow!Numbers!PublicB(b, k, x)
                        init  == Escrow!Init(club, "salt", B)
                        proof == Escrow!Prove(a, x, k, u, init)
                        A     == Escrow!Numbers!PublicA(a)
                        key   == Escrow!Numbers!ServerKey(b, u, A, x)
                        m1    == Escrow!Numbers!Proof("dsid", "salt", A, B, key)
                        reply == Escrow!Yes(Escrow!Reply(layout, club,
                                                         Escrow!Numbers!Answer(A, m1, key), key,
                                                         Escrow!Bottle(Right, 1, Entropy)))
                        read  == Escrow!Recover(a, x, k, u, tried, init, [p \in {proof} |-> reply])
                    IN  proof.ok => read = IF tried = Right THEN [ok |-> TRUE, entropy |-> Entropy]
                                           ELSE Escrow!Refused
  BY DEF Escrow!OwnerRecovers, Right, Wrong, Entropy
<1> DEFINE B      == Escrow!Numbers!PublicB(b, k, x)
           init   == Escrow!Init(club, "salt", B)
           proof  == Escrow!Prove(a, x, k, u, init)
           A      == Escrow!Numbers!PublicA(a)
           key    == Escrow!Numbers!ServerKey(b, u, A, x)
           answer == Escrow!Numbers!Answer(A, Escrow!Numbers!Proof("dsid", "salt", A, B, key), key)
           frame  == Escrow!Reply(layout, club, answer, key, Escrow!Bottle(Right, 1, Entropy))
           read   == Escrow!Recover(a, x, k, u, tried, init, [p \in {proof} |-> Escrow!Yes(frame)])
<1>1. SUFFICES ASSUME proof.ok
               PROVE  read = IF tried = Right THEN [ok |-> TRUE, entropy |-> Entropy]
                             ELSE Escrow!Refused
  OBVIOUS
<1>2. proof.key = key /\ proof.expected = answer
  <2>1. proof = Escrow!Numbers!Passcode(a, "dsid", "salt", x, k, u, B)
    BY ProveIs, Zenon
  <2> QED BY <1>1, <2>1, PasscodeEnds
<1>3. init.club = club
  BY DEF Escrow!Init
<1>4. tried # <<>> /\ Entropy # <<>>
  BY DEF Right, Wrong, Entropy
<1>5. read = Escrow!RecoverEntropy(frame, club, answer, key, tried)
  <2> DEFINE answers == [p \in {proof} |-> Escrow!Yes(frame)]
  <2>1. answers[proof] = Escrow!Yes(frame)
    <3> HIDE DEF proof, frame
    <3> QED OBVIOUS
  <2>2. Escrow!Taken(answers[proof]) /\ answers[proof].frame = frame
    <3> HIDE DEF answers, proof, frame
    <3> QED BY <2>1, YesIs, Zenon
  <2> HIDE DEF answers, frame, answer, key, init
  <2>3. read = Escrow!RecoverEntropy(frame, init.club, proof.expected, proof.key, tried)
    BY <1>1, <1>4, <2>2, Zenon DEF Escrow!Recover, answers
  <2> QED BY <1>2, <1>3, <2>3, Zenon
<1> HIDE DEF answer, key, read
<1>6. \A passcode, entropy :
        entropy # <<>> =>
          Escrow!RecoverEntropy(
              Escrow!Reply(layout, club, answer, key, Escrow!Bottle(passcode, 1, entropy)),
              club, answer, key, tried)
            = IF tried = passcode THEN [ok |-> TRUE, entropy |-> entropy] ELSE Escrow!Refused
  BY ReplyRecovers
<1> QED BY <1>4, <1>5, <1>6, Zenon

\* The client of a passcode expects an answer that holds its own public number, the server's
\* and the salt.
Expecting(proof, salt, A, B) ==
  \E key : proof.expected
             = Escrow!Numbers!Answer(A, Escrow!Numbers!Proof("dsid", salt, A, B, key), key)

LEMMA ProofExpects ==
  ASSUME NEW a, NEW x, NEW k, NEW u, NEW salt, NEW B,
         Escrow!Prove(a, x, k, u, Escrow!Init(FALSE, salt, B)).ok
  PROVE  Expecting(Escrow!Prove(a, x, k, u, Escrow!Init(FALSE, salt, B)), salt,
                   Escrow!Numbers!PublicA(a), B)
<1> DEFINE proof == Escrow!Prove(a, x, k, u, Escrow!Init(FALSE, salt, B))
<1>1. proof = Escrow!Numbers!Passcode(a, "dsid", salt, x, k, u, B)
  BY ProveIs, Zenon
<1> HIDE DEF proof
<1>2. proof = Escrow!Numbers!Complete(a, "dsid", salt, x, k, u, B)
  <2>1. proof.ok
    BY DEF proof
  <2> QED BY <1>1, <2>1 DEF Escrow!Numbers!Passcode, Escrow!Numbers!Refused
<1>3. Expecting(proof, salt, Escrow!Numbers!PublicA(a), B)
  BY <1>2 DEF Expecting, Escrow!Numbers!Complete
<1> QED BY <1>3 DEF proof

\* An answer tells what it answers.
LEMMA AnswerTells ==
  ASSUME NEW p, NEW q, NEW salt, NEW A, NEW B, NEW other, NEW C, NEW D,
         Expecting(p, salt, A, B), Expecting(q, other, C, D), p.expected = q.expected
  PROVE  salt = other /\ A = C /\ B = D
<1>1. PICK key, kex :
        Escrow!Numbers!Answer(A, Escrow!Numbers!Proof("dsid", salt, A, B, key), key)
          = Escrow!Numbers!Answer(C, Escrow!Numbers!Proof("dsid", other, C, D, kex), kex)
  BY DEF Expecting
<1>2. <<"M1", "dsid", salt, A, B, key>> = <<"M1", "dsid", other, C, D, kex>> /\ A = C
  BY <1>1 DEF Escrow!Numbers!Answer, Escrow!Numbers!Proof
<1> QED BY <1>2

\* The reply of an earlier exchange is refused, whatever the secrets and numbers of either,
\* unless it was about the same salt and the same public numbers on both sides
\* (escrow.rs:327, 486).
THEOREM ReplaysAreRefused ==
  ASSUME Block \in Nat, Block < 128, NEW exchanges
  PROVE  Escrow!ReplaysAreRefused(exchanges)
<1> DEFINE Asked(e)   == Escrow!Init(FALSE, e.salt, e.B)
           Started(e) == Escrow!Prove(e.a, e.x, e.k, e.u, Asked(e))
           Frame(e, layout) ==
             Escrow!Reply(layout, FALSE, Started(e).expected, Started(e).key,
                          Escrow!Bottle(Right, 1, Entropy))
           Read(e, frame) ==
             Escrow!Recover(e.a, e.x, e.k, e.u, Right, Asked(e),
                            [p \in {Started(e)} |-> Escrow!Yes(frame)])
<1> SUFFICES ASSUME NEW now \in exchanges, NEW past \in exchanges, NEW layout \in Escrow!Layouts,
                    Started(now).ok, Started(past).ok, Read(now, Frame(past, layout)).ok
             PROVE  /\ now.salt = past.salt /\ now.B = past.B
                    /\ Escrow!Numbers!PublicA(now.a) = Escrow!Numbers!PublicA(past.a)
  BY DEF Escrow!ReplaysAreRefused, Right, Entropy
<1> DEFINE frame    == Frame(past, layout)
           expected == Started(now).expected
<1>1. frame.sections[1].holds = Started(past).expected
  <2>1. \A club, answer, key, bottle :
          Escrow!Reply(layout, club, answer, key, bottle).sections[1].holds = answer
    BY ReplyOpens
  <2>2. \A answer, key, bottle :
          Escrow!Reply(layout, FALSE, answer, key, bottle).sections[1].holds = answer
    BY <2>1, Zenon
  <2> HIDE DEF Started
  <2> QED BY <2>2, Zenon
<1>2. \/ Read(now, frame)
           = Escrow!RecoverEntropy(frame, Asked(now).club, expected, Started(now).key, Right)
      \/ Read(now, frame) = Escrow!Refused
  <2> DEFINE start   == Started(now)
             answers == [p \in {start} |-> Escrow!Yes(frame)]
  <2>1. answers[start] = Escrow!Yes(frame)
    <3> HIDE DEF start, frame
    <3> QED OBVIOUS
  <2>2. answers[start].frame = frame
    <3> HIDE DEF answers, start, frame
    <3> QED BY <2>1, YesIs, Zenon
  <2> HIDE DEF answers, frame
  <2> QED BY <2>2, Zenon DEF Escrow!Recover, answers
<1>3. Read(now, frame).ok
  OBVIOUS
<1>4. Started(past).expected = expected
  <2> HIDE DEF Read, Started, Asked, frame, expected
  <2>1. Read(now, frame)
          = Escrow!RecoverEntropy(frame, Asked(now).club, expected, Started(now).key, Right)
    BY <1>2, <1>3 DEF Escrow!Refused
  <2>2. ~(frame.sections[1].holds = expected) =>
          Escrow!RecoverEntropy(frame, Asked(now).club, expected, Started(now).key, Right)
            = Escrow!Refused
    BY Zenon DEF Escrow!RecoverEntropy
  <2> QED BY <1>1, <1>3, <2>1, <2>2 DEF Escrow!Refused
<1>5. /\ Expecting(Started(now), now.salt, Escrow!Numbers!PublicA(now.a), now.B)
      /\ Expecting(Started(past), past.salt, Escrow!Numbers!PublicA(past.a), past.B)
  BY ProofExpects
<1> HIDE DEF Started, Asked, Frame, Read
<1> QED BY <1>4, <1>5, AnswerTells

\* The record that an attempt is spent on is the only one of its label and does not belong to
\* another bottle, in any lists of records (escrow.rs:38).
THEOREM RecordIsUnique ==
  ASSUME NEW lists, NEW label, NEW bottle, NEW Unnamed
  PROVE  Escrow!RecordIsTheBottles(lists, label, bottle, Unnamed)
<1> SUFFICES ASSUME NEW records \in lists,
                    Escrow!RecordFits(records, label, bottle, Unnamed)
             PROVE  LET chosen == CHOOSE n \in DOMAIN records : records[n].label = label
                    IN  \A n \in DOMAIN records : records[n].label = label =>
                          n = chosen /\ records[n].bottle \in {bottle, Unnamed}
  BY DEF Escrow!RecordIsTheBottles
<1> DEFINE Matches(n) == records[n].label = label
           matching   == {n \in DOMAIN records : Matches(n)}
           chosen     == CHOOSE n \in DOMAIN records : Matches(n)
<1>1. PICK only \in matching : matching = {only}
  BY DEF Escrow!RecordFits
<1>2. \A n \in matching : records[n].bottle \in {bottle, Unnamed}
  BY DEF Escrow!RecordFits
<1>3. chosen \in matching
  <2>1. only \in DOMAIN records /\ Matches(only)
    BY <1>1
  <2> HIDE DEF Matches
  <2> QED BY <2>1
<1>4. ASSUME NEW n \in DOMAIN records, Matches(n)
      PROVE  n = chosen /\ records[n].bottle \in {bottle, Unnamed}
  BY <1>1, <1>2, <1>3, <1>4, Zenon
<1> QED BY <1>4
=============================================================================
