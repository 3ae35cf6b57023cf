---------------------------- MODULE EnrollmentAbs ----------------------------
(***************************************************************************)
(* What `octagon enroll` promises, without files, commands or messages.    *)
(*                                                                         *)
(* An enrollment buys passcode attempts one licence at a time, stops       *)
(* buying them for good once a bottle has been recovered, keeps one        *)
(* identity for ever, and lets that identity only enter the trust circle.  *)
(* The README says "Recovered material and the signed peer are saved       *)
(* before joining. Repeat the same command to resume [...] without another *)
(* passcode attempt".                                                      *)
(***************************************************************************)
EXTENDS Naturals

CONSTANTS
  Peer,      \* identities the program may generate
  NoPeer     \* no identity has been saved yet

VARIABLES
  attempts,  \* passcode attempts the escrow service has counted
  licences,  \* attempts the user has agreed to
  recovered, \* a bottle has been recovered and kept
  identity,  \* the identity that was saved, or NoPeer
  members    \* our identities that ever entered the circle

vars == <<attempts, licences, recovered, identity, members>>

Init ==
  /\ attempts = 0
  /\ licences = 1
  /\ recovered = FALSE
  /\ identity = NoPeer
  /\ members = {}

\* --retry-escrow-recovery agrees to one more attempt.
Authorise ==
  /\ ~recovered
  /\ licences' = licences + 1
  /\ UNCHANGED <<attempts, recovered, identity, members>>

Attempt ==
  /\ ~recovered
  /\ attempts < licences
  /\ attempts' = attempts + 1
  /\ UNCHANGED <<licences, recovered, identity, members>>

Keep ==
  /\ ~recovered
  /\ attempts > 0
  /\ recovered' = TRUE
  /\ UNCHANGED <<attempts, licences, identity, members>>

SaveIdentity ==
  /\ recovered
  /\ identity = NoPeer
  /\ identity' \in Peer
  /\ UNCHANGED <<attempts, licences, recovered, members>>

Enter ==
  /\ identity \in Peer
  /\ members' = {identity}
  /\ UNCHANGED <<attempts, licences, recovered, identity>>

Next == Authorise \/ Attempt \/ Keep \/ SaveIdentity \/ Enter

Spec == Init /\ [][Next]_vars
=============================================================================
