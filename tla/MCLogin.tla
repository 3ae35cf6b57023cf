------------------------------- MODULE MCLogin ------------------------------
(* Login with a small set of accounts and devices, for TLC, and the password    *)
(* exchanges that it and the recovery of a bottle make, in the group of the     *)
(* numbers below 11.                                                            *)
EXTENDS Login

Exchange == INSTANCE Srp WITH N <- 11, g <- 2
Escrow   == INSTANCE EscrowExchange WITH N <- 11, g <- 2, Block <- 16, MaxRounds <- 10

ASSUME SignInAgrees   == Exchange!BothAgree(Exchange!SignIn, 0..7)
ASSUME PasscodeAgrees == Exchange!BothAgree(Exchange!Passcode, 0..7)

ASSUME RefusalsAreSeen == Escrow!RefusalsAreSeen
ASSUME OwnerRecovers   == Escrow!OwnerRecovers(0..3)

\* Exchanges that differ in any of their numbers, with one password.
Exchanges == [a : 1..3, x : {2}, k : {3}, u : 1..2, B : {1, 2, 7}, salt : {"salt", "pepper"}]
ASSUME ReplaysRefused == Escrow!ReplaysAreRefused(Exchanges)

\* Lists of at most three records, of this label and another.
Records     == [label : {"label", "other"}, bottle : {"bottle", "another", "unnamed"}]
RecordLists == UNION {[1..n -> Records] : n \in 0..3}
ASSUME OneRecord == Escrow!RecordIsTheBottles(RecordLists, "label", "bottle", "unnamed")
=============================================================================
