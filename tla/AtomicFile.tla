----------------------------- MODULE AtomicFile -----------------------------
(***************************************************************************)
(* What FileStateStore promises of one file: it holds the whole of one of  *)
(* the values written to it, later values replace earlier ones, and a      *)
(* power failure may only undo writes that are not yet stable.             *)
(***************************************************************************)
EXTENDS Naturals

VARIABLES
  value,   \* number of the write whose value the file holds, 0 for no file
  stable   \* the oldest value that a power failure could bring back

vars == <<value, stable>>

Init == value = 0 /\ stable = 0

Write == value' \in Nat /\ value' > value /\ stable' = stable

Settle == stable' \in stable..value /\ value' = value

PowerFailure == value' \in stable..value /\ stable' = value'

Next == Write \/ Settle \/ PowerFailure

Spec == Init /\ [][Next]_vars
=============================================================================
