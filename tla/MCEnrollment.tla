---------------------------- MODULE MCEnrollment ----------------------------
(* Enrollment for TLC: the symmetry of its model values. *)
EXTENDS Enrollment, TLC

Symmetry ==
  Permutations(Proc) \cup Permutations(Bottle) \cup Permutations(Peer)
=============================================================================
