---------------------------- MODULE MCPasswords -----------------------------
(* Passwords with few items and keys, for TLC. *)
EXTENDS Passwords, TLC

\* Items, keys, TLKs and passwords are interchangeable.
Symmetry ==
  Permutations(Item) \cup Permutations(Key) \cup Permutations(Tlk) \cup Permutations(Secret)
=============================================================================
