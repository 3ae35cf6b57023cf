---------------------------- MODULE MCTrustCircle ---------------------------
(* TrustCircle with a few peers, for TLC. *)
EXTENDS TrustCircle
=============================================================================
