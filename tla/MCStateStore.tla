---------------------------- MODULE MCStateStore ----------------------------
(* Two commands race for a state directory that does not exist yet.  Inodes and   *)
(* commands are not symmetric for TLC, which checks liveness as well.             *)
EXTENDS StateStore
=============================================================================
