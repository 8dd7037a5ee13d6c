---------------------------- MODULE MCLiveRecovery ----------------------------
(* The recovery of the live queue on small instances.                       *)
EXTENDS LiveRecovery

CONSTANTS ex1, ex2, w1, w2
=============================================================================
