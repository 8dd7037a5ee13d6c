----------------------------- MODULE MCLiveQueue -----------------------------
(* The live queue on a small instance.  A minute is two units of time, and   *)
(* a timeout, the grace and the delay of a claim are one each: a run can     *)
(* outlive its minute, and the grace is no shorter than the delay.           *)
EXTENDS LiveQueue, TLC

CONSTANTS ex1, ex2, s1, w1, w2

Symmetry == Permutations({w1, w2})
=============================================================================
