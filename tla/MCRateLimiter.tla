---------------------------- MODULE MCRateLimiter ----------------------------
(* Instances of RateLimiter for TLC.                                         *)
EXTENDS RateLimiter, TLC

CONSTANTS c1, k1, k2, k3

Symmetry == Permutations(Calls)
===============================================================================
