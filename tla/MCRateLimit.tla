---------------------------- MODULE MCRateLimit ----------------------------
(* Small instances of RateLimit. *)
EXTENDS RateLimit, TLC

CONSTANTS c1, c2

Symmetric == Permutations(Callers)
=============================================================================
