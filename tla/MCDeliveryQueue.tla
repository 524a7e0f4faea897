-------------------------- MODULE MCDeliveryQueue --------------------------
(* Small instances of DeliveryQueue. *)
EXTENDS DeliveryQueue, TLC

CONSTANTS b1, b2, s1, s2, w1, w2, d1, d2

Symmetric == Permutations(Backups) \cup Permutations(Flushes)
=============================================================================
