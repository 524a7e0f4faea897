----------------------------- MODULE MCWatcher -----------------------------
(* Small instances of Watcher. *)
EXTENDS Watcher, TLC

CONSTANTS p1, p2, t1, t2, t3, t4

Symmetric == Permutations(Paths) \cup Permutations(Timers)
=============================================================================
