----------------------------- MODULE MCSession ----------------------------
(* Small instances of Session. *)
EXTENDS Session, TLC

CONSTANTS c1, c2, p1, p2, family

Symmetric == Permutations(Calls) \cup Permutations(Passwords)
=============================================================================
