--------------------------- MODULE MCInvitation ---------------------------
(* Small instances of Invitation. *)
EXTENDS Invitation, TLC

CONSTANTS w1, m1, j1, j2, h1, h2, d1, c1

Symmetric == Permutations(Peers) \cup Permutations(Handlers)
=============================================================================
