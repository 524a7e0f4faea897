----------------------------- MODULE MCRestore -----------------------------
(* A small instance of Restore. *)
EXTENDS Restore

CONSTANT b1

\* The schemes BestScheme returns for 3 and for 5 buddies.
TwoSchemes == {[data |-> 2, parity |-> 1], [data |-> 3, parity |-> 2]}
=============================================================================
