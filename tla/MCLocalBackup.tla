--------------------------- MODULE MCLocalBackup ---------------------------
(* Instances of LocalBackup for TLC. *)
EXTENDS LocalBackup, TLC

CONSTANTS f1, f2, c1, c2, c3, p1, p2

\* The schemes BestScheme returns for 3 and for 5 buddies.
Scheme21 == [data |-> 2, parity |-> 1]
Scheme32 == [data |-> 3, parity |-> 2]
OneScheme == {Scheme21}
TwoSchemes == {Scheme21, Scheme32}

\* c1 has one chunk, c2 is empty, c3 has two chunks.
Chunks == [c \in Contents |-> CASE c = c1 -> 1 [] c = c2 -> 0 [] c = c3 -> 2]

Symmetric == Permutations(Paths) \cup Permutations(Procs)
=============================================================================
