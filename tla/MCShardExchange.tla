-------------------------- MODULE MCShardExchange --------------------------
(* Small instances of ShardExchange. *)
EXTENDS ShardExchange

CONSTANTS a, b, h, s1, s2, f1, f2

\* Two owners and a holder.
Circle == {<<a, h>>, <<b, h>>}
FirstKnown == {[l \in Circle |-> "match"],
               [l \in Circle |-> IF l[1] = b THEN "mismatch" ELSE "nokey"]}
=============================================================================
