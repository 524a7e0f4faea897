----------------------------- MODULE Delivery -----------------------------
(***************************************************************************)
(* What the offline queue promises, without files, copies or connections:  *)
(* an item that was accepted waits until it is delivered.  It can be lost  *)
(* only once something has happened that excuses the queue.                *)
(***************************************************************************)
CONSTANT Items

VARIABLES
    waiting,    \* accepted, not delivered
    delivered,  \* at its buddy
    excused     \* a fault, or an overlap the queue does not guard against

vars == <<waiting, delivered, excused>>

Init == waiting = {} /\ delivered = {} /\ excused = FALSE

Accept(i) ==
    /\ waiting' = waiting \cup {i}
    /\ UNCHANGED <<delivered, excused>>

\* By a flush of the queue, or by a direct push of an item that may not wait.
Deliver(i) ==
    /\ waiting' = waiting \ {i}
    /\ delivered' = delivered \cup {i}
    /\ UNCHANGED excused

Excuse ==
    /\ excused' = TRUE
    /\ UNCHANGED <<waiting, delivered>>

\* From then on items may be lost, and lost items may come back.
Excused ==
    /\ excused /\ excused'
    /\ delivered \subseteq delivered'
    /\ waiting' \cap delivered' = {}

Next ==
    \/ \E i \in Items : Accept(i) \/ Deliver(i)
    \/ Excuse
    \/ Excused

Spec == Init /\ [][Next]_vars
=============================================================================
