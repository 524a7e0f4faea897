----------------------------- MODULE RateLimit -----------------------------
(***************************************************************************)
(* The upload limiter (ratelimit/ratelimit.go): a token bucket that the    *)
(* pushes of all goroutines share (p2p.UploadLimiter).  A push that lacks  *)
(* tokens empties the bucket, sleeps with the mutex released until its     *)
(* deficit would have been refilled, and then restarts the refill clock.   *)
(*                                                                         *)
(* A tick is the time in which one token is refilled.  The code cuts its   *)
(* sleeps down to whole nanoseconds, which gives away less than one        *)
(* nanosecond's quota each time and is left out.                           *)
(*                                                                         *)
(* A push reads p2p.UploadLimiter and calls Wait on it in one step: that   *)
(* SetUploadRate replaces the limiter between the read and the lock of     *)
(* Wait, which then takes from the old bucket, is left out.                *)
(***************************************************************************)
EXTENDS Integers, FiniteSets

CONSTANTS
    Callers,    \* goroutines that push
    Sizes,      \* sizes of shards
    Capacity,   \* the bucket
    MaxTime,    \* bound: ticks
    MaxSets     \* bound: calls of SetUploadRate

ASSUME RateAssumption ==
    /\ IsFiniteSet(Callers)
    /\ Sizes \subseteq Nat
    /\ Capacity \in Nat \ {0}
    /\ MaxTime \in Nat /\ MaxSets \in Nat

VARIABLES
    now,
    tokens, last,   \* the bucket and the time of its last refill
    caller,         \* the callers; asleep until wake, to send n
    sets,           \* calls of SetUploadRate so far
    sent            \* history: what was let through

vars == <<now, tokens, last, caller, sets, sent>>

Idle == [pc |-> "idle", n |-> 0, wake |-> 0, limiter |-> 0]

\* NewLimiter: the bucket starts full.
Init ==
    /\ now = 0
    /\ tokens = Capacity /\ last = 0
    /\ caller = [c \in Callers |-> Idle]
    /\ sets = 0 /\ sent = 0

Least(a, b) == IF a < b THEN a ELSE b

\* Mutant: the bucket does not overflow.
Refilled_Uncapped == tokens + now - last

Refilled == Least(Capacity, tokens + now - last)

\* Wait, up to the sleep if there is one.
Wait(c, n) ==
    /\ caller[c].pc = "idle"
    /\ n > 0
    /\ last' = now
    /\ IF Refilled >= n
       THEN /\ tokens' = Refilled - n
            /\ sent' = sent + n
            /\ UNCHANGED caller
       ELSE /\ tokens' = 0
            /\ caller' = [caller EXCEPT ![c] =
                    [pc |-> "asleep", n |-> n, limiter |-> sets,
                     wake |-> now + n - Refilled]]
            /\ UNCHANGED sent
    /\ UNCHANGED <<now, sets>>

\* Mutant: the refill clock is not restarted.
Wake_NoStamp(c) ==
    /\ caller[c].pc = "asleep"
    /\ now >= caller[c].wake
    /\ sent' = sent + caller[c].n
    /\ caller' = [caller EXCEPT ![c] = Idle]
    /\ UNCHANGED <<now, tokens, last, sets>>

\* The caller has slept, at least as long as it asked for, and stamps the
\* limiter it slept on, which may have been replaced.
Wake(c) ==
    /\ caller[c].pc = "asleep"
    /\ now >= caller[c].wake
    /\ last' = IF caller[c].limiter = sets THEN now ELSE last
    /\ sent' = sent + caller[c].n
    /\ caller' = [caller EXCEPT ![c] = Idle]
    /\ UNCHANGED <<now, tokens, sets>>

\* Every Backup with a cap installs a new limiter, also one that a watch
\* handler starts while others push.
SetUploadRate ==
    /\ sets < MaxSets
    /\ sets' = sets + 1
    /\ tokens' = Capacity
    /\ last' = now
    /\ UNCHANGED <<now, caller, sent>>

Tick ==
    /\ now < MaxTime
    /\ now' = now + 1
    /\ UNCHANGED <<tokens, last, caller, sets, sent>>

Next ==
    \/ \E c \in Callers : Wake(c) \/ \E n \in Sizes : Wait(c, n)
    \/ SetUploadRate
    \/ Tick

Spec == Init /\ [][Next]_vars

-----------------------------------------------------------------------------
TypeOK ==
    /\ now \in 0 .. MaxTime
    /\ tokens \in 0 .. Capacity
    /\ last \in 0 .. now
    /\ \A c \in Callers : /\ caller[c].pc \in {"idle", "asleep"}
                          /\ caller[c].n \in Nat /\ caller[c].wake \in Nat
                          /\ caller[c].limiter \in 0 .. sets
    /\ sent \in Nat

\* What the cap amounts to.  One goroutine alone keeps to it, apart from the
\* full bucket of each limiter.
\* Two or more do not: a caller that comes while another sleeps is credited
\* the time of that sleep too.  Together they reach a multiple of the rate,
\* but no more than as many times as there are callers; once more after
\* SetUploadRate, as sleeps on an old limiter do not stamp the new one.
WithinShare ==
    LET shares == Cardinality(Callers) + IF sets = 0 THEN 0 ELSE 1
    IN  sent <= (1 + sets) * Capacity + shares * now
=============================================================================
