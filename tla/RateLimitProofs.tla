-------------------------- MODULE RateLimitProofs --------------------------
(***************************************************************************)
(* What the upload cap amounts to, for any number of goroutines, any sizes *)
(* and any bucket: WithinShare.                                            *)
(***************************************************************************)
EXTENDS RateLimit, FiniteSetTheorems, FunctionTheorems, TLAPS

CallerSet == [pc : {"idle", "asleep"}, n : Nat, wake : Nat, limiter : Nat]

Typed ==
    /\ now \in 0 .. MaxTime
    /\ tokens \in 0 .. Capacity
    /\ last \in 0 .. now
    /\ caller \in [Callers -> CallerSet]
    /\ \A c \in Callers : caller[c].limiter <= sets
    /\ sets \in Nat /\ sent \in Nat

\* Of the n tokens of a sleeper, those it has come by until time t.  Until it
\* wakes it comes by one more every tick.
Part(q, t) == {k \in 1 .. q.n : q.pc = "asleep" /\ k > q.wake - t}

Paid(r, t) == UNION {{c} \X Part(r[c], t) : c \in Callers}

\* As long as the limiter is not replaced, every tick up to the last refill
\* was worth at most one token to each caller: a caller that slept through it
\* restarted the refill clock before it came back.
Shared ==
    /\ IsFiniteSet(Paid(caller, last))
    /\ sets = 0 => sent + tokens + Cardinality(Paid(caller, last))
                        <= Capacity + Cardinality(Callers) * last

\* In any case every tick is worth one token to each sleeper and one to the
\* bucket, and each limiter starts with a full one.
Budget ==
    sent + tokens + Cardinality(Paid(caller, now))
        <= (1 + sets) * Capacity + last + Cardinality(Callers) * now

-----------------------------------------------------------------------------
(* Types. *)

LEMMA RefilledType ==
    ASSUME Typed
    PROVE  /\ Refilled \in 0 .. Capacity /\ Refilled <= tokens + now - last
           /\ now \in Nat /\ last \in Nat /\ tokens \in Nat /\ Capacity \in Nat
           /\ last <= now
  BY RateAssumption DEF Typed, Refilled, Least

\* What Wait leaves: a call that is let through, or one that sleeps until the
\* tokens it lacks would have been refilled.
LEMMA WaitEffect ==
    ASSUME Typed, NEW c \in Callers, NEW n \in Sizes, Wait(c, n)
    PROVE  /\ Typed' /\ caller[c].pc = "idle" /\ n \in Nat
           /\ last' = now /\ UNCHANGED <<now, sets>>
           /\ \/ /\ Refilled >= n /\ tokens' = Refilled - n /\ sent' = sent + n
                 /\ caller' = caller
              \/ /\ Refilled < n /\ tokens' = 0 /\ sent' = sent
                 /\ \E q \in CallerSet :
                        /\ q.pc = "asleep" /\ q.n = n /\ q.wake = now + n - Refilled
                        /\ caller' = [caller EXCEPT ![c] = q]
<1>1. /\ Refilled \in 0 .. Capacity /\ now \in Nat /\ last \in Nat /\ Capacity \in Nat
      /\ n \in Nat /\ sets \in Nat /\ sent \in Nat /\ Refilled \in Nat
  BY RefilledType, RateAssumption DEF Typed
<1>2. /\ caller[c].pc = "idle" /\ last' = now /\ UNCHANGED <<now, sets>>
  BY DEF Wait
<1>3. CASE Refilled >= n
  <2>1. tokens' = Refilled - n /\ sent' = sent + n /\ caller' = caller
    BY <1>3 DEF Wait
  <2>2. Typed'
    BY <1>1, <1>2, <1>3, <2>1 DEF Typed
  <2> QED
    BY <1>1, <1>2, <1>3, <2>1, <2>2
<1>4. CASE ~(Refilled >= n)
  <2> DEFINE q == [pc |-> "asleep", n |-> n, limiter |-> sets,
                   wake |-> now + n - Refilled]
  <2>1. tokens' = 0 /\ sent' = sent /\ caller' = [caller EXCEPT ![c] = q]
    BY <1>4 DEF Wait
  <2>2. Refilled < n /\ now + n - Refilled \in Nat
    BY <1>1, <1>4
  <2>3. /\ q \in CallerSet /\ q.pc = "asleep" /\ q.n = n /\ q.limiter = sets
        /\ q.wake = now + n - Refilled
    BY <1>1, <2>2 DEF CallerSet
  <2> HIDE DEF q
  <2>4. /\ caller' \in [Callers -> CallerSet]
        /\ \A d \in Callers : caller'[d].limiter <= sets
    BY <1>1, <2>1, <2>3 DEF Typed
  <2>5. Typed'
    BY <1>1, <1>2, <2>1, <2>4 DEF Typed
  <2> QED
    BY <1>1, <1>2, <2>1, <2>2, <2>3, <2>5
<1> QED
  BY <1>3, <1>4

LEMMA WakeEffect ==
    ASSUME Typed, NEW c \in Callers, Wake(c)
    PROVE  /\ Typed' /\ caller[c].pc = "asleep" /\ caller[c].wake <= now
           /\ caller[c].n \in Nat /\ caller[c].wake \in Nat
           /\ UNCHANGED <<now, tokens, sets>> /\ sent' = sent + caller[c].n
           /\ last' \in {last, now} /\ (sets = 0 => last' = now)
           /\ Idle \in CallerSet /\ Idle.pc = "idle"
           /\ caller' = [caller EXCEPT ![c] = Idle]
<1>1. /\ caller[c].n \in Nat /\ caller[c].wake \in Nat /\ caller[c].limiter \in Nat
      /\ caller[c].limiter <= sets /\ now \in Nat /\ last \in Nat /\ sets \in Nat
      /\ sent \in Nat
  BY DEF Typed, CallerSet
<1>2. Idle \in CallerSet /\ Idle.pc = "idle" /\ Idle.limiter = 0
  BY DEF Idle, CallerSet
<1>3. /\ caller[c].pc = "asleep" /\ caller[c].wake <= now
      /\ UNCHANGED <<now, tokens, sets>> /\ sent' = sent + caller[c].n
      /\ last' \in {last, now} /\ (caller[c].limiter = sets => last' = now)
      /\ caller' = [caller EXCEPT ![c] = Idle]
  BY <1>1 DEF Wake
<1>4. sets = 0 => caller[c].limiter = sets
  BY <1>1
<1>5. /\ caller' \in [Callers -> CallerSet]
      /\ \A d \in Callers : caller'[d].limiter <= sets
  BY <1>1, <1>2, <1>3 DEF Typed
<1>6. Typed'
  BY <1>1, <1>3, <1>5 DEF Typed
<1> QED
  BY <1>1, <1>2, <1>3, <1>4, <1>6

LEMMA TypedInit == Init => Typed
<1>1. Idle \in CallerSet /\ Idle.limiter = 0
  BY DEF Idle, CallerSet
<1> QED
  BY <1>1, RateAssumption DEF Init, Typed

LEMMA TypedStep == Typed /\ [Next]_vars => Typed'
<1> SUFFICES ASSUME Typed, [Next]_vars PROVE Typed'
  OBVIOUS
<1>1. CASE UNCHANGED vars
  BY <1>1 DEF vars, Typed
<1>2. CASE SetUploadRate
  BY <1>2, RateAssumption DEF SetUploadRate, Typed, CallerSet
<1>3. CASE Tick
  BY <1>3, RateAssumption DEF Tick, Typed
<1> QED
  BY <1>1, <1>2, <1>3, WaitEffect, WakeEffect DEF Next

LEMMA TypedAlways == Spec => []Typed
  BY TypedInit, TypedStep, PTL DEF Spec

\* The bucket never holds more than it can or less than nothing, and the
\* refill clock is never ahead of the time.
THEOREM TypeCorrect == Spec => []TypeOK
<1>1. Typed => TypeOK
  BY DEF Typed, TypeOK, CallerSet
<1> QED
  BY <1>1, TypedAlways, PTL

-----------------------------------------------------------------------------
(* Counting what the sleepers have come by. *)

LEMMA Member ==
    ASSUME NEW r, NEW t, NEW p
    PROVE  p \in Paid(r, t) <=>
             \E c \in Callers : \E k \in Part(r[c], t) : p = <<c, k>>
  BY DEF Paid

\* A caller's part counts when the callers are changed one at a time.
LEMMA Swap ==
    ASSUME NEW r \in [Callers -> CallerSet], NEW t \in Nat, NEW c \in Callers,
           NEW q \in CallerSet, IsFiniteSet(Paid(r, t)),
           NEW s, s[c] = q, \A d \in Callers \ {c} : s[d] = r[d]
    PROVE  /\ IsFiniteSet(Paid(s, t))
           /\ IsFiniteSet(Part(r[c], t)) /\ IsFiniteSet(Part(q, t))
           /\ Cardinality(Paid(s, t)) = Cardinality(Paid(r, t))
                - Cardinality(Part(r[c], t)) + Cardinality(Part(q, t))
<1> DEFINE Mine(x) == {c} \X Part(x, t)
           Rest == Paid(r, t) \ Mine(r[c])
<1>1. ASSUME NEW x \in CallerSet
      PROVE  /\ IsFiniteSet(Part(x, t)) /\ IsFiniteSet(Mine(x))
             /\ Cardinality(Part(x, t)) \in Nat
             /\ Cardinality(Mine(x)) = Cardinality(Part(x, t))
  <2>1. 1 \in Int /\ x.n \in Int
    BY <1>1 DEF CallerSet
  <2>2. IsFiniteSet(1 .. x.n)
    BY <2>1, FS_Interval
  <2>3. Part(x, t) \in SUBSET (1 .. x.n)
    BY DEF Part
  <2>4. IsFiniteSet(Part(x, t))
    BY <2>2, <2>3, FS_Subset
  <2>5. Cardinality(Part(x, t)) \in Nat
    BY <2>4, FS_CardinalityType
  <2>6. IsFiniteSet({c}) /\ Cardinality({c}) = 1
    BY FS_Singleton
  <2>7. IsFiniteSet(Mine(x)) /\ Cardinality(Mine(x)) = 1 * Cardinality(Part(x, t))
    BY <2>4, <2>6, FS_Product
  <2> QED
    BY <2>4, <2>5, <2>7
<1>2. r[c] \in CallerSet /\ s[c] = q /\ \A d \in Callers \ {c} : s[d] = r[d]
  OBVIOUS
<1>10. \A x, p : p \in Mine(x) <=> \E k \in Part(x, t) : p = <<c, k>>
  OBVIOUS
<1>11. \A p : p \in Rest <=> p \in Paid(r, t) /\ p \notin Mine(r[c])
  OBVIOUS
<1> HIDE DEF Mine, Rest
<1>12. /\ \A p : p \in Paid(r, t) <=> \E d \in Callers : \E k \in Part(r[d], t) : p = <<d, k>>
       /\ \A p : p \in Paid(s, t) <=> \E d \in Callers : \E k \in Part(s[d], t) : p = <<d, k>>
  <2>1. \A p : p \in Paid(r, t) <=> \E d \in Callers : \E k \in Part(r[d], t) : p = <<d, k>>
    BY SMT DEF Paid
  <2>2. \A p : p \in Paid(s, t) <=> \E d \in Callers : \E k \in Part(s[d], t) : p = <<d, k>>
    BY SMT DEF Paid
  <2> QED
    BY <2>1, <2>2, Zenon
<1>3. Mine(r[c]) \subseteq Paid(r, t) /\ Mine(q) \subseteq Paid(s, t)
  <2>1. ASSUME NEW p \in Mine(r[c]) PROVE p \in Paid(r, t)
    BY <1>10, <1>12, <2>1
  <2>2. ASSUME NEW p \in Mine(q) PROVE p \in Paid(s, t)
    BY <1>2, <1>10, <1>12, <2>2
  <2> QED
    BY <2>1, <2>2, Zenon
<1>4. \A p \in Rest : \E d \in Callers \ {c} : \E k \in Part(r[d], t) : p = <<d, k>>
  <2>1. ASSUME NEW p \in Rest
        PROVE  \E d \in Callers \ {c} : \E k \in Part(r[d], t) : p = <<d, k>>
    <3>1. PICK d \in Callers : \E k \in Part(r[d], t) : p = <<d, k>>
      BY <1>11, <1>12, <2>1, Zenon
    <3>2. d # c
      BY <1>10, <1>11, <2>1, <3>1, Zenon
    <3> QED
      BY <3>1, <3>2
  <2> QED
    BY <2>1
<1>5. Paid(s, t) = Rest \cup Mine(q) /\ Rest \cap Mine(q) = {}
  <2>1. ASSUME NEW p \in Paid(s, t) PROVE p \in Rest \cup Mine(q)
    <3>1. PICK d \in Callers : \E k \in Part(s[d], t) : p = <<d, k>>
      BY <2>1, <1>12
    <3>2. PICK k \in Part(s[d], t) : p = <<d, k>>
      BY <3>1
    <3>3. CASE d = c
      BY <1>2, <1>10, <3>2, <3>3, Zenon
    <3>4. CASE d # c
      <4>1. p \in Paid(r, t)
        BY <1>2, <3>2, <3>4, <1>12, Zenon
      <4>2. p \notin Mine(r[c])
        BY <1>10, <3>2, <3>4
      <4> QED
        BY <1>11, <4>1, <4>2
    <3> QED
      BY <3>3, <3>4
  <2>2. ASSUME NEW p \in Rest PROVE p \in Paid(s, t)
    BY <1>2, <1>4, <2>2, <1>12, Zenon
  <2>3. \A p \in Rest : p \notin Mine(q)
    BY <1>4, <1>10
  <2> QED
    BY <1>3, <2>1, <2>2, <2>3, Zenon
<1>6. /\ IsFiniteSet(Rest)
      /\ Cardinality(Rest) = Cardinality(Paid(r, t)) - Cardinality(Mine(r[c]))
  <2>1. Paid(r, t) \cap Mine(r[c]) = Mine(r[c]) /\ Rest = Paid(r, t) \ Mine(r[c])
    BY <1>3 DEF Rest
  <2>2. /\ IsFiniteSet(Paid(r, t) \ Mine(r[c]))
        /\ Cardinality(Paid(r, t) \ Mine(r[c])) = Cardinality(Paid(r, t))
                - Cardinality(Paid(r, t) \cap Mine(r[c]))
    BY FS_Difference, Zenon
  <2> QED
    BY <2>1, <2>2, Zenon
<1>7. Cardinality(Paid(r, t)) \in Nat /\ Cardinality(Rest) \in Nat
  BY <1>6, FS_CardinalityType
<1>8. /\ IsFiniteSet(Mine(q)) /\ Cardinality(Mine(q)) = Cardinality(Part(q, t))
      /\ IsFiniteSet(Part(q, t)) /\ Cardinality(Part(q, t)) \in Nat
      /\ Cardinality(Mine(r[c])) = Cardinality(Part(r[c], t))
      /\ IsFiniteSet(Part(r[c], t)) /\ Cardinality(Part(r[c], t)) \in Nat
  BY <1>1, <1>2
<1>9. /\ IsFiniteSet(Rest \cup Mine(q))
      /\ Cardinality(Rest \cup Mine(q)) = Cardinality(Rest) + Cardinality(Mine(q))
  <2>1. Cardinality(Rest \cap Mine(q)) = 0
    BY <1>5, FS_EmptySet
  <2>2. /\ IsFiniteSet(Rest \cup Mine(q))
        /\ Cardinality(Rest \cup Mine(q)) =
                Cardinality(Rest) + Cardinality(Mine(q)) - Cardinality(Rest \cap Mine(q))
    BY <1>6, <1>8, FS_Union
  <2> QED
    BY <1>7, <1>8, <2>1, <2>2
<1> QED
  BY <1>5, <1>6, <1>7, <1>8, <1>9

\* Every sleeper comes by at most one token a tick.
LEMMA Grow ==
    ASSUME NEW r \in [Callers -> CallerSet], NEW a \in Nat, NEW b \in Nat, a <= b,
           IsFiniteSet(Paid(r, a)), NEW A \in SUBSET Callers,
           \A c \in Callers : r[c].pc = "asleep" => c \in A
    PROVE  /\ IsFiniteSet(Paid(r, b)) /\ Cardinality(A) \in Nat
           /\ Cardinality(Paid(r, b)) \in Nat /\ Cardinality(Paid(r, a)) \in Nat
           /\ Cardinality(Paid(r, b)) <= Cardinality(Paid(r, a)) + Cardinality(A) * (b - a)
<1> DEFINE New == Paid(r, b) \ Paid(r, a)
           Due(c, k) == r[c].wake - a - k + 1
           Box == A \X (1 .. (b - a))
           f == [p \in New |-> <<p[1], Due(p[1], p[2])>>]
<1>1. ASSUME NEW p \in New
      PROVE  \E c \in A : \E k \in Nat :
                p = <<c, k>> /\ Due(c, k) \in 1 .. (b - a)
  <2>1. PICK c \in Callers : \E k \in Part(r[c], b) : p = <<c, k>>
    BY <1>1, Member
  <2>2. PICK k \in Part(r[c], b) : p = <<c, k>>
    BY <2>1
  <2>3. r[c].n \in Nat /\ r[c].wake \in Nat
    BY DEF CallerSet
  <2>4. k \in 1 .. r[c].n /\ r[c].pc = "asleep" /\ k > r[c].wake - b
    BY <2>2 DEF Part
  <2>5. k \notin Part(r[c], a)
    BY <1>1, <2>2, Member
  <2>6. ~(k > r[c].wake - a)
    BY <2>4, <2>5 DEF Part
  <2>7. k \in Nat /\ Due(c, k) \in 1 .. (b - a)
    BY <2>3, <2>4, <2>6
  <2> QED
    BY <2>2, <2>4, <2>7
<1>2. f \in [New -> Box]
  <2>1. ASSUME NEW p \in New PROVE <<p[1], Due(p[1], p[2])>> \in Box
    <3>1. PICK c \in A : \E k \in Nat : p = <<c, k>> /\ Due(c, k) \in 1 .. (b - a)
      BY <1>1, <2>1
    <3>2. PICK k \in Nat : p = <<c, k>> /\ Due(c, k) \in 1 .. (b - a)
      BY <3>1
    <3>3. p[1] = c /\ p[2] = k
      BY <3>2
    <3> QED
      BY <3>2, <3>3
  <2> QED
    BY <2>1
<1>3. \A p, o \in New : f[p] = f[o] => p = o
  <2>1. SUFFICES ASSUME NEW p \in New, NEW o \in New, f[p] = f[o] PROVE p = o
    OBVIOUS
  <2>2. PICK c \in A : \E k \in Nat : p = <<c, k>> /\ Due(c, k) \in 1 .. (b - a)
    BY <1>1
  <2>3. PICK k \in Nat : p = <<c, k>> /\ Due(c, k) \in 1 .. (b - a)
    BY <2>2
  <2>4. PICK d \in A : \E l \in Nat : o = <<d, l>> /\ Due(d, l) \in 1 .. (b - a)
    BY <1>1
  <2>5. PICK l \in Nat : o = <<d, l>> /\ Due(d, l) \in 1 .. (b - a)
    BY <2>4
  <2>6. f[p] = <<c, Due(c, k)>> /\ f[o] = <<d, Due(d, l)>>
    BY <2>3, <2>5
  <2>7. c = d /\ Due(c, k) = Due(c, l)
    BY <2>1, <2>6
  <2>8. r[c].wake \in Nat
    BY DEF CallerSet
  <2>9. k = l
    BY <2>7, <2>8
  <2> QED
    BY <2>3, <2>5, <2>7, <2>9
<1>4. f \in Injection(New, Box)
  <2> HIDE DEF f, New, Box
  <2> QED
    BY <1>2, <1>3, Fun_IsInj
<1>5. /\ IsFiniteSet(A) /\ Cardinality(A) \in Nat
      /\ IsFiniteSet(Box) /\ Cardinality(Box) = Cardinality(A) * (b - a)
  <2>1. IsFiniteSet(A)
    BY RateAssumption, FS_Subset
  <2>2. Cardinality(A) \in Nat
    BY <2>1, FS_CardinalityType
  <2>3. 1 \in Int /\ b - a \in Int /\ b - a >= 0
    OBVIOUS
  <2>4. IsFiniteSet(1 .. (b - a)) /\ Cardinality(1 .. (b - a)) = b - a
    <3>1. PICK m \in Int : m = b - a
      BY <2>3
    <3>2. IsFiniteSet(1 .. m) /\ Cardinality(1 .. m) = IF 1 > m THEN 0 ELSE m - 1 + 1
      BY FS_Interval
    <3>3. Cardinality(1 .. m) = m
      BY <2>3, <3>1, <3>2
    <3> QED
      BY <3>1, <3>2, <3>3
  <2> QED
    BY <2>1, <2>2, <2>4, FS_Product
<1>6. /\ IsFiniteSet(New) /\ Cardinality(New) <= Cardinality(A) * (b - a)
      /\ Cardinality(New) \in Nat
  <2> HIDE DEF f, New, Box
  <2>1. IsFiniteSet(New) /\ Cardinality(New) <= Cardinality(Box)
    BY <1>4, <1>5, FS_Injection
  <2>2. Cardinality(New) \in Nat
    BY <2>1, FS_CardinalityType
  <2> QED
    BY <1>5, <2>1, <2>2
<1>7. /\ IsFiniteSet(Paid(r, a) \cup New)
      /\ Cardinality(Paid(r, a)) \in Nat /\ Cardinality(Paid(r, a) \cup New) \in Nat
      /\ Cardinality(Paid(r, a) \cup New) <= Cardinality(Paid(r, a)) + Cardinality(New)
  <2> HIDE DEF New
  <2>1. /\ IsFiniteSet(Paid(r, a) \cup New)
        /\ Cardinality(Paid(r, a) \cup New) = Cardinality(Paid(r, a))
                + Cardinality(New) - Cardinality(Paid(r, a) \cap New)
    BY <1>6, FS_Union
  <2>2. IsFiniteSet(Paid(r, a) \cap New)
    BY FS_Intersection
  <2>3. /\ Cardinality(Paid(r, a)) \in Nat /\ Cardinality(Paid(r, a) \cup New) \in Nat
        /\ Cardinality(Paid(r, a) \cap New) \in Nat
    BY <2>1, <2>2, FS_CardinalityType
  <2> QED
    BY <1>6, <2>1, <2>3
<1>8. /\ IsFiniteSet(Paid(r, b)) /\ Cardinality(Paid(r, b)) \in Nat
      /\ Cardinality(Paid(r, b)) <= Cardinality(Paid(r, a) \cup New)
  <2>1. Paid(r, b) \in SUBSET (Paid(r, a) \cup New)
    OBVIOUS
  <2> HIDE DEF New
  <2>2. /\ IsFiniteSet(Paid(r, b))
        /\ Cardinality(Paid(r, b)) <= Cardinality(Paid(r, a) \cup New)
    BY <1>7, <2>1, FS_Subset
  <2> QED
    BY <2>2, FS_CardinalityType
<1> HIDE DEF New
<1>9. PICK m \in Int : m = Cardinality(A) * (b - a)
  BY <1>5
<1> QED
  BY <1>5, <1>6, <1>7, <1>8, <1>9

\* An idle caller has no part; one that slept to the end has all it asked for;
\* one that goes to sleep has what the bucket held.
LEMMA PartSize ==
    ASSUME NEW q \in CallerSet, NEW t \in Nat
    PROVE  /\ q.pc = "idle" => Cardinality(Part(q, t)) = 0
           /\ q.pc = "asleep" /\ q.wake <= t => Cardinality(Part(q, t)) = q.n
           /\ \A R \in Nat : q.pc = "asleep" /\ R < q.n /\ q.wake = t + q.n - R
                                => Cardinality(Part(q, t)) = R
<1>1. q.n \in Nat /\ q.wake \in Nat
  BY DEF CallerSet
<1>2. ASSUME NEW a \in Nat, NEW b \in Nat, a <= b + 1
      PROVE  Cardinality(a .. b) = b - a + 1
  <2>1. a \in Int /\ b \in Int
    OBVIOUS
  <2>2. Cardinality(a .. b) = IF a > b THEN 0 ELSE b - a + 1
    BY <2>1, FS_Interval
  <2> QED
    BY <1>2, <2>2
<1>3. ASSUME q.pc = "idle" PROVE Cardinality(Part(q, t)) = 0
  <2>1. Part(q, t) = {}
    BY <1>3 DEF Part
  <2> QED
    BY <2>1, FS_EmptySet
<1>4. ASSUME q.pc = "asleep", q.wake <= t PROVE Cardinality(Part(q, t)) = q.n
  <2>1. Part(q, t) = 1 .. q.n
    BY <1>1, <1>4 DEF Part
  <2>2. Cardinality(1 .. q.n) = q.n - 1 + 1
    BY <1>1, <1>2
  <2> QED
    BY <1>1, <2>1, <2>2
<1>5. ASSUME NEW R \in Nat, q.pc = "asleep", R < q.n, q.wake = t + q.n - R
      PROVE  Cardinality(Part(q, t)) = R
  <2>1. PICK m \in Nat : m = q.n - R + 1
    BY <1>1, <1>5
  <2>2. Part(q, t) = m .. q.n
    BY <1>1, <1>5, <2>1 DEF Part
  <2>3. Cardinality(m .. q.n) = q.n - m + 1
    <3>1. PICK k \in Nat : k = q.n
      BY <1>1
    <3>2. m <= k + 1
      BY <1>5, <2>1, <3>1
    <3>3. Cardinality(m .. k) = k - m + 1
      BY <1>2, <3>2
    <3> QED
      BY <3>1, <3>3
  <2> QED
    BY <1>1, <1>5, <2>1, <2>2, <2>3
<1> QED
  BY <1>3, <1>4, <1>5

LEMMA Spread ==
    ASSUME NEW n \in Nat, NEW a \in Nat, NEW b \in Nat
    PROVE  /\ n * (b - a) = n * b - n * a /\ n * (b + 1) = n * b + n
           /\ (n + 1) * b = n * b + b /\ n * a \in Nat /\ n * b \in Nat
           /\ a <= b => n * a <= n * b
<1>1. n * (b - a) = n * b - n * a /\ n * (b + 1) = n * b + n /\ (n + 1) * b = n * b + b
  OBVIOUS
<1>2. n * a \in Nat /\ n * b \in Nat
  OBVIOUS
<1>3. ASSUME a <= b PROVE n * a <= n * b
  <2>1. PICK d \in Nat : d = b - a
    BY <1>3
  <2>2. n * d = n * b - n * a
    BY <1>1, <2>1
  <2>3. n * d \in Nat
    OBVIOUS
  <2> QED
    BY <1>2, <2>2, <2>3
<1> QED
  BY <1>1, <1>2, <1>3

-----------------------------------------------------------------------------
(* The share of each caller. *)

LEMMA SharedInit == Init => Shared /\ Budget
<1> SUFFICES ASSUME Init PROVE Shared /\ Budget
  OBVIOUS
<1>1. Typed
  BY TypedInit
<1>2. \A c \in Callers : Part(caller[c], 0) = {}
  BY DEF Init, Idle, Part
<1>3. Paid(caller, 0) = {}
  BY <1>2 DEF Paid
<1>4. IsFiniteSet(Paid(caller, 0)) /\ Cardinality(Paid(caller, 0)) = 0
  BY <1>3, FS_EmptySet
<1>5. Cardinality(Callers) \in Nat
  BY RateAssumption, FS_CardinalityType
<1> QED
  BY <1>4, <1>5, RateAssumption DEF Init, Shared, Budget

\* What the sleepers have come by now, against what they had at the last
\* refill; one that is idle does not count.
LEMMA UpToNow ==
    ASSUME Typed, IsFiniteSet(Paid(caller, last))
    PROVE  /\ IsFiniteSet(Paid(caller, now))
           /\ Cardinality(Paid(caller, now)) \in Nat
           /\ Cardinality(Paid(caller, last)) \in Nat
           /\ Cardinality(Callers) \in Nat
           /\ Cardinality(Paid(caller, now)) <= Cardinality(Paid(caller, last))
                    + Cardinality(Callers) * now - Cardinality(Callers) * last
           /\ \A c \in Callers : caller[c].pc = "idle" =>
                Cardinality(Paid(caller, now)) <= Cardinality(Paid(caller, last))
                    + Cardinality(Callers) * now - Cardinality(Callers) * last
                    - (now - last)
<1>1. now \in Nat /\ last \in Nat /\ last <= now /\ caller \in [Callers -> CallerSet]
  BY DEF Typed
<1>2. /\ IsFiniteSet(Paid(caller, now)) /\ Cardinality(Callers) \in Nat
      /\ Cardinality(Paid(caller, now)) \in Nat /\ Cardinality(Paid(caller, last)) \in Nat
      /\ Cardinality(Paid(caller, now)) <= Cardinality(Paid(caller, last))
                + Cardinality(Callers) * (now - last)
  BY <1>1, Grow
<1>3. PICK N \in Nat : N = Cardinality(Callers)
  BY <1>2
<1>4. N * (now - last) = N * now - N * last /\ N * now \in Nat /\ N * last \in Nat
  BY <1>1, <1>3, Spread
<1>5. ASSUME NEW c \in Callers, caller[c].pc = "idle"
      PROVE  Cardinality(Paid(caller, now)) <= Cardinality(Paid(caller, last))
                    + N * now - N * last - (now - last)
  <2> DEFINE A == Callers \ {c}
  <2>1. A \in SUBSET Callers /\ \A d \in Callers : caller[d].pc = "asleep" => d \in A
    BY <1>5
  <2>2. IsFiniteSet(A) /\ Cardinality(A) = N - 1
    BY <1>3, RateAssumption, FS_RemoveElement
  <2> HIDE DEF A
  <2>3. /\ Cardinality(A) \in Nat
        /\ Cardinality(Paid(caller, now)) <=
                Cardinality(Paid(caller, last)) + Cardinality(A) * (now - last)
    BY <1>1, <2>1, Grow
  <2>4. PICK d \in Nat : d = now - last
    BY <1>1
  <2>5. PICK M \in Nat : M = Cardinality(A) /\ N = M + 1
    BY <2>2, <2>3
  <2>6. (M + 1) * d = M * d + d /\ M * d \in Nat
    BY Spread
  <2> QED
    BY <1>1, <1>2, <1>4, <2>3, <2>4, <2>5, <2>6
<1> QED
  BY <1>2, <1>3, <1>4, <1>5

LEMMA WaitShared ==
    ASSUME Typed, Shared, Budget, NEW c \in Callers, NEW n \in Sizes, Wait(c, n)
    PROVE  Shared' /\ Budget'
<1> DEFINE N == Cardinality(Callers)
           P == Cardinality(Paid(caller, now))
           Q == Cardinality(Paid(caller, last))
<1>1. /\ Typed' /\ caller[c].pc = "idle" /\ n \in Nat
      /\ last' = now /\ now' = now /\ sets' = sets
  BY WaitEffect
<1>2. /\ Refilled \in Nat /\ Refilled <= tokens + now - last
      /\ now \in Nat /\ last \in Nat /\ tokens \in Nat /\ Capacity \in Nat
      /\ last <= now
  BY RefilledType
<1>3. /\ sent \in Nat /\ sets \in Nat /\ caller \in [Callers -> CallerSet]
  BY DEF Typed
<1>4. /\ IsFiniteSet(Paid(caller, now)) /\ P \in Nat /\ Q \in Nat /\ N \in Nat
      /\ P <= Q + N * now - N * last - (now - last)
  BY <1>1, UpToNow DEF Shared
<1>5. N * now \in Nat /\ N * last \in Nat /\ (1 + sets) * Capacity \in Nat
  BY <1>2, <1>3, <1>4, Spread
<1>6. sets = 0 => sent + tokens + Q <= Capacity + N * last
  BY DEF Shared
<1>7. sent + tokens + P <= (1 + sets) * Capacity + last + N * now
  BY DEF Budget
<1>8. /\ IsFiniteSet(Paid(caller', now))
      /\ sent' + tokens' + Cardinality(Paid(caller', now)) = sent + Refilled + P
  <2>1. CASE Refilled >= n /\ tokens' = Refilled - n /\ sent' = sent + n /\ caller' = caller
    BY <1>1, <1>2, <1>3, <1>4, <2>1
  <2>2. ASSUME Refilled < n, tokens' = 0, sent' = sent,
               NEW q \in CallerSet, q.pc = "asleep", q.n = n,
               q.wake = now + n - Refilled, caller' = [caller EXCEPT ![c] = q]
        PROVE  /\ IsFiniteSet(Paid(caller', now))
               /\ sent' + tokens' + Cardinality(Paid(caller', now)) = sent + Refilled + P
    <3>1. caller'[c] = q /\ \A d \in Callers \ {c} : caller'[d] = caller[d]
      BY <1>3, <2>2
    <3>2. /\ IsFiniteSet(Paid(caller', now))
          /\ Cardinality(Paid(caller', now)) = P - Cardinality(Part(caller[c], now))
                + Cardinality(Part(q, now))
      BY <1>2, <1>3, <1>4, <3>1, Swap
    <3>3. caller[c] \in CallerSet
      BY <1>3
    <3>4. Cardinality(Part(caller[c], now)) = 0
      BY <1>1, <1>2, <3>3, PartSize
    <3>5. Cardinality(Part(q, now)) = Refilled
      BY <1>1, <1>2, <2>2, PartSize
    <3> HIDE DEF P
    <3> QED
      BY <1>2, <1>3, <1>4, <2>2, <3>2, <3>4, <3>5
  <2> QED
    BY <2>1, <2>2, WaitEffect
<1> HIDE DEF N, P, Q
<1>9. /\ sets = 0 => sent + Refilled + P <= Capacity + N * now
      /\ sent + Refilled + P <= (1 + sets) * Capacity + now + N * now
  BY <1>2, <1>3, <1>4, <1>5, <1>6, <1>7
<1> QED
  BY <1>1, <1>8, <1>9 DEF Shared, Budget, N

LEMMA WakeShared ==
    ASSUME Typed, Shared, Budget, NEW c \in Callers, Wake(c)
    PROVE  Shared' /\ Budget'
<1> DEFINE N == Cardinality(Callers)
           P == Cardinality(Paid(caller, now))
           Q == Cardinality(Paid(caller, last))
<1>1. /\ Typed' /\ caller[c].pc = "asleep" /\ caller[c].wake <= now
      /\ caller[c].n \in Nat
      /\ now' = now /\ tokens' = tokens /\ sets' = sets /\ sent' = sent + caller[c].n
      /\ last' \in {last, now} /\ (sets = 0 => last' = now)
      /\ Idle \in CallerSet /\ Idle.pc = "idle"
      /\ caller' = [caller EXCEPT ![c] = Idle]
  BY WakeEffect
<1>2. /\ now \in Nat /\ last \in Nat /\ tokens \in Nat /\ Capacity \in Nat /\ last <= now
  BY RefilledType
<1>3. /\ sent \in Nat /\ sets \in Nat /\ caller \in [Callers -> CallerSet]
  BY DEF Typed
<1>4. /\ IsFiniteSet(Paid(caller, now)) /\ P \in Nat /\ Q \in Nat /\ N \in Nat
      /\ P <= Q + N * now - N * last
  BY UpToNow DEF Shared
<1>5. N * now \in Nat /\ N * last \in Nat /\ (1 + sets) * Capacity \in Nat
  BY <1>2, <1>3, <1>4, Spread
<1>6. sets = 0 => sent + tokens + Q <= Capacity + N * last
  BY DEF Shared
<1>7. sent + tokens + P <= (1 + sets) * Capacity + last + N * now
  BY DEF Budget
<1>8. caller'[c] = Idle /\ \A d \in Callers \ {c} : caller'[d] = caller[d]
  BY <1>1, <1>3
<1>9. /\ IsFiniteSet(Paid(caller', now))
      /\ sent' + tokens' + Cardinality(Paid(caller', now)) = sent + tokens + P
  <2>1. /\ IsFiniteSet(Paid(caller', now))
        /\ Cardinality(Paid(caller', now)) = P - Cardinality(Part(caller[c], now))
              + Cardinality(Part(Idle, now))
    <3>1. PICK q \in CallerSet : q = Idle
      BY <1>1
    <3> QED
      BY <1>2, <1>3, <1>4, <1>8, <3>1, Swap
  <2>2. caller[c] \in CallerSet
    BY <1>3
  <2>3. Cardinality(Part(caller[c], now)) = caller[c].n
    BY <1>1, <1>2, <2>2, PartSize
  <2>4. Cardinality(Part(Idle, now)) = 0
    BY <1>1, <1>2, PartSize
  <2> HIDE DEF P
  <2> QED
    BY <1>1, <1>2, <1>3, <1>4, <2>1, <2>3, <2>4
<1>10. IsFiniteSet(Paid(caller', last))
  BY <1>1, <1>2, <1>3, <1>8, Swap DEF Shared
<1> HIDE DEF N, P, Q
<1>11. /\ sets = 0 => sent + tokens + P <= Capacity + N * now
       /\ sent + tokens + P <= (1 + sets) * Capacity + last' + N * now
  <2>1. last <= last' /\ last' \in Nat
    BY <1>1, <1>2
  <2>2. sets = 0 => sent + tokens + P <= Capacity + N * now
    BY <1>2, <1>3, <1>4, <1>5, <1>6
  <2>3. sent + tokens + P <= (1 + sets) * Capacity + last' + N * now
    <3>1. PICK k \in Nat : k = (1 + sets) * Capacity
      BY <1>5
    <3>2. PICK m \in Nat : m = N * now
      BY <1>5
    <3>3. sent + tokens + P <= k + last + m
      BY <1>7, <3>1, <3>2
    <3>4. PICK l \in Nat : l = last'
      BY <2>1
    <3>5. P \in Nat /\ last <= l
      BY <1>4, <2>1, <3>4
    <3>6. sent + tokens + P <= k + l + m
      BY <1>2, <1>3, <3>3, <3>5
    <3> QED
      BY <3>1, <3>2, <3>4, <3>6
  <2> QED
    BY <2>2, <2>3
<1>12. IsFiniteSet(Paid(caller', last'))
  <2>1. CASE last' = last
    BY <2>1, <1>10
  <2>2. CASE last' = now
    BY <2>2, <1>9
  <2> QED
    BY <1>1, <2>1, <2>2
<1> QED
  BY <1>1, <1>9, <1>11, <1>12 DEF Shared, Budget, N

LEMMA SetRateShared ==
    ASSUME Typed, Shared, Budget, SetUploadRate
    PROVE  Shared' /\ Budget'
<1> DEFINE N == Cardinality(Callers)
           P == Cardinality(Paid(caller, now))
<1>1. /\ sets' = sets + 1 /\ tokens' = Capacity /\ last' = now /\ now' = now
      /\ caller' = caller /\ sent' = sent
  BY DEF SetUploadRate
<1>2. /\ now \in Nat /\ last \in Nat /\ tokens \in Nat /\ Capacity \in Nat /\ last <= now
  BY RefilledType
<1>3. /\ sent \in Nat /\ sets \in Nat
  BY DEF Typed
<1>4. /\ IsFiniteSet(Paid(caller, now)) /\ P \in Nat /\ N \in Nat
  BY UpToNow DEF Shared
<1>5. /\ N * now \in Nat /\ (1 + sets) * Capacity \in Nat
      /\ (1 + sets') * Capacity = (1 + sets) * Capacity + Capacity
  <2>1. N * now \in Nat
    BY <1>2, <1>4, Spread
  <2>2. PICK m \in Nat : m = 1 + sets
    BY <1>3
  <2>3. (m + 1) * Capacity = m * Capacity + Capacity /\ m * Capacity \in Nat
    BY <1>2, <2>2, Spread
  <2>4. 1 + sets' = m + 1
    BY <1>1, <1>3, <2>2
  <2> QED
    BY <2>1, <2>2, <2>3, <2>4
<1>6. sent + tokens + P <= (1 + sets) * Capacity + last + N * now
  BY DEF Budget
<1> HIDE DEF N, P
<1>7. sent + Capacity + P <= (1 + sets') * Capacity + now + N * now
  BY <1>2, <1>3, <1>4, <1>5, <1>6
<1>8. sets' # 0
  BY <1>1, <1>3
<1> QED
  BY <1>1, <1>4, <1>7, <1>8 DEF Shared, Budget, N, P

LEMMA TickShared ==
    ASSUME Typed, Shared, Budget, Tick
    PROVE  Shared' /\ Budget'
<1> DEFINE N == Cardinality(Callers)
           P == Cardinality(Paid(caller, now))
           T == Cardinality(Paid(caller, now + 1))
<1>1. /\ now' = now + 1 /\ tokens' = tokens /\ last' = last /\ caller' = caller
      /\ sets' = sets /\ sent' = sent
  BY DEF Tick
<1>2. /\ now \in Nat /\ last \in Nat /\ tokens \in Nat /\ Capacity \in Nat
      /\ sent \in Nat /\ sets \in Nat /\ caller \in [Callers -> CallerSet]
  BY RefilledType DEF Typed
<1>3. /\ IsFiniteSet(Paid(caller, now)) /\ P \in Nat /\ N \in Nat
  BY UpToNow DEF Shared
<1>4. T \in Nat /\ T <= P + N
  <2>1. PICK m \in Nat : m = now + 1
    BY <1>2
  <2>2. now <= m /\ m - now = 1
    BY <1>2, <2>1
  <2>3. /\ Cardinality(Paid(caller, m)) \in Nat
        /\ Cardinality(Paid(caller, m)) <= P + N * (m - now)
    BY <1>2, <1>3, <2>2, Grow
  <2> QED
    BY <1>3, <2>1, <2>2, <2>3
<1>5. N * now \in Nat /\ N * (now + 1) = N * now + N /\ (1 + sets) * Capacity \in Nat
  BY <1>2, <1>3, Spread
<1>6. sent + tokens + P <= (1 + sets) * Capacity + last + N * now
  BY DEF Budget
<1>7. Budget'
  <2> HIDE DEF N, P, T
  <2>1. sent + tokens + T <= (1 + sets) * Capacity + last + N * (now + 1)
    BY <1>2, <1>3, <1>4, <1>5, <1>6
  <2> QED
    BY <1>1, <2>1 DEF Budget, N, T
<1>8. Shared'
  BY <1>1 DEF Shared
<1> QED
  BY <1>7, <1>8

LEMMA SharedStep == Typed /\ Shared /\ Budget /\ [Next]_vars => Shared' /\ Budget'
<1> SUFFICES ASSUME Typed, Shared, Budget, [Next]_vars PROVE Shared' /\ Budget'
  OBVIOUS
<1>1. CASE UNCHANGED vars
  BY <1>1 DEF vars, Shared, Budget
<1> QED
  BY <1>1, WaitShared, WakeShared, SetRateShared, TickShared DEF Next

LEMMA SharedAlways == Spec => [](Typed /\ Shared /\ Budget)
<1>1. Init => Typed /\ Shared /\ Budget
  BY TypedInit, SharedInit
<1>2. Typed /\ Shared /\ Budget /\ [Next]_vars => (Typed /\ Shared /\ Budget)'
  BY TypedStep, SharedStep
<1> QED
  BY <1>1, <1>2, PTL DEF Spec

\* Whatever the number of goroutines that push and the sizes of their shards,
\* what Wait lets through stays within the full buckets of the limiters and
\* one rate per goroutine, one more once a limiter has been replaced.
THEOREM CapIsShared == Spec => []WithinShare
<1>1. ASSUME Typed, Shared, Budget PROVE WithinShare
  <2> DEFINE N == Cardinality(Callers)
             P == Cardinality(Paid(caller, now))
             Q == Cardinality(Paid(caller, last))
  <2>1. /\ now \in Nat /\ last \in Nat /\ tokens \in Nat /\ Capacity \in Nat
        /\ last <= now /\ sent \in Nat /\ sets \in Nat
    BY <1>1, RefilledType DEF Typed
  <2>2. P \in Nat /\ Q \in Nat /\ N \in Nat
    BY <1>1, UpToNow DEF Shared
  <2>3. /\ N * last \in Nat /\ N * now \in Nat /\ N * last <= N * now
        /\ (N + 1) * now = N * now + now
    BY <2>1, <2>2, Spread
  <2>4. (1 + sets) * Capacity \in Nat /\ (sets = 0 => (1 + sets) * Capacity = Capacity)
    BY <2>1
  <2>5. sets = 0 => sent + tokens + Q <= Capacity + N * last
    BY <1>1 DEF Shared
  <2>6. sent + tokens + P <= (1 + sets) * Capacity + last + N * now
    BY <1>1 DEF Budget
  <2> HIDE DEF P, Q, N
  <2>7. CASE sets = 0
    <3>1. sent <= (1 + sets) * Capacity + N * now
      BY <2>1, <2>2, <2>3, <2>4, <2>5, <2>7
    <3>2. N + (IF sets = 0 THEN 0 ELSE 1) = N
      BY <2>2, <2>7
    <3> QED
      BY <3>1, <3>2 DEF WithinShare, N
  <2>8. CASE sets # 0
    <3>1. sent <= (1 + sets) * Capacity + (N + 1) * now
      BY <2>1, <2>2, <2>3, <2>4, <2>6
    <3>2. N + (IF sets = 0 THEN 0 ELSE 1) = N + 1
      BY <2>8
    <3> QED
      BY <3>1, <3>2 DEF WithinShare, N
  <2> QED
    BY <2>7, <2>8
<1> QED
  BY <1>1, SharedAlways, PTL
=============================================================================
