--------------------------- MODULE RestoreProofs ---------------------------
(***************************************************************************)
(* What Restore promises, for any schemes, any number of chunks and of     *)
(* buddies, and any number of losses: RestoredIsRecorded and ToleratesLoss.*)
(***************************************************************************)
EXTENDS Restore, FiniteSetTheorems, FunctionTheorems, TLAPS

Pieces == {Missing} \cup {Row(s, g) : s \in Schemes, g \in Slots}

Writers ==
    {Idle} \cup [pc : {"put", "fill", "push", "queue"}, scheme : Schemes,
                 next : Nat, to : Sources, left : SUBSET Buddies]

\* Only the rounds over the buddies have a buddy for a destination.
Destined ==
    writer.pc \in {"push", "queue"} => writer.to \in Buddies

Items == [to : Buddies, slot : Slots, content : Contents \ {None}]

\* The manifest and the stores, which Restore only reads.
StoreTyped ==
    /\ versions \in Seq(Schemes) /\ Len(versions) > 0
    /\ local \in [Slots -> Contents]
    /\ remote \in [Buddies -> [Slots -> Contents]]
    /\ queued \subseteq Items
    /\ online \subseteq Buddies
    /\ writer \in Writers
    /\ Destined

\* Restore itself.  It appends to the file one chunk at a time and holds no
\* piece of a chunk beyond the last.
RunTyped ==
    /\ pc \in Labels
    /\ entry \in Schemes
    /\ pieces \in Seq(Pieces) /\ Len(pieces) <= Total(entry)
    /\ asked \subseteq Buddies /\ (asked # {} => pc = "fetch")
    /\ faults \in 0 .. MaxFaults
    /\ mixed \in BOOLEAN
    /\ out = NoFile \/ (out \in Seq(BOOLEAN) /\ Len(out) <= Chunks)
    /\ pc = "idle" => out = NoFile /\ pieces = <<>>
    /\ pc \in {"read", "fetch"} =>
            /\ out \in Seq(BOOLEAN) /\ Len(out) <= Chunks
            /\ Len(out) = Chunks => pieces = <<>>
    /\ pc = "fetch" => Reading

Typed == StoreTyped /\ RunTyped

-----------------------------------------------------------------------------
(* While no shard of another scheme is about. *)

Pure ==
    \A g \in Slots :
        /\ local[g] \in {entry, None, Bad}
        /\ \A b \in Buddies : remote[b][g] \in {entry, None, Bad}

\* What is not on offer now is among what was not on offer all the time.
Watched ==
    \A at \in Sources, g \in Current : ~Offers(at, g) => g \in lapsed[at]

Within == \A at \in Sources : lapsed[at] \subseteq Current

Grown == \A at \in Sources : lapsed[at] \subseteq lapsed'[at]

Everywhere(g) == \A at \in Sources : g \in lapsed[at]

Slot(i) == Len(out) * Total(entry) + i - 1

\* A piece of the chunk is the row it should be, or there was no place that
\* had its shard all the time.
Good ==
    \A i \in 1 .. Len(pieces) :
        \/ pieces[i] = Missing /\ Everywhere(Slot(i))
        \/ pieces[i] = <<entry.data, Len(out), i - 1>>

\* The places that have been tried for the shard that is being fetched did
\* not have it all the time.
Tried == \A at \in asked \cup {Here} : Index \in lapsed[at]

Unmixed ==
    /\ pc = "idle" => \A at \in Sources : lapsed[at] = {}
    /\ pc \in {"read", "fetch"} /\ ~mixed =>
            /\ Pure /\ Watched /\ Within /\ Good /\ AllRight
            /\ pc = "fetch" => Tried

-----------------------------------------------------------------------------
(* Where the rows of a chunk lie. *)

LEMMA SchemeType ==
    ASSUME NEW s \in Schemes
    PROVE  /\ s.data \in Nat \ {0} /\ s.parity \in Nat
           /\ Total(s) \in Nat /\ Total(s) > 0 /\ Total(s) = s.data + s.parity
           /\ s # None /\ s # Bad /\ None # Bad
           /\ Indices(s) \subseteq Slots /\ s \in Contents
           /\ None \in Contents /\ Bad \in Contents
  BY RestoreAssumption DEF Total, Slots, Contents

LEMMA Quotient ==
    ASSUME NEW t \in Nat, t > 0, NEW a \in Nat, NEW k \in Nat, k < t
    PROVE  (a * t + k) \div t = a /\ (a * t + k) % t = k
<1>1. (a * t + k) \div t = a
  OBVIOUS
<1>2. (a * t + k) % t = k
  OBVIOUS
<1> QED
  BY <1>1, <1>2

LEMMA RowPlace ==
    ASSUME NEW s \in Schemes, NEW a \in Nat, NEW k \in Nat,
           a < Chunks, k < Total(s)
    PROVE  /\ a * Total(s) + k \in Indices(s) /\ a * Total(s) + k \in Nat
           /\ (a * Total(s) + k) \div Total(s) = a
           /\ Row(s, a * Total(s) + k) = <<s.data, a, k>>
<1>1. PICK t \in Nat : t = Total(s) /\ t > 0
  BY SchemeType
<1>2. (a * t + k) \div t = a /\ (a * t + k) % t = k
  BY <1>1, Quotient
<1>3. a * t + k \in 0 .. Chunks * t - 1
  <2>1. PICK d \in Nat : Chunks = a + 1 + d
    <3>1. Chunks - a - 1 \in Nat /\ Chunks = a + 1 + (Chunks - a - 1)
      BY RestoreAssumption
    <3> QED
      BY <3>1
  <2>2. (a + 1 + d) * t = a * t + t + d * t /\ d * t >= 0 /\ a * t >= 0
    OBVIOUS
  <2>3. a * t \in Nat /\ d * t \in Nat
    OBVIOUS
  <2> QED
    BY <1>1, <2>1, <2>2, <2>3
<1> QED
  BY <1>1, <1>2, <1>3 DEF Indices, Row

-----------------------------------------------------------------------------
(* Types. *)

LEMMA TypedInit == Init => Typed
<1> SUFFICES ASSUME Init PROVE Typed
  OBVIOUS
<1>1. PICK s \in Schemes :
        /\ versions = <<s>> /\ local = Full(s)
        /\ remote \in [Buddies -> {Full(s), Empty}] /\ online = Buddies
        /\ queued = UNION {Pushes(b, s) : b \in {b \in Buddies : remote[b] = Empty}}
        /\ writer = Idle /\ pc = "idle" /\ entry = s /\ pieces = <<>>
        /\ asked = {} /\ out = NoFile /\ faults = 0 /\ mixed = FALSE
  BY DEF Init
<1>2. Full(s) \in [Slots -> Contents] /\ Empty \in [Slots -> Contents]
  BY SchemeType DEF Full, Empty
<1>3. Total(s) \in Nat
  BY SchemeType
<1>4. StoreTyped
  <2>1. queued \subseteq Items
    BY <1>1, SchemeType DEF Pushes, Items
  <2>2. writer \in Writers /\ Destined
    BY <1>1 DEF Writers, Destined, Idle
  <2> QED
    BY <1>1, <1>2, <2>1, <2>2 DEF StoreTyped
<1>5. RunTyped
  <2>1. pieces \in Seq(Pieces) /\ Len(pieces) = 0
    BY <1>1
  <2>5. asked = {}
    BY <1>1
  <2>2. /\ pc \in Labels /\ entry \in Schemes /\ Len(pieces) <= Total(entry)
        /\ faults \in 0 .. MaxFaults
    BY <1>1, <1>3, <2>1, RestoreAssumption DEF Labels
  <2>4. mixed \in BOOLEAN
    BY <1>1, Zenon
  <2>3. pc \notin {"read", "fetch"} /\ pc # "fetch" /\ out = NoFile /\ pieces = <<>>
    BY <1>1
  <2> QED
    BY <2>1, <2>2, <2>3, <2>4, <2>5 DEF RunTyped
<1> QED
  BY <1>4, <1>5 DEF Typed

\* Restore writes neither the stores nor the manifest, and no one but Restore
\* writes its own state.
LEMMA RestoreQuiet == RestoreStep => UNCHANGED stores
<1>1. ASSUME NEW b \in Buddies, Fetch(b) PROVE UNCHANGED stores
  BY <1>1 DEF Fetch
<1>2. ASSUME NEW v \in 0 .. MaxVersions, Start(v) PROVE UNCHANGED stores
  BY <1>2 DEF Start
<1> QED
  BY <1>1, <1>2 DEF RestoreStep, Refused, ReadLocal, LocalMissing, NoneSends,
                    Merge, WriteFails, Finish

LEMMA StoreKept == StoreTyped /\ UNCHANGED stores => StoreTyped'
  BY DEF stores, StoreTyped, Destined

LEMMA EnvironmentQuiet ==
    Environment /\ faults \in 0 .. MaxFaults =>
        UNCHANGED run /\ faults' \in 0 .. MaxFaults
<1> SUFFICES ASSUME Environment, faults \in 0 .. MaxFaults
             PROVE  UNCHANGED run /\ faults' \in 0 .. MaxFaults
  OBVIOUS
<1>1. MaxFaults \in Nat
  BY RestoreAssumption
<1>2. ASSUME NEW s \in Schemes, BackupStart(s)
      PROVE  UNCHANGED run /\ faults' \in 0 .. MaxFaults
  BY <1>2 DEF BackupStart
<1>3. CASE BackupTruncate \/ BackupFill \/ BackupPush \/ BackupEnqueue \/ BackupRecord
  BY <1>3 DEF BackupTruncate, BackupFill, BackupPush, BackupEnqueue, BackupRecord
<1>4. ASSUME NEW b \in Buddies, BackupReach(b) \/ Flip(b)
      PROVE  UNCHANGED run /\ faults' \in 0 .. MaxFaults
  BY <1>4 DEF BackupReach, Flip
<1>5. ASSUME NEW g \in Fragile, NEW how \in {None, Bad}, Damage(g, how)
      PROVE  UNCHANGED run /\ faults' \in 0 .. MaxFaults
  BY <1>1, <1>5 DEF Damage
<1>6. ASSUME NEW item \in queued, Deliver(item)
      PROVE  UNCHANGED run /\ faults' \in 0 .. MaxFaults
  BY <1>1, <1>6 DEF Deliver
<1> QED
  BY <1>2, <1>3, <1>4, <1>5, <1>6 DEF Environment

LEMMA WriterType ==
    ASSUME writer \in Writers, writer.pc # "idle"
    PROVE  /\ writer \in [pc : {"put", "fill", "push", "queue"}, scheme : Schemes,
                           next : Nat, to : Sources, left : SUBSET Buddies]
           /\ writer.scheme \in Schemes /\ writer.next \in Nat
           /\ writer.left \subseteq Buddies
<1>1. Idle.pc = "idle"
  BY DEF Idle
<1> QED
  BY <1>1 DEF Writers

\* A step of the backup to its next shard keeps the destination.
LEMMA WriterStep ==
    ASSUME writer \in Writers, Destined, writer.pc # "idle",
           NEW p \in {"put", "fill", "push", "queue"}, NEW n \in Nat,
           p = writer.pc \/ p \in {"put", "fill"},
           writer' = [writer EXCEPT !.pc = p, !.next = n]
    PROVE  writer' \in Writers /\ Destined'
<1>1. writer \in [pc : {"put", "fill", "push", "queue"}, scheme : Schemes,
                  next : Nat, to : Sources, left : SUBSET Buddies]
  BY WriterType
<1>2. /\ writer' \in [pc : {"put", "fill", "push", "queue"}, scheme : Schemes,
                       next : Nat, to : Sources, left : SUBSET Buddies]
      /\ writer'.pc = p /\ writer'.to = writer.to
  BY <1>1
<1>3. Destined'
  BY <1>2 DEF Destined
<1> QED
  BY <1>2, <1>3 DEF Writers

LEMMA EnvironmentStores ==
    ASSUME StoreTyped, Environment
    PROVE  StoreTyped'
<1>1. /\ versions \in Seq(Schemes) /\ Len(versions) > 0
      /\ local \in [Slots -> Contents]
      /\ remote \in [Buddies -> [Slots -> Contents]]
      /\ queued \subseteq Items
      /\ online \subseteq Buddies
      /\ writer \in Writers /\ Destined
  BY DEF StoreTyped
<1>2. ASSUME NEW s \in Schemes, BackupStart(s) PROVE StoreTyped'
  <2>1. writer' = [pc |-> "put", scheme |-> s, next |-> 0, to |-> Here,
                   left |-> Buddies]
    BY <1>2 DEF BackupStart
  <2>2. writer' \in Writers /\ Destined'
    BY <2>1 DEF Writers, Destined, Sources
  <2> QED
    BY <1>1, <1>2, <2>2 DEF BackupStart, StoreTyped
<1>3. ASSUME BackupTruncate PROVE StoreTyped'
  <2>1. local' = [local EXCEPT ![writer.next] = Bad] /\ Bad \in Contents
        /\ writer.pc = "put"
    BY <1>3 DEF BackupTruncate, Shard, Contents
  <2>2. local' \in [Slots -> Contents]
    BY <1>1, <2>1
  <2>3. writer' = [writer EXCEPT !.pc = "fill", !.next = writer.next] /\ writer.next \in Nat
    BY <1>1, <1>3, <2>1, WriterType DEF BackupTruncate
  <2>4. writer' \in Writers /\ Destined'
    BY <1>1, <2>1, <2>3, WriterStep
  <2> QED
    BY <1>1, <1>3, <2>2, <2>4 DEF BackupTruncate, StoreTyped
<1>4. ASSUME BackupFill PROVE StoreTyped'
  <2>1. /\ local' = [local EXCEPT ![writer.next] = writer.scheme]
        /\ writer.scheme \in Contents /\ writer.pc = "fill" /\ writer.next + 1 \in Nat
    BY <1>1, <1>4, WriterType DEF BackupFill, Shard, Contents
  <2>2. local' \in [Slots -> Contents]
    BY <1>1, <2>1
  <2>3. writer' = [writer EXCEPT !.pc = "put", !.next = writer.next + 1]
    BY <1>4 DEF BackupFill
  <2>4. writer' \in Writers /\ Destined'
    BY <1>1, <2>1, <2>3, WriterStep
  <2> QED
    BY <1>1, <1>4, <2>2, <2>4 DEF BackupFill, StoreTyped
<1>5. ASSUME NEW b \in Buddies, BackupReach(b) PROVE StoreTyped'
  <2> DEFINE p == IF b \in online THEN "push" ELSE "queue"
  <2>1. /\ writer \in [pc : {"put", "fill", "push", "queue"}, scheme : Schemes,
                        next : Nat, to : Sources, left : SUBSET Buddies]
        /\ writer.left \ {b} \subseteq Buddies
    BY <1>1, <1>5, WriterType DEF BackupReach, Round
  <2>2. writer' = [writer EXCEPT !.pc = p, !.next = 0, !.to = b,
                                 !.left = writer.left \ {b}]
    BY <1>5 DEF BackupReach
  <2>3. p \in {"push", "queue"} /\ b \in Sources
    BY DEF Sources
  <2> HIDE DEF p
  <2>4. writer' \in Writers /\ writer'.to = b
    BY <2>1, <2>2, <2>3 DEF Writers
  <2>5. Destined'
    BY <2>4 DEF Destined
  <2> QED
    BY <1>1, <1>5, <2>4, <2>5 DEF BackupReach, StoreTyped
<1>6. ASSUME BackupPush PROVE StoreTyped'
  <2>1. writer.pc = "push" /\ writer.to \in Buddies
    BY <1>1, <1>6 DEF BackupPush, Shard, Destined
  <2>2. writer.scheme \in Schemes /\ writer.next \in Nat /\ writer.next + 1 \in Nat
    BY <1>1, <2>1, WriterType
  <2>3. writer.next \in Slots
    BY <1>6, <2>2, SchemeType DEF BackupPush, Shard
  <2>4. \/ remote' = remote
        \/ remote' = [remote EXCEPT ![writer.to][writer.next] = local[writer.next]]
    BY <1>6 DEF BackupPush
  <2>5. local[writer.next] \in Contents
    BY <1>1, <2>3
  <2>6. remote' \in [Buddies -> [Slots -> Contents]]
    BY <1>1, <2>1, <2>3, <2>4, <2>5
  <2>7. writer' = [writer EXCEPT !.pc = writer.pc, !.next = writer.next + 1]
    BY <1>1, <1>6, <2>1, WriterType DEF BackupPush
  <2>8. writer' \in Writers /\ Destined'
    BY <1>1, <2>1, <2>2, <2>7, WriterStep
  <2> QED
    BY <1>1, <1>6, <2>6, <2>8 DEF BackupPush, StoreTyped
<1>7. ASSUME NEW b \in Buddies, Flip(b) PROVE StoreTyped'
  BY <1>1, <1>7 DEF Flip, StoreTyped, Destined
<1>8. ASSUME BackupRecord PROVE StoreTyped'
  <2>1. writer.scheme \in Schemes /\ versions' = Append(versions, writer.scheme)
    BY <1>1, <1>8, WriterType DEF BackupRecord, Round
  <2>2. versions' \in Seq(Schemes) /\ Len(versions') > 0
    BY <1>1, <2>1
  <2>3. writer' \in Writers /\ Destined'
    BY <1>8 DEF BackupRecord, Writers, Destined, Idle
  <2> QED
    BY <1>1, <1>8, <2>2, <2>3 DEF BackupRecord, StoreTyped
<1>9. ASSUME NEW g \in Fragile, NEW how \in {None, Bad}, Damage(g, how)
      PROVE  StoreTyped'
  <2>1. how \in Contents
    BY DEF Contents
  <2>2. \/ local' = [local EXCEPT ![g] = how] /\ remote' = remote
        \/ local' = local /\ \E b \in Buddies : remote' = [remote EXCEPT ![b][g] = how]
    BY <1>9 DEF Damage
  <2>3. ASSUME local' = [local EXCEPT ![g] = how], remote' = remote
        PROVE  local' \in [Slots -> Contents] /\ remote' \in [Buddies -> [Slots -> Contents]]
    BY <1>1, <2>1, <2>3
  <2>4. ASSUME local' = local, NEW b \in Buddies, remote' = [remote EXCEPT ![b][g] = how]
        PROVE  local' \in [Slots -> Contents] /\ remote' \in [Buddies -> [Slots -> Contents]]
    BY <1>1, <2>1, <2>4
  <2>5. local' \in [Slots -> Contents] /\ remote' \in [Buddies -> [Slots -> Contents]]
    BY <2>2, <2>3, <2>4
  <2> QED
    BY <1>1, <1>9, <2>5 DEF Damage, StoreTyped, Destined
<1>10. ASSUME BackupEnqueue PROVE StoreTyped'
  <2>1. writer.pc = "queue" /\ writer.to \in Buddies
    BY <1>1, <1>10 DEF BackupEnqueue, Shard, Destined
  <2>2. writer.scheme \in Schemes /\ writer.next \in Nat /\ writer.next + 1 \in Nat
    BY <1>1, <2>1, WriterType
  <2>3. writer.next \in Slots
    BY <1>10, <2>2, SchemeType DEF BackupEnqueue, Shard
  <2>4. local[writer.next] \in Contents
    BY <1>1, <2>3
  <2>5. queued' = (IF local[writer.next] = None THEN queued
                   ELSE queued \cup {[to |-> writer.to, slot |-> writer.next,
                                     content |-> local[writer.next]]})
    BY <1>10 DEF BackupEnqueue
  <2>6. queued' \subseteq Items
    BY <1>1, <2>1, <2>3, <2>4, <2>5 DEF Items
  <2>7. writer' = [writer EXCEPT !.pc = writer.pc, !.next = writer.next + 1]
    BY <1>1, <1>10, <2>1, WriterType DEF BackupEnqueue
  <2>8. writer' \in Writers /\ Destined'
    BY <1>1, <2>1, <2>2, <2>7, WriterStep
  <2> QED
    BY <1>1, <1>10, <2>6, <2>8 DEF BackupEnqueue, StoreTyped
<1>11. ASSUME NEW item \in queued, Deliver(item) PROVE StoreTyped'
  <2>1. item.to \in Buddies /\ item.slot \in Slots /\ item.content \in Contents
    BY <1>1 DEF Items
  <2>2. /\ remote' = [remote EXCEPT ![item.to][item.slot] = item.content]
        /\ queued' \subseteq queued
    BY <1>11 DEF Deliver
  <2>3. remote' \in [Buddies -> [Slots -> Contents]]
    BY <1>1, <2>1, <2>2
  <2> QED
    BY <1>1, <1>11, <2>2, <2>3 DEF Deliver, StoreTyped, Destined
<1> QED
  BY <1>2, <1>3, <1>4, <1>5, <1>6, <1>7, <1>8, <1>9, <1>10, <1>11 DEF Environment

LEMMA ObserveType == mixed \in BOOLEAN /\ Observe => mixed' \in BOOLEAN
<1> SUFFICES ASSUME mixed \in BOOLEAN, Observe PROVE mixed' \in BOOLEAN
  OBVIOUS
<1>1. CASE pc' \in {"read", "fetch"}
  <2> DEFINE Others == \E g \in Slots :
                \/ local'[g] \in Schemes \ {entry'}
                \/ \E b \in Buddies : remote'[b][g] \in Schemes \ {entry'}
  <2>1. mixed' = (mixed \/ Others)
    BY <1>1 DEF Observe
  <2> HIDE DEF Others
  <2> QED
    BY <2>1, Zenon
<1>2. CASE pc' \notin {"read", "fetch"}
  <2>1. mixed' = mixed
    BY <1>2 DEF Observe
  <2> QED
    BY <2>1, Zenon
<1> QED
  BY <1>1, <1>2

\* Where the shard that is read next lies, and what it may turn out to be.
LEMMA IndexType ==
    ASSUME Typed, pc \in {"read", "fetch"}, Reading
    PROVE  /\ Index \in Indices(entry) /\ Index \in Slots /\ Index \in Current
           /\ Index = Slot(Len(pieces) + 1)
           /\ Row(entry, Index) = <<entry.data, Len(out), Len(pieces)>>
           /\ Len(pieces) \in Nat /\ Len(out) \in Nat /\ Total(entry) \in Nat
<1>1. /\ entry \in Schemes /\ pieces \in Seq(Pieces) /\ out \in Seq(BOOLEAN)
  BY DEF Typed, RunTyped
<1>2. PICK a \in Nat : a = Len(out)
  BY <1>1
<1>3. PICK k \in Nat : k = Len(pieces)
  BY <1>1
<1>4. a < Chunks /\ k < Total(entry)
  BY <1>2, <1>3 DEF Reading
<1>5. /\ a * Total(entry) + k \in Indices(entry) /\ a * Total(entry) + k \in Nat
      /\ (a * Total(entry) + k) \div Total(entry) = a
      /\ Row(entry, a * Total(entry) + k) = <<entry.data, a, k>>
  BY <1>1, <1>4, RowPlace
<1>6. Index = a * Total(entry) + k
  BY <1>2, <1>3 DEF Index
<1>7. Index \in Indices(entry) /\ Index \div Total(entry) = a
      /\ Row(entry, Index) = <<entry.data, a, k>>
  BY <1>5, <1>6
<1>8. Index \in Slots /\ Total(entry) \in Nat
  BY <1>1, <1>7, SchemeType
<1>9. Index \in Current
  BY <1>2, <1>7 DEF Current
<1>10. Index = Slot(Len(pieces) + 1)
  <2>1. PICK t \in Nat : t = Total(entry)
    BY <1>8
  <2>2. a * t + k = a * t + (k + 1) - 1
    OBVIOUS
  <2> QED
    BY <1>2, <1>3, <1>6, <2>1, <2>2 DEF Slot
<1> QED
  BY <1>2, <1>3, <1>7, <1>8, <1>9, <1>10

LEMMA PieceType ==
    ASSUME NEW c \in Contents, c # None, NEW g \in Slots
    PROVE  Plaintext(c, g) \in Pieces
  BY DEF Contents, Plaintext, Pieces

LEMMA RunKept ==
    ASSUME RunTyped, UNCHANGED run, faults' \in 0 .. MaxFaults, mixed' \in BOOLEAN
    PROVE  RunTyped'
<1>1. pc' = pc /\ entry' = entry /\ pieces' = pieces /\ asked' = asked /\ out' = out
  BY DEF run
<1>2. Reading' <=> Reading
  BY <1>1 DEF Reading
<1> QED
  BY <1>1, <1>2 DEF RunTyped

\* A shard is read, from here or from a buddy, or found nowhere.
LEMMA PieceRead ==
    ASSUME Typed, pc \in {"read", "fetch"}, Reading, NEW x \in Pieces,
           pieces' = Append(pieces, x), pc' = "read", asked' = {},
           UNCHANGED <<entry, out, faults>>, mixed' \in BOOLEAN
    PROVE  RunTyped'
<1>1. /\ entry \in Schemes /\ pieces \in Seq(Pieces) /\ out \in Seq(BOOLEAN)
      /\ Len(out) <= Chunks /\ faults \in 0 .. MaxFaults
  BY DEF Typed, RunTyped
<1>2. /\ pieces' \in Seq(Pieces) /\ Len(pieces') = Len(pieces) + 1
  BY <1>1
<1>3. Len(pieces) \in Nat /\ Len(pieces) < Total(entry) /\ Total(entry) \in Nat /\ Len(out) < Chunks
      /\ Len(out) \in Nat
  BY IndexType DEF Reading
<1>4. Len(pieces') <= Total(entry') /\ Len(out') # Chunks
  BY <1>2, <1>3, RestoreAssumption
<1> QED
  BY <1>1, <1>2, <1>4 DEF RunTyped, Labels

LEMMA RestoreTyped ==
    ASSUME Typed, RestoreStep, mixed' \in BOOLEAN
    PROVE  RunTyped'
<1>1. /\ entry \in Schemes /\ pieces \in Seq(Pieces) /\ Len(pieces) <= Total(entry)
      /\ faults \in 0 .. MaxFaults
      /\ asked \subseteq Buddies /\ (asked # {} => pc = "fetch")
      /\ out = NoFile \/ (out \in Seq(BOOLEAN) /\ Len(out) <= Chunks)
      /\ pc = "idle" => out = NoFile /\ pieces = <<>>
      /\ pc \in {"read", "fetch"} =>
            /\ out \in Seq(BOOLEAN) /\ Len(out) <= Chunks /\ Len(out) \in Nat
            /\ Len(out) = Chunks => pieces = <<>>
  BY DEF Typed, RunTyped
<1>2. /\ versions \in Seq(Schemes) /\ Len(versions) > 0
      /\ local \in [Slots -> Contents] /\ remote \in [Buddies -> [Slots -> Contents]]
      /\ online \subseteq Buddies
  BY DEF Typed, StoreTyped
<1>3. ASSUME NEW v \in 0 .. MaxVersions, Start(v) PROVE RunTyped'
  <2>1. entry' \in Schemes
    BY <1>2, <1>3 DEF Start, Selected
  <2>2. /\ pc' = "read" /\ out' = <<>> /\ pieces' = <<>> /\ faults' = faults
        /\ asked' = {}
    BY <1>1, <1>3 DEF Start
  <2>3. out' \in Seq(BOOLEAN) /\ Len(out') = 0 /\ pieces' \in Seq(Pieces) /\ Len(pieces') = 0
    BY <2>2
  <2>4. Len(out') <= Chunks /\ Len(pieces') <= Total(entry')
    BY <2>1, <2>3, SchemeType, RestoreAssumption
  <2> QED
    BY <1>1, <2>1, <2>2, <2>3, <2>4 DEF RunTyped, Labels
<1>4. ASSUME Refused PROVE RunTyped'
  BY <1>1, <1>4 DEF Refused, RunTyped, Labels
<1>5. ASSUME ReadLocal PROVE RunTyped'
  <2>1. pc = "read" /\ Reading /\ local[Index] # None
        /\ pieces' = Append(pieces, Plaintext(local[Index], Index)) /\ pc' = pc
        /\ UNCHANGED <<entry, out, faults>> /\ asked' = {}
    BY <1>1, <1>5 DEF ReadLocal
  <2>2. Plaintext(local[Index], Index) \in Pieces
    BY <1>2, <2>1, IndexType, PieceType
  <2> QED
    BY <2>1, <2>2, PieceRead
<1>6. ASSUME LocalMissing PROVE RunTyped'
  <2>1. pc = "read" /\ Reading /\ pc' = "fetch"
        /\ UNCHANGED <<entry, pieces, asked, out, faults>>
    BY <1>6 DEF LocalMissing
  <2>2. Reading'
    BY <2>1 DEF Reading
  <2> QED
    BY <1>1, <2>1, <2>2 DEF RunTyped, Labels
<1>7. ASSUME NEW b \in Buddies, Fetch(b) PROVE RunTyped'
  <2>1. pc = "fetch" /\ UNCHANGED <<entry, out, faults>>
    BY <1>7 DEF Fetch
  <2>2. Reading
    BY <2>1 DEF Typed, RunTyped
  <2>3. CASE Sends(b) /\ Got(Plaintext(remote[b][Index], Index))
    <3>1. Index \in Slots
      BY <2>1, <2>2, IndexType
    <3>2. remote[b][Index] \in Contents /\ remote[b][Index] # None
      BY <1>2, <2>3, <3>1 DEF Sends
    <3>3. Plaintext(remote[b][Index], Index) \in Pieces
      BY <3>1, <3>2, PieceType
    <3> QED
      BY <2>1, <2>2, <2>3, <3>3, PieceRead DEF Got
  <2>4. CASE asked' = asked \cup {b} /\ UNCHANGED <<pc, pieces>>
    <3>1. Reading'
      BY <2>1, <2>2, <2>4 DEF Reading
    <3> QED
      BY <1>1, <2>1, <2>4, <3>1 DEF RunTyped, Labels
  <2> QED
    BY <1>7, <2>3, <2>4 DEF Fetch
<1>11. ASSUME NoneSends PROVE RunTyped'
  <2>1. pc = "fetch" /\ UNCHANGED <<entry, out, faults>> /\ Got(Missing)
    BY <1>11 DEF NoneSends
  <2>2. Reading
    BY <2>1 DEF Typed, RunTyped
  <2>3. Missing \in Pieces
    BY DEF Pieces
  <2> QED
    BY <2>1, <2>2, <2>3, PieceRead DEF Got
<1>8. ASSUME Merge PROVE RunTyped'
  <2>1. pc = "read" /\ Len(out) < Chunks /\ UNCHANGED <<entry, faults>> /\ asked' = {}
    BY <1>1, <1>8 DEF Merge
  <2>2. CASE out' = Append(out, Right) /\ pieces' = <<>> /\ pc' = pc
    <3>2. out' \in Seq(BOOLEAN) /\ Len(out') = Len(out) + 1
      BY <1>1, <2>1, <2>2 DEF Right
    <3>3. Len(out') <= Chunks
      BY <1>1, <2>1, <3>2, RestoreAssumption
    <3>4. pieces' \in Seq(Pieces) /\ Len(pieces') = 0
      BY <2>2
    <3>5. Len(pieces') <= Total(entry')
      BY <1>1, <2>1, <3>4, SchemeType
    <3> QED
      BY <1>1, <2>1, <2>2, <3>2, <3>3, <3>4, <3>5 DEF RunTyped, Labels
  <2>3. CASE pc' = "failed" /\ UNCHANGED <<out, pieces>>
    BY <1>1, <2>1, <2>3 DEF RunTyped, Labels
  <2> QED
    BY <1>8, <2>2, <2>3 DEF Merge
<1>9. ASSUME WriteFails PROVE RunTyped'
  BY <1>1, <1>9, RestoreAssumption DEF WriteFails, RunTyped, Labels
<1>10. ASSUME Finish PROVE RunTyped'
  <2>1. /\ pc' \in {"ok", "failed", "leftover"} /\ out' \in {out, NoFile} /\ asked' = {}
        /\ faults' \in 0 .. MaxFaults /\ UNCHANGED <<entry, pieces>>
    BY <1>1, <1>10, RestoreAssumption DEF Finish
  <2> QED
    BY <1>1, <2>1 DEF RunTyped, Labels
<1> QED
  BY <1>3, <1>4, <1>5, <1>6, <1>7, <1>8, <1>9, <1>10, <1>11 DEF RestoreStep

LEMMA TypedStep == Typed /\ [Next]_vars => Typed'
<1> SUFFICES ASSUME Typed, [Next]_vars PROVE Typed'
  OBVIOUS
<1>1. StoreTyped /\ RunTyped /\ mixed \in BOOLEAN /\ faults \in 0 .. MaxFaults
  BY DEF Typed, RunTyped
<1>2. CASE UNCHANGED vars
  <2>1. UNCHANGED stores /\ UNCHANGED run /\ faults' = faults /\ mixed' = mixed
    BY <1>2 DEF vars
  <2>2. mixed' \in BOOLEAN
    BY <1>1, <2>1, Zenon
  <2> QED
    BY <1>1, <2>1, <2>2, StoreKept, RunKept DEF Typed
<1>3. CASE RestoreStep /\ Observe
  BY <1>1, <1>3, ObserveType, RestoreQuiet, StoreKept, RestoreTyped DEF Typed
<1>4. CASE Environment /\ Observe
  BY <1>1, <1>4, ObserveType, EnvironmentQuiet, EnvironmentStores, RunKept DEF Typed
<1> QED
  BY <1>2, <1>3, <1>4 DEF Next

LEMMA TypedAlways == Spec => []Typed
  BY TypedInit, TypedStep, PTL DEF Spec

\* Restore reads no shard beyond those of the entry's chunks and writes no
\* chunk beyond the last, whatever a backup does to the stores meanwhile.
THEOREM TypeCorrect == Spec => []TypeOK
<1>1. Typed => TypeOK
  BY DEF Typed, StoreTyped, RunTyped, TypeOK, Items
<1> QED
  BY <1>1, TypedAlways, PTL

-----------------------------------------------------------------------------
(* A restore that succeeds has written what was recorded. *)

\* Once Restore has returned nothing changes, and until then only its own
\* steps move it.
LEMMA Moves ==
    ASSUME [Next]_vars, RunTyped
    PROVE  \/ ~Done /\ RestoreStep /\ Observe
           \/ ~Done /\ UNCHANGED run /\ Observe
           \/ UNCHANGED run /\ UNCHANGED <<lapsed, mixed>>
<1>1. CASE UNCHANGED vars
  BY <1>1 DEF vars
<1>2. RestoreStep => ~Done
  BY DEF RestoreStep, Start, Refused, ReadLocal, LocalMissing, Fetch, NoneSends,
         Merge, WriteFails, Finish, Done
<1>3. ~Done /\ Environment => UNCHANGED run
  BY EnvironmentQuiet DEF RunTyped
<1> QED
  BY <1>1, <1>2, <1>3 DEF Next

LEMMA RecordedKept ==
    ASSUME RestoredIsRecorded, UNCHANGED run
    PROVE  RestoredIsRecorded'
<1>1. pc' = pc /\ out' = out
  BY DEF run
<1> QED
  BY <1>1 DEF RestoredIsRecorded, Done, AllRight

LEMMA RecordedStep ==
    Typed /\ RestoredIsRecorded /\ [Next]_vars => RestoredIsRecorded'
<1> SUFFICES ASSUME Typed, RestoredIsRecorded, [Next]_vars PROVE RestoredIsRecorded'
  OBVIOUS
<1>1. /\ entry \in Schemes /\ Total(entry) > 0 /\ Len(<<>>) = 0 /\ Chunks \in Nat
  BY SchemeType, RestoreAssumption DEF Typed, RunTyped
<1>2. /\ pc = "idle" => out = NoFile
      /\ pc = "read" => Len(out) \in Nat /\ (Len(out) = Chunks => pieces = <<>>)
  BY DEF Typed, RunTyped
<1>3. ASSUME pc' \in {"read", "fetch", "idle"} PROVE RestoredIsRecorded'
  BY <1>3 DEF RestoredIsRecorded, Done
<1>4. ASSUME RestoreStep PROVE RestoredIsRecorded'
  <2>1. ASSUME NEW v \in 0 .. MaxVersions, Start(v) PROVE pc' = "read"
    BY <2>1 DEF Start
  <2>2. ASSUME ReadLocal \/ LocalMissing \/ NoneSends PROVE pc' \in {"read", "fetch"}
    BY <2>2 DEF ReadLocal, LocalMissing, NoneSends, Got
  <2>7. ASSUME NEW b \in Buddies, Fetch(b) PROVE pc' \in {"read", "fetch"}
    BY <2>7 DEF Fetch, Got
  <2>3. ASSUME Refused PROVE RestoredIsRecorded'
    BY <1>2, <2>3 DEF Refused, RestoredIsRecorded
  <2>4. ASSUME Merge PROVE RestoredIsRecorded'
    <3>1. pc' = "read" \/ (pc' = "failed" /\ out' = out /\ Len(out) # Chunks)
      BY <1>1, <1>2, <2>4 DEF Merge
    <3> QED
      BY <3>1, <1>3 DEF RestoredIsRecorded
  <2>5. ASSUME WriteFails PROVE RestoredIsRecorded'
    <3>1. pc' = "refused" /\ out' = out /\ Len(out) # Chunks
      BY <1>1, <1>2, <2>5 DEF WriteFails
    <3> QED
      BY <3>1 DEF RestoredIsRecorded
  <2>6. ASSUME Finish PROVE RestoredIsRecorded'
    <3>1. \/ AllRight /\ pc' = "ok" /\ out' = out /\ Len(out) = Chunks
          \/ pc' = "failed" /\ out' = NoFile
          \/ pc' = "leftover"
      BY <2>6 DEF Finish
    <3> QED
      BY <3>1 DEF RestoredIsRecorded, AllRight
  <2> QED
    BY <1>3, <1>4, <2>1, <2>2, <2>3, <2>4, <2>5, <2>6, <2>7 DEF RestoreStep
<1> QED
  BY <1>4, Moves, RecordedKept DEF Typed

\* Whatever shards of other schemes, damaged shards and failures Restore
\* meets, late deliveries from the queue included: it reports success only for
\* the whole recorded content, and leaves no complete file with another
\* content unless its removal fails.
THEOREM RestoresOnlyRecorded == Spec => []RestoredIsRecorded
<1>1. Init => RestoredIsRecorded
  BY DEF Init, RestoredIsRecorded, Done
<1> QED
  BY <1>1, TypedAlways, RecordedStep, PTL DEF Spec

-----------------------------------------------------------------------------
(* The loss that Restore tolerates. *)

\* The histories while Restore reads.
LEMMA Observed ==
    ASSUME Observe, pc' \in {"read", "fetch"}, ~mixed'
    PROVE  /\ ~mixed
           /\ \A g \in Slots :
                /\ local'[g] \notin Schemes \ {entry'}
                /\ \A b \in Buddies : remote'[b][g] \notin Schemes \ {entry'}
           /\ \A at \in Sources :
                lapsed'[at] = (IF out' = out THEN lapsed[at] ELSE {})
                                \cup {g \in Current' : ~Offers(at, g)'}
<1> DEFINE Others == \E g \in Slots :
                \/ local'[g] \in Schemes \ {entry'}
                \/ \E b \in Buddies : remote'[b][g] \in Schemes \ {entry'}
<1>1. mixed' = (mixed \/ Others)
  BY DEF Observe
<1>2. lapsed' = [at \in Sources |->
                IF mixed' THEN {}
                ELSE (IF out' = out THEN lapsed[at] ELSE {})
                        \cup {g \in Current' : ~Offers(at, g)'}]
  BY DEF Observe
<1>3. ~mixed /\ ~Others
  <2> HIDE DEF Others
  <2> QED
    BY <1>1, Zenon
<1>4. \A at \in Sources :
        lapsed'[at] = (IF out' = out THEN lapsed[at] ELSE {})
                        \cup {g \in Current' : ~Offers(at, g)'}
  BY <1>2
<1> QED
  BY <1>3, <1>4

\* What the histories say holds after every step in which Restore reads on;
\* it remains what Restore has read itself.
LEMMA Watching ==
    ASSUME Typed', Observe, pc' \in {"read", "fetch"}, ~mixed',
           out' = out => \A at \in Sources : lapsed[at] \subseteq Current'
    PROVE  /\ Pure' /\ Watched' /\ Within'
           /\ out' = out => Grown
<1>1. /\ \A g \in Slots :
                /\ local'[g] \notin Schemes \ {entry'}
                /\ \A b \in Buddies : remote'[b][g] \notin Schemes \ {entry'}
      /\ \A at \in Sources :
            lapsed'[at] = (IF out' = out THEN lapsed[at] ELSE {})
                            \cup {g \in Current' : ~Offers(at, g)'}
  BY Observed
<1>2. /\ local' \in [Slots -> Contents] /\ remote' \in [Buddies -> [Slots -> Contents]]
  BY DEF Typed, StoreTyped
<1>3. Pure'
  BY <1>1, <1>2 DEF Pure, Contents
<1>4. Watched'
  BY <1>1 DEF Watched
<1>5. Within'
  BY <1>1 DEF Within
<1>6. out' = out => Grown
  BY <1>1 DEF Grown
<1> QED
  BY <1>3, <1>4, <1>5, <1>6

LEMMA GoodKept ==
    ASSUME Good, UNCHANGED <<entry, pieces, out>>, Grown
    PROVE  Good'
<1>1. \A i : Slot(i)' = Slot(i)
  BY DEF Slot
<1>2. \A g : Everywhere(g) => Everywhere(g)'
  BY DEF Grown, Everywhere
<1> QED
  BY <1>1, <1>2 DEF Good

LEMMA GoodRead ==
    ASSUME Typed, pc \in {"read", "fetch"}, Reading, Good, UNCHANGED <<entry, out>>,
           Grown, NEW x, pieces' = Append(pieces, x), x \in Pieces,
           \/ x = Missing /\ Everywhere(Index)
           \/ x = Row(entry, Index)
    PROVE  Good'
<1>1. \A i : Slot(i)' = Slot(i)
  BY DEF Slot
<1>8. \A g : Everywhere(g) => Everywhere(g)'
  BY DEF Grown, Everywhere
<1>2. /\ Index = Slot(Len(pieces) + 1) /\ Len(pieces) \in Nat
      /\ Row(entry, Index) = <<entry.data, Len(out), Len(pieces)>>
      /\ pieces \in Seq(Pieces)
  BY IndexType DEF Typed, RunTyped
<1>3. /\ Len(pieces') = Len(pieces) + 1 /\ pieces'[Len(pieces) + 1] = x
      /\ \A i \in 1 .. Len(pieces) : pieces'[i] = pieces[i]
  BY <1>2
<1>4. PICK k \in Nat : k = Len(pieces)
  BY <1>2
<1>5. ASSUME NEW i \in 1 .. k
      PROVE  \/ pieces'[i] = Missing /\ Everywhere(Slot(i))'
             \/ pieces'[i] = <<entry.data, Len(out), i - 1>>
  BY <1>1, <1>3, <1>4, <1>5, <1>8 DEF Good
<1>6. \/ pieces'[k + 1] = Missing /\ Everywhere(Slot(k + 1))'
      \/ pieces'[k + 1] = <<entry.data, Len(out), (k + 1) - 1>>
  <2>1. (k + 1) - 1 = k
    OBVIOUS
  <2> QED
    BY <1>1, <1>2, <1>3, <1>4, <1>8, <2>1
<1>7. ASSUME NEW i \in 1 .. k + 1
      PROVE  \/ pieces'[i] = Missing /\ Everywhere(Slot(i))'
             \/ pieces'[i] = <<entry.data, Len(out), i - 1>>
  <2>1. i \in 1 .. k \/ i = k + 1
    BY <1>7
  <2> QED
    BY <1>5, <1>6, <2>1
<1> QED
  BY <1>1, <1>3, <1>4, <1>7 DEF Good

\* What is not mixed while Restore reads the same chunk on.
LEMMA ReadingOn ==
    ASSUME Typed, Typed', Unmixed, Observe, pc \in {"read", "fetch"},
           pc' \in {"read", "fetch"}, ~mixed', UNCHANGED <<entry, out>>
    PROVE  /\ Pure /\ Watched /\ Within /\ Good /\ AllRight
           /\ pc = "fetch" => Tried
           /\ Pure' /\ Watched' /\ Within' /\ AllRight'
           /\ Grown
<1>1. ~mixed
  BY Observed
<1>2. /\ Pure /\ Watched /\ Within /\ Good /\ AllRight
      /\ pc = "fetch" => Tried
  BY <1>1 DEF Unmixed
<1>3. Current' = Current
  BY DEF Current
<1>4. \A at \in Sources : lapsed[at] \subseteq Current'
  BY <1>2, <1>3 DEF Within
<1>5. Pure' /\ Watched' /\ Within' /\ Grown
  BY <1>4, Watching
<1>6. AllRight'
  BY <1>2 DEF AllRight
<1> QED
  BY <1>2, <1>5, <1>6

LEMMA ReadLocalUnmixed ==
    ASSUME Typed, Typed', Unmixed, ReadLocal, Observe
    PROVE  Unmixed'
<1>1. /\ pc = "read" /\ Reading /\ local[Index] # None /\ pc' = "read"
      /\ pieces' = Append(pieces, Plaintext(local[Index], Index))
      /\ UNCHANGED <<entry, out>>
  BY DEF ReadLocal
<1>2. SUFFICES ASSUME ~mixed' PROVE Pure' /\ Watched' /\ Within' /\ Good' /\ AllRight'
  BY <1>1 DEF Unmixed
<1>3. /\ Pure /\ Watched /\ Good
      /\ Pure' /\ Watched' /\ Within' /\ AllRight' /\ Grown
  BY <1>1, <1>2, ReadingOn
<1>4. Index \in Slots /\ Index \in Current
  BY <1>1, IndexType
<1>5. local[Index] \in Contents /\ entry \in Schemes
  BY <1>4 DEF Typed, StoreTyped, RunTyped
<1>6. Plaintext(local[Index], Index) \in Pieces
  BY <1>1, <1>4, <1>5, PieceType
<1>7. local[Index] \in {entry, Bad}
  BY <1>1, <1>3, <1>4 DEF Pure
<1>8. CASE local[Index] = entry
  <2>1. Plaintext(local[Index], Index) = Row(entry, Index)
    BY <1>5, <1>8, SchemeType DEF Plaintext
  <2> QED
    BY <1>1, <1>3, <1>6, <2>1, GoodRead
<1>9. CASE local[Index] = Bad
  <2>1. Plaintext(local[Index], Index) = Missing
    BY <1>9 DEF Plaintext
  <2>2. \A at \in Sources : ~Offers(at, Index)
    BY <1>1, <1>5, <1>9, SchemeType DEF Offers
  <2>3. Everywhere(Index)
    BY <1>3, <1>4, <2>2 DEF Watched, Everywhere
  <2> QED
    BY <1>1, <1>3, <1>6, <2>1, <2>3, GoodRead
<1> QED
  BY <1>3, <1>7, <1>8, <1>9

LEMMA LocalMissingUnmixed ==
    ASSUME Typed, Typed', Unmixed, LocalMissing, Observe
    PROVE  Unmixed'
<1>1. /\ pc = "read" /\ Reading /\ local[Index] = None /\ pc' = "fetch"
      /\ UNCHANGED <<entry, pieces, asked, out>>
  BY DEF LocalMissing
<1>2. SUFFICES ASSUME ~mixed'
               PROVE  Pure' /\ Watched' /\ Within' /\ Good' /\ AllRight' /\ Tried'
  BY <1>1 DEF Unmixed
<1>3. /\ Watched /\ Good
      /\ Pure' /\ Watched' /\ Within' /\ AllRight' /\ Grown
  BY <1>1, <1>2, ReadingOn
<1>4. Good'
  BY <1>1, <1>3, GoodKept
<1>5. Index \in Current /\ entry \in Schemes /\ asked = {}
  BY <1>1, IndexType DEF Typed, RunTyped
<1>6. ~Offers(Here, Index) /\ Here \in Sources
  <2>1. Here \notin Buddies /\ online \subseteq Buddies
    BY RestoreAssumption DEF Typed, StoreTyped
  <2> QED
    BY <1>1, <1>5, <2>1, SchemeType DEF Offers, Sources
<1>7. Index \in lapsed[Here] /\ Index' = Index
  BY <1>1, <1>3, <1>5, <1>6 DEF Watched, Index
<1>8. Index' \in lapsed'[Here] /\ asked' = {}
  BY <1>1, <1>3, <1>5, <1>6, <1>7 DEF Grown
<1>9. Tried'
  BY <1>8 DEF Tried
<1> QED
  BY <1>3, <1>4, <1>9

LEMMA FetchUnmixed ==
    ASSUME Typed, Typed', Unmixed, NEW b \in Buddies, Fetch(b), Observe
    PROVE  Unmixed'
<1>1. /\ pc = "fetch" /\ pc' \in {"read", "fetch"} /\ UNCHANGED <<entry, out>>
  BY DEF Fetch, Got
<1>2. SUFFICES ASSUME ~mixed'
               PROVE  /\ Pure' /\ Watched' /\ Within' /\ Good' /\ AllRight'
                      /\ pc' = "fetch" => Tried'
  BY <1>1 DEF Unmixed
<1>3. /\ Pure /\ Watched /\ Good /\ Tried
      /\ Pure' /\ Watched' /\ Within' /\ AllRight' /\ Grown
  BY <1>1, <1>2, ReadingOn
<1>4. Reading /\ entry \in Schemes /\ online \subseteq Buddies
      /\ remote \in [Buddies -> [Slots -> Contents]] /\ asked \subseteq Buddies
  BY <1>1 DEF Typed, RunTyped, StoreTyped
<1>5. Index \in Slots /\ Index \in Current
  BY <1>1, <1>4, IndexType
<1>6. /\ entry # None /\ entry # Bad /\ None # Bad
      /\ Here \notin Buddies /\ b \in Sources /\ Here \in Sources
  BY <1>4, SchemeType, RestoreAssumption DEF Sources
<1>7. CASE Sends(b) /\ Got(Plaintext(remote[b][Index], Index))
  <2>1. /\ remote[b][Index] # None /\ b \in online
        /\ pieces' = Append(pieces, Plaintext(remote[b][Index], Index)) /\ pc' = "read"
    BY <1>7 DEF Sends, Got
  <2>2. remote[b][Index] \in {entry, Bad} /\ remote[b][Index] \in Contents
    BY <1>3, <1>4, <1>5, <2>1 DEF Pure
  <2>3. Plaintext(remote[b][Index], Index) \in Pieces
    BY <1>5, <2>1, <2>2, PieceType
  <2>4. CASE remote[b][Index] = entry
    <3>1. Plaintext(remote[b][Index], Index) = Row(entry, Index)
      BY <1>6, <2>4 DEF Plaintext
    <3>2. Good'
      BY <1>1, <1>3, <1>4, <2>1, <2>3, <3>1, GoodRead
    <3> QED
      BY <1>3, <2>1, <3>2
  <2>5. CASE remote[b][Index] = Bad
    <3>1. Plaintext(remote[b][Index], Index) = Missing
      BY <2>5 DEF Plaintext
    <3>2. ASSUME NEW at \in Sources PROVE Index \in lapsed[at]
      <4>1. CASE at = Here
        BY <1>3, <4>1 DEF Tried
      <4>2. CASE at # Here
        <5>1. ~Offers(at, Index)
          BY <1>6, <2>1, <2>5, <4>2 DEF Offers
        <5> QED
          BY <1>3, <1>5, <5>1 DEF Watched
      <4> QED
        BY <4>1, <4>2
    <3>3. Everywhere(Index)
      BY <3>2 DEF Everywhere
    <3>4. Good'
      BY <1>1, <1>3, <1>4, <2>1, <2>3, <3>1, <3>3, GoodRead
    <3> QED
      BY <1>3, <2>1, <3>4
  <2> QED
    BY <2>2, <2>4, <2>5
<1>8. CASE ~Sends(b) /\ asked' = asked \cup {b} /\ UNCHANGED <<pc, pieces>>
  <2>1. Good'
    BY <1>1, <1>3, <1>8, GoodKept
  <2>2. ~Offers(b, Index)
    BY <1>6, <1>8 DEF Offers, Sends
  <2>3. Index \in lapsed[b] /\ Index' = Index
    BY <1>1, <1>3, <1>5, <1>6, <1>8, <2>2 DEF Watched, Index
  <2>4. \A at \in asked \cup {b, Here} : Index \in lapsed[at] /\ at \in Sources
    BY <1>3, <1>4, <1>6, <2>3 DEF Tried, Sources
  <2>5. Tried'
    BY <1>3, <1>8, <2>3, <2>4 DEF Tried, Grown
  <2> QED
    BY <1>3, <2>1, <2>5
<1> QED
  BY <1>7, <1>8 DEF Fetch

LEMMA NoneSendsUnmixed ==
    ASSUME Typed, Typed', Unmixed, NoneSends, Observe
    PROVE  Unmixed'
<1>1. /\ pc = "fetch" /\ pc' = "read" /\ UNCHANGED <<entry, out>>
      /\ asked = Buddies /\ pieces' = Append(pieces, Missing)
  BY DEF NoneSends, Got
<1>2. SUFFICES ASSUME ~mixed' PROVE Pure' /\ Watched' /\ Within' /\ Good' /\ AllRight'
  BY <1>1 DEF Unmixed
<1>3. /\ Good /\ Tried
      /\ Pure' /\ Watched' /\ Within' /\ AllRight' /\ Grown
  BY <1>1, <1>2, ReadingOn
<1>4. Everywhere(Index)
  BY <1>1, <1>3 DEF Tried, Everywhere, Sources
<1>5. Reading /\ Missing \in Pieces
  BY <1>1 DEF Typed, RunTyped, Pieces
<1>6. Good'
  BY <1>1, <1>3, <1>4, <1>5, GoodRead
<1> QED
  BY <1>3, <1>6

\* Good pieces decode to the chunk: they are rows of one code word.
LEMMA GoodDecodes ==
    ASSUME Good
    PROVE  SameWord /\ Right
<1>1. \A i \in Present : pieces[i] = <<entry.data, Len(out), i - 1>>
  BY DEF Good, Present
<1>2. Basis \subseteq Present
  BY DEF Basis
<1>3. Right
  BY <1>1, <1>2 DEF Right
<1>4. \A i \in Present : pieces[i][1] = entry.data /\ pieces[i][2] = Len(out)
  BY <1>1
<1>5. SameWord
  BY <1>4 DEF SameWord
<1> QED
  BY <1>3, <1>5

LEMMA StartUnmixed ==
    ASSUME Typed, Typed', Unmixed, NEW v \in 0 .. MaxVersions, Start(v), Observe
    PROVE  Unmixed'
<1>1. pc = "idle" /\ pc' = "read" /\ out' = <<>> /\ pieces' = pieces
  BY DEF Start
<1>2. SUFFICES ASSUME ~mixed' PROVE Pure' /\ Watched' /\ Within' /\ Good' /\ AllRight'
  BY <1>1 DEF Unmixed
<1>3. pieces = <<>> /\ (\A at \in Sources : lapsed[at] = {}) /\ Len(<<>>) = 0
  BY <1>1 DEF Unmixed, Typed, RunTyped
<1>4. Pure' /\ Watched' /\ Within'
  BY <1>1, <1>2, <1>3, Watching
<1>5. 1 .. Len(pieces') = {} /\ 1 .. Len(out') = {}
  BY <1>1, <1>3
<1>6. Good' /\ AllRight'
  BY <1>5 DEF Good, AllRight
<1> QED
  BY <1>4, <1>6

LEMMA MergeUnmixed ==
    ASSUME Typed, Typed', Unmixed, Merge, Observe
    PROVE  Unmixed'
<1>1. pc = "read" /\ entry' = entry
  BY DEF Merge
<1>2. CASE pc' = "failed"
  BY <1>2 DEF Unmixed
<1>3. CASE pc' = pc /\ pieces' = <<>> /\ out' = Append(out, Right)
  <2>1. SUFFICES ASSUME ~mixed' PROVE Pure' /\ Watched' /\ Within' /\ Good' /\ AllRight'
    BY <1>1, <1>3 DEF Unmixed
  <2>2. ~mixed
    BY <1>1, <1>3, <2>1, Observed
  <2>3. Good /\ AllRight /\ out \in Seq(BOOLEAN)
    BY <1>1, <2>2 DEF Unmixed, Typed, RunTyped
  <2>4. Right
    BY <2>3, GoodDecodes
  <2>5. Right = TRUE
    BY <2>4 DEF Right
  <2>6. out' = Append(out, TRUE)
    BY <1>3, <2>5, Zenon
  <2>7. Len(out') = Len(out) + 1 /\ Len(out) \in Nat
    BY <2>3, <2>6
  <2>8. out' # out
    BY <2>7
  <2>9. Pure' /\ Watched' /\ Within'
    BY <1>1, <1>3, <2>1, <2>8, Watching
  <2>10. 1 .. Len(pieces') = {}
    <3>1. Len(<<>>) = 0
      OBVIOUS
    <3> QED
      BY <1>3, <3>1
  <2>11. Good'
    BY <2>10 DEF Good
  <2>12. AllRight'
    BY <2>3, <2>6, <2>7 DEF AllRight
  <2> QED
    BY <2>9, <2>11, <2>12
<1> QED
  BY <1>2, <1>3 DEF Merge

LEMMA UnmixedInit == Init => Unmixed
<1> SUFFICES ASSUME Init PROVE Unmixed
  OBVIOUS
<1>1. pc = "idle" /\ lapsed = [at \in Sources |-> {}]
  BY DEF Init
<1>2. \A at \in Sources : lapsed[at] = {}
  BY <1>1
<1> QED
  BY <1>1, <1>2 DEF Unmixed

LEMMA UnmixedStep == Typed /\ Typed' /\ Unmixed /\ [Next]_vars => Unmixed'
<1> SUFFICES ASSUME Typed, Typed', Unmixed, [Next]_vars PROVE Unmixed'
  OBVIOUS
<1>1. CASE UNCHANGED vars
  <2>1. /\ local' = local /\ remote' = remote /\ online' = online /\ pc' = pc
        /\ entry' = entry /\ pieces' = pieces /\ out' = out /\ lapsed' = lapsed
        /\ asked' = asked /\ (mixed' <=> mixed)
    BY <1>1 DEF vars, stores, run
  <2>2. Pure' <=> Pure
    BY <2>1 DEF Pure
  <2>3. Watched' <=> Watched
    BY <2>1 DEF Watched, Current, Offers
  <2>4. Within' <=> Within
    BY <2>1 DEF Within, Current
  <2>5. Good' <=> Good
    BY <2>1 DEF Good, Slot, Everywhere
  <2>6. AllRight' <=> AllRight
    BY <2>1 DEF AllRight
  <2>7. Tried' <=> Tried
    BY <2>1 DEF Tried, Index
  <2> QED
    BY <2>1, <2>2, <2>3, <2>4, <2>5, <2>6, <2>7 DEF Unmixed
<1>2. ASSUME Environment, Observe PROVE Unmixed'
  <2>1. pc' = pc /\ entry' = entry /\ pieces' = pieces /\ asked' = asked /\ out' = out
    BY <1>2, EnvironmentQuiet DEF Typed, RunTyped, run
  <2>2. CASE pc \notin {"read", "fetch"}
    <3>1. lapsed' = lapsed
      BY <1>2, <2>1, <2>2 DEF Observe
    <3> QED
      BY <2>1, <2>2, <3>1 DEF Unmixed
  <2>3. CASE pc \in {"read", "fetch"}
    <3>1. SUFFICES ASSUME ~mixed'
                   PROVE  /\ Pure' /\ Watched' /\ Within' /\ Good' /\ AllRight'
                          /\ pc' = "fetch" => Tried'
      BY <2>1, <2>3 DEF Unmixed
    <3>2. /\ Good /\ (pc = "fetch" => Tried)
          /\ Pure' /\ Watched' /\ Within' /\ AllRight' /\ Grown
      BY <1>2, <2>1, <2>3, <3>1, ReadingOn
    <3>3. Good'
      BY <2>1, <3>2, GoodKept
    <3>4. ASSUME Tried PROVE Tried'
      <4>1. Index' = Index
        BY <2>1 DEF Index
      <4>2. asked \cup {Here} \subseteq Sources
        BY DEF Typed, RunTyped, Sources
      <4> QED
        BY <2>1, <3>2, <3>4, <4>1, <4>2 DEF Tried, Grown
    <3> QED
      BY <2>1, <3>2, <3>3, <3>4
  <2> QED
    BY <2>2, <2>3
<1>3. ASSUME Refused \/ WriteFails \/ Finish PROVE Unmixed'
  BY <1>3 DEF Refused, WriteFails, Finish, Unmixed
<1>4. ASSUME RestoreStep, Observe PROVE Unmixed'
  BY <1>3, <1>4, StartUnmixed, ReadLocalUnmixed, LocalMissingUnmixed,
     FetchUnmixed, NoneSendsUnmixed, MergeUnmixed DEF RestoreStep
<1> QED
  BY <1>1, <1>2, <1>4 DEF Next

LEMMA UnmixedAlways == Spec => [](Typed /\ Unmixed)
<1>1. Typed /\ Unmixed /\ [Next]_vars => (Typed /\ Unmixed)'
  BY TypedStep, UnmixedStep
<1> QED
  BY <1>1, TypedInit, UnmixedInit, PTL DEF Spec

\* A chunk that cannot be decoded lacks more pieces than the parity, each of
\* which was nowhere to be had all the time.
LEMMA TooManyLost ==
    ASSUME Typed, pc = "read", Good, Within, Len(pieces) = Total(entry), ~Decodable
    PROVE  Cardinality(Unsure) > entry.parity
<1> DEFINE Lost == {i \in 1 .. Len(pieces) : pieces[i] = Missing}
           f == [i \in Lost |-> Slot(i)]
<1>1. /\ entry \in Schemes /\ entry.data \in Nat /\ entry.parity \in Nat
      /\ Total(entry) \in Nat /\ Total(entry) = entry.data + entry.parity
  BY SchemeType DEF Typed, RunTyped
<1>2. /\ IsFiniteSet(1 .. Len(pieces)) /\ Cardinality(1 .. Len(pieces)) = Total(entry)
  <2>1. PICK t \in Nat : t = Total(entry)
    BY <1>1
  <2>2. 1 \in Int /\ t \in Int
    OBVIOUS
  <2>3. IsFiniteSet(1 .. t) /\ Cardinality(1 .. t) = IF 1 > t THEN 0 ELSE t - 1 + 1
    BY <2>2, FS_Interval
  <2>4. Cardinality(1 .. t) = t
    BY <2>3
  <2> QED
    BY <2>1, <2>3, <2>4
<1>3. Lost = (1 .. Len(pieces)) \ Present /\ Present \in SUBSET (1 .. Len(pieces))
  BY DEF Present
<1>4. /\ IsFiniteSet(Lost) /\ IsFiniteSet(Present)
      /\ Cardinality(Lost) = Total(entry) - Cardinality(Present)
      /\ Cardinality(Lost) \in Nat /\ Cardinality(Present) \in Nat
  <2> HIDE DEF Lost
  <2>1. IsFiniteSet(Present)
    BY <1>2, <1>3, FS_Subset
  <2>2. (1 .. Len(pieces)) \cap Present = Present
    BY <1>3
  <2>3. /\ IsFiniteSet((1 .. Len(pieces)) \ Present)
        /\ Cardinality((1 .. Len(pieces)) \ Present) = Cardinality(1 .. Len(pieces))
                - Cardinality((1 .. Len(pieces)) \cap Present)
    BY <1>2, FS_Difference, Zenon
  <2>4. Cardinality(Present) \in Nat /\ Cardinality((1 .. Len(pieces)) \ Present) \in Nat
    BY <2>1, <2>3, FS_CardinalityType
  <2> QED
    BY <1>2, <1>3, <2>1, <2>2, <2>3, <2>4, Zenon
<1>5. Cardinality(Lost) > entry.parity
  <2> HIDE DEF Lost
  <2> QED
    BY <1>1, <1>4 DEF Decodable
<1>6. IsFiniteSet(Unsure)
  <2>1. PICK n \in Int : n = Chunks * Total(entry) - 1
    BY <1>1, RestoreAssumption
  <2>2. IsFiniteSet(0 .. n)
    BY FS_Interval
  <2>3. Unsure \in SUBSET (0 .. n)
    BY <2>1 DEF Unsure, Sources, Within, Current, Indices
  <2> QED
    BY <2>2, <2>3, FS_Subset
<1>7. f \in [Lost -> Unsure]
  <2>1. ASSUME NEW i \in Lost PROVE Slot(i) \in Unsure
    <3>1. i \in 1 .. Len(pieces) /\ pieces[i] = Missing
      BY <2>1
    <3>2. pieces[i] # <<entry.data, Len(out), i - 1>>
      BY <3>1 DEF Missing
    <3>3. Everywhere(Slot(i))
      BY <3>1, <3>2 DEF Good
    <3> QED
      BY <3>3 DEF Everywhere, Unsure, Sources
  <2> QED
    BY <2>1
<1>8. \A i, j \in Lost : f[i] = f[j] => i = j
  <2>1. SUFFICES ASSUME NEW i \in Lost, NEW j \in Lost, Slot(i) = Slot(j) PROVE i = j
    OBVIOUS
  <2>2. i \in Int /\ j \in Int
    OBVIOUS
  <2>3. Len(out) \in Nat /\ Len(out) * Total(entry) \in Int
    BY <1>1 DEF Typed, RunTyped
  <2>4. PICK n \in Int : n = Len(out) * Total(entry)
    BY <2>3
  <2>5. n + i - 1 = n + j - 1
    BY <2>1, <2>4 DEF Slot
  <2> QED
    BY <2>2, <2>5
<1>9. Cardinality(Lost) <= Cardinality(Unsure)
  <2> HIDE DEF Lost, f
  <2>1. f \in Injection(Lost, Unsure)
    BY <1>7, <1>8, Fun_IsInj
  <2> QED
    BY <1>6, <2>1, FS_Injection
<1>10. Cardinality(Unsure) \in Nat
  BY <1>6, FS_CardinalityType
<1> HIDE DEF Lost
<1> QED
  BY <1>1, <1>4, <1>5, <1>9, <1>10

LEMMA ToleratesKept ==
    ASSUME ToleratesLoss, UNCHANGED <<pc, entry, lapsed, mixed>>
    PROVE  ToleratesLoss'
  BY DEF ToleratesLoss, Unsure

LEMMA ToleratesStep ==
    Typed /\ Unmixed /\ ToleratesLoss /\ [Next]_vars => ToleratesLoss'
<1> SUFFICES ASSUME Typed, Unmixed, ToleratesLoss, [Next]_vars PROVE ToleratesLoss'
  OBVIOUS
<1>1. ASSUME pc' \notin {"failed", "leftover"} PROVE ToleratesLoss'
  BY <1>1 DEF ToleratesLoss
<1>2. ASSUME UNCHANGED run, UNCHANGED <<lapsed, mixed>> PROVE ToleratesLoss'
  BY <1>2, ToleratesKept DEF run
<1>3. ASSUME UNCHANGED run, ~Done PROVE ToleratesLoss'
  BY <1>1, <1>3 DEF run, Done
<1>4. ASSUME Merge, Observe, pc' = "failed" PROVE ToleratesLoss'
  <2>1. /\ pc = "read" /\ Len(pieces) = Total(entry) /\ entry' = entry
        /\ ~(Decodable /\ SameWord /\ Right)
    BY <1>4 DEF Merge
  <2>2. lapsed' = lapsed /\ (mixed' <=> mixed)
    BY <1>4 DEF Observe
  <2>3. ASSUME ~mixed
        PROVE  Cardinality(Unsure) > entry.parity
    <3>1. Good /\ Within
      BY <2>1, <2>3 DEF Unmixed
    <3>2. ~Decodable
      BY <2>1, <3>1, GoodDecodes
    <3> QED
      BY <2>1, <3>1, <3>2, TooManyLost
  <2> QED
    BY <2>1, <2>2, <2>3 DEF ToleratesLoss, Unsure
<1>5. ASSUME Finish, Observe, pc' \in {"failed", "leftover"} PROVE ToleratesLoss'
  <2>1. pc = "read" /\ ~AllRight
    BY <1>5 DEF Finish
  <2>2. (mixed' <=> mixed)
    BY <1>5 DEF Observe
  <2>3. mixed
    BY <2>1 DEF Unmixed
  <2> QED
    BY <2>2, <2>3 DEF ToleratesLoss
<1>6. ASSUME RestoreStep, pc' \in {"failed", "leftover"}
      PROVE  (Merge /\ pc' = "failed") \/ Finish
  <2>1. ASSUME NEW b \in Buddies PROVE ~Fetch(b)
    BY <1>6 DEF Fetch, Got
  <2>2. ASSUME NEW v \in 0 .. MaxVersions PROVE ~Start(v)
    BY <1>6 DEF Start
  <2>3. Merge => pc' = "failed"
    BY <1>6 DEF Merge
  <2> QED
    BY <1>6, <2>1, <2>2, <2>3 DEF RestoreStep, Refused, ReadLocal, LocalMissing,
                                  NoneSends, Got, WriteFails
<1> QED
  BY <1>1, <1>2, <1>3, <1>4, <1>5, <1>6, Moves DEF Typed

\* With any number of data and parity shards, chunks and buddies, which are
\* asked one after the other, and however shards are lost and buddies come and
\* go between two questions: as long as no shard of another scheme is about,
\* Restore fails on a chunk only if for more of its shards than the parity
\* there was no place, the local store or a buddy, that had a good copy on
\* offer all the time the chunk was read.
THEOREM FailsOnlyBeyondParity == Spec => []ToleratesLoss
<1>1. Init => ToleratesLoss
  BY DEF Init, ToleratesLoss
<1> QED
  BY <1>1, UnmixedAlways, ToleratesStep, PTL DEF Spec
=============================================================================
