------------------------ MODULE DeliveryQueueProofs ------------------------
(***************************************************************************)
(* The delivery queue keeps what it accepted, for any buddies, shards,     *)
(* backups and goroutines of the daemon: QueueDurable, by an invariant on  *)
(* the copies of the queue that are held in memory.                        *)
(***************************************************************************)
EXTENDS DeliveryQueue, TLAPS

\* Every step of the next-state relation, one disjunct per action.
LEMMA NextCases ==
    ASSUME Next
    PROVE  \/ \E w \in Backups, shards \in SUBSET Shards : StartPush(w, shards)
           \/ \E w \in Backups, b \in Buddies : Connect(w, b)
           \/ \E w \in Backups : \E i \in todo[w] : PushOK(w, i)
           \/ \E w \in Backups : \E i \in todo[w] : PushFails(w, i)
           \/ \E w \in Backups : \E i \in todo[w] : EnqueueLoad(w, i)
           \/ \E w \in Backups : \E i \in todo[w] : EnqueueFails(w, i)
           \/ \E w \in Backups : \E i \in todo[w] : GetFails(w, i)
           \/ \E w \in Backups : NextBuddy(w)
           \/ \E w \in Backups : KillBackup(w)
           \/ \E f \in Flushes, b \in Buddies : Found(f, b)
           \/ \E f \in Flushes, b \in Buddies : FoundButTorn(f, b)
           \/ \E f \in Flushes : \E i \in todo[f] : FlushPushOK(f, i)
           \/ \E f \in Flushes : \E i \in todo[f] : FlushPushFails(f, i)
           \/ \E f \in Flushes : FlushDone(f)
           \/ \E w \in Writers : SaveTruncate(w)
           \/ \E w \in Writers : SaveWrite(w)
           \/ \E w \in Writers : SaveFails(w)
           \/ \E b \in Buddies : Redial(b) \/ GoOnline(b) \/ GoOffline(b)
           \/ KillDaemon
BY DEF Next, BackupStep, FlushStep, Save

-----------------------------------------------------------------------------
\* Every variable keeps its type, and the daemon counts no buddy as connected
\* that is offline.
THEOREM TypeCorrect == Spec => []TypeOK
<1>1. Init => TypeOK
  <2> SUFFICES ASSUME Init PROVE TypeOK
    OBVIOUS
  <2>1. runs \in 0 .. MaxRuns /\ faults \in 0 .. MaxFaults
    BY QueueAssumption DEF Init
  <2> QED
    BY <2>1 DEF Init, TypeOK, Labels
<1>2. TypeOK /\ [Next]_vars => TypeOK'
  <2> SUFFICES ASSUME TypeOK, [Next]_vars PROVE TypeOK'
    OBVIOUS
  <2> USE QueueAssumption DEF TypeOK, Labels, Writers
  <2>1. CASE UNCHANGED vars
    BY <2>1 DEF vars
  <2>2. ASSUME NEW w \in Backups, NEW shards \in SUBSET Shards, StartPush(w, shards)
        PROVE  TypeOK'
    BY <2>2 DEF StartPush, Items
  <2>3. ASSUME NEW w \in Backups, NEW b \in Buddies, Connect(w, b)
        PROVE  TypeOK'
    BY <2>3 DEF Connect
  <2>4. ASSUME NEW w \in Backups, NEW i \in todo[w], PushOK(w, i)
        PROVE  TypeOK'
    BY <2>4 DEF PushOK
  <2>5. ASSUME NEW w \in Backups, NEW i \in todo[w], PushFails(w, i)
        PROVE  TypeOK'
    BY <2>5 DEF PushFails, FailedPush
  <2>6. ASSUME NEW w \in Backups, NEW i \in todo[w], EnqueueLoad(w, i)
        PROVE  TypeOK'
    <3>1. raced' \in BOOLEAN
      BY <2>6 DEF EnqueueLoad
    <3> QED
      BY <2>6, <3>1 DEF EnqueueLoad
  <2>7. ASSUME NEW w \in Backups, NEW i \in todo[w],
               EnqueueFails(w, i) \/ GetFails(w, i)
        PROVE  TypeOK'
    BY <2>7 DEF EnqueueFails, GetFails
  <2>8. ASSUME NEW w \in Backups, NextBuddy(w)
        PROVE  TypeOK'
    BY <2>8 DEF NextBuddy
  <2>9. ASSUME NEW w \in Backups, KillBackup(w)
        PROVE  TypeOK'
    BY <2>9 DEF KillBackup, Kill
  <2>10. ASSUME NEW f \in Flushes, NEW b \in Buddies, Found(f, b)
         PROVE  TypeOK'
    <3>1. raced' \in BOOLEAN
      BY <2>10 DEF Found
    <3> QED
      BY <2>10, <3>1 DEF Found, ItemsFor
  <2>11. ASSUME NEW f \in Flushes, NEW b \in Buddies, FoundButTorn(f, b)
         PROVE  TypeOK'
    BY <2>11 DEF FoundButTorn
  <2>12. ASSUME NEW f \in Flushes, NEW i \in todo[f], FlushPushOK(f, i)
         PROVE  TypeOK'
    BY <2>12 DEF FlushPushOK
  <2>13. ASSUME NEW f \in Flushes, NEW i \in todo[f], FlushPushFails(f, i)
         PROVE  TypeOK'
    BY <2>13 DEF FlushPushFails, FailedPush
  <2>14. ASSUME NEW f \in Flushes, FlushDone(f)
         PROVE  TypeOK'
    BY <2>14 DEF FlushDone
  <2>15. ASSUME NEW w \in Writers, SaveTruncate(w)
         PROVE  TypeOK'
    BY <2>15 DEF SaveTruncate
  <2>16. ASSUME NEW w \in Writers, SaveWrite(w)
         PROVE  TypeOK'
    BY <2>16 DEF SaveWrite, AfterSave
  <2>17. ASSUME NEW w \in Writers, SaveFails(w)
         PROVE  TypeOK'
    BY <2>17 DEF SaveFails, AfterSave
  <2>18. ASSUME NEW b \in Buddies, Redial(b) \/ GoOnline(b) \/ GoOffline(b)
         PROVE  TypeOK'
    BY <2>18 DEF Redial, GoOnline, GoOffline
  <2>19. CASE KillDaemon
    BY <2>19 DEF KillDaemon, Kill
  <2> QED
    BY <2>1, <2>2, <2>3, <2>4, <2>5, <2>6, <2>7, <2>8, <2>9, <2>10, <2>11,
       <2>12, <2>13, <2>14, <2>15, <2>16, <2>17, <2>18, <2>19, NextCases
<1> QED
  BY <1>1, <1>2, PTL DEF Spec

-----------------------------------------------------------------------------
(* The queue keeps what it accepted. *)

\* Every copy of the queue that will be saved still has each accepted item the
\* buddies do not have, so that saving it loses nothing.
CopiesCover ==
    \A w \in Writers : InWindow(w) => accepted \cup fresh[w] \subseteq held[w] \cup stored

\* A backup that is enqueueing is alone in its window; goroutines of the
\* daemon never write at the same time.
Exclusive ==
    \A v, w \in Writers :
        v # w => /\ InWindow(v) /\ InWindow(w) => v \in Flushes /\ w \in Flushes
                 /\ ~(pc[v] = "write" /\ pc[w] = "write")

\* Only an Enqueue adds an item.
FlushesAddNothing == \A f \in Flushes : fresh[f] = {}

DurableInv ==
    /\ FlushesAddNothing
    /\ faults = 0 /\ ~raced =>
         /\ accepted \subseteq queue \cup stored
         /\ torn <=> \E w \in Writers : pc[w] = "write"
         /\ CopiesCover
         /\ Exclusive

\* One step keeps DurableInv.
LEMMA DurableStep ==
    ASSUME TypeOK, DurableInv, [Next]_vars
    PROVE  DurableInv'
<1> USE QueueAssumption DEF Writers
<1>1. FlushesAddNothing'
  <2> SUFFICES ASSUME NEW g \in Flushes PROVE fresh'[g] = {}
    BY DEF FlushesAddNothing
  <2>1. CASE \E w \in Backups : \E i \in todo[w] : EnqueueLoad(w, i)
    BY <2>1 DEF EnqueueLoad, DurableInv, FlushesAddNothing, TypeOK
  <2>2. CASE \E w \in Writers : SaveWrite(w) \/ SaveFails(w)
    BY <2>2 DEF SaveWrite, SaveFails, DurableInv, FlushesAddNothing, TypeOK
  <2>3. CASE KillDaemon \/ \E w \in Backups : KillBackup(w)
    BY <2>3 DEF KillDaemon, KillBackup, Kill, DurableInv, FlushesAddNothing, TypeOK
  <2>4. CASE fresh' = fresh
    BY <2>4 DEF DurableInv, FlushesAddNothing
  <2> QED
    BY <2>1, <2>2, <2>3, <2>4, NextCases
    DEF StartPush, Connect, PushOK, PushFails, GetFails, EnqueueFails, NextBuddy, Found,
        FoundButTorn, FlushPushOK, FlushPushFails, FlushDone, SaveTruncate,
        Redial, GoOnline, GoOffline, vars
<1>2. SUFFICES ASSUME faults' = 0, ~raced'
      PROVE  /\ accepted' \subseteq queue' \cup stored'
             /\ torn' <=> \E w \in Writers : pc'[w] = "write"
             /\ CopiesCover'
             /\ Exclusive'
  BY <1>1 DEF DurableInv
<1>3. faults = 0 /\ ~raced /\ faults' = faults
  <2>1. CASE \E w \in Writers : SaveFails(w)
    BY <2>1, <1>2 DEF SaveFails, TypeOK
  <2>2. CASE KillDaemon \/ \E w \in Backups : KillBackup(w)
    BY <2>2, <1>2 DEF KillDaemon, KillBackup, Kill, TypeOK
  <2>3. faults' = faults \/ (\E w \in Writers : SaveFails(w)) \/ KillDaemon
           \/ \E w \in Backups : KillBackup(w)
    BY NextCases
    DEF StartPush, Connect, PushOK, PushFails, GetFails, EnqueueLoad, EnqueueFails,
        NextBuddy, Found, FoundButTorn, FlushPushOK, FlushPushFails, FlushDone,
        SaveTruncate, SaveWrite, Redial, GoOnline, GoOffline, vars
  <2>4. raced => raced'
    BY NextCases
    DEF StartPush, Connect, PushOK, PushFails, GetFails, EnqueueLoad, EnqueueFails,
        NextBuddy, Found, FoundButTorn, FlushPushOK, FlushPushFails, FlushDone,
        SaveTruncate, SaveWrite, SaveFails, KillDaemon, KillBackup, Kill,
        Redial, GoOnline, GoOffline, vars
  <2> QED
    BY <2>1, <2>2, <2>3, <2>4, <1>2
<1>4. /\ accepted \subseteq queue \cup stored
      /\ torn <=> \E w \in Writers : pc[w] = "write"
      /\ CopiesCover
      /\ Exclusive
  BY <1>3 DEF DurableInv
<1> DEFINE Goal == /\ accepted' \subseteq queue' \cup stored'
                   /\ torn' <=> \E w \in Writers : pc'[w] = "write"
                   /\ CopiesCover'
                   /\ Exclusive'
<1> SUFFICES Goal
  OBVIOUS
<1>5. ASSUME UNCHANGED <<queue, torn, held, fresh, accepted>>,
             stored \subseteq stored',
             \A w \in Writers : /\ InWindow(w)' <=> InWindow(w)
                                /\ pc'[w] = "write" <=> pc[w] = "write"
      PROVE  Goal
  <2>1. CopiesCover'
    BY <1>4, <1>5 DEF CopiesCover
  <2>2. Exclusive'
    BY <1>4, <1>5 DEF Exclusive
  <2> QED
    BY <1>4, <1>5, <2>1, <2>2
<1> USE DEF TypeOK
<1>6. ASSUME NEW w \in Backups, NEW shards \in SUBSET Shards, StartPush(w, shards)
      PROVE  Goal
  BY <1>6, <1>5 DEF StartPush, InWindow
<1>7. ASSUME NEW w \in Backups, NEW b \in Buddies, Connect(w, b)
      PROVE  Goal
  BY <1>7, <1>5 DEF Connect, InWindow
<1>8. ASSUME NEW w \in Backups, NEW i \in todo[w],
             PushOK(w, i) \/ PushFails(w, i) \/ GetFails(w, i) \/ EnqueueFails(w, i)
      PROVE  Goal
  BY <1>8, <1>5
     DEF PushOK, PushFails, FailedPush, GetFails, EnqueueFails, InWindow
<1>9. ASSUME NEW w \in Backups, NextBuddy(w)
      PROVE  Goal
  BY <1>9, <1>5 DEF NextBuddy, InWindow
<1>10. ASSUME NEW w \in Backups, NEW i \in todo[w], EnqueueLoad(w, i)
       PROVE  Goal
  \* The enqueueing backup enters its window alone, with all of the queue.
  <2>1. \A v \in Writers : ~InWindow(v) /\ pc'[v] = IF v = w THEN "save" ELSE pc[v]
    BY <1>10, <1>2, <1>3 DEF EnqueueLoad
  <2>2. CopiesCover'
    BY <1>10, <2>1, <1>4 DEF CopiesCover, EnqueueLoad, InWindow
  <2>3. Exclusive'
    BY <2>1 DEF Exclusive, InWindow
  <2> QED
    BY <1>10, <1>4, <2>2, <2>3 DEF EnqueueLoad
<1>11. ASSUME NEW f \in Flushes, NEW b \in Buddies, Found(f, b)
       PROVE  Goal
  \* No backup is in its window, so the flush overlaps other flushes at most.
  <2>1. \A w \in Backups : ~InWindow(w)
    BY <1>11, <1>2, <1>3 DEF Found
  <2>2. \A v \in Writers : pc'[v] = IF v = f THEN "flush" ELSE pc[v]
    BY <1>11 DEF Found
  <2>3. CopiesCover'
    BY <1>11, <2>2, <1>4 DEF CopiesCover, Found, InWindow, DurableInv, FlushesAddNothing
  <2>4. Exclusive'
    BY <2>1, <2>2, <1>4 DEF Exclusive, InWindow
  <2> QED
    BY <1>11, <1>4, <2>3, <2>4 DEF Found
<1>12. ASSUME NEW f \in Flushes, NEW b \in Buddies, FoundButTorn(f, b)
       PROVE  Goal
  BY <1>12, <1>5 DEF FoundButTorn, InWindow
<1>13. ASSUME NEW f \in Flushes, NEW i \in todo[f], FlushPushOK(f, i)
       PROVE  Goal
  \* What leaves the copy has just been stored.
  <2>1. CopiesCover'
    BY <1>13, <1>4 DEF CopiesCover, FlushPushOK, InWindow
  <2>2. Exclusive'
    BY <1>13, <1>4 DEF Exclusive, FlushPushOK, InWindow
  <2> QED
    BY <1>13, <1>4, <2>1, <2>2 DEF FlushPushOK
<1>14. ASSUME NEW f \in Flushes, NEW i \in todo[f], FlushPushFails(f, i)
       PROVE  Goal
  BY <1>14, <1>5 DEF FlushPushFails, FailedPush, InWindow
<1>15. ASSUME NEW f \in Flushes, FlushDone(f)
       PROVE  Goal
  BY <1>15, <1>5 DEF FlushDone, InWindow
<1>16. ASSUME NEW w \in Writers, SaveTruncate(w)
       PROVE  Goal
  <2>1. \A v \in Writers : /\ InWindow(v)' <=> InWindow(v)
                           /\ pc'[v] = IF v = w THEN "write" ELSE pc[v]
    BY <1>16 DEF SaveTruncate, InWindow
  <2>2. \A v \in Writers \ {w} : pc[v] # "write"
    BY <1>16, <1>4 DEF SaveTruncate, MutexHeld, Exclusive, InWindow
  <2>3. CopiesCover'
    BY <1>16, <2>1, <1>4 DEF CopiesCover, SaveTruncate
  <2>4. Exclusive'
    BY <2>1, <2>2, <1>4 DEF Exclusive
  <2> QED
    BY <1>16, <1>4, <2>1, <2>3, <2>4 DEF SaveTruncate
<1>17. ASSUME NEW w \in Writers, SaveWrite(w)
       PROVE  Goal
  <2>1. \A v \in Writers : pc'[v] = IF v = w THEN AfterSave(w) ELSE pc[v]
    BY <1>17 DEF SaveWrite
  <2>2. AfterSave(w) \in {"queue", "idle"}
    BY DEF AfterSave
  <2>3. InWindow(w) /\ \A v \in Writers \ {w} : pc[v] # "write"
    BY <1>17, <1>4 DEF SaveWrite, InWindow, Exclusive
  <2>4. accepted' \subseteq queue' \cup stored'
    BY <1>17, <2>3, <1>4 DEF SaveWrite, CopiesCover
  \* Another writer is in its window only if both are flushes, which add
  \* nothing to what is accepted.
  <2>5. CopiesCover'
    <3> SUFFICES ASSUME NEW v \in Writers, InWindow(v)'
                 PROVE  accepted' \cup fresh'[v] \subseteq held'[v] \cup stored'
      BY DEF CopiesCover
    <3>1. v # w /\ InWindow(v)
      BY <2>1, <2>2 DEF InWindow
    <3>2. w \in Flushes
      BY <3>1, <2>3, <1>4 DEF Exclusive
    <3>3. accepted' = accepted
      BY <3>2, <1>17 DEF SaveWrite, DurableInv, FlushesAddNothing
    <3> QED
      BY <3>1, <3>3, <1>4, <1>17 DEF SaveWrite, CopiesCover
  <2>6. Exclusive'
    BY <2>1, <2>2, <1>4 DEF Exclusive, InWindow
  \* The file is this writer's own, still truncated: it is whole again.
  <2>7. ~torn'
    <3>1. torn
      BY <1>17, <1>4 DEF SaveWrite
    <3> QED
      BY <3>1, <1>17 DEF SaveWrite
  <2> QED
    BY <2>1, <2>2, <2>3, <2>4, <2>5, <2>6, <2>7
<1>18. ASSUME NEW b \in Buddies, Redial(b) \/ GoOnline(b) \/ GoOffline(b)
       PROVE  Goal
  BY <1>18, <1>5 DEF Redial, GoOnline, GoOffline, InWindow
<1>19. CASE UNCHANGED vars
  BY <1>19, <1>5 DEF vars, InWindow
<1>20. ~(KillDaemon \/ (\E w \in Backups : KillBackup(w)) \/ \E w \in Writers : SaveFails(w))
  BY <1>3 DEF KillDaemon, KillBackup, Kill, SaveFails
<1> QED
  BY <1>6, <1>7, <1>8, <1>9, <1>10, <1>11, <1>12, <1>13, <1>14, <1>15, <1>16,
     <1>17, <1>18, <1>19, <1>20, NextCases

\* An item whose Enqueue returned nil stays in queue.json until the buddy has
\* it, through failed pushes and overlapping flushes, as long as no Enqueue
\* overlaps another writer's window and nothing is killed; and the file can be
\* parsed whenever no save is under way.
THEOREM AcceptedIsKept == Spec => []QueueDurable
<1>1. Init => DurableInv
  BY QueueAssumption
  DEF Init, DurableInv, FlushesAddNothing, CopiesCover, Exclusive, InWindow, Writers
<1>2. TypeOK /\ DurableInv /\ [Next]_vars => DurableInv'
  BY DurableStep
<1>3. DurableInv => QueueDurable
  BY DEF DurableInv, QueueDurable
<1> QED
  BY <1>1, <1>2, <1>3, TypeCorrect, PTL DEF Spec

-----------------------------------------------------------------------------
(* The queue implements Delivery. *)

\* A writer enqueues one item at a time.
FreshIsOne ==
    \A w \in Writers : fresh[w] = {} \/ \E i \in Items : fresh[w] = {i}

LEMMA FreshStep == TypeOK /\ FreshIsOne /\ [Next]_vars => FreshIsOne'
<1> SUFFICES ASSUME TypeOK, FreshIsOne, [Next]_vars PROVE FreshIsOne'
  OBVIOUS
<1>1. CASE UNCHANGED fresh
  BY <1>1 DEF FreshIsOne
<1>2. ASSUME NEW w \in Backups, NEW i \in todo[w], EnqueueLoad(w, i)
      PROVE  FreshIsOne'
  <2>1. i \in Items
    BY DEF TypeOK, Writers
  <2>2. \A v \in Writers : fresh'[v] = IF v = w THEN {i} ELSE fresh[v]
    BY <1>2 DEF EnqueueLoad, TypeOK, Writers
  <2> QED
    BY <2>1, <2>2 DEF FreshIsOne
<1>3. ASSUME NEW w \in Writers, SaveWrite(w) \/ SaveFails(w)
      PROVE  FreshIsOne'
  <2>1. \A v \in Writers : fresh'[v] = IF v = w THEN {} ELSE fresh[v]
    BY <1>3 DEF SaveWrite, SaveFails, TypeOK
  <2> QED
    BY <2>1 DEF FreshIsOne
<1>4. ASSUME NEW ws, Kill(ws)
      PROVE  FreshIsOne'
  <2>1. \A v \in Writers : fresh'[v] = {} \/ fresh'[v] = fresh[v]
    BY <1>4 DEF Kill
  <2> QED
    BY <2>1 DEF FreshIsOne
<1>5. CASE UNCHANGED vars
  BY <1>5, <1>1 DEF vars
<1>6. CASE Next
  <2>1. (\E w \in Backups : KillBackup(w)) \/ KillDaemon => \E ws : Kill(ws)
    BY DEF KillBackup, KillDaemon
  <2> QED
    BY <1>6, <1>1, <1>2, <1>3, <1>4, <2>1, NextCases
    DEF StartPush, Connect, PushOK, PushFails, GetFails, EnqueueFails, NextBuddy, Found,
        FoundButTorn, FlushPushOK, FlushPushFails, FlushDone, SaveTruncate,
        Redial, GoOnline, GoOffline
<1> QED
  BY <1>5, <1>6

\* The variables of Delivery, as DeliveryQueue implements them.
Waiting == (accepted \cap queue) \ stored
IsExcused == raced \/ faults > 0

\* What one step does to them: it is a step of Delivery, or changes none.
LEMMA DeliveryStep ==
    ASSUME TypeOK, TypeOK', QueueDurable, QueueDurable', FreshIsOne,
           [Next]_vars
    PROVE  \/ \E i \in Items :
                \/ /\ Waiting' = Waiting \cup {i}
                   /\ stored' = stored /\ IsExcused' = IsExcused
                \/ /\ Waiting' = Waiting \ {i}
                   /\ stored' = stored \cup {i} /\ IsExcused' = IsExcused
           \/ IsExcused' = TRUE /\ Waiting' = Waiting /\ stored' = stored
           \/ /\ IsExcused /\ IsExcused'
              /\ stored \subseteq stored' /\ Waiting' \cap stored' = {}
           \/ Waiting' = Waiting /\ stored' = stored /\ IsExcused' = IsExcused
<1> DEFINE Goal ==
      \/ \E i \in Items :
           \/ /\ Waiting' = Waiting \cup {i}
              /\ stored' = stored /\ IsExcused' = IsExcused
           \/ /\ Waiting' = Waiting \ {i}
              /\ stored' = stored \cup {i} /\ IsExcused' = IsExcused
      \/ IsExcused' = TRUE /\ Waiting' = Waiting /\ stored' = stored
      \/ /\ IsExcused /\ IsExcused'
         /\ stored \subseteq stored' /\ Waiting' \cap stored' = {}
      \/ Waiting' = Waiting /\ stored' = stored /\ IsExcused' = IsExcused
<1> SUFFICES Goal
  OBVIOUS
\* A step that leaves the files alone can at most excuse what comes later.
<1>1. ASSUME UNCHANGED <<accepted, queue, stored>>, IsExcused => IsExcused'
      PROVE  Goal
  BY <1>1 DEF Waiting, IsExcused
\* A push is acknowledged, or its acknowledgement is lost.
<1>2. ASSUME NEW i \in Items, UNCHANGED <<accepted, queue, raced, faults>>,
             stored' = stored \cup {i}
      PROVE  Goal
  <2>1. Waiting' = Waiting \ {i}
    BY <1>2 DEF Waiting
  <2>2. IsExcused' = IsExcused
    BY <1>2 DEF IsExcused
  <2> QED
    BY <1>2, <2>1, <2>2
<1>3. ASSUME NEW w \in Writers, SaveWrite(w)
      PROVE  Goal
  <2>1. /\ stored' = stored /\ accepted' = accepted \cup fresh[w]
        /\ raced' = raced /\ faults' = faults
    BY <1>3 DEF SaveWrite
  <2>2. IsExcused' = IsExcused
    BY <2>1 DEF IsExcused
  <2>3. CASE IsExcused
    BY <2>1, <2>2, <2>3 DEF Waiting
  \* Nothing excuses a loss: what waits is what was accepted and not stored.
  <2>4. CASE ~IsExcused
    <3>1. faults = 0 /\ ~raced
      BY <2>4 DEF IsExcused, TypeOK
    <3>2. Waiting = accepted \ stored /\ Waiting' = accepted' \ stored'
      BY <3>1, <2>1 DEF QueueDurable, Waiting
    <3>3. CASE fresh[w] = {}
      BY <3>2, <3>3, <2>1, <2>2
    <3>4. ASSUME NEW i \in Items, fresh[w] = {i}
          PROVE  Goal
      <4>1. Waiting' = Waiting \/ Waiting' = Waiting \cup {i}
        BY <3>2, <3>4, <2>1
      <4> QED
        BY <4>1, <2>1, <2>2
    <3> QED
      BY <3>3, <3>4 DEF FreshIsOne
  <2> QED
    BY <2>3, <2>4
<1>4. ASSUME NEW w \in Writers, NEW i \in todo[w],
             PushOK(w, i) \/ PushFails(w, i)
               \/ FlushPushOK(w, i) \/ FlushPushFails(w, i)
      PROVE  Goal
  <2>1. i \in Items
    BY DEF TypeOK
  <2>2. /\ UNCHANGED <<accepted, queue, raced, faults>>
        /\ stored' = stored \/ stored' = stored \cup {i}
    BY <1>4 DEF PushOK, PushFails, FlushPushOK, FlushPushFails, FailedPush
  <2>3. CASE stored' = stored
    BY <2>2, <2>3, <1>1 DEF IsExcused
  <2>4. CASE stored' = stored \cup {i}
    BY <2>1, <2>2, <2>4, <1>2
  <2> QED
    BY <2>2, <2>3, <2>4
<1>5. ASSUME NEW ws, Kill(ws)
      PROVE  Goal
  <2>1. UNCHANGED <<accepted, queue, stored>> /\ faults' = faults + 1
    BY <1>5 DEF Kill
  <2>2. IsExcused'
    BY <2>1, QueueAssumption DEF IsExcused, TypeOK
  <2> QED
    BY <2>1, <2>2, <1>1
<1>6. ASSUME NEW w \in Writers, SaveFails(w)
      PROVE  Goal
  <2>1. UNCHANGED <<accepted, queue, stored>> /\ faults' = faults + 1
    BY <1>6 DEF SaveFails
  <2>2. IsExcused'
    BY <2>1, QueueAssumption DEF IsExcused, TypeOK
  <2> QED
    BY <2>1, <2>2, <1>1
<1>7. ASSUME UNCHANGED <<accepted, queue, stored, faults>>, raced => raced'
      PROVE  Goal
  BY <1>7, <1>1 DEF IsExcused
<1>8. CASE UNCHANGED vars
  BY <1>8, <1>7 DEF vars
<1>9. CASE Next
  <2>1. (\E w \in Backups : KillBackup(w)) \/ KillDaemon => \E ws : Kill(ws)
    BY DEF KillBackup, KillDaemon
  <2>2. Backups \subseteq Writers /\ Flushes \subseteq Writers
    BY DEF Writers
  <2> QED
    BY <1>9, <1>3, <1>4, <1>5, <1>6, <1>7, <2>1, <2>2, NextCases
    DEF StartPush, Connect, GetFails, EnqueueLoad, EnqueueFails, NextBuddy, Found,
        FoundButTorn, FlushDone, SaveTruncate, Redial, GoOnline, GoOffline
<1> QED
  BY <1>8, <1>9

\* Pushes, retries, overlapping flushes and the file that is rewritten in place
\* implement a mailbox from which an accepted item goes only to its buddy,
\* until a kill, a write error or an Enqueue inside another writer's window.
THEOREM QueueImplementsDelivery == Spec => ImplementsDelivery
<1>1. Init => Abstract!Init
  BY DEF Init, Abstract!Init
<1>2. Init => FreshIsOne
  BY DEF Init, FreshIsOne
<1>3. /\ TypeOK /\ TypeOK' /\ QueueDurable /\ QueueDurable' /\ FreshIsOne
      /\ [Next]_vars
      => [Abstract!Next]_Abstract!vars
  BY DeliveryStep
  DEF Abstract!Next, Abstract!vars, Abstract!Accept, Abstract!Deliver,
      Abstract!Excuse, Abstract!Excused, Waiting, IsExcused
<1> QED
  BY <1>1, <1>2, <1>3, TypeCorrect, AcceptedIsKept, FreshStep, PTL
  DEF Spec, ImplementsDelivery, Abstract!Spec
=============================================================================
