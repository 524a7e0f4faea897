------------------------- MODULE LocalBackupProofs -------------------------
(* What LocalBackup guarantees for every value of its constants. *)
EXTENDS LocalBackup, FiniteSetTheorems, TLAPS

\* The number of shards of a content is a natural within the index bound.
LEMMA NeedBound ==
    ASSUME NEW c \in Contents, NEW s \in Schemes
    PROVE  /\ s.data \in Nat \ {0} /\ s.parity \in Nat
           /\ NumChunks[c] \in Nat
           /\ TotalShards(s) \in Nat \ {0}
           /\ Need(c, s) \in Nat
           /\ Need(c, s) <= MaxShards
<1>1. s.data \in Nat \ {0} /\ s.parity \in Nat
  BY ConstantTypes
<1>2. NumChunks[c] \in Nat /\ TotalShards(s) \in Nat \ {0}
  BY <1>1, ConstantTypes DEF TotalShards
<1>3. Need(c, s) \in Nat
  BY <1>2 DEF Need
<1>4. QED
  BY <1>1, <1>2, <1>3, IndexBound

\* A step keeps the types of labels and locals if l and j fit together.
LEMMA GotoType ==
    ASSUME TypeOK, NEW p \in Procs, NEW l \in Labels, NEW j \in Job,
           Goto(p, l, j), LocalsOK(l, j)
    PROVE  /\ pc' \in [Procs -> Labels]
           /\ job' \in [Procs -> Job]
           /\ \A q \in Procs : LocalsOK(pc'[q], job'[q])
<1>1. pc' \in [Procs -> Labels] /\ job' \in [Procs -> Job]
  BY DEF TypeOK, Goto
<1>2. ASSUME NEW q \in Procs PROVE LocalsOK(pc'[q], job'[q])
  <2>1. CASE q = p
    BY <2>1 DEF TypeOK, Goto
  <2>2. CASE q # p
    <3>1. pc'[q] = pc[q] /\ job'[q] = job[q]
      BY <2>2 DEF TypeOK, Goto
    <3>2. QED
      BY <3>1 DEF TypeOK
  <2>3. QED
    BY <2>1, <2>2
<1>3. QED
  BY <1>1, <1>2

\* The initial state is well typed.
LEMMA TypeInit == Init => TypeOK
<1> SUFFICES ASSUME Init PROVE TypeOK
  OBVIOUS
<1>1. NoJob \in Job
  BY DEF NoJob, Job
<1>2. store \in [Keys -> [Index -> Shard]]
  BY DEF Init, NoDir, Shard
<1>3. \A p \in Procs : LocalsOK(pc[p], job[p])
  BY DEF Init, LocalsOK
<1>4. pc \in [Procs -> Labels] /\ job \in [Procs -> Job]
  BY <1>1 DEF Init, Labels
<1>5. torn \in BOOLEAN
  BY DEF Init
<1>6. QED
  BY <1>2, <1>3, <1>4, <1>5 DEF Init, TypeOK

\* Types after StartBackup.
LEMMA TypeStartBackup ==
    ASSUME TypeOK, NEW p \in Procs, NEW todo \in SUBSET Paths,
           NEW s \in Schemes, NEW after \in {"idle", "prune"},
           StartBackup(p, todo, s, after)
    PROVE  TypeOK'
<1> DEFINE j == [NoJob EXCEPT !.todo = todo, !.scheme = s, !.after = after]
<1>1. j \in Job /\ j.scheme \in Schemes /\ j.next = 0
  BY DEF NoJob, Job
<1>2. Goto(p, "walk", j) /\ LocalsOK("walk", j)
  BY <1>1 DEF Goto, StartBackup, LocalsOK
<1>3. QED
  BY <1>1, <1>2, GotoType DEF TypeOK, StartBackup, Labels, fileVars

\* Types after OpenFile.
LEMMA TypeOpenFile ==
    ASSUME TypeOK, NEW p \in Procs, NEW path \in Paths, OpenFile(p, path)
    PROVE  TypeOK'
<1> DEFINE j == [job[p] EXCEPT !.todo = job[p].todo \ {path},
                               !.path = path, !.content = src[path]]
<1>0. src[path] \in Contents /\ job[p] \in Job
      /\ job[p].scheme \in Schemes /\ job[p].next = 0
  BY DEF TypeOK, OpenFile, LocalsOK
<1>1. j \in Job /\ j.path \in Paths /\ j.content \in Contents
      /\ j.scheme \in Schemes /\ j.next = 0
  BY <1>0 DEF Job
<1>2. Goto(p, "put", j) /\ LocalsOK("put", j)
  BY <1>1, NeedBound DEF TypeOK, Goto, OpenFile, LocalsOK
<1>3. QED
  BY <1>1, <1>2, GotoType DEF TypeOK, OpenFile, Labels, fileVars

\* Types after OpenFails.
LEMMA TypeOpenFails ==
    ASSUME TypeOK, NEW p \in Procs, NEW path \in Paths, OpenFails(p, path)
    PROVE  TypeOK'
<1> DEFINE j == [job[p] EXCEPT !.todo = job[p].todo \ {path}]
<1>1. job[p] \in Job /\ job[p].scheme \in Schemes /\ job[p].next = 0
  BY DEF TypeOK, OpenFails, LocalsOK
<1>2. j \in Job /\ j.scheme \in Schemes /\ j.next = 0
  BY <1>1 DEF Job
<1>3. Goto(p, "walk", j) /\ LocalsOK("walk", j)
  BY <1>2 DEF OpenFails, LocalsOK
<1>4. QED
  BY <1>2, <1>3, GotoType DEF TypeOK, OpenFails, Labels, fileVars

\* Leaving resets the operation to its initial locals.
LEMMA TypeLeave ==
    ASSUME TypeOK, NEW p \in Procs, Leave(p)
    PROVE  /\ pc' \in [Procs -> Labels]
           /\ job' \in [Procs -> Job]
           /\ \A q \in Procs : LocalsOK(pc'[q], job'[q])
           /\ mem' \in [Procs -> SUBSET Entries]
<1>1. NoJob \in Job /\ LocalsOK("idle", NoJob)
  BY DEF NoJob, Job, LocalsOK
<1>2. QED
  BY <1>1, GotoType DEF Leave, TypeOK, Labels

\* So does going on with the next file, for the fields of the last one.
LEMMA TypeNextFile ==
    ASSUME TypeOK, NEW p \in Procs, NextFile(p),
           pc[p] \in {"put", "fill", "meta"}
    PROVE  /\ pc' \in [Procs -> Labels]
           /\ job' \in [Procs -> Job]
           /\ \A q \in Procs : LocalsOK(pc'[q], job'[q])
<1> DEFINE j == [job[p] EXCEPT !.path = None, !.content = None,
                               !.next = 0, !.seen = {}]
<1>1. job[p] \in Job /\ job[p].scheme \in Schemes
  BY DEF TypeOK, LocalsOK
<1>2. j \in Job /\ j.scheme \in Schemes /\ j.next = 0
  BY <1>1 DEF Job
<1>3. Goto(p, "walk", j) /\ LocalsOK("walk", j)
  BY <1>2 DEF NextFile, LocalsOK
<1>4. QED
  BY <1>2, <1>3, GotoType DEF Labels

\* What the type says of an operation in the middle of a Put.
LEMMA PutFacts ==
    ASSUME TypeOK, NEW p \in Procs, pc[p] \in {"put", "fill", "meta"}
    PROVE  /\ job[p] \in Job
           /\ job[p].path \in Paths
           /\ job[p].content \in Contents
           /\ job[p].content \in Keys
           /\ job[p].scheme \in Schemes
           /\ job[p].next \in Nat
           /\ job[p].next <= Need(job[p].content, job[p].scheme)
           /\ job[p].next < Need(job[p].content, job[p].scheme)
                => job[p].next \in Index
           /\ pc[p] \in {"fill", "meta"} =>
                job[p].next < Need(job[p].content, job[p].scheme)
<1>1. job[p] \in Job /\ LocalsOK(pc[p], job[p])
  BY DEF TypeOK
<1>2. /\ job[p].path \in Paths
      /\ job[p].content \in Contents
      /\ job[p].content \in Keys
      /\ job[p].scheme \in Schemes
      /\ job[p].next \in Nat
  BY <1>1 DEF LocalsOK, Keys, Job
<1>3. QED
  BY <1>1, <1>2, NeedBound, ConstantTypes DEF LocalsOK, Index

\* Types after PutTruncate.
LEMMA TypePutTruncate ==
    ASSUME TypeOK, NEW p \in Procs, PutTruncate(p)
    PROVE  TypeOK'
<1> DEFINE j == job[p]
<1>1. /\ j \in Job /\ j.content \in Keys /\ j.content \in Contents
      /\ j.scheme \in Schemes /\ j.next \in Index
      /\ j.path \in Paths /\ j.next < Need(j.content, j.scheme)
      /\ j.next <= Need(j.content, j.scheme)
  BY PutFacts DEF PutTruncate
<1>2. Goto(p, "fill", j) /\ LocalsOK("fill", j)
  BY <1>1 DEF PutTruncate, LocalsOK
<1>3. store' \in [Keys -> [Index -> Shard]]
  BY <1>1 DEF PutTruncate, TypeOK, Shard
<1>4. used' \in [Contents -> SUBSET Schemes]
  BY <1>1 DEF PutTruncate, TypeOK
<1>5. QED
  BY <1>1, <1>2, <1>3, <1>4, GotoType DEF TypeOK, PutTruncate, Labels

\* Types after PutFill.
LEMMA TypePutFill ==
    ASSUME TypeOK, NEW p \in Procs, PutFill(p)
    PROVE  TypeOK'
<1>1. /\ job[p] \in Job /\ job[p].content \in Keys
      /\ job[p].content \in Contents
      /\ job[p].scheme \in Schemes /\ job[p].next \in Index
      /\ job[p].path \in Paths
      /\ job[p].next < Need(job[p].content, job[p].scheme)
      /\ job[p].next <= Need(job[p].content, job[p].scheme)
  BY PutFacts DEF PutFill
<1>2. store' \in [Keys -> [Index -> Shard]]
  BY <1>1 DEF PutFill, TypeOK, Shard, Filled
<1>3. PICK seen \in SUBSET Index :
          Goto(p, "meta", [job[p] EXCEPT !.seen = seen])
  BY <1>1 DEF PutFill, TypeOK
<1> DEFINE j == [job[p] EXCEPT !.seen = seen]
<1>4. /\ j \in Job /\ j.content = job[p].content /\ j.path = job[p].path
      /\ j.scheme = job[p].scheme /\ j.next = job[p].next
  BY <1>1 DEF Job
<1>5. LocalsOK("meta", j)
  BY <1>1, <1>4 DEF LocalsOK
<1>6. QED
  BY <1>2, <1>3, <1>4, <1>5, GotoType DEF TypeOK, PutFill, Labels

\* Types after PutMeta.
LEMMA TypePutMeta ==
    ASSUME TypeOK, NEW p \in Procs, PutMeta(p)
    PROVE  TypeOK'
<1> DEFINE j == [job[p] EXCEPT !.next = job[p].next + 1, !.seen = {}]
<1>1. /\ job[p] \in Job /\ job[p].content \in Keys
      /\ job[p].content \in Contents
      /\ job[p].scheme \in Schemes /\ job[p].next \in Index
      /\ job[p].path \in Paths /\ job[p].next \in Nat
      /\ job[p].next < Need(job[p].content, job[p].scheme)
  BY PutFacts DEF PutMeta
<1>2. job[p].seen \cup {job[p].next} \in SUBSET Index
  BY <1>1 DEF Job
<1>3. meta' \in [Keys -> SUBSET Index]
  <2>1. PICK m \in SUBSET Index : meta' = [meta EXCEPT ![job[p].content] = m]
    BY <1>2 DEF PutMeta, Catalogued
  <2>2. QED
    BY <1>1, <2>1 DEF TypeOK
<1>4. /\ j \in Job /\ j.content = job[p].content /\ j.path = job[p].path
      /\ j.scheme = job[p].scheme /\ j.next = job[p].next + 1
  <2>1. ASSUME NEW r \in Job, NEW n \in Nat
        PROVE  LET t == [r EXCEPT !.next = n, !.seen = {}] IN
               /\ t \in Job /\ t.content = r.content /\ t.path = r.path
               /\ t.scheme = r.scheme /\ t.next = n
    BY DEF Job
  <2>2. job[p].next + 1 \in Nat
    BY <1>1
  <2>3. QED
    BY <1>1, <2>1, <2>2
<1>5. Goto(p, "put", j) /\ LocalsOK("put", j)
  BY <1>1, <1>4, NeedBound DEF PutMeta, LocalsOK
<1>6. QED
  BY <1>3, <1>4, <1>5, GotoType DEF TypeOK, PutMeta, Labels

\* Types after PutFails.
LEMMA TypePutFails ==
    ASSUME TypeOK, NEW p \in Procs, PutFails(p)
    PROVE  TypeOK'
<1>1. job[p].content \in Keys
  BY PutFacts DEF PutFails
<1>2. meta' \in [Keys -> SUBSET Index]
  BY <1>1 DEF PutFails, TypeOK
<1>3. faults' \in Nat
  BY DEF PutFails, TypeOK
<1>4. QED
  BY <1>2, <1>3, TypeNextFile DEF PutFails, TypeOK

\* Types after Upsert.
LEMMA TypeUpsert ==
    ASSUME TypeOK, NEW p \in Procs, Upsert(p)
    PROVE  TypeOK'
<1>1. /\ job[p].content \in Contents /\ job[p].scheme \in Schemes
      /\ job[p].path \in Paths
  BY PutFacts DEF Upsert
<1>2. mem' \in [Procs -> SUBSET Entries]
  <2>1. PICK v \in 1 .. MaxIds : mem' = [mem EXCEPT ![p] = @ \cup
                {[id |-> nextId, path |-> job[p].path,
                  content |-> job[p].content, scheme |-> job[p].scheme,
                  version |-> v]}]
    BY DEF Upsert
  <2>2. [id |-> nextId, path |-> job[p].path, content |-> job[p].content,
         scheme |-> job[p].scheme, version |-> v] \in Entries
    BY <1>1, ConstantTypes DEF Upsert, Entries
  <2>3. QED
    BY <2>1, <2>2 DEF TypeOK
<1>3. nextId' \in Nat \ {0}
  BY DEF Upsert, TypeOK
<1>4. QED
  BY <1>2, <1>3, TypeNextFile DEF Upsert, TypeOK, fileVars

\* Types after SaveWrite.
LEMMA TypeSaveWrite ==
    ASSUME TypeOK, NEW p \in Procs, SaveWrite(p)
    PROVE  TypeOK'
<1>1. disk' \in SUBSET Entries
  BY DEF SaveWrite, TypeOK
<1>2. torn' \in BOOLEAN
  BY DEF SaveWrite, TypeOK
<1>3. CASE job[p].after = "prune"
  <2>1. job[p] \in Job /\ LocalsOK("prune", job[p])
    BY DEF TypeOK, LocalsOK
  <2>2. Goto(p, "prune", job[p]) /\ mem' = mem
    BY <1>3 DEF SaveWrite
  <2>3. QED
    BY <1>1, <1>2, <2>1, <2>2, GotoType DEF SaveWrite, TypeOK, Labels, fileVars
<1>4. CASE job[p].after # "prune"
  BY <1>1, <1>2, <1>4, TypeLeave DEF SaveWrite, TypeOK, fileVars
<1>5. QED
  BY <1>3, <1>4

\* Types after PruneVersions.
LEMMA TypePruneVersions ==
    ASSUME TypeOK, NEW p \in Procs, PruneVersions(p)
    PROVE  TypeOK'
<1>1. PICK keep \in SUBSET mem[p] :
        /\ MayKeep(mem[p], keep)
        /\ IF keep = mem[p]
             THEN Leave(p) /\ UNCHANGED <<store, meta>>
             ELSE LET dirs == Deleted(mem[p] \ keep) IN
                  /\ mem' = [mem EXCEPT ![p] = keep]
                  /\ store' = [k \in Keys |->
                                  IF k \in dirs THEN NoDir ELSE store[k]]
                  /\ meta' = [k \in Keys |->
                                  IF k \in dirs THEN {} ELSE meta[k]]
                  /\ Goto(p, "save", [job[p] EXCEPT !.after = "idle"])
  BY DEF PruneVersions
<1>2. CASE keep = mem[p]
  BY <1>1, <1>2, TypeLeave DEF PruneVersions, TypeOK
<1>3. CASE keep # mem[p]
  <2> DEFINE j == [job[p] EXCEPT !.after = "idle"]
  <2>1. j \in Job
    BY DEF TypeOK, Job
  <2>2. Goto(p, "save", j) /\ LocalsOK("save", j)
    BY <1>1, <1>3 DEF LocalsOK
  <2>3. mem' \in [Procs -> SUBSET Entries]
    BY <1>1, <1>3 DEF TypeOK
  <2>4. store' \in [Keys -> [Index -> Shard]]
    BY <1>1, <1>3 DEF TypeOK, NoDir, Shard
  <2>5. meta' \in [Keys -> SUBSET Index]
    BY <1>1, <1>3 DEF TypeOK
  <2>6. QED
    BY <2>1, <2>2, <2>3, <2>4, <2>5, GotoType DEF PruneVersions, TypeOK, Labels
<1>4. QED
  BY <1>2, <1>3

\* Types after Crash.
LEMMA TypeCrash ==
    ASSUME TypeOK, NEW p \in Procs, Crash(p)
    PROVE  TypeOK'
<1>1. meta' \in [Keys -> SUBSET Index]
  <2>1. CASE UNCHANGED meta
    BY <2>1 DEF TypeOK
  <2>2. CASE pc[p] = "meta" /\ meta' = [meta EXCEPT ![job[p].content] = {}]
    BY <2>2 DEF TypeOK
  <2>3. QED
    BY <2>1, <2>2 DEF Crash
<1>2. faults' \in Nat
  BY DEF Crash, TypeOK
<1>3. QED
  BY <1>1, <1>2, TypeLeave DEF Crash, TypeOK

\* Steps of one operation that only change its label or its copy.
LEMMA TypeRest ==
    ASSUME TypeOK, NEW p \in Procs,
           \/ \E path \in Paths : WalkFails(p, path)
           \/ UpsertFails(p) \/ FinishWalk(p) \/ SaveTruncate(p)
           \/ StartPrune(p)
    PROVE  TypeOK'
<1>1. job[p] \in Job /\ \A l \in {"save", "write", "prune"} : LocalsOK(l, job[p])
  BY DEF TypeOK, LocalsOK
<1>2. CASE \E path \in Paths : WalkFails(p, path)
  BY <1>2, TypeLeave DEF WalkFails, TypeOK, fileVars
<1>3. CASE UpsertFails(p)
  BY <1>3, TypeNextFile DEF UpsertFails, TypeOK, fileVars
<1>4. CASE FinishWalk(p)
  BY <1>1, <1>4, GotoType DEF FinishWalk, TypeOK, Labels, fileVars
<1>5. CASE SaveTruncate(p)
  BY <1>1, <1>5, GotoType DEF SaveTruncate, TypeOK, Labels, fileVars
<1>6. CASE StartPrune(p)
  <2>1. mem' \in [Procs -> SUBSET Entries]
    BY <1>6 DEF StartPrune, TypeOK
  <2>2. QED
    BY <1>1, <1>6, <2>1, GotoType DEF StartPrune, TypeOK, Labels, fileVars
<1>7. QED
  BY <1>2, <1>3, <1>4, <1>5, <1>6

\* Every step keeps the types.
LEMMA TypeStep == TypeOK /\ [Next]_vars => TypeOK'
<1> SUFFICES ASSUME TypeOK, [Next]_vars PROVE TypeOK'
  OBVIOUS
<1>1. CASE UNCHANGED vars
  BY <1>1 DEF vars, TypeOK
<1>2. ASSUME NEW path \in Paths, NEW c \in Contents \cup {None}, Edit(path, c)
      PROVE  TypeOK'
  BY <1>2 DEF Edit, TypeOK, fileVars
<1>3. ASSUME NEW p \in Procs, NEW todo \in SUBSET Paths, NEW s \in Schemes,
             NEW after \in {"idle", "prune"}, StartBackup(p, todo, s, after)
      PROVE  TypeOK'
  BY <1>3, TypeStartBackup
<1>4. ASSUME NEW p \in Procs, NEW path \in Paths,
             OpenFile(p, path) \/ OpenFails(p, path)
      PROVE  TypeOK'
  BY <1>4, TypeOpenFile, TypeOpenFails
<1>5. QED
  BY <1>1, <1>2, <1>3, <1>4, TypePutTruncate, TypePutFill, TypePutMeta,
     TypePutFails, TypeUpsert, TypeSaveWrite, TypePruneVersions, TypeCrash,
     TypeRest
     DEF Next

\* Type correctness, for every number of operations, schemes and faults.
THEOREM TypeCorrect == Spec => []TypeOK
BY TypeInit, TypeStep, PTL DEF Spec
-----------------------------------------------------------------------------
(* EntriesBacked.  Inductive: also for the copies of running operations, and *)
(* for the shards an operation has stored of the file it is working on.      *)

Stored(p) ==
    /\ pc[p] \in {"put", "fill", "meta"} =>
          \A i \in 0 .. job[p].next - 1 : store[job[p].content][i] # Missing
    /\ pc[p] \in {"fill", "meta"} =>
          store[job[p].content][job[p].next] # Missing

BackedInv ==
    /\ \A e \in disk : Backed(e)
    /\ \A p \in Procs : \A e \in mem[p] : Backed(e)
    /\ \A p \in Procs : Stored(p)

\* A shard file of a content, once there, stays: Put replaces it and Prune
\* deletes directories named by UUIDs only.
StoreGrows ==
    \A c \in Contents, i \in Index :
        store[c][i] # Missing => store'[c][i] # Missing

\* No step makes a stored shard file disappear from a content directory.
LEMMA StoreStep == TypeOK /\ [Next]_vars => StoreGrows
<1> SUFFICES ASSUME TypeOK, [Next]_vars, NEW c \in Contents, NEW i \in Index,
                    store[c][i] # Missing
             PROVE  store'[c][i] # Missing
  BY DEF StoreGrows
<1>1. ASSUME NEW p \in Procs, PutTruncate(p)
      PROVE  store'[c][i] # Missing
  <2>1. job[p].content \in Keys /\ job[p].next \in Index
    BY <1>1, PutFacts DEF PutTruncate
  <2>2. QED
    BY <1>1, <2>1, Sentinels DEF PutTruncate, TypeOK, Keys
<1>2. ASSUME NEW p \in Procs, PutFill(p)
      PROVE  store'[c][i] # Missing
  <2>1. job[p].content \in Keys /\ job[p].next \in Index
        /\ job[p].scheme \in Schemes
    BY <1>2, PutFacts DEF PutFill
  <2>2. QED
    BY <1>2, <2>1, Sentinels DEF PutFill, TypeOK, Keys, Filled
<1>3. ASSUME NEW p \in Procs, PruneVersions(p)
      PROVE  store'[c][i] # Missing
  <2>1. PICK keep \in SUBSET mem[p] :
            \/ store' = store
            \/ store' = [k \in Keys |-> IF k \in Deleted(mem[p] \ keep)
                                          THEN NoDir ELSE store[k]]
    BY <1>3 DEF PruneVersions
  <2>2. c \in Keys /\ c \notin Deleted(mem[p] \ keep)
    BY DistinctKeys DEF Deleted, TypeOK, Entries, Keys
  <2>3. QED
    BY <2>1, <2>2
<1>4. CASE store' = store
  BY <1>4
<1>5. QED
  BY <1>1, <1>2, <1>3, <1>4
     DEF Next, vars, StartBackup, OpenFile, OpenFails, WalkFails, PutMeta,
         PutFails, Upsert, UpsertFails, FinishWalk, SaveTruncate, SaveWrite,
         StartPrune, Crash, Edit, fileVars

\* Where entries come from: Save copies an operation's entries to the file,
\* loading copies the file's to an operation, and only Upsert makes new ones.
LEMMA EntriesMove ==
    ASSUME TypeOK, [Next]_vars
    PROVE  /\ disk' = disk \/ \E p \in Procs : disk' = mem[p]
           /\ \A q \in Procs : \/ mem'[q] \subseteq mem[q]
                               \/ mem'[q] \subseteq disk
                               \/ Upsert(q)
<1>1. ASSUME NEW p \in Procs,
             \/ \E todo \in SUBSET Paths, s \in Schemes,
                   after \in {"idle", "prune"} : StartBackup(p, todo, s, after)
             \/ StartPrune(p)
      PROVE  disk' = disk /\ \A q \in Procs : \/ mem'[q] \subseteq mem[q]
                                             \/ mem'[q] \subseteq disk
  BY <1>1 DEF StartBackup, StartPrune, TypeOK
<1>2. ASSUME NEW p \in Procs, Leave(p)
      PROVE  \A q \in Procs : mem'[q] \subseteq mem[q]
  BY <1>2 DEF Leave, TypeOK
<1>3. ASSUME NEW p \in Procs, Upsert(p)
      PROVE  disk' = disk /\ \A q \in Procs \ {p} : mem'[q] = mem[q]
  BY <1>3 DEF Upsert, TypeOK
<1>4. ASSUME NEW p \in Procs, PruneVersions(p)
      PROVE  disk' = disk /\ \A q \in Procs : mem'[q] \subseteq mem[q]
  <2>1. PICK keep \in SUBSET mem[p] : \/ Leave(p)
                                      \/ mem' = [mem EXCEPT ![p] = keep]
    BY <1>4 DEF PruneVersions
  <2>2. QED
    BY <1>2, <1>4, <2>1 DEF PruneVersions, TypeOK
<1>5. ASSUME NEW p \in Procs, SaveWrite(p)
      PROVE  disk' = mem[p] /\ \A q \in Procs : mem'[q] \subseteq mem[q]
  BY <1>2, <1>5 DEF SaveWrite
<1>6. ASSUME NEW p \in Procs,
             Crash(p) \/ \E path \in Paths : WalkFails(p, path)
      PROVE  disk' = disk /\ \A q \in Procs : mem'[q] \subseteq mem[q]
  BY <1>2, <1>6 DEF Crash, WalkFails
<1>7. CASE disk' = disk /\ mem' = mem
  BY <1>7
<1>8. QED
  BY <1>1, <1>3, <1>4, <1>5, <1>6, <1>7
     DEF Next, vars, OpenFile, OpenFails, PutTruncate, PutFill, PutMeta,
         PutFails, UpsertFails, FinishWalk, SaveTruncate, Edit

\* The entry e that Upsert adds.
UpsertAdds(p, e) ==
    /\ e \in Entries
    /\ mem'[p] = mem[p] \cup {e}
    /\ e.id = nextId
    /\ e.path = job[p].path
    /\ e.content = job[p].content
    /\ e.scheme = job[p].scheme
    /\ IsNextVersion(mem[p], job[p].path, e.version)

\* Upsert adds one well-typed entry, for the file it has just stored.
LEMMA UpsertEntry ==
    ASSUME TypeOK, NEW p \in Procs, Upsert(p)
    PROVE  \E e : UpsertAdds(p, e)
<1>1. /\ job[p].content \in Contents /\ job[p].scheme \in Schemes
      /\ job[p].path \in Paths
  BY PutFacts DEF Upsert
<1>2. PICK v \in 1 .. MaxIds :
          /\ IsNextVersion(mem[p], job[p].path, v)
          /\ mem' = [mem EXCEPT ![p] = @ \cup
                {[id |-> nextId, path |-> job[p].path,
                  content |-> job[p].content, scheme |-> job[p].scheme,
                  version |-> v]}]
  BY DEF Upsert
<1> DEFINE e == [id |-> nextId, path |-> job[p].path,
                 content |-> job[p].content, scheme |-> job[p].scheme,
                 version |-> v]
<1>3. e \in Entries
  BY <1>1, ConstantTypes DEF Upsert, Entries
<1>4. mem'[p] = mem[p] \cup {e}
  BY <1>2 DEF TypeOK
<1>5. UpsertAdds(p, e)
  BY <1>2, <1>3, <1>4 DEF UpsertAdds
<1>6. QED
  BY <1>5

\* An entry whose shard files all exist keeps them.
LEMMA BackedStays ==
    ASSUME StoreGrows, NEW e \in Entries, Backed(e)
    PROVE  Backed(e)'
<1>1. e.content \in Contents /\ e.scheme \in Schemes
  BY DEF Entries
<1>2. ShardsOf(e) \subseteq Index
  BY <1>1, NeedBound, ConstantTypes DEF ShardsOf, Index
<1>3. QED
  BY <1>1, <1>2 DEF StoreGrows, Backed

\* An operation that does not step keeps its label and its locals.
LEMMA OthersStay ==
    ASSUME TypeOK, NEW p \in Procs, NEW q \in Procs, p # q,
           NEW l, NEW j, Goto(p, l, j)
    PROVE  pc'[q] = pc[q] /\ job'[q] = job[q]
BY DEF Goto, TypeOK

\* The shards stored of the current file stay stored while the label and the
\* locals of its operation do.
LEMMA StoredStays ==
    ASSUME TypeOK, StoreGrows, NEW p \in Procs, Stored(p),
           pc'[p] = pc[p], job'[p] = job[p]
    PROVE  Stored(p)'
<1>1. CASE pc[p] \notin {"put", "fill", "meta"}
  BY <1>1 DEF Stored
<1>2. CASE pc[p] \in {"put", "fill", "meta"}
  <2>1. /\ job[p].content \in Contents
        /\ job[p].next \in Nat
        /\ 0 .. job[p].next - 1 \subseteq Index
        /\ pc[p] \in {"fill", "meta"} => job[p].next \in Index
    BY <1>2, PutFacts, NeedBound, ConstantTypes DEF Index
  <2>2. QED
    BY <2>1 DEF Stored, StoreGrows
<1>3. QED
  BY <1>1, <1>2

\* How a step of operation p moves its label, for the proofs about Put.
LEMMA Labelling ==
    ASSUME TypeOK, [Next]_vars, NEW q \in Procs
    PROVE  \/ pc'[q] = pc[q] /\ job'[q] = job[q]
           \/ pc'[q] \notin {"put", "fill", "meta"}
           \/ \E path \in Paths : OpenFile(q, path)
           \/ PutTruncate(q)
           \/ PutFill(q)
           \/ PutMeta(q)
<1> DEFINE Same == pc'[q] = pc[q] /\ job'[q] = job[q]
           Out == pc'[q] \notin {"put", "fill", "meta"}
<1>1. ASSUME NEW p \in Procs, NEW l, NEW j, Goto(p, l, j)
      PROVE  Same \/ (p = q /\ pc'[q] = l)
  BY <1>1 DEF Goto, TypeOK
<1>2. CASE UNCHANGED <<pc, job>>
  BY <1>2
<1>3. ASSUME NEW p \in Procs, NEW todo \in SUBSET Paths, NEW s \in Schemes,
             NEW after \in {"idle", "prune"}, StartBackup(p, todo, s, after)
      PROVE  Same \/ Out
  BY <1>1, <1>3 DEF StartBackup
<1>4. ASSUME NEW p \in Procs, NEW path \in Paths,
             OpenFails(p, path) \/ WalkFails(p, path)
      PROVE  Same \/ Out
  BY <1>1, <1>4 DEF OpenFails, WalkFails, Leave
<1>5. ASSUME NEW p \in Procs, PutFails(p) \/ Upsert(p) \/ UpsertFails(p)
      PROVE  Same \/ Out
  BY <1>1, <1>5 DEF PutFails, Upsert, UpsertFails, NextFile
<1>6. ASSUME NEW p \in Procs,
             FinishWalk(p) \/ SaveTruncate(p) \/ StartPrune(p) \/ Crash(p)
      PROVE  Same \/ Out
  BY <1>1, <1>6 DEF FinishWalk, SaveTruncate, StartPrune, Crash, Leave
<1>7. ASSUME NEW p \in Procs, SaveWrite(p) \/ PruneVersions(p)
      PROVE  Same \/ Out
  <2>1. \/ Goto(p, "idle", NoJob)
        \/ Goto(p, "prune", job[p])
        \/ Goto(p, "save", [job[p] EXCEPT !.after = "idle"])
    BY <1>7 DEF SaveWrite, PruneVersions, Leave
  <2>2. QED
    BY <1>1, <2>1
<1>8. ASSUME NEW p \in Procs, NEW path \in Paths, OpenFile(p, path)
      PROVE  Same \/ OpenFile(q, path)
  BY <1>1, <1>8 DEF OpenFile
<1>9. ASSUME NEW p \in Procs, PutTruncate(p) \/ PutFill(p) \/ PutMeta(p)
      PROVE  Same \/ PutTruncate(q) \/ PutFill(q) \/ PutMeta(q)
  BY <1>1, <1>9 DEF PutTruncate, PutFill, PutMeta
<1>10. QED
  BY <1>2, <1>3, <1>4, <1>5, <1>6, <1>7, <1>8, <1>9 DEF Next, vars, Edit

\* Every step keeps BackedInv.
LEMMA BackedStep == TypeOK /\ BackedInv /\ [Next]_vars => BackedInv'
<1> SUFFICES ASSUME TypeOK, BackedInv, [Next]_vars PROVE BackedInv'
  OBVIOUS
<1>0. StoreGrows
  BY StoreStep
<1>1. ASSUME NEW q \in Procs PROVE Stored(q)'
  <2>1. CASE pc'[q] = pc[q] /\ job'[q] = job[q]
    BY <1>0, <2>1, StoredStays DEF BackedInv
  <2>2. CASE pc'[q] \notin {"put", "fill", "meta"}
    BY <2>2 DEF Stored
  <2>3. ASSUME NEW path \in Paths, OpenFile(q, path) PROVE Stored(q)'
    <3>1. pc'[q] = "put" /\ job'[q].next = 0
      BY <2>3 DEF OpenFile, Goto, TypeOK, LocalsOK, Job
    <3>2. QED
      BY <3>1 DEF Stored
  <2>4. CASE PutTruncate(q)
    <3>1. /\ pc'[q] = "fill" /\ job'[q] = job[q]
          /\ job[q].content \in Contents /\ job[q].content \in Keys
          /\ job[q].next \in Index /\ job[q].next \in Nat
      BY <2>4, PutFacts DEF PutTruncate, Goto, TypeOK
    <3>2. store'[job[q].content][job[q].next] = Torn
      BY <2>4, <3>1 DEF PutTruncate, TypeOK
    <3>3. \A i \in 0 .. job[q].next - 1 : store[job[q].content][i] # Missing
      BY <2>4 DEF PutTruncate, BackedInv, Stored
    <3>4. \A i \in 0 .. job[q].next - 1 : store'[job[q].content][i] # Missing
      BY <1>0, <3>1, <3>3, ConstantTypes DEF StoreGrows, Index
    <3>5. QED
      BY <3>1, <3>2, <3>4, Sentinels DEF Stored
  <2>5. CASE PutFill(q)
    <3>1. PICK seen : job'[q] = [job[q] EXCEPT !.seen = seen]
      BY <2>5 DEF PutFill, Goto, TypeOK
    <3>2. /\ pc'[q] = "meta" /\ job[q] \in Job
          /\ job[q].content \in Contents
          /\ job[q].next \in Index /\ job[q].next \in Nat
      BY <2>5, PutFacts DEF PutFill, Goto, TypeOK
    <3>3. job'[q].content = job[q].content /\ job'[q].next = job[q].next
      BY <3>1, <3>2 DEF Job
    <3>4. \A i \in 0 .. job[q].next : store[job[q].content][i] # Missing
      BY <2>5, <3>2 DEF PutFill, BackedInv, Stored
    <3>5. \A i \in 0 .. job[q].next : store'[job[q].content][i] # Missing
      BY <1>0, <3>2, <3>4, ConstantTypes DEF StoreGrows, Index
    <3>6. QED
      BY <3>2, <3>3, <3>5 DEF Stored
  <2>6. CASE PutMeta(q)
    <3>1. /\ pc'[q] = "put" /\ job[q] \in Job
          /\ job[q].content \in Contents
          /\ job[q].next \in Index /\ job[q].next \in Nat
          /\ job'[q] = [job[q] EXCEPT !.next = job[q].next + 1, !.seen = {}]
      BY <2>6, PutFacts DEF PutMeta, Goto, TypeOK
    <3>2. job'[q].content = job[q].content /\ job'[q].next = job[q].next + 1
      BY <3>1 DEF Job
    <3>3. \A i \in 0 .. job[q].next : store[job[q].content][i] # Missing
      BY <2>6, <3>1 DEF PutMeta, BackedInv, Stored
    <3>4. \A i \in 0 .. job[q].next : store'[job[q].content][i] # Missing
      BY <1>0, <3>1, <3>3, ConstantTypes DEF StoreGrows, Index
    <3>5. QED
      BY <3>1, <3>2, <3>4 DEF Stored
  <2>7. QED
    BY <2>1, <2>2, <2>3, <2>4, <2>5, <2>6, Labelling
<1>2. ASSUME NEW m \in SUBSET Entries, \A e \in m : Backed(e)
      PROVE  \A e \in m : Backed(e)'
  BY <1>0, <1>2, BackedStays
<1>3. ASSUME NEW q \in Procs PROVE \A e \in mem'[q] : Backed(e)'
  <2>1. CASE mem'[q] \subseteq mem[q] \/ mem'[q] \subseteq disk
    BY <1>2, <2>1 DEF BackedInv, TypeOK
  <2>2. CASE Upsert(q)
    <3>1. PICK e : UpsertAdds(q, e)
      BY <2>2, UpsertEntry
    <3>2. \A i \in 0 .. job[q].next - 1 : store[job[q].content][i] # Missing
      BY <2>2 DEF Upsert, BackedInv, Stored
    <3>3. Backed(e)
      BY <2>2, <3>1, <3>2 DEF Upsert, AllPut, UpsertAdds, Backed, ShardsOf
    <3>4. QED
      BY <1>2, <3>1, <3>3 DEF BackedInv, TypeOK, UpsertAdds
  <2>3. QED
    BY <2>1, <2>2, EntriesMove
<1>4. \A e \in disk' : Backed(e)'
  <2>1. CASE disk' = disk
    BY <1>2, <2>1 DEF BackedInv, TypeOK
  <2>2. ASSUME NEW p \in Procs, disk' = mem[p]
        PROVE  \A e \in disk' : Backed(e)'
    BY <1>2, <2>2 DEF BackedInv, TypeOK
  <2>3. QED
    BY <2>1, <2>2, EntriesMove
<1>5. QED
  BY <1>1, <1>3, <1>4 DEF BackedInv

\* No manifest entry ever names a shard that is not in the store, whatever
\* the number of concurrent operations, kills, failed writes and prunes.
THEOREM ManifestBacked == Spec => []EntriesBacked
<1>1. Init => BackedInv
  BY DEF Init, BackedInv, Stored
<1>2. BackedInv => EntriesBacked
  BY DEF BackedInv, EntriesBacked
<1>3. QED
  BY <1>1, <1>2, TypeCorrect, BackedStep, PTL DEF Spec
-----------------------------------------------------------------------------
(* VersionsUnique.  Inductive together with the fact that every UUID in use  *)
(* was handed out before.                                                    *)

Numbered(m) == \A e \in m : e.id < nextId

NumberInv ==
    /\ VersionsUnique
    /\ Numbered(disk)
    /\ \A p \in Procs : Numbered(mem[p])

\* Every step keeps NumberInv.
LEMMA NumberStep == TypeOK /\ NumberInv /\ [Next]_vars => NumberInv'
<1> SUFFICES ASSUME TypeOK, NumberInv, [Next]_vars PROVE NumberInv'
  OBVIOUS
<1>1. nextId' \in Nat /\ nextId \in Nat /\ nextId' >= nextId
  <2>1. nextId' = nextId \/ \E p \in Procs : Upsert(p)
    BY DEF Next, vars, StartBackup, OpenFile, OpenFails, WalkFails,
           PutTruncate, PutFill, PutMeta, PutFails, UpsertFails, FinishWalk,
           SaveTruncate, SaveWrite, StartPrune, PruneVersions, Crash, Edit
  <2>2. nextId' = nextId \/ nextId' = nextId + 1
    BY <2>1 DEF Upsert
  <2>3. QED
    BY <2>2 DEF TypeOK
<1>2. ASSUME NEW m \in SUBSET Entries, Unique(m), Numbered(m),
             NEW n \in SUBSET m
      PROVE  Unique(n) /\ \A e \in n : e.id < nextId'
  <2>1. Unique(n)
    BY <1>2 DEF Unique
  <2>2. \A e \in n : e.id < nextId'
    BY <1>1, <1>2, ConstantTypes DEF Numbered, Entries, Ids
  <2>3. QED
    BY <2>1, <2>2
<1>3. ASSUME NEW q \in Procs
      PROVE  Unique(mem'[q]) /\ \A e \in mem'[q] : e.id < nextId'
  <2>1. CASE mem'[q] \subseteq mem[q] \/ mem'[q] \subseteq disk
    BY <1>2, <2>1 DEF NumberInv, VersionsUnique, TypeOK
  <2>2. CASE Upsert(q)
    <3>1. PICK e : UpsertAdds(q, e)
      BY <2>2, UpsertEntry
    <3>2. /\ nextId' = nextId + 1 /\ e.id = nextId
          /\ e.path = job[q].path
          /\ mem'[q] = mem[q] \cup {e}
          /\ Unique(mem[q]) /\ Numbered(mem[q])
          /\ mem[q] \in SUBSET Entries /\ e \in Entries
      BY <2>2, <3>1 DEF Upsert, UpsertAdds, NumberInv, VersionsUnique, TypeOK
    <3>3. \A f \in mem[q] : f.id # e.id
      BY <1>1, <3>2, ConstantTypes DEF Numbered, Entries, Ids
    <3>4. \A f \in mem[q] : f.path = e.path => f.version # e.version
      BY <3>1, <3>2 DEF UpsertAdds, IsNextVersion, Entries
    <3>5. Unique(mem'[q])
      BY <3>2, <3>3, <3>4 DEF Unique
    <3>6. \A f \in mem'[q] : f.id < nextId'
      BY <1>1, <3>2, ConstantTypes DEF Numbered, Entries, Ids
    <3>7. QED
      BY <3>5, <3>6
  <2>3. QED
    BY <2>1, <2>2, EntriesMove
<1>4. Unique(disk') /\ \A e \in disk' : e.id < nextId'
  <2>1. CASE disk' = disk
    BY <1>2, <2>1 DEF NumberInv, VersionsUnique, TypeOK
  <2>2. ASSUME NEW p \in Procs, disk' = mem[p]
        PROVE  Unique(disk') /\ \A e \in disk' : e.id < nextId'
    BY <1>2, <2>2 DEF NumberInv, VersionsUnique, TypeOK
  <2>3. QED
    BY <2>1, <2>2, EntriesMove
<1>5. QED
  BY <1>3, <1>4 DEF NumberInv, VersionsUnique, Numbered

\* Version numbers and UUIDs never collide inside a manifest, whatever the
\* interleaving of backups, prunes and kills.
THEOREM VersionsNeverCollide == Spec => []VersionsUnique
<1>1. Init => NumberInv
  BY DEF Init, NumberInv, VersionsUnique, Unique, Numbered
<1>2. NumberInv => VersionsUnique
  BY DEF NumberInv
<1>3. QED
  BY <1>1, <1>2, TypeCorrect, NumberStep, PTL DEF Spec

-----------------------------------------------------------------------------
(* LatestNeverRegresses, when operations do not overlap.  Inductive: the     *)
(* copy of the running operation covers the file.                            *)

Covers(m, n) ==
    \A e \in n : \E f \in m : f.path = e.path /\ f.version >= e.version

CoverInv == \A p \in Procs : pc[p] # "idle" => Covers(mem[p], disk)

\* Operations run one after the other.
Alone == \A p, q \in Procs : p # q => pc[p] = "idle" \/ pc[q] = "idle"

\* Covering is transitive.
LEMMA CoversTrans ==
    ASSUME NEW a \in SUBSET Entries, NEW b \in SUBSET Entries,
           NEW c \in SUBSET Entries, Covers(a, b), Covers(b, c)
    PROVE  Covers(a, c)
<1>1. SUFFICES ASSUME NEW e \in c
               PROVE  \E f \in a : f.path = e.path /\ f.version >= e.version
  BY DEF Covers
<1>2. PICK f \in b : f.path = e.path /\ f.version >= e.version
  BY DEF Covers
<1>3. PICK g \in a : g.path = f.path /\ g.version >= f.version
  BY DEF Covers
<1>4. g.version >= e.version
  BY <1>2, <1>3 DEF Entries
<1>5. QED
  BY <1>2, <1>3, <1>4

\* A manifest covers itself, and any larger one covers it.
LEMMA CoversSelf ==
    ASSUME NEW a \in SUBSET Entries, NEW b \in SUBSET a
    PROVE  Covers(a, b)
BY DEF Covers, Entries

\* A step of p, which leaves the labels and copies of the others alone.
Only(p) == \A q \in Procs \ {p} : pc'[q] = pc[q] /\ mem'[q] = mem[q]

LEMMA OnlyGoto ==
    ASSUME TypeOK, NEW p \in Procs, NEW l, NEW j, Goto(p, l, j),
           mem' = mem \/ \E m : mem' = [mem EXCEPT ![p] = m]
    PROVE  Only(p) /\ pc'[p] = l
BY DEF Goto, TypeOK, Only

LEMMA CoverStep ==
    TypeOK /\ Alone /\ CoverInv /\ [Next]_vars => CoverInv' /\ Covers(disk', disk)
<1> SUFFICES ASSUME TypeOK, Alone, CoverInv, [Next]_vars
             PROVE  CoverInv' /\ Covers(disk', disk)
  OBVIOUS
<1>0. disk \in SUBSET Entries /\ \A p \in Procs : mem[p] \in SUBSET Entries
  BY DEF TypeOK
<1>1. CASE UNCHANGED <<pc, mem, disk>>
  BY <1>0, <1>1, CoversSelf DEF CoverInv
<1>4. ASSUME NEW p \in Procs, Only(p), disk' = disk,
             pc'[p] = "idle" \/ Covers(mem'[p], disk)
      PROVE  CoverInv' /\ Covers(disk', disk)
  <2>1. Covers(disk', disk)
    BY <1>0, <1>4, CoversSelf
  <2>2. ASSUME NEW q \in Procs, pc'[q] # "idle" PROVE Covers(mem'[q], disk')
    <3>1. CASE q = p
      BY <1>4, <2>2, <3>1
    <3>2. CASE q # p
      BY <1>4, <2>2, <3>2 DEF Only, CoverInv
    <3>3. QED
      BY <3>1, <3>2
  <2>3. QED
    BY <2>1, <2>2 DEF CoverInv
<1>2. ASSUME NEW p \in Procs, Leave(p), disk' = disk
      PROVE  CoverInv' /\ Covers(disk', disk)
  <2>1. Only(p) /\ pc'[p] = "idle"
    BY <1>2, OnlyGoto DEF Leave
  <2>2. QED
    BY <1>2, <1>4, <2>1
<1>3. ASSUME NEW p \in Procs, NEW l, NEW j, Goto(p, l, j),
             mem' = [mem EXCEPT ![p] = disk], disk' = disk
      PROVE  CoverInv' /\ Covers(disk', disk)
  <2>1. Only(p) /\ mem'[p] = disk
    BY <1>3, OnlyGoto DEF TypeOK
  <2>2. QED
    BY <1>0, <1>3, <1>4, <2>1, CoversSelf
<1>5. ASSUME NEW p \in Procs, NEW l, NEW j, Goto(p, l, j), pc[p] # "idle", disk' = disk,
             NEW m \in SUBSET Entries, Covers(m, mem[p]), mem' = [mem EXCEPT ![p] = m]
      PROVE  CoverInv' /\ Covers(disk', disk)
  <2>1. Only(p) /\ mem'[p] = m
    BY <1>5, OnlyGoto DEF TypeOK
  <2>2. Covers(m, disk)
    BY <1>0, <1>5, CoversTrans DEF CoverInv
  <2>3. QED
    BY <1>4, <1>5, <2>1, <2>2
<1>6. ASSUME NEW p \in Procs, Upsert(p)
      PROVE  CoverInv' /\ Covers(disk', disk)
  <2>1. PICK l, j : Goto(p, l, j)
    BY <1>6 DEF Upsert, NextFile
  <2>2. PICK e : mem' = [mem EXCEPT ![p] = @ \cup {e}]
    BY <1>6 DEF Upsert
  <2>3. mem'[p] \in SUBSET Entries /\ mem[p] \subseteq mem'[p]
    BY <1>0, <1>6, UpsertEntry DEF UpsertAdds
  <2>4. mem' = [mem EXCEPT ![p] = mem'[p]]
    BY <2>2 DEF TypeOK
  <2>5. Covers(mem'[p], mem[p])
    BY <2>3, CoversSelf
  <2>6. pc[p] # "idle" /\ disk' = disk
    BY <1>6 DEF Upsert
  <2>7. QED
    BY <1>5, <2>1, <2>3, <2>4, <2>5, <2>6
<1>7. ASSUME NEW p \in Procs, PruneVersions(p)
      PROVE  CoverInv' /\ Covers(disk', disk)
  <2>1. PICK keep \in SUBSET mem[p] :
            /\ MayKeep(mem[p], keep)
            /\ \/ Leave(p)
               \/ /\ mem' = [mem EXCEPT ![p] = keep]
                  /\ Goto(p, "save", [job[p] EXCEPT !.after = "idle"])
    BY <1>7 DEF PruneVersions
  <2>2. Covers(keep, mem[p]) /\ keep \in SUBSET Entries
    BY <1>0, <2>1 DEF MayKeep, Covers
  <2>3. pc[p] # "idle" /\ disk' = disk
    BY <1>7 DEF PruneVersions
  <2>4. QED
    BY <1>2, <1>5, <2>1, <2>2, <2>3
<1>8. ASSUME NEW p \in Procs, SaveWrite(p)
      PROVE  CoverInv' /\ Covers(disk', disk)
  <2>1. Covers(disk', disk) /\ disk' = mem[p]
    BY <1>8 DEF SaveWrite, CoverInv
  <2>2. \A q \in Procs \ {p} : pc[q] = "idle"
    BY <1>8 DEF SaveWrite, Alone
  <2>3. CASE job[p].after = "prune"
    <3>1. Only(p) /\ mem' = mem
      BY <1>8, <2>3, OnlyGoto DEF SaveWrite
    <3>2. Covers(mem'[p], disk')
      BY <1>0, <2>1, <3>1, CoversSelf
    <3>3. QED
      BY <2>1, <2>2, <3>1, <3>2 DEF Only, CoverInv
  <2>4. CASE job[p].after # "prune"
    <3>1. Only(p) /\ pc'[p] = "idle"
      BY <1>8, <2>4, OnlyGoto DEF SaveWrite, Leave
    <3>2. QED
      BY <2>1, <2>2, <3>1 DEF Only, CoverInv
  <2>5. QED
    BY <2>3, <2>4
<1>9. ASSUME NEW p \in Procs, NEW l, NEW j, Goto(p, l, j), pc[p] # "idle",
             disk' = disk, mem' = mem
      PROVE  CoverInv' /\ Covers(disk', disk)
  <2>1. Only(p) /\ Covers(mem'[p], disk)
    BY <1>9, OnlyGoto DEF CoverInv
  <2>2. QED
    BY <1>4, <1>9, <2>1
<1>10. ASSUME NEW p \in Procs, NEW todo \in SUBSET Paths, NEW s \in Schemes,
             NEW after \in {"idle", "prune"}, StartBackup(p, todo, s, after)
      PROVE  CoverInv' /\ Covers(disk', disk)
  BY <1>3, <1>10 DEF StartBackup
<1>11. ASSUME NEW p \in Procs, StartPrune(p)
       PROVE  CoverInv' /\ Covers(disk', disk)
  BY <1>3, <1>11 DEF StartPrune
<1>12. ASSUME NEW p \in Procs, NEW path \in Paths,
              OpenFile(p, path) \/ OpenFails(p, path) \/ WalkFails(p, path)
       PROVE  CoverInv' /\ Covers(disk', disk)
  BY <1>2, <1>9, <1>12 DEF OpenFile, OpenFails, WalkFails
<1>13. ASSUME NEW p \in Procs,
              \/ PutTruncate(p) \/ PutFill(p) \/ PutMeta(p) \/ PutFails(p)
              \/ UpsertFails(p) \/ FinishWalk(p) \/ SaveTruncate(p)
       PROVE  CoverInv' /\ Covers(disk', disk)
  <2>1. \E l, j : Goto(p, l, j)
    BY <1>13 DEF PutTruncate, PutFill, PutMeta, PutFails, UpsertFails,
                 FinishWalk, SaveTruncate, NextFile
  <2>2. pc[p] # "idle" /\ disk' = disk /\ mem' = mem
    BY <1>13 DEF PutTruncate, PutFill, PutMeta, PutFails, UpsertFails,
                 FinishWalk, SaveTruncate
  <2>3. QED
    BY <1>9, <2>1, <2>2
<1>14. ASSUME NEW p \in Procs, Crash(p)
       PROVE  CoverInv' /\ Covers(disk', disk)
  BY <1>2, <1>14 DEF Crash
<1>15. QED
  BY <1>1, <1>6, <1>7, <1>8, <1>10, <1>11, <1>12, <1>13, <1>14
     DEF Next, vars, Edit

\* When operations never overlap, no Save loses the newest version of a path.
THEOREM NoRegression == Spec /\ []Alone => LatestNeverRegresses
<1>1. Init => CoverInv
  BY DEF Init, CoverInv
<1>2. TypeOK /\ Alone /\ CoverInv /\ [Next]_vars => CoverInv' /\ Covers(disk', disk)
  BY CoverStep
<1>3. Covers(disk', disk)
        => \A e \in disk : \E f \in disk' :
               f.path = e.path /\ f.version >= e.version
  BY DEF Covers
<1>4. QED
  BY <1>1, <1>2, <1>3, TypeCorrect, PTL DEF Spec, LatestNeverRegresses
-----------------------------------------------------------------------------
(* SingleSchemeRestorable.  Inductive: a shard that does not decrypt is      *)
(* being rewritten, or is the one a fault left behind; there are no more of  *)
(* these orphans than faults.                                                *)

UsedInv ==
    /\ \A c \in Contents, i \in Index :
          store[c][i] \in used[c] \cup {Torn, Missing}
    /\ \A p \in Procs :
          pc[p] = "fill" => job[p].scheme \in used[job[p].content]

FillsAt(p, c, i) ==
    pc[p] = "fill" /\ job[p].content = c /\ job[p].next = i

Orphans(c) ==
    {i \in Index : store[c][i] = Torn /\ \A p \in Procs : ~FillsAt(p, c, i)}

OrphanInv ==
    \A c \in Contents, s \in Schemes :
        used[c] \subseteq {s} => Cardinality(Orphans(c)) <= faults

\* A shard file of a content changes only in the two steps of its Put.
LEMMA StoreMoves ==
    ASSUME TypeOK, [Next]_vars, NEW c \in Contents, NEW i \in Index
    PROVE  \/ store'[c][i] = store[c][i]
           \/ \E p \in Procs : /\ job[p].content = c /\ job[p].next = i
                               /\ PutTruncate(p) \/ PutFill(p)
<1>1. ASSUME NEW p \in Procs, PutTruncate(p) \/ PutFill(p),
             ~(job[p].content = c /\ job[p].next = i)
      PROVE  store'[c][i] = store[c][i]
  <2>1. job[p].content \in Keys /\ job[p].next \in Index
    BY <1>1, PutFacts DEF PutTruncate, PutFill
  <2>2. QED
    BY <1>1, <2>1 DEF PutTruncate, PutFill, TypeOK, Keys
<1>2. ASSUME NEW p \in Procs, PruneVersions(p)
      PROVE  store'[c][i] = store[c][i]
  <2>1. PICK keep \in SUBSET mem[p] :
            \/ store' = store
            \/ store' = [k \in Keys |-> IF k \in Deleted(mem[p] \ keep)
                                          THEN NoDir ELSE store[k]]
    BY <1>2 DEF PruneVersions
  <2>2. c \in Keys /\ c \notin Deleted(mem[p] \ keep)
    BY DistinctKeys DEF Deleted, TypeOK, Entries, Keys
  <2>3. QED
    BY <2>1, <2>2
<1>3. CASE store' = store
  BY <1>3
<1>4. QED
  BY <1>1, <1>2, <1>3
     DEF Next, vars, StartBackup, OpenFile, OpenFails, WalkFails, PutMeta,
         PutFails, Upsert, UpsertFails, FinishWalk, SaveTruncate, SaveWrite,
         StartPrune, Crash, Edit, fileVars

\* What the two steps of Put leave in the file.
LEMMA PutLeaves ==
    ASSUME TypeOK, UsedInv, NEW p \in Procs
    PROVE  LET c == job[p].content
               i == job[p].next IN
           /\ PutTruncate(p) => /\ c \in Contents /\ i \in Index
                                /\ store'[c][i] = Torn
                                /\ used'[c] = used[c] \cup {job[p].scheme}
                                /\ pc'[p] = "fill" /\ job'[p] = job[p]
           /\ PutFill(p) => /\ c \in Contents /\ i \in Index
                            /\ store'[c][i] \in {job[p].scheme, Torn}
                            /\ job[p].scheme \in used[c]
                            /\ used[c] = {job[p].scheme}
                                  => store'[c][i] = job[p].scheme
<1>1. CASE PutTruncate(p)
  <2>1. job[p].content \in Contents /\ job[p].content \in Keys
        /\ job[p].next \in Index
    BY <1>1, PutFacts DEF PutTruncate
  <2>2. ~PutFill(p)
    BY <1>1 DEF PutTruncate, PutFill
  <2>3. QED
    BY <1>1, <2>1, <2>2 DEF PutTruncate, Goto, TypeOK
<1>2. CASE PutFill(p)
  <2>1. job[p].content \in Contents /\ job[p].content \in Keys
        /\ job[p].next \in Index
    BY <1>2, PutFacts DEF PutFill
  <2>2. ~PutTruncate(p)
    BY <1>2 DEF PutTruncate, PutFill
  <2>3. store'[job[p].content][job[p].next] =
            Filled(store[job[p].content][job[p].next], job[p].scheme)
    BY <1>2, <2>1 DEF PutFill, TypeOK
  <2>4. job[p].scheme \in used[job[p].content]
    BY <1>2 DEF PutFill, UsedInv
  <2>5. store[job[p].content][job[p].next]
            \in used[job[p].content] \cup {Torn, Missing}
    BY <2>1 DEF UsedInv
  <2>6. QED
    BY <2>1, <2>2, <2>3, <2>4, <2>5, Sentinels DEF Filled
<1>3. QED
  BY <1>1, <1>2

\* used only grows, and only by PutTruncate.
LEMMA UsedMoves ==
    ASSUME TypeOK, [Next]_vars, NEW c \in Contents
    PROVE  used[c] \subseteq used'[c]
<1>1. used' = used \/ \E p \in Procs : PutTruncate(p)
  BY DEF Next, vars, StartBackup, OpenFile, OpenFails, WalkFails, PutFill,
         PutMeta, PutFails, Upsert, UpsertFails, FinishWalk, SaveTruncate,
         SaveWrite, StartPrune, PruneVersions, Crash, Edit
<1>2. ASSUME NEW p \in Procs, PutTruncate(p)
      PROVE  used[c] \subseteq used'[c]
  BY <1>2 DEF PutTruncate, TypeOK
<1>3. QED
  BY <1>1, <1>2

\* Every step keeps UsedInv.
LEMMA UsedStep == TypeOK /\ UsedInv /\ [Next]_vars => UsedInv'
<1> SUFFICES ASSUME TypeOK, UsedInv, [Next]_vars PROVE UsedInv'
  OBVIOUS
<1>1. ASSUME NEW c \in Contents, NEW i \in Index
      PROVE  store'[c][i] \in used'[c] \cup {Torn, Missing}
  <2>1. used[c] \subseteq used'[c]
    BY UsedMoves
  <2>2. CASE store'[c][i] = store[c][i]
    BY <2>1, <2>2 DEF UsedInv
  <2>3. ASSUME NEW p \in Procs, job[p].content = c, job[p].next = i,
               PutTruncate(p) \/ PutFill(p)
        PROVE  store'[c][i] \in used'[c] \cup {Torn, Missing}
    BY <2>1, <2>3, PutLeaves
  <2>4. QED
    BY <2>2, <2>3, StoreMoves
<1>2. ASSUME NEW q \in Procs, pc'[q] = "fill"
      PROVE  job'[q].scheme \in used'[job'[q].content]
  <2>1. CASE pc'[q] = pc[q] /\ job'[q] = job[q]
    <3>1. job[q].content \in Contents /\ job[q].scheme \in used[job[q].content]
      BY <1>2, <2>1, PutFacts DEF UsedInv
    <3>2. QED
      BY <2>1, <3>1, UsedMoves
  <2>2. CASE PutTruncate(q)
    BY <2>2, PutLeaves
  <2>3. ~PutFill(q) /\ ~PutMeta(q) /\ \A path \in Paths : ~OpenFile(q, path)
    BY <1>2 DEF PutFill, PutMeta, OpenFile, Goto, TypeOK
  <2>4. QED
    BY <1>2, <2>1, <2>2, <2>3, Labelling
<1>3. QED
  BY <1>1, <1>2 DEF UsedInv

\* A write under way ends by completing or by a fault.
LEMMA FillEnds ==
    ASSUME TypeOK, [Next]_vars, NEW q \in Procs, pc[q] = "fill"
    PROVE  \/ pc'[q] = "fill" /\ job'[q] = job[q]
           \/ PutFill(q) \/ PutFails(q) \/ Crash(q)
<1> DEFINE Same == pc'[q] = pc[q] /\ job'[q] = job[q]
<1>1. ASSUME NEW p \in Procs, NEW l, NEW j, Goto(p, l, j)
      PROVE  Same \/ p = q
  BY <1>1 DEF Goto, TypeOK
<1>2. CASE UNCHANGED <<pc, job>>
  BY <1>2
<1>3. ASSUME NEW p \in Procs, NEW todo \in SUBSET Paths, NEW s \in Schemes,
             NEW after \in {"idle", "prune"}, StartBackup(p, todo, s, after)
      PROVE  Same
  BY <1>1, <1>3 DEF StartBackup
<1>4. ASSUME NEW p \in Procs, NEW path \in Paths,
             OpenFile(p, path) \/ OpenFails(p, path) \/ WalkFails(p, path)
      PROVE  Same
  BY <1>1, <1>4 DEF OpenFile, OpenFails, WalkFails, Leave
<1>5. ASSUME NEW p \in Procs,
             PutTruncate(p) \/ PutMeta(p) \/ Upsert(p) \/ UpsertFails(p)
      PROVE  Same
  BY <1>1, <1>5 DEF PutTruncate, PutMeta, Upsert, UpsertFails, NextFile
<1>6. ASSUME NEW p \in Procs, FinishWalk(p) \/ SaveTruncate(p) \/ StartPrune(p)
      PROVE  Same
  BY <1>1, <1>6 DEF FinishWalk, SaveTruncate, StartPrune
<1>7. ASSUME NEW p \in Procs, SaveWrite(p) \/ PruneVersions(p)
      PROVE  Same
  <2>1. \/ Goto(p, "idle", NoJob)
        \/ Goto(p, "prune", job[p])
        \/ Goto(p, "save", [job[p] EXCEPT !.after = "idle"])
    BY <1>7 DEF SaveWrite, PruneVersions, Leave
  <2>2. p # q
    BY <1>7 DEF SaveWrite, PruneVersions
  <2>3. QED
    BY <1>1, <2>1, <2>2
<1>8. ASSUME NEW p \in Procs, PutFill(p) \/ PutFails(p) \/ Crash(p)
      PROVE  Same \/ p = q
  BY <1>1, <1>8 DEF PutFill, PutFails, Crash, NextFile, Leave
<1>9. QED
  BY <1>2, <1>3, <1>4, <1>5, <1>6, <1>7, <1>8 DEF Next, vars, Edit

\* Sets of shard indices are finite.
LEMMA IndexFinite == \A S \in SUBSET Index : IsFiniteSet(S)
<1>1. IsFiniteSet(Index)
  BY FS_Interval, ConstantTypes DEF Index
<1>2. QED
  BY <1>1, FS_Subset

\* Adding one element adds at most one to the cardinality.
LEMMA OneMore ==
    ASSUME NEW S, NEW x, IsFiniteSet(S)
    PROVE  /\ Cardinality(S \cup {x}) <= Cardinality(S) + 1
           /\ IsFiniteSet(S \cup {x})
<1>1. Cardinality(S) \in Nat
  BY FS_CardinalityType
<1>2. QED
  BY <1>1, FS_AddElement

\* Every step keeps OrphanInv.
LEMMA OrphanStep ==
    TypeOK /\ UsedInv /\ OrphanInv /\ [Next]_vars => OrphanInv'
<1> SUFFICES ASSUME TypeOK, UsedInv, OrphanInv, [Next]_vars,
                    NEW c \in Contents, NEW s \in Schemes,
                    used'[c] \subseteq {s}
             PROVE  Cardinality(Orphans(c)') <= faults'
  BY DEF OrphanInv
<1> DEFINE O == Orphans(c)
           O2 == Orphans(c)'
<1>1. used[c] \subseteq {s} /\ Cardinality(O) <= faults
  BY UsedMoves DEF OrphanInv
<1>2. /\ IsFiniteSet(O) /\ IsFiniteSet(O2)
      /\ Cardinality(O) \in Nat /\ Cardinality(O2) \in Nat
      /\ faults \in Nat
  BY IndexFinite, FS_CardinalityType DEF Orphans, TypeOK
<1>3. ASSUME NEW i \in O2
      PROVE  /\ store[c][i] = Torn
             /\ i \in Index
             /\ \A p \in Procs : FillsAt(p, c, i) => PutFails(p) \/ Crash(p)
  <2>1. i \in Index /\ store'[c][i] = Torn
        /\ \A p \in Procs : ~FillsAt(p, c, i)'
    BY <1>3 DEF Orphans
  <2>2. \A p \in Procs : ~(job[p].content = c /\ job[p].next = i
                               /\ PutTruncate(p))
    BY <2>1, PutLeaves DEF FillsAt
  <2>3. \A p \in Procs : ~(job[p].content = c /\ job[p].next = i
                               /\ PutFill(p))
    <3>1. SUFFICES ASSUME NEW p \in Procs, job[p].content = c,
                          job[p].next = i, PutFill(p)
                   PROVE  FALSE
      OBVIOUS
    <3>2. job[p].scheme \in used[c] /\ used[c] = {job[p].scheme}
      BY <1>1, <3>1, PutLeaves
    <3>3. store'[c][i] = job[p].scheme /\ job[p].scheme \in Schemes
      BY <3>1, <3>2, PutLeaves DEF TypeOK
    <3>4. QED
      BY <2>1, <3>3, Sentinels
  <2>4. store[c][i] = Torn
    BY <2>1, <2>2, <2>3, StoreMoves
  <2>5. ASSUME NEW p \in Procs, FillsAt(p, c, i)
        PROVE  PutFails(p) \/ Crash(p)
    BY <2>1, <2>3, <2>5, FillEnds DEF FillsAt
  <2>6. QED
    BY <2>1, <2>4, <2>5
<1>4. ASSUME NEW p \in Procs, PutFails(p) \/ Crash(p)
      PROVE  Cardinality(O2) <= faults'
  <2>1. faults' = faults + 1
    BY <1>4 DEF PutFails, Crash
  <2>2. \A q \in Procs \ {p} : ~PutFails(q) /\ ~Crash(q)
    <3>1. ASSUME NEW q \in Procs \ {p}, PutFails(q) \/ Crash(q) PROVE FALSE
      <4>1. pc'[q] = pc[q]
        BY <1>4, OthersStay DEF PutFails, Crash, NextFile, Leave
      <4>2. pc'[q] # pc[q]
        BY <3>1 DEF PutFails, Crash, NextFile, Leave, Goto, TypeOK
      <4>3. QED
        BY <4>1, <4>2
    <3>2. QED
      BY <3>1
  <2>3. O2 \subseteq O \cup {job[p].next}
    BY <1>3, <2>2 DEF Orphans, FillsAt
  <2>4. Cardinality(O \cup {job[p].next}) <= Cardinality(O) + 1
        /\ IsFiniteSet(O \cup {job[p].next})
    BY <1>2, OneMore
  <2>5. Cardinality(O2) <= Cardinality(O \cup {job[p].next})
    BY <2>3, <2>4, FS_Subset
  <2>6. Cardinality(O \cup {job[p].next}) \in Nat
    BY <2>4, FS_CardinalityType
  <2>7. QED
    BY <1>1, <1>2, <2>1, <2>4, <2>5, <2>6
<1>5. CASE \A p \in Procs : ~PutFails(p) /\ ~Crash(p)
  <2>1. O2 \subseteq O
    BY <1>3, <1>5 DEF Orphans
  <2>2. Cardinality(O2) <= Cardinality(O)
    BY <1>2, <2>1, FS_Subset
  <2>3. faults' = faults
    BY <1>5 DEF Next, vars, StartBackup, OpenFile, OpenFails, WalkFails,
                PutTruncate, PutFill, PutMeta, Upsert, UpsertFails, FinishWalk,
                SaveTruncate, SaveWrite, StartPrune, PruneVersions, Edit
  <2>4. QED
    BY <1>1, <1>2, <2>2, <2>3
<1>6. QED
  BY <1>4, <1>5

\* The shard indices being rewritten are no more than the operations at it.
LEMMA FillingBound ==
    ASSUME NEW c
    PROVE  LET F == {job[p].next : p \in Filling(c)} IN
           /\ IsFiniteSet(F) /\ IsFiniteSet(Filling(c))
           /\ Cardinality(F) <= Cardinality(Filling(c))
<1> DEFINE F == {job[p].next : p \in Filling(c)}
           g == [p \in Filling(c) |-> job[p].next]
<1>1. IsFiniteSet(Filling(c))
  BY FinitelyManyProcs, FS_Subset DEF Filling
<1>2. g \in Surjection(Filling(c), F)
  BY DEF Surjection
<1>3. QED
  BY <1>1, <1>2, FS_Surjection

\* Chunk k of an entry has TotalShards shards, all of them the entry's.
LEMMA ChunkFacts ==
    ASSUME NEW e \in Entries, NEW k \in 0 .. NumChunks[e.content] - 1
    PROVE  /\ ChunkShards(e, k) \subseteq ShardsOf(e)
           /\ ChunkShards(e, k) \subseteq Index
           /\ IsFiniteSet(ChunkShards(e, k))
           /\ Cardinality(ChunkShards(e, k)) = e.scheme.data + e.scheme.parity
<1> DEFINE n == NumChunks[e.content]
           t == TotalShards(e.scheme)
<1>1. /\ n \in Nat /\ t \in Nat \ {0} /\ k \in Nat /\ k + 1 <= n
      /\ e.content \in Contents /\ e.scheme \in Schemes
  BY NeedBound DEF Entries
<1>2. /\ k * t \in Nat /\ (k + 1) * t \in Nat /\ n * t \in Nat
      /\ (k + 1) * t = k * t + t
      /\ (k + 1) * t <= n * t
  <2>1. ASSUME NEW a \in Nat, NEW b \in Nat, NEW d \in Nat, a <= b
        PROVE  a * d \in Nat /\ b * d \in Nat /\ a * d <= b * d
    BY <2>1
  <2>2. ASSUME NEW a \in Nat, NEW d \in Nat
        PROVE  (a + 1) * d = a * d + d /\ a * d \in Nat
    OBVIOUS
  <2>3. k + 1 \in Nat
    BY <1>1
  <2>4. QED
    BY <1>1, <2>1, <2>2, <2>3
<1>3. Need(e.content, e.scheme) = n * t /\ n * t <= MaxShards
  BY <1>1, NeedBound DEF Need
<1>4. ChunkShards(e, k) = k * t .. ((k + 1) * t - 1)
  BY DEF ChunkShards
<1> HIDE DEF n, t
<1>5. ChunkShards(e, k) \subseteq ShardsOf(e) /\ ChunkShards(e, k) \subseteq Index
  BY <1>2, <1>3, <1>4, ConstantTypes DEF ShardsOf, Index
<1>6. Cardinality(ChunkShards(e, k)) = t
  <2>1. /\ k * t \in Int /\ (k + 1) * t - 1 \in Int
        /\ ~(k * t > (k + 1) * t - 1)
        /\ ((k + 1) * t - 1) - k * t + 1 = t
    BY <1>1, <1>2
  <2>2. QED
    BY <1>4, <2>1, FS_Interval
<1>7. QED
  BY <1>5, <1>6, IndexFinite DEF t, TotalShards

\* What OrphanInv bounds is few enough torn shards to restore.
LEMMA Restores ==
    TypeOK /\ BackedInv /\ UsedInv /\ OrphanInv => SingleSchemeRestorable
<1> SUFFICES ASSUME TypeOK, BackedInv, UsedInv, OrphanInv, NEW e \in disk,
                    used[e.content] = {e.scheme},
                    faults + Cardinality(Filling(e.content)) <= e.scheme.parity,
                    NEW k \in 0 .. NumChunks[e.content] - 1
             PROVE  /\ \A i \in ChunkShards(e, k) :
                          store[e.content][i] \in {e.scheme, Torn, Missing}
                    /\ Cardinality({i \in ChunkShards(e, k) :
                            store[e.content][i] = e.scheme}) >= e.scheme.data
  BY DEF SingleSchemeRestorable, Restorable
<1> DEFINE c == e.content
           C == ChunkShards(e, k)
           Good == {i \in C : store[c][i] = e.scheme}
           Bad == {i \in C : store[c][i] = Torn}
           O == Orphans(c)
           F == {job[p].next : p \in Filling(c)}
<1>1. e \in Entries /\ c \in Contents /\ e.scheme \in Schemes /\ faults \in Nat
      /\ e.scheme.data \in Nat /\ e.scheme.parity \in Nat
  BY NeedBound DEF TypeOK, Entries
<1>2. /\ C \subseteq ShardsOf(e) /\ C \subseteq Index
      /\ IsFiniteSet(C) /\ Cardinality(C) = e.scheme.data + e.scheme.parity
  BY <1>1, ChunkFacts
<1>3. \A i \in C : store[c][i] \in {e.scheme, Torn}
  BY <1>1, <1>2 DEF BackedInv, Backed, UsedInv
<1>4. Good = C \ Bad /\ Bad \subseteq C
  BY <1>1, <1>3, Sentinels
<1>5. Bad \subseteq O \cup F
  BY <1>2 DEF Orphans, FillsAt, Filling
<1>6. /\ IsFiniteSet(O) /\ Cardinality(O) <= faults
      /\ IsFiniteSet(F) /\ Cardinality(F) <= Cardinality(Filling(c))
      /\ IsFiniteSet(Filling(c))
  BY <1>1, IndexFinite, FillingBound DEF OrphanInv, Orphans
<1>7. /\ Cardinality(O) \in Nat /\ Cardinality(F) \in Nat
      /\ Cardinality(Filling(c)) \in Nat /\ Cardinality(O \cap F) \in Nat
  BY <1>6, FS_CardinalityType, FS_Subset
<1>8. /\ IsFiniteSet(O \cup F)
      /\ Cardinality(O \cup F) <= Cardinality(O) + Cardinality(F)
  BY <1>6, <1>7, FS_Union
<1>9. /\ Cardinality(Bad) <= Cardinality(O \cup F)
      /\ Cardinality(Bad) \in Nat /\ Cardinality(O \cup F) \in Nat
  BY <1>5, <1>8, FS_Subset, FS_CardinalityType
<1>10. Cardinality(Bad) <= e.scheme.parity
  BY <1>1, <1>6, <1>7, <1>8, <1>9
<1>11. Cardinality(Good) = Cardinality(C) - Cardinality(Bad)
  <2>1. ASSUME NEW S, NEW T \in SUBSET S, IsFiniteSet(S)
        PROVE  Cardinality(S \ T) = Cardinality(S) - Cardinality(T)
    <3>1. S \cap T = T
      OBVIOUS
    <3>2. QED
      BY <2>1, <3>1, FS_Difference
  <2>2. Cardinality(C \ Bad) = Cardinality(C) - Cardinality(Bad)
    BY <1>2, <1>4, <2>1
  <2>3. QED
    BY <1>4, <2>2, Zenon
<1>12. Cardinality(Good) >= e.scheme.data
  BY <1>1, <1>2, <1>9, <1>10, <1>11
<1>13. QED
  BY <1>3, <1>12

\* A version whose content was only stored with its own scheme restores from
\* the local store while faults and writes under way do not exceed its parity.
THEOREM SingleSchemeSafe == Spec => []SingleSchemeRestorable
<1>1. Init => BackedInv /\ UsedInv /\ OrphanInv
  <2>1. ASSUME Init PROVE BackedInv
    BY <2>1 DEF Init, BackedInv, Stored
  <2>2. ASSUME Init PROVE UsedInv
    BY <2>2 DEF Init, UsedInv, NoDir, Keys
  <2>3. ASSUME Init, NEW c \in Contents PROVE Cardinality(Orphans(c)) <= faults
    <3>1. Orphans(c) = {}
      BY <2>3, Sentinels DEF Init, Orphans, NoDir, Keys
    <3>2. QED
      BY <2>3, <3>1, FS_EmptySet DEF Init
  <2>4. QED
    BY <2>1, <2>2, <2>3 DEF OrphanInv
<1>2. QED
  BY <1>1, TypeCorrect, BackedStep, UsedStep, OrphanStep, Restores, PTL DEF Spec

-----------------------------------------------------------------------------
(* What holds as long as operations do not overlap: two at a time may each  *)
(* lose what the other wrote to meta.json or to the manifest file.          *)

\* Who writes meta.json.
LEMMA MetaMoves ==
    ASSUME [Next]_vars
    PROVE  \/ meta' = meta
           \/ \E p \in Procs : PutMeta(p) \/ PutFails(p) \/ PruneVersions(p) \/ Crash(p)
BY DEF Next, vars, StartBackup, OpenFile, OpenFails, WalkFails, PutTruncate,
       PutFill, Upsert, UpsertFails, FinishWalk, SaveTruncate, SaveWrite,
       StartPrune, Edit, fileVars

\* Inside Put an operation meets no other.
LEMMA NoWriters ==
    ASSUME TypeOK, Alone, NEW p \in Procs, pc[p] # "idle"
    PROVE  /\ \A q \in Procs : pc[q] # "idle" => q = p
           /\ \A c : Writers(p, c) = {}
BY DEF Alone, Writers

\* What p has catalogued of the file it stores.
Listed(p) ==
    pc[p] \in {"put", "fill", "meta"} =>
        0 .. job[p].next - 1 \subseteq
            (IF pc[p] = "meta" THEN job[p].seen ELSE meta[job[p].content])

LEMMA ListedStays ==
    ASSUME TypeOK, Alone, [Next]_vars, NEW p \in Procs, Listed(p),
           pc'[p] = pc[p], job'[p] = job[p]
    PROVE  Listed(p)'
<1>1. CASE pc[p] \notin {"put", "fill", "meta"}
  BY <1>1 DEF Listed
<1>2. CASE pc[p] \in {"put", "fill", "meta"}
  <2>1. ASSUME NEW q \in Procs,
               PutMeta(q) \/ PutFails(q) \/ PruneVersions(q) \/ Crash(q)
        PROVE  FALSE
    <3>1. pc[q] # "idle"
      BY <2>1 DEF PutMeta, PutFails, PruneVersions, Crash
    <3>2. q = p
      BY <1>2, <3>1, NoWriters
    <3>3. ~PruneVersions(p)
      BY <1>2 DEF PruneVersions
    <3>4. ~PutMeta(p) /\ ~PutFails(p) /\ ~Crash(p)
      BY <1>2 DEF PutMeta, PutFails, Crash, NextFile, Leave, Goto, TypeOK
    <3>5. QED
      BY <2>1, <3>2, <3>3, <3>4
  <2>2. meta' = meta
    BY <2>1, MetaMoves
  <2>3. QED
    BY <2>2 DEF Listed
<1>3. QED
  BY <1>1, <1>2

LEMMA CatalogueStep ==
    TypeOK /\ Alone /\ CatalogueComplete /\ [Next]_vars => CatalogueComplete'
<1> SUFFICES ASSUME TypeOK, Alone, CatalogueComplete, [Next]_vars,
                    NEW p \in Procs
             PROVE  Listed(p)'
  BY DEF CatalogueComplete, Listed
<1>1. Listed(p)
  BY DEF CatalogueComplete, Listed
<1>2. CASE pc'[p] = pc[p] /\ job'[p] = job[p]
  BY <1>1, <1>2, ListedStays
<1>3. CASE pc'[p] \notin {"put", "fill", "meta"}
  BY <1>3 DEF Listed
<1>4. ASSUME NEW path \in Paths, OpenFile(p, path) PROVE Listed(p)'
  <2>1. job[p].next = 0 /\ job[p] \in Job
    BY <1>4 DEF OpenFile, TypeOK, LocalsOK
  <2>2. job'[p].next = 0
    BY <1>4, <2>1 DEF OpenFile, Goto, TypeOK, Job
  <2>3. 0 .. job'[p].next - 1 = {}
    BY <2>2
  <2>4. QED
    BY <2>3 DEF Listed
<1>5. ASSUME PutTruncate(p) PROVE Listed(p)'
  <2>1. /\ pc[p] = "put" /\ pc'[p] = "fill" /\ job'[p] = job[p] /\ meta' = meta
    BY <1>5 DEF PutTruncate, Goto, TypeOK
  <2>2. QED
    BY <1>1, <2>1 DEF Listed
<1>6. ASSUME PutFill(p) PROVE Listed(p)'
  <2>1. pc[p] = "fill" /\ job[p] \in Job
    BY <1>6 DEF PutFill, TypeOK
  <2>2. {meta[job[p].content]} \cup {{} : q \in Writers(p, job[p].content)}
            = {meta[job[p].content]}
    BY <2>1, NoWriters
  <2>3. Goto(p, "meta", [job[p] EXCEPT !.seen = meta[job[p].content]])
    BY <1>6, <2>2 DEF PutFill
  <2>4. /\ pc'[p] = "meta" /\ job'[p].seen = meta[job[p].content]
        /\ job'[p].next = job[p].next
    BY <2>1, <2>3 DEF Goto, TypeOK, Job
  <2>5. QED
    BY <1>1, <2>1, <2>4 DEF Listed
<1>7. ASSUME PutMeta(p) PROVE Listed(p)'
  <2>1. /\ pc[p] = "meta" /\ job[p] \in Job /\ job[p].content \in Keys
        /\ job[p].next \in Nat
    BY <1>7, PutFacts DEF PutMeta
  <2>2. {TRUE} \cup {FALSE : q \in Writers(p, job[p].content)} = {TRUE}
    BY <2>1, NoWriters
  <2>3. meta' = [meta EXCEPT ![job[p].content] =
                    Catalogued(job[p].seen, job[p].next)]
    BY <1>7, <2>2 DEF PutMeta
  <2>4. /\ pc'[p] = "put"
        /\ job'[p] = [job[p] EXCEPT !.next = job[p].next + 1, !.seen = {}]
    BY <1>7 DEF PutMeta, Goto, TypeOK
  <2>5. job'[p].content = job[p].content /\ job'[p].next = job[p].next + 1
    BY <2>1, <2>4 DEF Job
  <2>6. meta'[job'[p].content] = job[p].seen \cup {job[p].next}
    BY <2>1, <2>3, <2>5 DEF TypeOK, Catalogued
  <2>7. 0 .. job[p].next - 1 \subseteq job[p].seen
    BY <1>1, <2>1 DEF Listed
  <2>8. 0 .. job'[p].next - 1 \subseteq meta'[job'[p].content]
    BY <2>1, <2>5, <2>6, <2>7
  <2>9. QED
    BY <2>4, <2>8 DEF Listed
<1>8. QED
  BY <1>2, <1>3, <1>4, <1>5, <1>6, <1>7, Labelling

\* As long as operations do not overlap, meta.json lists every shard that Put
\* has stored of the file under way, whatever edits, kills and failed writes
\* came before.
THEOREM AloneCatalogues == Spec /\ []Alone => []CatalogueComplete
<1>1. Init => CatalogueComplete
  BY DEF Init, CatalogueComplete
<1>2. QED
  BY <1>1, TypeCorrect, CatalogueStep, PTL DEF Spec
=============================================================================
