---------------------------- MODULE LocalBackup ----------------------------
(***************************************************************************)
(* The write side of a CerclBackup machine: api.Backup and api.Prune with  *)
(* the local shard store (internal/storage) and the encrypted manifest     *)
(* (internal/manifest).                                                    *)
(*                                                                         *)
(* Every running operation (CLI backup, GUI backup, watch handler, prune)  *)
(* is a process of Procs: it loads the manifest into an object of its own, *)
(* works on that copy and writes the whole copy back, so the mutex inside  *)
(* a Manifest object orders nothing between two operations.                *)
(*                                                                         *)
(* The store keeps one directory per key.  Backup writes under the content *)
(* id (fileIDFromHash), the manifest names a version by a fresh UUID; both *)
(* are keys here because Prune deletes by the latter.  A shard is          *)
(* abstracted to the Reed-Solomon scheme that produced it: for a given     *)
(* content, scheme and index its plaintext is fixed, and it decrypts       *)
(* unless the file was torn.  os.WriteFile truncates and then writes, so   *)
(* a file is torn from the first of these two steps to the second, and     *)
(* stays torn when the operation dies or the write fails in between.       *)
(***************************************************************************)
EXTENDS Integers, FiniteSets

CONSTANTS
    Paths,          \* source files
    Contents,       \* file contents, each with its own content id
    NumChunks,      \* NumChunks[c]: 4 MB chunks of content c (0: empty file)
    Schemes,        \* Reed-Solomon schemes, records [data, parity]
    Procs,          \* operations that may run at the same time
    None,           \* no file, no scheme
    Missing, Torn,  \* no shard file; a shard file that does not decrypt
    MaxVersions,    \* RetentionPolicy.MaxVersions, 0 for no cap
    MaxShards,      \* bound: shard indices are 0 .. MaxShards - 1
    MaxIds,         \* bound: UUIDs handed out by Upsert
    MaxFaults       \* bound: kills and failed shard writes

TotalShards(s) == s.data + s.parity

Need(c, s) == NumChunks[c] * TotalShards(s)

Ids == 1 .. MaxIds
Index == 0 .. MaxShards - 1

ASSUME ConstantTypes ==
    /\ MaxIds \in Nat /\ MaxFaults \in Nat /\ MaxShards \in Nat
    /\ MaxVersions \in Nat
    /\ NumChunks \in [Contents -> Nat]
    /\ Schemes \subseteq [data : Nat \ {0}, parity : Nat]

\* Only finitely many operations run at the same time.
ASSUME FinitelyManyProcs == IsFiniteSet(Procs)

\* The bound on indices covers every shard set of the instance.
ASSUME IndexBound == \A c \in Contents, s \in Schemes : Need(c, s) <= MaxShards

\* A UUID is never a content id: they are strings of different length.
ASSUME DistinctKeys == Ids \cap Contents = {}

ASSUME Sentinels ==
    /\ None \notin Contents /\ None \notin Paths /\ None \notin Schemes
    /\ Missing \notin Schemes /\ Torn \notin Schemes /\ Missing # Torn

Keys == Contents \cup Ids
Shard == Schemes \cup {Missing, Torn}

Entries == [id : Ids, path : Paths, content : Contents, scheme : Schemes,
            version : Nat \ {0}]

Job == [todo : SUBSET Paths, scheme : Schemes \cup {None},
        after : {"idle", "prune"},
        path : Paths \cup {None}, content : Contents \cup {None},
        next : Nat, seen : SUBSET Index]

NoJob == [todo |-> {}, scheme |-> None, after |-> "idle",
          path |-> None, content |-> None, next |-> 0, seen |-> {}]

VARIABLES
    src,        \* src[path]: what is in the source file now
    store,      \* store[key][i]: the file i.shard of directory key
    meta,       \* meta[key]: the indices its meta.json lists ({}: unreadable)
    disk,       \* the manifest file, as of the last complete write
    torn,       \* the manifest file does not decrypt
    mem,        \* mem[p]: the Manifest object of operation p
    pc,         \* where operation p is
    job,        \* the locals of operation p
    nextId,     \* the next UUID
    faults,     \* kills and failed writes so far
    used        \* history: used[c] is every scheme content c was stored with

fileVars == <<store, meta>>
vars == <<src, store, meta, disk, torn, mem, pc, job, nextId, faults, used>>

NoDir == [i \in Index |-> Missing]

Init ==
    /\ src \in [Paths -> Contents \cup {None}]
    /\ store = [k \in Keys |-> NoDir]
    /\ meta = [k \in Keys |-> {}]
    /\ disk = {}
    /\ torn = FALSE
    /\ mem = [p \in Procs |-> {}]
    /\ pc = [p \in Procs |-> "idle"]
    /\ job = [p \in Procs |-> NoJob]
    /\ nextId = 1
    /\ faults = 0
    /\ used = [c \in Contents |-> {}]

-----------------------------------------------------------------------------
(* Steps of an operation. *)

Goto(p, label, locals) ==
    /\ pc' = [pc EXCEPT ![p] = label]
    /\ job' = [job EXCEPT ![p] = locals]

\* Leaving an operation, whatever the reason: its objects are garbage.
Leave(p) ==
    /\ Goto(p, "idle", NoJob)
    /\ mem' = [mem EXCEPT ![p] = {}]

\* Done with this file, well or not: the walk goes on with the rest.
NextFile(p) ==
    Goto(p, "walk", [job[p] EXCEPT !.path = None, !.content = None,
                                   !.next = 0, !.seen = {}])

-----------------------------------------------------------------------------
(* Backup: load the manifest, then walk the source tree. *)

\* A manifest that does not decrypt makes OpenManifest, hence Backup, fail.
\* The tree is listed as it is now; what the exclude filter skips is not in todo.
StartBackup(p, todo, scheme, after) ==
    /\ pc[p] = "idle"
    /\ ~torn
    /\ \A path \in todo : src[path] # None
    /\ mem' = [mem EXCEPT ![p] = disk]
    /\ Goto(p, "walk", [NoJob EXCEPT !.todo = todo, !.scheme = scheme,
                                     !.after = after])
    /\ UNCHANGED <<src, fileVars, disk, torn, nextId, faults, used>>

\* Mutant: a failed open is taken for a file.
OpenFile_NoErrorCheck(p, path) ==
    /\ pc[p] = "walk"
    /\ path \in job[p].todo
    /\ Goto(p, "put", [job[p] EXCEPT !.todo = job[p].todo \ {path},
                                     !.path = path, !.content = src[path]])
    /\ UNCHANGED <<src, fileVars, disk, torn, mem, nextId, faults, used>>

\* backupOneFile up to the first Put: the file is read once, as a whole.
OpenFile(p, path) ==
    /\ pc[p] = "walk"
    /\ path \in job[p].todo
    /\ src[path] # None
    /\ Goto(p, "put", [job[p] EXCEPT !.todo = job[p].todo \ {path},
                                     !.path = path, !.content = src[path]])
    /\ UNCHANGED <<src, fileVars, disk, torn, mem, nextId, faults, used>>

\* The file vanished between the walk's lstat and ChunkFile's open.
OpenFails(p, path) ==
    /\ pc[p] = "walk"
    /\ path \in job[p].todo
    /\ src[path] = None
    /\ Goto(p, "walk", [job[p] EXCEPT !.todo = job[p].todo \ {path}])
    /\ UNCHANGED <<src, fileVars, disk, torn, mem, nextId, faults, used>>

\* The file vanished before the walk's lstat: the callback returns the error,
\* Walk stops and Backup returns without saving the manifest.
WalkFails(p, path) ==
    /\ pc[p] = "walk"
    /\ path \in job[p].todo
    /\ src[path] = None
    /\ Leave(p)
    /\ UNCHANGED <<src, fileVars, disk, torn, nextId, faults, used>>

-----------------------------------------------------------------------------
(* Store.Put of shard number next: the shard file, then meta.json. *)

PutTruncate(p) ==
    LET c == job[p].content IN
    /\ pc[p] = "put"
    /\ job[p].next < Need(c, job[p].scheme)
    /\ store' = [store EXCEPT ![c][job[p].next] = Torn]
    /\ used' = [used EXCEPT ![c] = @ \cup {job[p].scheme}]
    /\ Goto(p, "fill", job[p])
    /\ UNCHANGED <<src, meta, disk, torn, mem, nextId, faults>>

\* Other operations inside Store.Put of the same directory.
Writers(p, c) == {q \in Procs \ {p} : pc[q] = "meta" /\ job[q].content = c}

\* What the write leaves: another operation that wrote longer shards since the
\* truncation leaves its tail behind.
Filled(old, s) ==
    IF old \in Schemes /\ old # s /\ old.data < s.data THEN Torn ELSE s

\* The bytes reach the file; then readMeta, which sees nothing of a meta.json
\* that another operation is rewriting.
PutFill(p) ==
    LET c == job[p].content
        i == job[p].next IN
    /\ pc[p] = "fill"
    /\ store' = [store EXCEPT ![c][i] = Filled(@, job[p].scheme)]
    /\ \E seen \in {meta[c]} \cup {{} : q \in Writers(p, c)} :
          Goto(p, "meta", [job[p] EXCEPT !.seen = seen])
    /\ UNCHANGED <<src, meta, disk, torn, mem, nextId, faults, used>>

\* Mutant: meta.json is written anew for each shard.
Catalogued_Anew(seen, i) == {i}

\* The records of meta.json with that of shard i added or refreshed.
Catalogued(seen, i) == seen \cup {i}

PutMeta(p) ==
    LET c == job[p].content IN
    /\ pc[p] = "meta"
    /\ \E ok \in {TRUE} \cup {FALSE : q \in Writers(p, c)} :
          meta' = [meta EXCEPT ![c] =
                      IF ok THEN Catalogued(job[p].seen, job[p].next) ELSE {}]
    /\ Goto(p, "put", [job[p] EXCEPT !.next = job[p].next + 1, !.seen = {}])
    /\ UNCHANGED <<src, store, disk, torn, mem, nextId, faults, used>>

\* Disk full or I/O error in Put, before the shard file is truncated or later:
\* what was truncated stays as it is.
PutFails(p) ==
    /\ \/ pc[p] \in {"fill", "meta"}
       \/ pc[p] = "put" /\ job[p].next < Need(job[p].content, job[p].scheme)
    /\ faults < MaxFaults
    /\ faults' = faults + 1
    /\ meta' = [meta EXCEPT ![job[p].content] =
                    IF pc[p] = "meta" THEN {} ELSE @]
    /\ NextFile(p)
    /\ UNCHANGED <<src, store, disk, torn, mem, nextId, used>>

-----------------------------------------------------------------------------
(* Manifest.Upsert, after the last shard. *)

\* Mutant: versions are numbered by how many there are.
IsNextVersion_ByCount(m, path, v) ==
    v = Cardinality({e \in m : e.path = path}) + 1

\* nextVersion: one above the highest version of the path, 1 if there is none.
IsNextVersion(m, path, v) ==
    /\ \A e \in m : e.path = path => e.version < v
    /\ v = 1 \/ \E e \in m : e.path = path /\ e.version = v - 1

\* Mutant: a file counts as stored once its data shards are.
AllPut_DataOnly(p) ==
    job[p].next >= NumChunks[job[p].content] * job[p].scheme.data

AllPut(p) == job[p].next = Need(job[p].content, job[p].scheme)

Upsert(p) ==
    /\ pc[p] = "put"
    /\ AllPut(p)
    /\ src[job[p].path] # None
    /\ nextId \in Ids
    /\ \E v \in 1 .. MaxIds :
          /\ IsNextVersion(mem[p], job[p].path, v)
          /\ mem' = [mem EXCEPT ![p] = @ \cup
                {[id |-> nextId, path |-> job[p].path,
                  content |-> job[p].content, scheme |-> job[p].scheme,
                  version |-> v]}]
    /\ nextId' = nextId + 1
    /\ NextFile(p)
    /\ UNCHANGED <<src, fileVars, disk, torn, faults, used>>

\* os.Stat of a file deleted meanwhile: the file fails, its shards stay.
UpsertFails(p) ==
    /\ pc[p] = "put"
    /\ AllPut(p)
    /\ src[job[p].path] = None
    /\ NextFile(p)
    /\ UNCHANGED <<src, fileVars, disk, torn, mem, nextId, faults, used>>

-----------------------------------------------------------------------------
(* Manifest.Save, then what follows it. *)

FinishWalk(p) ==
    /\ pc[p] = "walk"
    /\ job[p].todo = {}
    /\ Goto(p, "save", job[p])
    /\ UNCHANGED <<src, fileVars, disk, torn, mem, nextId, faults, used>>

SaveTruncate(p) ==
    /\ pc[p] = "save"
    /\ torn' = TRUE
    /\ Goto(p, "write", job[p])
    /\ UNCHANGED <<src, fileVars, disk, mem, nextId, faults, used>>

\* A complete file found here is another operation's, written since this one
\* truncated: if it is the longer of the two its tail stays behind.
SaveWrite(p) ==
    /\ pc[p] = "write"
    /\ disk' = mem[p]
    /\ torn' \in {FALSE, ~torn}
    /\ IF job[p].after = "prune"
         THEN Goto(p, "prune", job[p]) /\ UNCHANGED mem
         ELSE Leave(p)
    /\ UNCHANGED <<src, fileVars, nextId, faults, used>>

-----------------------------------------------------------------------------
(* Prune, on its own or at the end of a Backup with AutoPrune. *)

StartPrune(p) ==
    /\ pc[p] = "idle"
    /\ ~torn
    /\ mem' = [mem EXCEPT ![p] = disk]
    /\ Goto(p, "prune", job[p])
    /\ UNCHANGED <<src, fileVars, disk, torn, nextId, faults, used>>

OfPath(m, path) == {e \in m : e.path = path}

\* Mutant: the cap cuts the wrong end of the sorted versions.
MayKeep_Oldest(all, keep) ==
    /\ \A e \in all : \E f \in keep : f.path = e.path /\ f.version <= e.version
    /\ MaxVersions > 0 =>
          \A path \in Paths : Cardinality(OfPath(keep, path)) <= MaxVersions

\* What selectVersionsToKeep may return for some age of the versions: always
\* the newest of each path, any of the others, at most MaxVersions of a path.
MayKeep(all, keep) ==
    /\ \A e \in all : \E f \in keep : f.path = e.path /\ f.version >= e.version
    /\ MaxVersions > 0 =>
          \A path \in Paths : Cardinality(OfPath(keep, path)) <= MaxVersions

\* Mutant: delete by content id, the key Put uses.
Deleted_ByContent(gone) == {e.content : e \in gone}

\* The directories Store.Delete removes for the pruned versions.
Deleted(gone) == {e.id : e \in gone}

PruneVersions(p) ==
    /\ pc[p] = "prune"
    /\ \E keep \in SUBSET mem[p] :
          /\ MayKeep(mem[p], keep)
          /\ IF keep = mem[p]
               THEN Leave(p) /\ UNCHANGED <<store, meta>>
               ELSE LET dirs == Deleted(mem[p] \ keep) IN
                    /\ mem' = [mem EXCEPT ![p] = keep]
                    /\ store' = [k \in Keys |->
                                    IF k \in dirs THEN NoDir ELSE store[k]]
                    /\ meta' = [k \in Keys |->
                                    IF k \in dirs THEN {} ELSE meta[k]]
                    /\ Goto(p, "save", [job[p] EXCEPT !.after = "idle"])
    /\ UNCHANGED <<src, disk, torn, nextId, faults, used>>

-----------------------------------------------------------------------------
(* The environment: the user edits files, a process is killed. *)

Edit(path, c) ==
    /\ src[path] # c
    /\ src' = [src EXCEPT ![path] = c]
    /\ UNCHANGED <<fileVars, disk, torn, mem, pc, job, nextId, faults, used>>

\* Killed between any two steps, or the write of the manifest fails and Backup
\* or Prune returns; inside the write of meta.json that file may be left
\* truncated.
Crash(p) ==
    /\ pc[p] # "idle"
    /\ faults < MaxFaults
    /\ faults' = faults + 1
    /\ \/ UNCHANGED meta
       \/ pc[p] = "meta" /\ meta' = [meta EXCEPT ![job[p].content] = {}]
    /\ Leave(p)
    /\ UNCHANGED <<src, store, disk, torn, nextId, used>>

Next ==
    \/ \E p \in Procs :
          \/ \E todo \in SUBSET Paths, s \in Schemes,
                after \in {"idle", "prune"} :
                StartBackup(p, todo, s, after)
          \/ \E path \in Paths :
                OpenFile(p, path) \/ OpenFails(p, path) \/ WalkFails(p, path)
          \/ PutTruncate(p) \/ PutFill(p) \/ PutMeta(p) \/ PutFails(p)
          \/ Upsert(p) \/ UpsertFails(p)
          \/ FinishWalk(p) \/ SaveTruncate(p) \/ SaveWrite(p)
          \/ StartPrune(p) \/ PruneVersions(p)
          \/ Crash(p)
    \/ \E path \in Paths, c \in Contents \cup {None} : Edit(path, c)

Spec == Init /\ [][Next]_vars

-----------------------------------------------------------------------------
(* Properties *)

\* Where an operation can be, and what its locals then hold: inside
\* backupOneFile there are a file, a content and a scheme, and next stays
\* within the shard set.
Labels == {"idle", "walk", "put", "fill", "meta", "save", "write", "prune"}
LocalsOK(l, j) ==
    /\ l \in {"walk", "put", "fill", "meta"} => j.scheme \in Schemes
    /\ l = "walk" => j.next = 0
    /\ l \in {"put", "fill", "meta"} =>
          /\ j.path \in Paths
          /\ j.content \in Contents
          /\ j.next <= Need(j.content, j.scheme)
    /\ l \in {"fill", "meta"} => j.next < Need(j.content, j.scheme)

\* Every variable keeps its type, the locals of every operation included.
TypeOK ==
    /\ src \in [Paths -> Contents \cup {None}]
    /\ store \in [Keys -> [Index -> Shard]]
    /\ meta \in [Keys -> SUBSET Index]
    /\ disk \in SUBSET Entries
    /\ torn \in BOOLEAN
    /\ mem \in [Procs -> SUBSET Entries]
    /\ pc \in [Procs -> Labels]
    /\ job \in [Procs -> Job]
    /\ \A p \in Procs : LocalsOK(pc[p], job[p])
    /\ nextId \in Nat \ {0}
    /\ faults \in Nat
    /\ used \in [Contents -> SUBSET Schemes]

\* The shard files of an entry, all of them; those of its chunk k.
ShardsOf(e) == 0 .. Need(e.content, e.scheme) - 1
ChunkShards(e, k) ==
    k * TotalShards(e.scheme) .. (k + 1) * TotalShards(e.scheme) - 1

\* Restore succeeds from the local store: in each chunk DataShards shards
\* decrypt, and none that decrypts was cut for another scheme.  Shards of two
\* lengths are refused by the decoder; if all are of one other length they are
\* joined to something that does not decompress or has another hash.
Restorable(e) ==
    \A k \in 0 .. NumChunks[e.content] - 1 :
        /\ \A i \in ChunkShards(e, k) :
              store[e.content][i] \in {e.scheme, Torn, Missing}
        /\ Cardinality({i \in ChunkShards(e, k) :
                            store[e.content][i] = e.scheme}) >= e.scheme.data

\* Every shard file the entry names exists.
Backed(e) == \A i \in ShardsOf(e) : store[e.content][i] # Missing

\* The manifest file never names a shard file that does not exist: shards are
\* stored before Upsert, versions with the same content share a directory,
\* and pruning one of them must leave it for the others.
EntriesBacked == \A e \in disk : Backed(e)

\* Upsert's scan gives every version of a path its own number and its own
\* UUID, in the file and in every operation's copy, also after pruning and
\* after restarts from an older manifest.
Unique(m) ==
    \A e, f \in m :
        (e.id = f.id \/ (e.path = f.path /\ e.version = f.version)) => e = f
VersionsUnique == Unique(disk) /\ \A p \in Procs : Unique(mem[p])

\* Backup rewrites the shards of a known content in place.  As long as the
\* content was only ever stored with one scheme, faults and writes under way
\* cost a version at most one shard each, and it restores until they exceed
\* the parity.
Filling(c) == {p \in Procs : pc[p] = "fill" /\ job[p].content = c}
SingleSchemeRestorable ==
    \A e \in disk :
        (used[e.content] = {e.scheme}
            /\ faults + Cardinality(Filling(e.content)) <= e.scheme.parity)
        => Restorable(e)

\* While operations do not overlap, meta.json lists every shard Put has stored
\* so far in the directory being written, even if an earlier operation left it
\* truncated.
CatalogueComplete ==
    \A p \in Procs : pc[p] \in {"put", "fill", "meta"} =>
        0 .. job[p].next - 1 \subseteq
            (IF pc[p] = "meta" THEN job[p].seen ELSE meta[job[p].content])

\* Whatever Save writes, after a backup or a prune, every path keeps an entry
\* at least as recent as the ones the file last had when it was complete: a
\* manifest that a kill inside Save left unreadable is not taken for an empty
\* one and written over.
LatestNeverRegresses ==
    [][\A e \in disk : \E f \in disk' :
           f.path = e.path /\ f.version >= e.version]_vars

\* A fault-free history leaves every version in the manifest restorable once
\* no operation is running.
AllVersionsRestorable ==
    (faults = 0 /\ \A p \in Procs : pc[p] = "idle")
        => \A e \in disk : Restorable(e)
=============================================================================
