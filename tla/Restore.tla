------------------------------ MODULE Restore ------------------------------
(***************************************************************************)
(* api.Restore (internal/api/restore.go) for one file content, while a     *)
(* backup of the same content rewrites its shards, shards rot, and the     *)
(* buddies that hold copies come and go.                                   *)
(*                                                                         *)
(* Shard files are named by content and index only.  What decrypts at      *)
(* index g after a backup with scheme s is row g % Total(s) of the code    *)
(* word of chunk g \div Total(s), so two schemes mean different things by  *)
(* the same file.  The row of a code word depends on the number of data    *)
(* shards, not on the number of parity shards.                             *)
(***************************************************************************)
EXTENDS Integers, FiniteSets, Sequences

CONSTANTS
    Schemes,    \* the RS schemes in use: records [data, parity]
    Chunks,     \* chunks of the file
    Buddies,    \* registered buddies
    Here,       \* the local store, as a place shards are read from
    None,       \* no shard file
    Bad,        \* a shard file that does not decrypt
    NoFile,     \* no output file
    MaxVersions,\* bound: versions recorded
    Fragile,    \* bound: the indices whose shard files may be lost or rot,
                \* whose push may fail, or that arrive late
    MaxFaults   \* bound: shards lost or damaged, failed writes and removals

Total(s) == s.data + s.parity
Indices(s) == 0 .. Chunks * Total(s) - 1
Slots == UNION {Indices(s) : s \in Schemes}
Contents == Schemes \cup {None, Bad}
Sources == Buddies \cup {Here}

ASSUME RestoreAssumption ==
    /\ \A s \in Schemes : s = [data |-> s.data, parity |-> s.parity]
                          /\ s.data \in Nat \ {0} /\ s.parity \in Nat
    /\ None \notin Schemes /\ Bad \notin Schemes /\ None # Bad
    /\ Here \notin Buddies
    /\ Fragile \subseteq Slots
    /\ Chunks \in Nat /\ MaxVersions \in Nat \ {0} /\ MaxFaults \in Nat

VARIABLES
    versions,   \* the manifest: the scheme of each recorded version
    local,      \* the shard files of this content in the local store
    remote,     \* the copies each buddy holds
    queued,     \* pushes left in the delivery queue
    online,     \* buddies that answer
    writer,     \* a backup of this content under way
    pc, entry,  \* where Restore is and the scheme of the entry it restores
    pieces,     \* rawShards of the chunk being read
    asked,      \* buddies already asked for the shard being fetched
    out,        \* the output file: per chunk written, whether it is right
    faults,
    lapsed,     \* history: per source, the shards of the chunk being read that
                \* it did not offer all that time; not kept once mixed
    mixed       \* history: shards of another scheme were about meanwhile

stores == <<versions, local, remote, queued, online, writer>>
run == <<pc, entry, pieces, asked, out>>
vars == <<stores, run, faults, lapsed, mixed>>

Idle == [pc |-> "idle"]
Full(s) == [g \in Slots |-> IF g \in Indices(s) THEN s ELSE None]
Empty == [g \in Slots |-> None]

Pushes(b, s) == [to : {b}, slot : Indices(s), content : {s}]

\* One version is recorded; each buddy has all its shards, or was away and
\* they wait in the queue.
Init ==
    \E s \in Schemes :
        /\ versions = <<s>>
        /\ local = Full(s)
        /\ remote \in [Buddies -> {Full(s), Empty}]
        /\ queued = UNION {Pushes(b, s) : b \in {b \in Buddies : remote[b] = Empty}}
        /\ online = Buddies
        /\ writer = Idle
        /\ pc = "idle"
        /\ entry = s
        /\ pieces = <<>>
        /\ asked = {}
        /\ out = NoFile
        /\ faults = 0
        /\ lapsed = [at \in Sources |-> {}]
        /\ mixed = FALSE

-----------------------------------------------------------------------------
(* Restore. *)

\* The row of which chunk's code word a shard at g is, if it decrypts.
Row(s, g) == <<s.data, g \div Total(s), g % Total(s)>>
Missing == <<>>
Plaintext(c, g) == IF c = Bad THEN Missing ELSE Row(c, g)

\* mf.Latest, or the version the user named.
Selected(v) ==
    IF v = 0 THEN versions[Len(versions)] ELSE versions[v]

\* The entry is looked up, the host connects to the buddies, and os.Create
\* truncates the output file before any shard has been read.  A restore that
\* gets no host is one that meets no buddy online.
Start(v) ==
    /\ pc = "idle"
    /\ v \in 0 .. Len(versions)
    /\ entry' = Selected(v)
    /\ out' = <<>>
    /\ pc' = "read"
    /\ UNCHANGED <<stores, pieces, asked, faults>>

\* No such version, or the output file cannot be created.
Refused ==
    /\ pc = "idle"
    /\ pc' = "refused"
    /\ UNCHANGED <<stores, entry, pieces, asked, out, faults>>

Index == Len(out) * Total(entry) + Len(pieces)

\* Mutant: the loop over the shards of a chunk runs once too often.
Reading_OneMore == Len(out) < Chunks /\ Len(pieces) <= Total(entry)

Reading == Len(out) < Chunks /\ Len(pieces) < Total(entry)

\* store.Get; a file that is there but does not decrypt counts as missing.
ReadLocal ==
    /\ pc = "read"
    /\ Reading
    /\ local[Index] # None
    /\ pieces' = Append(pieces, Plaintext(local[Index], Index))
    /\ UNCHANGED <<stores, pc, entry, asked, out, faults>>

LocalMissing ==
    /\ pc = "read"
    /\ Reading
    /\ local[Index] = None
    /\ pc' = "fetch"
    /\ UNCHANGED <<stores, entry, pieces, asked, out, faults>>

\* The shard read last, x, is the next piece of the chunk.
Got(x) ==
    /\ pieces' = Append(pieces, x)
    /\ pc' = "read"
    /\ asked' = {}

Sends(b) == b \in online /\ remote[b][Index] # None

\* tryFetchFromBuddies asks one buddy after the other, in any order the
\* registry lists them.  The first that sends something ends the search,
\* whatever it sent; one that is away or has no such file is not asked again.
Fetch(b) ==
    /\ pc = "fetch"
    /\ b \in Buddies \ asked
    /\ \/ /\ Sends(b)
          /\ Got(Plaintext(remote[b][Index], Index))
       \/ /\ ~Sends(b)
          /\ asked' = asked \cup {b}
          /\ UNCHANGED <<pc, pieces>>
    /\ UNCHANGED <<stores, entry, out, faults>>

NoneSends ==
    /\ pc = "fetch"
    /\ asked = Buddies
    /\ Got(Missing)
    /\ UNCHANGED <<stores, entry, out, faults>>

Present == {i \in 1 .. Len(pieces) : pieces[i] # Missing}

\* The decoder works from the first data shards it has.
Basis == {i \in Present :
            Cardinality({j \in Present : j < i}) < entry.data}

\* Mutant: one shard more than the data shards is asked for.
Decodable_Strict == Cardinality(Present) > entry.data

Decodable == Cardinality(Present) >= entry.data

\* Shards of different code words may differ in length, which the decoder
\* refuses, or by chance may not.
SameWord == \A i, j \in Present :
                /\ pieces[i][1] = pieces[j][1]
                /\ pieces[i][2] = pieces[j][2]

Right == \A i \in Basis : pieces[i] = <<entry.data, Len(out), i - 1>>

\* MergeShardToChunk, Decompress and the write to the output file.  Garbage
\* may look like a compressed chunk or not.
Merge ==
    /\ pc = "read"
    /\ Len(out) < Chunks
    /\ Len(pieces) = Total(entry)
    /\ \/ /\ Decodable
          /\ out' = Append(out, Right)
          /\ pieces' = <<>>
          /\ pc' = pc
       \/ /\ ~(Decodable /\ SameWord /\ Right)
          /\ pc' = "failed"
          /\ UNCHANGED <<out, pieces>>
    /\ UNCHANGED <<stores, entry, asked, faults>>

WriteFails ==
    /\ pc = "read"
    /\ Len(pieces) = Total(entry)
    /\ faults < MaxFaults
    /\ faults' = faults + 1
    /\ pc' = "refused"
    /\ UNCHANGED <<stores, entry, pieces, asked, out>>

AllRight == \A c \in 1 .. Len(out) : out[c]

\* Mutant: the hash of what was written is not compared with the entry's.
Finish_Unverified ==
    /\ pc = "read"
    /\ Len(out) = Chunks
    /\ pc' = "ok"
    /\ UNCHANGED <<stores, entry, pieces, asked, out, faults>>

\* The hash over the chunk hashes decides.  On a mismatch the file is removed;
\* whether that worked is not looked at.
Finish ==
    /\ pc = "read"
    /\ Len(out) = Chunks
    /\ \/ /\ AllRight
          /\ pc' = "ok"
          /\ UNCHANGED <<out, faults>>
       \/ /\ ~AllRight
          /\ pc' = "failed"
          /\ out' = NoFile
          /\ UNCHANGED faults
       \/ /\ ~AllRight
          /\ faults < MaxFaults
          /\ faults' = faults + 1
          /\ pc' = "leftover"
          /\ UNCHANGED out
    /\ UNCHANGED <<stores, entry, pieces, asked>>

-----------------------------------------------------------------------------
(* The rest of the system. *)

\* backupOneFile on the same content: every shard is truncated and written
\* in place, the buddies are tried one after the other, then the version is
\* recorded.
BackupStart(s) ==
    /\ writer.pc = "idle"
    /\ Len(versions) < MaxVersions
    /\ writer' = [pc |-> "put", scheme |-> s, next |-> 0, to |-> Here,
                  left |-> Buddies]
    /\ UNCHANGED <<versions, local, remote, queued, online, run, faults>>

\* The shard the backup is at, and the end of a round over the shards.
Shard(state) == writer.pc = state /\ writer.next \in Indices(writer.scheme)
Round == writer.pc \in {"put", "push", "queue"}
         /\ writer.next \notin Indices(writer.scheme)

BackupTruncate ==
    /\ Shard("put")
    /\ local' = [local EXCEPT ![writer.next] = Bad]
    /\ writer' = [writer EXCEPT !.pc = "fill"]
    /\ UNCHANGED <<versions, remote, queued, online, run, faults>>

BackupFill ==
    /\ Shard("fill")
    /\ local' = [local EXCEPT ![writer.next] = writer.scheme]
    /\ writer' = [writer EXCEPT !.pc = "put", !.next = writer.next + 1]
    /\ UNCHANGED <<versions, remote, queued, online, run, faults>>

\* pushToBuddies: the next buddy is connected, or gets its shards queued.
BackupReach(b) ==
    /\ Round
    /\ b \in writer.left
    /\ writer' = [writer EXCEPT !.pc = IF b \in online THEN "push" ELSE "queue",
                                !.next = 0, !.to = b,
                                !.left = writer.left \ {b}]
    /\ UNCHANGED <<versions, local, remote, queued, online, run, faults>>

\* A push reads the local file again, and may fail.
BackupPush ==
    /\ Shard("push")
    /\ LET b == writer.to
           g == writer.next
       IN  \/ /\ b \in online
              /\ local[g] # None
              /\ remote' = [remote EXCEPT ![b][g] = local[g]]
           \/ /\ g \in Fragile \/ local[g] = None
              /\ UNCHANGED remote
    /\ writer' = [writer EXCEPT !.next = writer.next + 1]
    /\ UNCHANGED <<versions, local, queued, online, run, faults>>

BackupEnqueue ==
    /\ Shard("queue")
    /\ LET g == writer.next
       IN  queued' = IF local[g] = None THEN queued
                     ELSE queued \cup {[to |-> writer.to, slot |-> g,
                                       content |-> local[g]]}
    /\ writer' = [writer EXCEPT !.next = writer.next + 1]
    /\ UNCHANGED <<versions, local, remote, online, run, faults>>

\* The manifest is saved once the buddies were tried.
BackupRecord ==
    /\ Round
    /\ writer.left = {}
    /\ versions' = Append(versions, writer.scheme)
    /\ writer' = Idle
    /\ UNCHANGED <<local, remote, queued, online, run, faults>>

\* The daemon flushes the queue when it meets the buddy, which may be long
\* after another backup pushed the same shards in another scheme.  An item
\* whose removal is not saved, which is a fault, is sent again.
Deliver(item) ==
    /\ item.to \in online
    /\ item.slot \in Fragile
    /\ remote' = [remote EXCEPT ![item.to][item.slot] = item.content]
    /\ \/ /\ queued' = queued \ {item}
          /\ UNCHANGED faults
       \/ /\ faults < MaxFaults
          /\ faults' = faults + 1
          /\ UNCHANGED queued
    /\ UNCHANGED <<versions, local, online, writer, run>>

\* A shard file is lost or rots, here or at a buddy.
Damage(g, how) ==
    /\ faults < MaxFaults
    /\ faults' = faults + 1
    /\ \/ /\ local[g] # None
          /\ local' = [local EXCEPT ![g] = how]
          /\ UNCHANGED remote
       \/ \E b \in Buddies :
            /\ remote[b][g] # None
            /\ remote' = [remote EXCEPT ![b][g] = how]
            /\ UNCHANGED local
    /\ UNCHANGED <<versions, queued, online, writer, run>>

Flip(b) ==
    /\ online' = IF b \in online THEN online \ {b} ELSE online \cup {b}
    /\ UNCHANGED <<versions, local, remote, queued, writer, run, faults>>

-----------------------------------------------------------------------------
RestoreStep ==
    \/ \E v \in 0 .. MaxVersions : Start(v)
    \/ Refused
    \/ ReadLocal
    \/ LocalMissing
    \/ \E b \in Buddies : Fetch(b)
    \/ NoneSends
    \/ Merge
    \/ WriteFails
    \/ Finish

Environment ==
    \/ \E s \in Schemes : BackupStart(s)
    \/ BackupTruncate
    \/ BackupFill
    \/ \E b \in Buddies : BackupReach(b) \/ Flip(b)
    \/ BackupPush
    \/ BackupEnqueue
    \/ BackupRecord
    \/ \E item \in queued : Deliver(item)
    \/ \E g \in Fragile, how \in {None, Bad} : Damage(g, how)

\* Whether a source alone makes sure that Restore gets a good shard at g: with
\* the local file absent, an online buddy with a good copy does if no buddy
\* that might be asked first would send anything else.
Offers(at, g) ==
    \/ /\ at = Here
       /\ local[g] = entry
    \/ /\ at \in online
       /\ local[g] = None
       /\ remote[at][g] = entry
       /\ \A b \in online : remote[b][g] \in {entry, None}

\* The shards of the chunk that is being read.
Current == {g \in Indices(entry) : g \div Total(entry) = Len(out)}

Observe ==
    IF pc' \in {"read", "fetch"}
    THEN /\ mixed' = (mixed \/ \E g \in Slots :
                \/ local'[g] \in Schemes \ {entry'}
                \/ \E b \in Buddies : remote'[b][g] \in Schemes \ {entry'})
         /\ lapsed' = [at \in Sources |->
                IF mixed' THEN {}
                ELSE (IF out' = out THEN lapsed[at] ELSE {})
                        \cup {g \in Current' : ~Offers(at, g)'}]
    ELSE UNCHANGED <<lapsed, mixed>>

Done == pc \in {"ok", "failed", "leftover", "refused"}

Next == (RestoreStep \/ (~Done /\ Environment)) /\ Observe

Spec == Init /\ [][Next]_vars

-----------------------------------------------------------------------------
Labels == {"idle", "read", "fetch", "ok", "failed", "leftover", "refused"}

TypeOK ==
    /\ versions \in Seq(Schemes)
    /\ local \in [Slots -> Contents]
    /\ remote \in [Buddies -> [Slots -> Contents]]
    /\ \A item \in queued : item.to \in Buddies /\ item.content \in Contents \ {None}
    /\ online \subseteq Buddies
    /\ pc \in Labels
    /\ entry \in Schemes
    /\ Len(pieces) <= Total(entry)
    /\ asked \subseteq Buddies /\ (asked # {} => pc = "fetch")
    /\ out = NoFile \/ (out \in Seq(BOOLEAN) /\ Len(out) <= Chunks)
    /\ faults \in 0 .. MaxFaults
    /\ mixed \in BOOLEAN

\* A restore that reports success has written the whole file with the
\* recorded content, and no complete file with another content is left at
\* Out once Restore has returned, unless its removal failed: whatever shards
\* of other schemes, from here, from buddies, or late from the queue, the
\* decoder was given.
RestoredIsRecorded ==
    /\ pc = "ok" => Len(out) = Chunks
    /\ Done /\ pc # "leftover" /\ out # NoFile /\ Len(out) = Chunks => AllRight

\* The shards no source offered all the time the chunk was read.
Unsure == {g \in lapsed[Here] : \A b \in Buddies : g \in lapsed[b]}

\* "Any D of the shards of a chunk are enough": while no shard of another
\* scheme is about, Restore fails on a chunk only if for more of its shards
\* than the parity no single place, the local store or one of the buddies,
\* offered a good copy all the time the chunk was being read.  A local file
\* that exists but does not decrypt is not made up for by a buddy, nor a bad
\* copy by another buddy's.
ToleratesLoss ==
    pc \in {"failed", "leftover"} /\ ~mixed =>
        Cardinality(Unsure) > entry.parity
=============================================================================
