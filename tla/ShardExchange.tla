--------------------------- MODULE ShardExchange ---------------------------
(***************************************************************************)
(* The streams between buddies (p2p/handler.go, p2p/sender.go, manifdist)  *)
(* over the store of what a node holds for others (buddy/store.go), and    *)
(* the scrub of that store (scrub/scrub.go).                               *)
(*                                                                         *)
(* Every stream is served by a goroutine of its own and buddy.Store has no *)
(* lock, so the writes of two handlers interleave.  A shard is two files,  *)
(* the data and then its hash; a manifest is one file.  Data is known by   *)
(* the node that sent it and a version.                                    *)
(***************************************************************************)
EXTENDS Integers, FiniteSets

CONSTANTS
    Nodes,
    Links,      \* pairs <<client, server>> that open streams
    Shards,     \* file id and index of a shard
    Unsafe,     \* the shards whose file id is no path component
    Manifest,   \* the manifest blob, kept beside the shards
    Streams,    \* bound: streams open at the same time
    Versions,   \* versions of the data of an object, old ones still queued
    None,       \* no file
    Torn,       \* a truncated or damaged file
    Registries, \* what the registries may hold at first
    MaxFaults,  \* bound: kills, write errors, damaged files
    MaxSends,   \* bound: pushes
    MaxTrust    \* bound: changes of the registries

Objects == Shards \cup {Manifest}
Refs == [at : Nodes, owner : Nodes, obj : Objects]
Data == [by : Nodes, v : Versions] \cup {Torn}
Trust == {"absent", "nokey", "match", "mismatch"}

ASSUME ExchangeAssumption ==
    /\ Links \subseteq {l \in Nodes \X Nodes : l[1] # l[2]}
    /\ Unsafe \subseteq Shards
    /\ Manifest \notin Shards
    /\ Registries \subseteq [Links -> Trust]
    /\ None \notin Data
    /\ Torn \notin [by : Nodes, v : Versions]
    /\ MaxFaults \in Nat /\ MaxSends \in Nat /\ MaxTrust \in Nat

VARIABLES
    trust,      \* the registry of each node: what it knows of each other
    file, hash, \* the files each node holds for each owner
    stream,     \* the streams, with the locals of their handlers
    scrub,      \* the scrub goroutine of each node
    flagged,    \* refs the scrub pass under way found corrupted
    faults, sends, trusts,
    last,       \* history: the data of the last write that came to its end
    acked,      \* history: refs whose push was acknowledged to the client
    spoiled,    \* history: refs hit by a fault or by overlapping writers
    got         \* history: whose data each node was ever sent

vars == <<trust, file, hash, stream, scrub, flagged, faults, sends, trusts,
          last, acked, spoiled, got>>

Closed == [pc |-> "closed"]
Resting == [pc |-> "check", refs |-> {}]

Init ==
    /\ trust \in Registries
    /\ file = [r \in Refs |-> None]
    /\ hash = [r \in Refs |-> None]
    /\ stream = [s \in Streams |-> Closed]
    /\ scrub = [n \in Nodes |-> Resting]
    /\ flagged = [n \in Nodes |-> {}]
    /\ faults = 0
    /\ sends = 0
    /\ trusts = 0
    /\ last = [r \in Refs |-> None]
    /\ acked = {}
    /\ spoiled = {}
    /\ got = [n \in Nodes |-> {}]

Ref(s) == [at |-> stream[s].link[2], owner |-> stream[s].owner,
           obj |-> stream[s].obj]

Writing(r) == {s \in Streams : stream[s].pc \in {"fill", "hash"} /\ Ref(s) = r}

Goto(s, label) == stream' = [stream EXCEPT ![s].pc = label]

-----------------------------------------------------------------------------
(* handleShard, handlePull and handleManifest, with the client's side of the *)
(* stream: PushShard, PushToBuddy, FetchShard, PullFromBuddy.  A request that *)
(* is turned down changes nothing and is no step.                            *)

\* checkBuddyAuth: an entry without a key is let through.
Authentic(l) == trust[l] \in {"nokey", "match"}

\* shardPath: a file id that is no path component has no file.
Safe(f) == f \notin Unsafe

\* Mutant: the owner named in a push is not compared with the peer.
MayPush_AnyOwner(l, owner) == Authentic(l)

\* A push must be for the peer's own data.
MayPush(l, owner) == Authentic(l) /\ owner = l[1]

MayPushManifest(l, owner) == Authentic(l) /\ owner = l[1]

\* A shard may also be asked of its owner, by a buddy's scrub.
MayPull(l, owner) == Authentic(l) /\ owner \in {l[1], l[2]}

MayPullManifest(l, owner) == Authentic(l) /\ owner = l[1]

\* The registry is asked when the stream opens; what is decided then stands
\* while the message is read and stored.
Open(s, l, owner, obj, v) ==
    /\ stream[s].pc = "closed"
    /\ sends < MaxSends
    /\ sends' = sends + 1
    /\ stream' = [stream EXCEPT ![s] =
            [pc |-> "push", link |-> l, owner |-> owner, obj |-> obj,
             data |-> [by |-> l[1], v |-> v]]]
    /\ UNCHANGED <<trust, file, hash, scrub, flagged, faults, trusts, last,
                   acked, spoiled, got>>

PushShard(s, l, owner, f, v) ==
    /\ MayPush(l, owner) /\ Safe(f)
    /\ Open(s, l, owner, f, v)

PushToBuddy(s, l, owner, v) ==
    /\ MayPushManifest(l, owner)
    /\ Open(s, l, owner, Manifest, v)

\* The client of l receives d.
Receive(l, d) ==
    /\ d \notin {None, Torn}
    /\ got' = [got EXCEPT ![l[1]] = @ \cup {d.by}]
    /\ UNCHANGED <<trust, file, hash, stream, scrub, flagged, faults, sends,
                   trusts, last, acked, spoiled>>

\* Get: the file as it is, without a look at its hash.
Get(n, owner, f) ==
    IF Safe(f) THEN file[[at |-> n, owner |-> owner, obj |-> f]] ELSE None

GetManifest(n, owner) == file[[at |-> n, owner |-> owner, obj |-> Manifest]]

FetchShard(l, owner, f) ==
    /\ MayPull(l, owner)
    /\ Receive(l, Get(l[2], owner, f))

PullFromBuddy(l, owner) ==
    /\ MayPullManifest(l, owner)
    /\ Receive(l, GetManifest(l[2], owner))

\* Put and PutManifest: os.WriteFile truncates the file ...
Truncate(s) ==
    /\ stream[s].pc = "push"
    /\ file' = [file EXCEPT ![Ref(s)] = Torn]
    /\ spoiled' = IF Writing(Ref(s)) = {} THEN spoiled
                                          ELSE spoiled \cup {Ref(s)}
    /\ Goto(s, "fill")
    /\ UNCHANGED <<trust, hash, scrub, flagged, faults, sends, trusts, last,
                   acked, got>>

\* The answer reaches the client, or it is lost: the connection breaks or the
\* client stops waiting, and takes the push for failed though it was done.
Answer(s) ==
    /\ last' = [last EXCEPT ![Ref(s)] = stream[s].data]
    /\ acked' \in {acked, acked \cup {Ref(s)}}
    /\ stream' = [stream EXCEPT ![s] = Closed]

\* ... and writes it.
Put(s) ==
    /\ stream[s].pc = "fill" /\ stream[s].obj # Manifest
    /\ file' = [file EXCEPT ![Ref(s)] = stream[s].data]
    /\ Goto(s, "hash")
    /\ UNCHANGED <<trust, hash, scrub, flagged, faults, sends, trusts, last,
                   acked, spoiled, got>>

\* A manifest has no hash beside it.
PutManifest(s) ==
    /\ stream[s].pc = "fill" /\ stream[s].obj = Manifest
    /\ file' = [file EXCEPT ![Ref(s)] = stream[s].data]
    /\ Answer(s)
    /\ UNCHANGED <<trust, hash, scrub, flagged, faults, sends, trusts,
                   spoiled, got>>

\* Mutant: the hash file is written only when there is none yet.
PutHash_Once(s) ==
    /\ stream[s].pc = "hash"
    /\ hash' = [hash EXCEPT ![Ref(s)] = IF @ = None THEN stream[s].data ELSE @]
    /\ Answer(s)
    /\ UNCHANGED <<trust, file, scrub, flagged, faults, sends, trusts,
                   spoiled, got>>

\* PutWithHash, once the shard is written.
PutHash(s) ==
    /\ stream[s].pc = "hash"
    /\ hash' = [hash EXCEPT ![Ref(s)] = stream[s].data]
    /\ Answer(s)
    /\ UNCHANGED <<trust, file, scrub, flagged, faults, sends, trusts,
                   spoiled, got>>

-----------------------------------------------------------------------------
(* scrub.Manager of node n. *)

\* Mutant: ListAll does not tell manifests from shards.
Held_All(n) == {r \in Refs : r.at = n /\ file[r] # None}

\* ListAll: the shard files found in the store.
Held(n) == {r \in Refs : r.at = n /\ r.obj \in Shards /\ file[r] # None}

\* Mutant: a shard without a hash file passes for healthy.
Verify_NoSidecar(r) == file[r] # None /\ hash[r] \in {None, file[r]}

\* buddy.Store.Verify; a torn file never has the hash that was noted.
Verify(r) == file[r] # None /\ hash[r] = file[r]

ScrubStart(n) ==
    /\ scrub[n] = Resting
    /\ Held(n) # {}
    /\ scrub' = [scrub EXCEPT ![n] = [pc |-> "check", refs |-> Held(n)]]
    /\ flagged' = [flagged EXCEPT ![n] = {}]
    /\ UNCHANGED <<trust, file, hash, stream, faults, sends, trusts, last,
                   acked, spoiled, got>>

ScrubCheck(n, r) ==
    /\ scrub[n].pc = "check"
    /\ r \in scrub[n].refs
    /\ IF Verify(r)
       THEN /\ scrub' = [scrub EXCEPT ![n].refs = @ \ {r}]
            /\ UNCHANGED flagged
       ELSE /\ scrub' = [scrub EXCEPT ![n] =
                            [pc |-> "revive", refs |-> @.refs \ {r}, ref |-> r]]
            /\ flagged' = [flagged EXCEPT ![n] = @ \cup {r}]
    /\ UNCHANGED <<trust, file, hash, stream, faults, sends, trusts, last,
                   acked, spoiled, got>>

\* What the owner's handlePull finds: it looks in the store of what it holds
\* for others, under its own id.
FromOwner(r) ==
    LET l == <<r.at, r.owner>>
    IN  IF l \in Links /\ MayPull(l, r.owner) THEN Get(r.owner, r.owner, r.obj)
                                              ELSE None

\* revive: fetch from the owner and store with a hash of what came; it may
\* fail for want of a connection, and fails when the owner has nothing.  That
\* the owner takes the request and never answers, for which FetchShard sets no
\* deadline, is left out.
ScrubRevive(n) ==
    /\ scrub[n].pc = "revive"
    /\ LET r == scrub[n].ref
       IN  \E d \in {None, FromOwner(r)} :
             /\ file' = [file EXCEPT ![r] = IF d = None THEN @ ELSE d]
             /\ hash' = [hash EXCEPT ![r] = IF d = None THEN @ ELSE d]
    /\ scrub' = [scrub EXCEPT ![n] = [pc |-> "check", refs |-> @.refs]]
    /\ UNCHANGED <<trust, stream, flagged, faults, sends, trusts, last, acked,
                   spoiled, got>>

-----------------------------------------------------------------------------
(* The registry, kills and damage. *)

\* Registry.Remove at the server of l, while streams are open.
Remove(l) ==
    /\ trusts < MaxTrust
    /\ trusts' = trusts + 1
    /\ trust[l] # "absent"
    /\ trust' = [trust EXCEPT ![l] = "absent"]
    /\ UNCHANGED <<file, hash, stream, scrub, flagged, faults, sends, last,
                   acked, spoiled, got>>

Fault == faults < MaxFaults /\ faults' = faults + 1

\* The daemon of n is killed and started again.
Kill(n) ==
    /\ Fault
    /\ \E l \in Links : l[2] = n
    /\ LET hit == {s \in Streams : /\ stream[s].pc # "closed"
                                   /\ stream[s].link[2] = n}
       IN  /\ stream' = [s \in Streams |-> IF s \in hit THEN Closed
                                                        ELSE stream[s]]
           /\ spoiled' = spoiled \cup {Ref(s) : s \in
                                {t \in hit : stream[t].pc \in {"fill", "hash"}}}
    /\ scrub' = [scrub EXCEPT ![n] = Resting]
    /\ flagged' = [flagged EXCEPT ![n] = {}]
    /\ UNCHANGED <<trust, file, hash, sends, trusts, last, acked, got>>

\* A write fails: the handler answers with an error.
PutFails(s) ==
    /\ Fault
    /\ stream[s].pc \in {"fill", "hash"}
    /\ spoiled' = spoiled \cup {Ref(s)}
    /\ stream' = [stream EXCEPT ![s] = Closed]
    /\ UNCHANGED <<trust, file, hash, scrub, flagged, sends, trusts, last,
                   acked, got>>

\* The data file rots.
Rot(r) ==
    /\ Fault
    /\ file[r] \notin {None, Torn}
    /\ file' = [file EXCEPT ![r] = Torn]
    /\ spoiled' = spoiled \cup {r}
    /\ UNCHANGED <<trust, hash, stream, scrub, flagged, sends, trusts, last,
                   acked, got>>

-----------------------------------------------------------------------------
HandlerStep(s) ==
    \/ Truncate(s)
    \/ Put(s)
    \/ PutManifest(s)
    \/ PutHash(s)

ScrubStep(n) ==
    \/ ScrubStart(n)
    \/ \E r \in scrub[n].refs : ScrubCheck(n, r)
    \/ ScrubRevive(n)

Next ==
    \/ \E l \in Links, owner \in Nodes :
            \/ \E s \in Streams, v \in Versions :
                    \/ \E f \in Shards : PushShard(s, l, owner, f, v)
                    \/ PushToBuddy(s, l, owner, v)
            \/ \E f \in Shards : FetchShard(l, owner, f)
            \/ PullFromBuddy(l, owner)
    \/ \E s \in Streams : HandlerStep(s) \/ PutFails(s)
    \/ \E n \in Nodes : ScrubStep(n) \/ Kill(n)
    \/ \E l \in Links : Remove(l)
    \/ \E r \in Refs : Rot(r)

Spec == Init /\ [][Next]_vars

\* Handlers run on, and the scrub goroutine runs at every tick.
LiveSpec ==
    /\ Spec
    /\ \A s \in Streams : WF_vars(HandlerStep(s))
    /\ \A n \in Nodes : WF_vars(ScrubStep(n))

-----------------------------------------------------------------------------
TypeOK ==
    /\ trust \in [Links -> Trust]
    /\ file \in [Refs -> Data \cup {None}]
    /\ hash \in [Refs -> Data \cup {None}]
    /\ last \in [Refs -> Data \cup {None}]
    /\ acked \subseteq Refs
    /\ spoiled \subseteq Refs
    /\ got \in [Nodes -> SUBSET Nodes]
    /\ \A n \in Nodes : \A r \in flagged[n] : r.at = n /\ r.obj \in Shards

\* What an acknowledged push is worth: the node holds the object, as it was
\* last pushed, and a scrub would find it healthy, until a fault hits it or
\* two handlers write it at the same time (a retry after a lost answer, a
\* queued push beside a direct one).
HeldAsAcked ==
    \A r \in acked \ spoiled :
        Writing(r) = {} =>
            /\ last[r] # None
            /\ file[r] = last[r]
            /\ r.obj # Manifest => hash[r] = last[r]

\* Nobody is ever sent another's shard or manifest.  handlePull also serves
\* shards asked in the name of the serving node itself; that lets nothing out
\* only because no push can put anything there.
OnlyOwn == \A n \in Nodes : got[n] \subseteq {n}

\* A shard that no longer matches its hash, for whatever reason, is flagged by
\* a scrub pass if it does not get overwritten first.
RotIsFlagged ==
    \A l \in Links, f \in Shards \ Unsafe :
        LET r == [at |-> l[2], owner |-> l[1], obj |-> f]
        IN  file[r] # None /\ file[r] # hash[r]
                ~> r \in flagged[r.at] \/ file[r] = hash[r]
=============================================================================
