------------------------ MODULE ShardExchangeProofs ------------------------
(***************************************************************************)
(* What buddies hold for each other, for any nodes, streams and shards:    *)
(* nobody is sent another's data (OnlyOwn), and what was acknowledged is   *)
(* held as it was pushed (HeldAsAcked).                                    *)
(***************************************************************************)
EXTENDS ShardExchange, TLAPS

Versioned == [by : Nodes, v : Versions]

OpenStreams == [pc : {"push", "fill", "hash"}, link : Links, owner : Nodes,
                obj : Objects, data : Versioned]

\* The shards node n holds for others, and what its scrub may be looking at.
ShardsAt(n) == {r \in Refs : r.at = n /\ r.obj \in Shards}

ScrubStates(n) ==
    [pc : {"check"}, refs : SUBSET ShardsAt(n)]
        \cup [pc : {"revive"}, refs : SUBSET ShardsAt(n), ref : ShardsAt(n)]

\* TypeOK with the locals of handlers and scrubs.
Typed ==
    /\ TypeOK
    /\ stream \in [Streams -> {Closed} \cup OpenStreams]
    /\ DOMAIN scrub = Nodes /\ DOMAIN flagged = Nodes
    /\ \A n \in Nodes : /\ scrub[n] \in ScrubStates(n)
                        /\ flagged[n] \subseteq ShardsAt(n)

\* A handler stores only what its peer sent, under the peer's name, and no
\* node is its own peer: so each file is its owner's, and there is none that a
\* node holds for itself.
Owned ==
    /\ \A s \in Streams : stream[s].pc # "closed" =>
            /\ stream[s].owner = stream[s].link[1]
            /\ stream[s].data.by = stream[s].link[1]
    /\ \A r \in Refs : /\ file[r] \notin {None, Torn} => file[r].by = r.owner
                       /\ r.owner = r.at => file[r] = None

-----------------------------------------------------------------------------
\* Every step of the next-state relation, one disjunct per action.
LEMMA NextCases ==
    ASSUME Next
    PROVE  \/ \E l \in Links, owner \in Nodes, s \in Streams, v \in Versions,
                 f \in Shards : PushShard(s, l, owner, f, v)
           \/ \E l \in Links, owner \in Nodes, s \in Streams, v \in Versions :
                 PushToBuddy(s, l, owner, v)
           \/ \E l \in Links, owner \in Nodes, f \in Shards :
                 FetchShard(l, owner, f)
           \/ \E l \in Links, owner \in Nodes : PullFromBuddy(l, owner)
           \/ \E s \in Streams : Truncate(s)
           \/ \E s \in Streams : Put(s)
           \/ \E s \in Streams : PutManifest(s)
           \/ \E s \in Streams : PutHash(s)
           \/ \E s \in Streams : PutFails(s)
           \/ \E n \in Nodes : ScrubStart(n)
           \/ \E n \in Nodes : \E r \in scrub[n].refs : ScrubCheck(n, r)
           \/ \E n \in Nodes : ScrubRevive(n)
           \/ \E n \in Nodes : Kill(n)
           \/ \E l \in Links : Remove(l)
           \/ \E r \in Refs : Rot(r)
BY DEF Next, HandlerStep, ScrubStep

\* The name of the object an open stream writes.
LEMMA RefType ==
    ASSUME Typed, NEW s \in Streams, stream[s].pc # "closed"
    PROVE  /\ Ref(s) \in Refs
           /\ stream[s] \in OpenStreams
           /\ stream[s].link \in Links
           /\ stream[s].link[1] \in Nodes /\ stream[s].link[2] \in Nodes
           /\ stream[s].link[1] # stream[s].link[2]
           /\ stream[s].owner \in Nodes /\ stream[s].obj \in Objects
           /\ stream[s].data \in Versioned
           /\ Ref(s).at = stream[s].link[2]
           /\ Ref(s).owner = stream[s].owner
           /\ Ref(s).obj = stream[s].obj
<1>1. stream[s] \in OpenStreams
  BY DEF Typed, Closed
<1>2. stream[s].link \in Links /\ stream[s].owner \in Nodes
      /\ stream[s].obj \in Objects /\ stream[s].data \in Versioned
  BY <1>1 DEF OpenStreams
<1>3. /\ stream[s].link[1] \in Nodes /\ stream[s].link[2] \in Nodes
      /\ stream[s].link[1] # stream[s].link[2]
  BY <1>2, ExchangeAssumption
<1> QED
  BY <1>1, <1>2, <1>3 DEF Ref, Refs

\* What PutHash, PutManifest and the other steps of a handler leave of the
\* streams: the others as they were, its own at another label or closed.
LEMMA GotoType ==
    ASSUME Typed, NEW s \in Streams, stream[s].pc # "closed",
           NEW label \in {"fill", "hash"}, Goto(s, label)
    PROVE  /\ stream' \in [Streams -> {Closed} \cup OpenStreams]
           /\ \A t \in Streams \ {s} : stream'[t] = stream[t]
           /\ stream'[s] = [stream[s] EXCEPT !.pc = label]
           /\ stream'[s].pc = label
           /\ stream'[s].link = stream[s].link
           /\ stream'[s].owner = stream[s].owner
           /\ stream'[s].obj = stream[s].obj
           /\ stream'[s].data = stream[s].data
<1>1. stream[s] \in OpenStreams
  BY RefType
<1>2. [stream[s] EXCEPT !.pc = label] \in OpenStreams
  BY <1>1 DEF OpenStreams
<1>3. stream' = [stream EXCEPT ![s] = [stream[s] EXCEPT !.pc = label]]
  BY DEF Goto, Typed
<1> QED
  BY <1>1, <1>2, <1>3 DEF Typed, OpenStreams

\* The streams after a step that left all but one, or changed only its label.
LEMMA OwnedStreams ==
    ASSUME Typed, Owned, NEW s \in Streams, stream[s].pc # "closed",
           NEW label \in {"fill", "hash"}, Goto(s, label)
    PROVE  \A t \in Streams : stream'[t].pc # "closed" =>
                /\ stream'[t].owner = stream'[t].link[1]
                /\ stream'[t].data.by = stream'[t].link[1]
<1>1. /\ \A t \in Streams \ {s} : stream'[t] = stream[t]
      /\ stream'[s].link = stream[s].link
      /\ stream'[s].owner = stream[s].owner
      /\ stream'[s].data = stream[s].data
  BY GotoType
<1> QED
  BY <1>1 DEF Owned

\* A stream that is closed, by an answer or by an error.
LEMMA CloseType ==
    ASSUME Typed, NEW s \in Streams,
           stream' = [stream EXCEPT ![s] = Closed]
    PROVE  /\ stream' \in [Streams -> {Closed} \cup OpenStreams]
           /\ \A t \in Streams \ {s} : stream'[t] = stream[t]
           /\ stream'[s] = Closed /\ stream'[s].pc = "closed"
BY DEF Typed, Closed

\* What opening a stream amounts to.
LEMMA OpenType ==
    ASSUME Typed, NEW s \in Streams, NEW l \in Links, NEW owner \in Nodes,
           NEW obj \in Objects, NEW v \in Versions, Open(s, l, owner, obj, v)
    PROVE  /\ stream' \in [Streams -> {Closed} \cup OpenStreams]
           /\ \A t \in Streams \ {s} : stream'[t] = stream[t]
           /\ stream[s].pc = "closed" /\ stream'[s].pc = "push"
           /\ stream'[s].link = l /\ stream'[s].owner = owner
           /\ stream'[s].obj = obj
           /\ stream'[s].data = [by |-> l[1], v |-> v]
<1> DEFINE new == [pc |-> "push", link |-> l, owner |-> owner, obj |-> obj,
                   data |-> [by |-> l[1], v |-> v]]
<1>1. l[1] \in Nodes
  BY ExchangeAssumption
<1>2. new \in OpenStreams
  BY <1>1 DEF OpenStreams, Versioned
<1> QED
  BY <1>2 DEF Open, Typed

-----------------------------------------------------------------------------
\* The files, the registry, the streams and the scrubs keep their types.
LEMMA TypedStep ==
    ASSUME Typed, [Next]_vars
    PROVE  Typed'
<1> USE DEF Typed, TypeOK
<1>1. CASE UNCHANGED vars
  BY <1>1 DEF vars, ScrubStates, ShardsAt
<1>2. ASSUME NEW l \in Links, NEW owner \in Nodes, NEW s \in Streams,
             NEW v \in Versions, NEW obj \in Objects, Open(s, l, owner, obj, v)
      PROVE  Typed'
  BY <1>2, OpenType DEF Open
<1>3. ASSUME NEW l \in Links, NEW d \in Data \cup {None}, Receive(l, d)
      PROVE  Typed'
  <2>1. d.by \in Nodes /\ l[1] \in Nodes
    BY <1>3, ExchangeAssumption DEF Receive, Data
  <2> QED
    BY <1>3, <2>1 DEF Receive
<1>4. ASSUME NEW s \in Streams, Truncate(s)
      PROVE  Typed'
  <2>1. stream[s].pc # "closed" /\ Ref(s) \in Refs
    BY <1>4, RefType DEF Truncate
  <2>2. stream' \in [Streams -> {Closed} \cup OpenStreams]
    BY <1>4, <2>1, GotoType DEF Truncate
  <2> QED
    BY <1>4, <2>1, <2>2 DEF Truncate, Data
<1>5. ASSUME NEW s \in Streams, Put(s)
      PROVE  Typed'
  <2>1. stream[s].pc # "closed" /\ Ref(s) \in Refs /\ stream[s].data \in Data
    BY <1>5, RefType DEF Put, Data, Versioned
  <2>2. stream' \in [Streams -> {Closed} \cup OpenStreams]
    BY <1>5, <2>1, GotoType DEF Put
  <2> QED
    BY <1>5, <2>1, <2>2 DEF Put
<1>6. ASSUME NEW s \in Streams, PutManifest(s) \/ PutHash(s)
      PROVE  Typed'
  <2>1. stream[s].pc # "closed" /\ Ref(s) \in Refs /\ stream[s].data \in Data
    BY <1>6, RefType DEF PutManifest, PutHash, Data, Versioned
  <2>2. stream' \in [Streams -> {Closed} \cup OpenStreams]
    BY <1>6, CloseType DEF PutManifest, PutHash, Answer
  <2> QED
    BY <1>6, <2>1, <2>2 DEF PutManifest, PutHash, Answer
<1>7. ASSUME NEW s \in Streams, PutFails(s)
      PROVE  Typed'
  <2>1. Ref(s) \in Refs
    BY <1>7, RefType DEF PutFails
  <2>2. stream' \in [Streams -> {Closed} \cup OpenStreams]
    BY <1>7, CloseType DEF PutFails
  <2> QED
    BY <1>7, <2>1, <2>2 DEF PutFails
<1>8. ASSUME NEW n \in Nodes, ScrubStart(n)
      PROVE  Typed'
  <2>1. Held(n) \subseteq ShardsAt(n)
    BY DEF Held, ShardsAt
  <2>2. [pc |-> "check", refs |-> Held(n)] \in ScrubStates(n)
    BY <2>1 DEF ScrubStates
  <2> QED
    BY <1>8, <2>2 DEF ScrubStart
<1>9. ASSUME NEW n \in Nodes, NEW r \in scrub[n].refs, ScrubCheck(n, r)
      PROVE  Typed'
  <2>1. scrub[n].refs \subseteq ShardsAt(n) /\ scrub[n].pc = "check"
    BY <1>9 DEF ScrubCheck, ScrubStates
  <2>2. scrub[n] = [pc |-> "check", refs |-> scrub[n].refs]
    BY <2>1 DEF ScrubStates
  <2>3. CASE Verify(r)
    <3>1. scrub' = [scrub EXCEPT ![n] = [pc |-> "check",
                                         refs |-> scrub[n].refs \ {r}]]
      BY <1>9, <2>2, <2>3 DEF ScrubCheck
    <3>2. [pc |-> "check", refs |-> scrub[n].refs \ {r}] \in ScrubStates(n)
      BY <2>1 DEF ScrubStates
    <3> QED
      BY <1>9, <2>3, <3>1, <3>2 DEF ScrubCheck
  <2>4. CASE ~Verify(r)
    <3>1. [pc |-> "revive", refs |-> scrub[n].refs \ {r}, ref |-> r]
                \in ScrubStates(n)
      BY <2>1 DEF ScrubStates
    <3>2. r \in ShardsAt(n) /\ r.at = n /\ r.obj \in Shards
      BY <2>1 DEF ShardsAt
    <3>3. /\ DOMAIN scrub' = Nodes
          /\ \A m \in Nodes : scrub'[m] \in ScrubStates(m)
      BY <1>9, <2>4, <3>1 DEF ScrubCheck
    <3>4. /\ DOMAIN flagged' = Nodes
          /\ \A m \in Nodes : flagged'[m] = IF m = n THEN flagged[n] \cup {r}
                                                    ELSE flagged[m]
      BY <1>9, <2>4 DEF ScrubCheck
    <3>5. \A m \in Nodes : /\ flagged'[m] \subseteq ShardsAt(m)
                           /\ \A q \in flagged'[m] : q.at = m /\ q.obj \in Shards
      BY <3>2, <3>4
    <3>6. \A m \in Nodes : ScrubStates(m)' = ScrubStates(m)
                           /\ ShardsAt(m)' = ShardsAt(m)
      BY DEF ScrubStates, ShardsAt
    <3> QED
      BY <1>9, <3>3, <3>4, <3>5, <3>6 DEF ScrubCheck
  <2> QED
    BY <2>3, <2>4
<1>10. ASSUME NEW n \in Nodes, ScrubRevive(n)
       PROVE  Typed'
  <2>1. scrub[n].refs \subseteq ShardsAt(n) /\ scrub[n].ref \in Refs
        /\ scrub[n].ref.owner \in Nodes /\ scrub[n].ref.obj \in Objects
    BY <1>10 DEF ScrubRevive, ScrubStates, ShardsAt, Refs
  <2>2. FromOwner(scrub[n].ref) \in Data \cup {None}
    BY <2>1 DEF FromOwner, Get, Refs
  <2>3. [pc |-> "check", refs |-> scrub[n].refs] \in ScrubStates(n)
    BY <2>1 DEF ScrubStates
  <2> QED
    BY <1>10, <2>1, <2>2, <2>3 DEF ScrubRevive
<1>11. ASSUME NEW n \in Nodes, Kill(n)
       PROVE  Typed'
  <2> DEFINE hit == {s \in Streams : /\ stream[s].pc # "closed"
                                     /\ stream[s].link[2] = n}
  <2>1. {Ref(s) : s \in {t \in hit : stream[t].pc \in {"fill", "hash"}}}
            \subseteq Refs
    BY RefType
  <2>2. stream' \in [Streams -> {Closed} \cup OpenStreams]
    BY <1>11 DEF Kill
  <2>3. Resting \in ScrubStates(n)
    BY DEF Resting, ScrubStates
  <2> QED
    BY <1>11, <2>1, <2>2, <2>3 DEF Kill
<1>12. ASSUME NEW l \in Links, Remove(l)
       PROVE  Typed'
  BY <1>12 DEF Remove, Trust
<1>13. ASSUME NEW r \in Refs, Rot(r)
       PROVE  Typed'
  BY <1>13 DEF Rot, Data
<1>14. ASSUME NEW l \in Links, NEW owner \in Nodes, NEW f \in Shards,
              FetchShard(l, owner, f)
       PROVE  Typed'
  <2>1. Get(l[2], owner, f) \in Data \cup {None}
    BY ExchangeAssumption DEF Get, Refs, Objects
  <2> QED
    BY <1>3, <1>14, <2>1 DEF FetchShard
<1>15. ASSUME NEW l \in Links, NEW owner \in Nodes, PullFromBuddy(l, owner)
       PROVE  Typed'
  <2>1. GetManifest(l[2], owner) \in Data \cup {None}
    BY ExchangeAssumption DEF GetManifest, Refs, Objects
  <2> QED
    BY <1>3, <1>15, <2>1 DEF PullFromBuddy
<1>16. Shards \subseteq Objects /\ Manifest \in Objects
  BY DEF Objects
<1> QED
  BY <1>1, <1>2, <1>4, <1>5, <1>6, <1>7, <1>8, <1>9, <1>10, <1>11, <1>12,
     <1>13, <1>14, <1>15, <1>16, NextCases DEF PushShard, PushToBuddy

LEMMA TypedInit ==
    ASSUME Init
    PROVE  Typed
<1>1. \A n \in Nodes : Resting \in ScrubStates(n)
  BY DEF Resting, ScrubStates
<1> QED
  BY <1>1, ExchangeAssumption DEF Init, Typed, TypeOK

\* The files and the history keep their types, and a scrub flags only shards
\* of its own node, for any number of nodes and streams.
THEOREM TypeCorrect == Spec => []TypeOK
<1>1. Typed => TypeOK
  BY DEF Typed
<1> QED
  BY <1>1, TypedInit, TypedStep, PTL DEF Spec

-----------------------------------------------------------------------------
(* OnlyOwn. *)

\* What a pull is answered with belongs to the node that asked.
LEMMA ServedIsOwn ==
    ASSUME Typed, Owned, NEW l \in Links, NEW d \in Data \cup {None},
           NEW r \in Refs, r.at = l[2], r.owner \in {l[1], l[2]},
           d \in {file[r], None}, Receive(l, d)
    PROVE  d.by = l[1]
BY ExchangeAssumption DEF Receive, Owned

\* The owner of a shard has nothing under its own name, so a scrub changes no
\* file.
LEMMA NothingToRevive ==
    ASSUME Typed, Owned, NEW n \in Nodes, ScrubRevive(n)
    PROVE  UNCHANGED <<file, hash>>
<1> DEFINE r == scrub[n].ref
<1>1. r \in Refs /\ r.owner \in Nodes /\ r.obj \in Objects
  BY DEF Typed, ScrubRevive, ScrubStates, ShardsAt, Refs
<1>2. Get(r.owner, r.owner, r.obj) = None
  <2>1. [at |-> r.owner, owner |-> r.owner, obj |-> r.obj] \in Refs
    BY <1>1 DEF Refs
  <2> QED
    BY <2>1 DEF Get, Owned
<1>3. FromOwner(r) = None
  BY <1>2 DEF FromOwner
<1>4. /\ file' = [file EXCEPT ![r] = file[r]]
      /\ hash' = [hash EXCEPT ![r] = hash[r]]
  BY <1>3 DEF ScrubRevive
<1> QED
  BY <1>1, <1>4 DEF Typed, TypeOK

LEMMA OwnedStep ==
    ASSUME Typed, Owned, OnlyOwn, [Next]_vars
    PROVE  Owned' /\ OnlyOwn'
<1>1. CASE UNCHANGED vars
  BY <1>1 DEF vars, Owned, OnlyOwn
<1>2. ASSUME NEW l \in Links, NEW s \in Streams, NEW v \in Versions,
             NEW obj \in Objects, Open(s, l, l[1], obj, v)
      PROVE  Owned' /\ OnlyOwn'
  <2>1. l[1] \in Nodes
    BY ExchangeAssumption
  <2>2. UNCHANGED <<file, got>>
    BY <1>2 DEF Open
  <2>3. /\ \A t \in Streams \ {s} : stream'[t] = stream[t]
        /\ stream'[s].link = l /\ stream'[s].owner = l[1]
        /\ stream'[s].data = [by |-> l[1], v |-> v]
    BY <1>2, <2>1, OpenType
  <2>4. stream'[s].data.by = l[1]
    BY <2>3
  <2> QED
    BY <2>2, <2>3, <2>4 DEF Owned, OnlyOwn
<1>3. ASSUME NEW l \in Links, NEW owner \in Nodes, NEW f \in Shards,
             FetchShard(l, owner, f)
      PROVE  Owned' /\ OnlyOwn'
  <2> DEFINE r == [at |-> l[2], owner |-> owner, obj |-> f]
  <2>1. r \in Refs /\ l[1] \in Nodes
    BY ExchangeAssumption DEF Refs, Objects
  <2>2. Get(l[2], owner, f) \in {file[r], None}
    BY DEF Get
  <2>3. Get(l[2], owner, f).by = l[1]
    BY <1>3, <2>1, <2>2, ServedIsOwn
    DEF FetchShard, MayPull, Typed, TypeOK
  <2>4. UNCHANGED <<file, stream>>
    BY <1>3 DEF FetchShard, Receive
  <2> QED
    BY <1>3, <2>1, <2>3, <2>4 DEF FetchShard, Receive, Owned, OnlyOwn, Typed,
       TypeOK
<1>4. ASSUME NEW l \in Links, NEW owner \in Nodes, PullFromBuddy(l, owner)
      PROVE  Owned' /\ OnlyOwn'
  <2> DEFINE r == [at |-> l[2], owner |-> owner, obj |-> Manifest]
  <2>1. r \in Refs /\ l[1] \in Nodes
    BY ExchangeAssumption DEF Refs, Objects
  <2>2. GetManifest(l[2], owner).by = l[1]
    BY <1>4, <2>1, ServedIsOwn
    DEF PullFromBuddy, MayPullManifest, GetManifest, Typed, TypeOK
  <2>3. UNCHANGED <<file, stream>>
    BY <1>4 DEF PullFromBuddy, Receive
  <2> QED
    BY <1>4, <2>1, <2>2, <2>3 DEF PullFromBuddy, Receive, Owned, OnlyOwn,
       Typed, TypeOK
<1>5. ASSUME NEW s \in Streams, Truncate(s)
      PROVE  Owned' /\ OnlyOwn'
  <2>1. stream[s].pc # "closed"
    BY <1>5 DEF Truncate
  <2>2. Ref(s) \in Refs /\ Ref(s).owner # Ref(s).at
    BY <2>1, RefType DEF Owned
  <2>3. \A t \in Streams : stream'[t].pc # "closed" =>
            /\ stream'[t].owner = stream'[t].link[1]
            /\ stream'[t].data.by = stream'[t].link[1]
    BY <1>5, <2>1, OwnedStreams DEF Truncate
  <2> QED
    BY <1>5, <2>2, <2>3 DEF Truncate, Owned, OnlyOwn, Typed, TypeOK
<1>6. ASSUME NEW s \in Streams, Put(s) \/ PutManifest(s)
      PROVE  Owned' /\ OnlyOwn'
  <2>1. stream[s].pc # "closed"
    BY <1>6 DEF Put, PutManifest
  <2>2. /\ Ref(s) \in Refs /\ Ref(s).owner # Ref(s).at
        /\ stream[s].data.by = Ref(s).owner
    BY <2>1, RefType DEF Owned
  <2>3. \A t \in Streams : stream'[t].pc # "closed" =>
            /\ stream'[t].owner = stream'[t].link[1]
            /\ stream'[t].data.by = stream'[t].link[1]
    <3>1. CASE Put(s)
      BY <3>1, <2>1, OwnedStreams DEF Put
    <3>2. CASE PutManifest(s)
      BY <3>2, CloseType DEF PutManifest, Answer, Owned
    <3> QED
      BY <1>6, <3>1, <3>2
  <2>4. file' = [file EXCEPT ![Ref(s)] = stream[s].data] /\ UNCHANGED got
    BY <1>6 DEF Put, PutManifest
  <2> QED
    BY <2>2, <2>3, <2>4 DEF Owned, OnlyOwn, Typed, TypeOK
<1>7. ASSUME NEW s \in Streams, PutHash(s) \/ PutFails(s)
      PROVE  Owned' /\ OnlyOwn'
  <2>1. /\ stream' = [stream EXCEPT ![s] = Closed]
        /\ UNCHANGED <<file, got>>
    BY <1>7 DEF PutHash, PutFails, Answer
  <2> QED
    BY <2>1, CloseType DEF Owned, OnlyOwn
<1>8. ASSUME NEW n \in Nodes, ScrubRevive(n)
      PROVE  Owned' /\ OnlyOwn'
  <2>1. UNCHANGED <<file, stream, got>>
    BY <1>8, NothingToRevive DEF ScrubRevive
  <2> QED
    BY <2>1 DEF Owned, OnlyOwn
<1>9. ASSUME NEW n \in Nodes, Kill(n)
      PROVE  Owned' /\ OnlyOwn'
  <2>1. \A t \in Streams : stream'[t] \in {stream[t], Closed}
    BY <1>9 DEF Kill
  <2>2. UNCHANGED <<file, got>>
    BY <1>9 DEF Kill
  <2> QED
    BY <2>1, <2>2 DEF Owned, OnlyOwn, Closed
<1>10. ASSUME NEW r \in Refs, Rot(r)
       PROVE  Owned' /\ OnlyOwn'
  BY <1>10 DEF Rot, Owned, OnlyOwn, Typed, TypeOK
<1>11. ASSUME UNCHANGED <<file, stream, got>>
       PROVE  Owned' /\ OnlyOwn'
  BY <1>11 DEF Owned, OnlyOwn
<1>12. Shards \subseteq Objects /\ Manifest \in Objects
  BY DEF Objects
<1> QED
  BY <1>1, <1>2, <1>3, <1>4, <1>5, <1>6, <1>7, <1>8, <1>9, <1>10, <1>11,
     <1>12, NextCases
  DEF PushShard, MayPush, PushToBuddy, MayPushManifest, ScrubStart, ScrubCheck,
      Remove

\* A node is sent only data that it pushed itself, although a pull may also
\* name the serving node as the owner: whatever the registries hold, also
\* while peers are removed, handlers are killed and files rot.
THEOREM NobodyReadsOthers == Spec => []OnlyOwn
<1>1. Init => Typed /\ Owned /\ OnlyOwn
  BY TypedInit DEF Init, Owned, OnlyOwn, Closed
<1>2. Typed /\ Owned /\ OnlyOwn /\ [Next]_vars => (Typed /\ Owned /\ OnlyOwn)'
  BY TypedStep, OwnedStep
<1> QED
  BY <1>1, <1>2, PTL DEF Spec

-----------------------------------------------------------------------------
(* HeldAsAcked. *)

\* The object r while nothing has spoiled it: one handler at most writes it,
\* a handler that has written the data has not been overwritten, and between
\* writes the files are those of the last write that came to its end.
Intact(r) ==
    /\ \A s, t \in Writing(r) : s = t
    /\ \A s \in Writing(r) :
            stream[s].pc = "hash" => file[r] = stream[s].data
    /\ Writing(r) = {} /\ last[r] # None =>
            /\ file[r] = last[r]
            /\ r.obj # Manifest => hash[r] = last[r]

HeldInv ==
    /\ \A r \in Refs \ spoiled : Intact(r)
    /\ \A r \in acked : last[r] # None
    /\ \A s \in Streams : stream[s].pc = "hash" => stream[s].obj # Manifest

\* Who writes what, after a handler has gone to its next label ...
LEMMA WritingAfterGoto ==
    ASSUME Typed, NEW s \in Streams, stream[s].pc # "closed",
           NEW label \in {"fill", "hash"}, Goto(s, label)
    PROVE  \A r : Writing(r)' = IF Ref(s) = r THEN Writing(r) \cup {s}
                                              ELSE Writing(r)
<1>1. /\ \A t \in Streams \ {s} : stream'[t] = stream[t]
      /\ stream'[s].pc = label
      /\ stream'[s].link = stream[s].link
      /\ stream'[s].owner = stream[s].owner
      /\ stream'[s].obj = stream[s].obj
  BY GotoType
<1>2. \A t \in Streams : Ref(t)' = Ref(t)
  BY <1>1 DEF Ref
<1>3. \A t \in Streams \ {s} : stream'[t].pc = stream[t].pc
  BY <1>1
<1> QED
  BY <1>1, <1>2, <1>3 DEF Writing

\* ... has been closed ...
LEMMA WritingAfterClose ==
    ASSUME Typed, NEW s \in Streams, stream' = [stream EXCEPT ![s] = Closed]
    PROVE  \A r : Writing(r)' = Writing(r) \ {s}
<1>1. /\ \A t \in Streams \ {s} : stream'[t] = stream[t]
      /\ stream'[s].pc = "closed"
  BY CloseType
<1>2. \A t \in Streams \ {s} : Ref(t)' = Ref(t)
  BY <1>1 DEF Ref
<1> QED
  BY <1>1, <1>2 DEF Writing

\* ... or has been opened.
LEMMA WritingAfterOpen ==
    ASSUME Typed, NEW s \in Streams, NEW l \in Links, NEW owner \in Nodes,
           NEW obj \in Objects, NEW v \in Versions, Open(s, l, owner, obj, v)
    PROVE  /\ \A r : Writing(r)' = Writing(r)
           /\ \A r : \A t \in Writing(r) : stream'[t] = stream[t]
<1>1. /\ \A t \in Streams \ {s} : stream'[t] = stream[t]
      /\ stream[s].pc = "closed" /\ stream'[s].pc = "push"
  BY OpenType
<1>2. \A t \in Streams \ {s} : Ref(t)' = Ref(t)
  BY <1>1 DEF Ref
<1> QED
  BY <1>1, <1>2 DEF Writing

\* What does not touch an object or its writers leaves it intact.
LEMMA IntactFrame ==
    ASSUME NEW r, Intact(r), Writing(r)' = Writing(r),
           \A s \in Writing(r) : stream'[s] = stream[s],
           file'[r] = file[r], hash'[r] = hash[r], last'[r] = last[r]
    PROVE  Intact(r)'
BY DEF Intact

\* A stream of another object is not among the writers of r.
LEMMA WriterOf ==
    ASSUME NEW r, NEW s \in Writing(r)
    PROVE  s \in Streams /\ Ref(s) = r /\ stream[s].pc \in {"fill", "hash"}
BY DEF Writing

LEMMA HeldStep ==
    ASSUME Typed, Owned, HeldInv, [Next]_vars
    PROVE  HeldInv'
<1> DEFINE HasHash == \A s \in Streams :
                        stream[s].pc = "hash" => stream[s].obj # Manifest
           Known == \A r \in acked : last[r] # None
<1>1. CASE UNCHANGED vars
  <2>1. \A r : Writing(r)' = Writing(r)
    BY <1>1 DEF vars, Writing, Ref
  <2> QED
    BY <1>1, <2>1 DEF vars, HeldInv, Intact
<1>2. ASSUME NEW l \in Links, NEW s \in Streams, NEW v \in Versions,
             NEW owner \in Nodes, NEW obj \in Objects, Open(s, l, owner, obj, v)
      PROVE  HeldInv'
  <2>1. UNCHANGED <<file, hash, last, acked, spoiled>>
    BY <1>2 DEF Open
  <2>2. \A r \in Refs \ spoiled : Intact(r)'
    BY <1>2, <2>1, WritingAfterOpen, IntactFrame DEF HeldInv
  <2>3. HasHash'
    <3>1. /\ \A t \in Streams \ {s} : stream'[t] = stream[t]
          /\ stream'[s].pc = "push"
      BY <1>2, OpenType
    <3> QED
      BY <3>1 DEF HeldInv
  <2> QED
    BY <2>1, <2>2, <2>3 DEF HeldInv
<1>3. ASSUME NEW s \in Streams, Truncate(s)
      PROVE  HeldInv'
  <2>1. stream[s].pc = "push" /\ Goto(s, "fill") /\ Ref(s) \in Refs
    BY <1>3, RefType DEF Truncate
  <2>2. \A r : Writing(r)' = IF Ref(s) = r THEN Writing(r) \cup {s}
                                           ELSE Writing(r)
    BY <2>1, WritingAfterGoto
  <2>3. /\ \A t \in Streams \ {s} : stream'[t] = stream[t]
        /\ stream'[s].pc = "fill"
    BY <2>1, GotoType
  <2>4. UNCHANGED <<hash, last, acked>>
    BY <1>3 DEF Truncate
  <2>5. ASSUME NEW r \in Refs \ spoiled'
        PROVE  Intact(r)'
    <3>1. r \in Refs \ spoiled /\ Intact(r)
      BY <1>3, <2>5 DEF Truncate, HeldInv
    <3>2. CASE r = Ref(s)
      <4>1. Writing(r) = {}
        BY <1>3, <2>5, <3>2 DEF Truncate
      <4>2. Writing(r)' = {s}
        BY <2>2, <3>2, <4>1
      <4> QED
        BY <2>3, <4>2 DEF Intact
    <3>3. CASE r # Ref(s)
      <4>1. file'[r] = file[r]
        BY <1>3, <2>1, <3>3 DEF Truncate, Typed, TypeOK
      <4>2. \A t \in Writing(r) : stream'[t] = stream[t]
        BY <2>3, <3>3, WriterOf
      <4> QED
        BY <2>2, <2>4, <3>1, <3>3, <4>1, <4>2, IntactFrame
    <3> QED
      BY <3>2, <3>3
  <2>6. HasHash'
    BY <2>3 DEF HeldInv
  <2> QED
    BY <2>4, <2>5, <2>6 DEF HeldInv
<1>4. ASSUME NEW s \in Streams, Put(s)
      PROVE  HeldInv'
  <2>1. stream[s].pc = "fill" /\ Goto(s, "hash") /\ Ref(s) \in Refs
    BY <1>4, RefType DEF Put
  <2>2. s \in Writing(Ref(s))
    BY <2>1 DEF Writing
  <2>3. \A r : Writing(r)' = Writing(r)
    BY <2>1, <2>2, WritingAfterGoto
  <2>4. /\ \A t \in Streams \ {s} : stream'[t] = stream[t]
        /\ stream'[s].pc = "hash" /\ stream'[s].data = stream[s].data
        /\ stream'[s].obj = stream[s].obj
    BY <2>1, GotoType
  <2>5. UNCHANGED <<hash, last, acked, spoiled>>
    BY <1>4 DEF Put
  <2>6. ASSUME NEW r \in Refs \ spoiled
        PROVE  Intact(r)'
    <3>1. CASE r = Ref(s)
      <4>1. Writing(r) = {s}
        BY <2>2, <2>6, <3>1 DEF HeldInv, Intact
      <4>2. file'[r] = stream[s].data
        BY <1>4, <2>1, <3>1 DEF Put, Typed, TypeOK
      <4> QED
        BY <2>3, <2>4, <4>1, <4>2 DEF Intact
    <3>2. CASE r # Ref(s)
      <4>1. file'[r] = file[r]
        BY <1>4, <2>1, <3>2 DEF Put, Typed, TypeOK
      <4>2. \A t \in Writing(r) : stream'[t] = stream[t]
        BY <2>4, <3>2, WriterOf
      <4> QED
        BY <2>3, <2>5, <2>6, <4>1, <4>2, IntactFrame DEF HeldInv
    <3> QED
      BY <3>1, <3>2
  <2>7. HasHash'
    BY <1>4, <2>4 DEF HeldInv, Put
  <2> QED
    BY <2>5, <2>6, <2>7 DEF HeldInv
<1>5. ASSUME NEW s \in Streams, PutManifest(s) \/ PutHash(s)
      PROVE  HeldInv'
  <2>1. /\ stream[s].pc \in {"fill", "hash"} /\ Ref(s) \in Refs
        /\ stream[s].data \in Data /\ stream[s].data # None
        /\ Ref(s).obj = stream[s].obj
    BY <1>5, RefType, ExchangeAssumption
    DEF PutManifest, PutHash, Data, Versioned
  <2>2. /\ stream' = [stream EXCEPT ![s] = Closed]
        /\ last' = [last EXCEPT ![Ref(s)] = stream[s].data]
        /\ acked' \subseteq acked \cup {Ref(s)}
        /\ UNCHANGED spoiled
    BY <1>5 DEF PutManifest, PutHash, Answer
  <2>3. \A r : Writing(r)' = Writing(r) \ {s}
    BY <2>2, WritingAfterClose
  <2>4. s \in Writing(Ref(s))
    BY <2>1 DEF Writing
  <2>5. ASSUME NEW r \in Refs \ spoiled
        PROVE  Intact(r)'
    <3>1. CASE r = Ref(s)
      <4>1. Writing(r) = {s}
        BY <2>4, <2>5, <3>1 DEF HeldInv, Intact
      <4>2. Writing(r)' = {}
        BY <2>3, <4>1
      <4>3. last'[r] = stream[s].data
        BY <2>1, <2>2, <3>1 DEF Typed, TypeOK
      <4>4. CASE PutManifest(s)
        <5>1. file'[r] = stream[s].data /\ r.obj = Manifest
          BY <2>1, <3>1, <4>4 DEF PutManifest, Typed, TypeOK
        <5> QED
          BY <4>2, <4>3, <5>1 DEF Intact
      <4>5. CASE PutHash(s)
        <5>1. hash'[r] = stream[s].data
          BY <2>1, <3>1, <4>5 DEF PutHash, Typed, TypeOK
        <5>2. file'[r] = stream[s].data
          BY <2>5, <4>1, <4>5 DEF PutHash, HeldInv, Intact
        <5> QED
          BY <4>2, <4>3, <5>1, <5>2 DEF Intact
      <4> QED
        BY <1>5, <4>4, <4>5
    <3>2. CASE r # Ref(s)
      <4>1. file'[r] = file[r] /\ hash'[r] = hash[r] /\ last'[r] = last[r]
        BY <1>5, <2>1, <2>2, <3>2 DEF PutManifest, PutHash, Typed, TypeOK
      <4>2. s \notin Writing(r)
        BY <3>2, WriterOf
      <4>3. Writing(r)' = Writing(r) /\ \A t \in Writing(r) : stream'[t] = stream[t]
        BY <2>2, <2>3, <4>2, WriterOf, CloseType
      <4> QED
        BY <2>5, <4>1, <4>3, IntactFrame DEF HeldInv
    <3> QED
      BY <3>1, <3>2
  <2>6. Known'
    BY <2>1, <2>2 DEF HeldInv, Typed, TypeOK
  <2>7. HasHash'
    BY <2>2, CloseType DEF HeldInv
  <2> QED
    BY <2>2, <2>5, <2>6, <2>7 DEF HeldInv
<1>6. ASSUME NEW s \in Streams, PutFails(s)
      PROVE  HeldInv'
  <2>1. /\ stream' = [stream EXCEPT ![s] = Closed]
        /\ spoiled' = spoiled \cup {Ref(s)}
        /\ UNCHANGED <<file, hash, last, acked>>
    BY <1>6 DEF PutFails
  <2>2. ASSUME NEW r \in Refs \ spoiled'
        PROVE  Intact(r)'
    <3>1. r \in Refs \ spoiled /\ s \notin Writing(r)
      BY <2>1, <2>2, WriterOf
    <3>2. Writing(r)' = Writing(r) \ {s}
      BY <2>1, WritingAfterClose
    <3>3. \A t \in Writing(r) : stream'[t] = stream[t]
      BY <2>1, <3>1, WriterOf, CloseType
    <3> QED
      BY <2>1, <3>1, <3>2, <3>3, IntactFrame DEF HeldInv
  <2>3. HasHash'
    BY <2>1, CloseType DEF HeldInv
  <2> QED
    BY <2>1, <2>2, <2>3 DEF HeldInv
<1>7. ASSUME NEW n \in Nodes, Kill(n)
      PROVE  HeldInv'
  <2> DEFINE hit == {s \in Streams : /\ stream[s].pc # "closed"
                                     /\ stream[s].link[2] = n}
  <2>1. /\ \A s \in Streams : stream'[s] = IF s \in hit THEN Closed ELSE stream[s]
        /\ \A s \in hit : stream[s].pc \in {"fill", "hash"} => Ref(s) \in spoiled'
        /\ spoiled \subseteq spoiled'
        /\ UNCHANGED <<file, hash, last, acked>>
    BY <1>7 DEF Kill
  <2>2. ASSUME NEW r \in Refs \ spoiled'
        PROVE  Intact(r)'
    <3>1. r \in Refs \ spoiled /\ \A s \in Writing(r) : s \notin hit
      BY <2>1, <2>2, WriterOf
    <3>2. \A s \in Writing(r) : stream'[s] = stream[s] /\ Ref(s)' = Ref(s)
      BY <2>1, <3>1, WriterOf DEF Ref
    <3>3. \A s \in Streams : s \notin hit => stream'[s] = stream[s] /\ Ref(s)' = Ref(s)
      BY <2>1 DEF Ref
    <3>4. \A s \in hit : stream'[s].pc = "closed"
      BY <2>1 DEF Closed
    <3>5. Writing(r)' = Writing(r)
      BY <3>1, <3>2, <3>3, <3>4 DEF Writing
    <3> QED
      BY <2>1, <3>1, <3>2, <3>5, IntactFrame DEF HeldInv
  <2>3. HasHash'
    BY <2>1 DEF HeldInv, Closed
  <2> QED
    BY <2>1, <2>2, <2>3 DEF HeldInv
<1>8. ASSUME NEW r \in Refs, Rot(r)
      PROVE  HeldInv'
  <2>1. /\ file' = [file EXCEPT ![r] = Torn] /\ spoiled' = spoiled \cup {r}
        /\ UNCHANGED <<stream, hash, last, acked>>
    BY <1>8 DEF Rot
  <2>2. \A q : Writing(q)' = Writing(q)
    BY <2>1 DEF Writing, Ref
  <2>3. ASSUME NEW q \in Refs \ spoiled'
        PROVE  Intact(q)'
    <3>1. q \in Refs \ spoiled /\ file'[q] = file[q]
      BY <2>1, <2>3 DEF Typed, TypeOK
    <3> QED
      BY <2>1, <2>2, <3>1, IntactFrame DEF HeldInv
  <2> QED
    BY <2>1, <2>3 DEF HeldInv
<1>9. ASSUME UNCHANGED <<file, hash, stream, last, acked, spoiled>>
      PROVE  HeldInv'
  <2>1. \A r : Writing(r)' = Writing(r)
    BY <1>9 DEF Writing, Ref
  <2> QED
    BY <1>9, <2>1, IntactFrame DEF HeldInv
<1>10. ASSUME NEW n \in Nodes, ScrubRevive(n)
       PROVE  HeldInv'
  BY <1>9, <1>10, NothingToRevive DEF ScrubRevive
<1>11. Shards \subseteq Objects /\ Manifest \in Objects
  BY DEF Objects
<1> QED
  BY <1>1, <1>2, <1>3, <1>4, <1>5, <1>6, <1>7, <1>8, <1>9, <1>10, <1>11,
     NextCases
  DEF PushShard, PushToBuddy, FetchShard, PullFromBuddy, Receive, ScrubStart,
      ScrubCheck, Remove

\* What was acknowledged is held as it was last pushed, with the hash that a
\* scrub compares it with, until a fault hits it or two handlers write it at
\* the same time; also when pushes are repeated, answers get lost, the peer is
\* removed while its push is under way, or a scrub passes.
THEOREM AckedIsHeld == Spec => []HeldAsAcked
<1> DEFINE Inv == Typed /\ Owned /\ OnlyOwn /\ HeldInv
<1>1. Init => Inv
  <2> SUFFICES ASSUME Init PROVE Inv
    OBVIOUS
  <2>1. Typed /\ Owned /\ OnlyOwn
    BY TypedInit DEF Init, Owned, OnlyOwn, Closed
  <2>2. \A r \in Refs : Writing(r) = {} /\ last[r] = None
    BY DEF Init, Writing, Closed
  <2>3. HeldInv
    BY <2>2 DEF Init, HeldInv, Intact, Closed
  <2> QED
    BY <2>1, <2>3
<1>2. Inv /\ [Next]_vars => Inv'
  BY TypedStep, OwnedStep, HeldStep
<1>3. Inv => HeldAsAcked
  BY DEF Typed, TypeOK, HeldInv, Intact, HeldAsAcked
<1> QED
  BY <1>1, <1>2, <1>3, PTL DEF Spec
=============================================================================
