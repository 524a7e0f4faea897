--------------------------- MODULE DeliveryQueue ---------------------------
(***************************************************************************)
(* How a shard reaches a buddy: pushToBuddies (api/backup.go) pushes it    *)
(* directly or appends it to queue.json, and the daemon's mDNS callback    *)
(* (p2p/discovery.go) flushes the queue when a buddy shows up on the LAN.  *)
(*                                                                         *)
(* Every backup and the daemon have a Queue object of their own over the   *)
(* same file, so Queue.mu only orders the goroutines of the daemon.  An    *)
(* Enqueue is load, append, save; a flush is load, push one by one, save   *)
(* what is left.  The window of a writer is the time from its load to its  *)
(* save.  Saving truncates the file and then writes it.                    *)
(*                                                                         *)
(* An item is a shard for a buddy.  The order of the queue and repeated    *)
(* items do not matter: pushing a shard twice stores it once.              *)
(***************************************************************************)
EXTENDS Integers, FiniteSets

CONSTANTS
    Buddies,    \* registered buddies
    Lan,        \* those mDNS can discover
    Shards,     \* shards of the files being backed up
    Backups,    \* concurrent api.Backup calls
    Flushes,    \* goroutines of the daemon inside FlushToPeer
    NoBuddy,    \* not working for any buddy
    MaxRuns,    \* bound: pushToBuddies calls
    MaxFaults   \* bound: kills of a backup or of the daemon

Items == [to : Buddies, shard : Shards]
Writers == Backups \cup Flushes

ASSUME QueueAssumption ==
    /\ Lan \subseteq Buddies
    /\ Backups \cap Flushes = {}
    /\ NoBuddy \notin Buddies
    /\ MaxRuns \in Nat /\ MaxFaults \in Nat

VARIABLES
    online,     \* buddies that answer
    linked,     \* buddies the daemon's host is connected to
    stored,     \* items the buddies' stores hold
    queue,      \* queue.json, as of the last complete write
    torn,       \* queue.json does not parse
    pc,         \* where writer w is
    peer,       \* the buddy backup w is working for
    todo,       \* items writer w still has to push or enqueue
    held,       \* the queueData writer w will save
    fresh,      \* the item writer w is enqueueing, if any
    runs, faults,
    accepted,   \* history: items whose Enqueue returned nil
    raced       \* history: an Enqueue has overlapped another writer's window

vars == <<online, linked, stored, queue, torn, pc, peer, todo, held,
          fresh, runs, faults, accepted, raced>>

Init ==
    /\ online \in SUBSET Buddies
    /\ linked = {}
    /\ stored = {}
    /\ queue = {}
    /\ torn = FALSE
    /\ pc = [w \in Writers |-> "idle"]
    /\ peer = [w \in Backups |-> NoBuddy]
    /\ todo = [w \in Writers |-> {}]
    /\ held = [w \in Writers |-> {}]
    /\ fresh = [w \in Writers |-> {}]
    /\ runs = 0
    /\ faults = 0
    /\ accepted = {}
    /\ raced = FALSE

ItemsFor(items, b) == {i \in items : i.to = b}

\* Between its load and its save, a writer holds a copy of the queue.
InWindow(w) == pc[w] \in {"flush", "save", "write"}

-----------------------------------------------------------------------------
(* pushToBuddies, called by backup w with the shards of one file. *)

StartPush(w, shards) ==
    /\ pc[w] = "idle"
    /\ runs < MaxRuns
    /\ runs' = runs + 1
    /\ todo' = [todo EXCEPT ![w] = [to : Buddies, shard : shards]]
    /\ pc' = [pc EXCEPT ![w] = "next"]
    /\ UNCHANGED <<online, linked, stored, queue, torn, peer, held, fresh,
                   faults, accepted, raced>>

\* The next buddy of the registry: connected, or not, be it offline, known by
\* stale addresses only, or too late for the 60 seconds all of them share.
Connect(w, b) ==
    /\ pc[w] = "next"
    /\ ItemsFor(todo[w], b) # {}
    /\ \/ b \in online /\ pc' = [pc EXCEPT ![w] = "direct"]
       \/ pc' = [pc EXCEPT ![w] = "queue"]
    /\ peer' = [peer EXCEPT ![w] = b]
    /\ UNCHANGED <<online, linked, stored, queue, torn, todo, held, fresh,
                   runs, faults, accepted, raced>>

\* PushShard on a connected buddy, acknowledged.
PushOK(w, i) ==
    /\ pc[w] = "direct"
    /\ i \in ItemsFor(todo[w], peer[w])
    /\ peer[w] \in online
    /\ stored' = stored \cup {i}
    /\ todo' = [todo EXCEPT ![w] = todo[w] \ {i}]
    /\ UNCHANGED <<online, linked, queue, torn, pc, peer, held, fresh, runs,
                   faults, accepted, raced>>

\* A push to b that returns an error leaves b's store as it was, unless only
\* the answer was lost.
FailedPush(i) ==
    \/ stored' = stored
    \/ i.to \in online /\ stored' = stored \cup {i}

\* The error is logged and the loop goes on to the next shard.
PushFails(w, i) ==
    /\ pc[w] = "direct"
    /\ i \in ItemsFor(todo[w], peer[w])
    /\ FailedPush(i)
    /\ todo' = [todo EXCEPT ![w] = todo[w] \ {i}]
    /\ UNCHANGED <<online, linked, queue, torn, pc, peer, held, fresh, runs,
                   faults, accepted, raced>>

\* store.Get returns an error: the shard is neither pushed nor queued.
GetFails(w, i) ==
    /\ pc[w] \in {"direct", "queue"}
    /\ i \in ItemsFor(todo[w], peer[w])
    /\ todo' = [todo EXCEPT ![w] = todo[w] \ {i}]
    /\ UNCHANGED <<online, linked, stored, queue, torn, pc, peer, held, fresh,
                   runs, faults, accepted, raced>>

\* Enqueue: loadLocked and append.
EnqueueLoad(w, i) ==
    /\ pc[w] = "queue"
    /\ i \in ItemsFor(todo[w], peer[w])
    /\ ~torn
    /\ held' = [held EXCEPT ![w] = queue \cup {i}]
    /\ fresh' = [fresh EXCEPT ![w] = {i}]
    /\ todo' = [todo EXCEPT ![w] = todo[w] \ {i}]
    /\ raced' = (raced \/ \E v \in Writers : InWindow(v))
    /\ pc' = [pc EXCEPT ![w] = "save"]
    /\ UNCHANGED <<online, linked, stored, queue, torn, peer, runs, faults,
                   accepted>>

\* The file does not parse: Enqueue returns the error, the caller ignores it.
EnqueueFails(w, i) ==
    /\ pc[w] = "queue"
    /\ i \in ItemsFor(todo[w], peer[w])
    /\ torn
    /\ todo' = [todo EXCEPT ![w] = todo[w] \ {i}]
    /\ UNCHANGED <<online, linked, stored, queue, torn, pc, peer, held, fresh,
                   runs, faults, accepted, raced>>

\* On to the next buddy, or out.
NextBuddy(w) ==
    /\ \/ /\ pc[w] \in {"direct", "queue"}
          /\ ItemsFor(todo[w], peer[w]) = {}
          /\ pc' = [pc EXCEPT ![w] = "next"]
       \/ /\ pc[w] = "next"
          /\ todo[w] = {}
          /\ pc' = [pc EXCEPT ![w] = "idle"]
    /\ peer' = [peer EXCEPT ![w] = NoBuddy]
    /\ UNCHANGED <<online, linked, stored, queue, torn, todo, held, fresh,
                   runs, faults, accepted, raced>>

-----------------------------------------------------------------------------
(* HandlePeerFound and FlushToPeer, on goroutine f of the daemon. *)

\* Queue.mu is held by a goroutine of the daemon that is saving.
MutexHeld == \E f \in Flushes : pc[f] = "write"

\* Mutant: only a buddy that was not connected yet has its queue flushed.
Found_NewOnly(f, b) ==
    /\ pc[f] = "idle"
    /\ b \in (online \cap Lan) \ linked
    /\ ~MutexHeld
    /\ ~torn
    /\ linked' = linked \cup {b}
    /\ held' = [held EXCEPT ![f] = queue]
    /\ todo' = [todo EXCEPT ![f] = ItemsFor(queue, b)]
    /\ raced' = (raced \/ \E w \in Backups : InWindow(w))
    /\ pc' = [pc EXCEPT ![f] = "flush"]
    /\ UNCHANGED <<online, stored, queue, torn, peer, fresh, runs, faults,
                   accepted>>

\* mDNS reports b: connect, take the addresses, load the queue.
Found(f, b) ==
    /\ pc[f] = "idle"
    /\ b \in online \cap Lan
    /\ ~MutexHeld
    /\ ~torn
    /\ linked' = linked \cup {b}
    /\ held' = [held EXCEPT ![f] = queue]
    /\ todo' = [todo EXCEPT ![f] = ItemsFor(queue, b)]
    /\ raced' = (raced \/ \E w \in Backups : InWindow(w))
    /\ pc' = [pc EXCEPT ![f] = "flush"]
    /\ UNCHANGED <<online, stored, queue, torn, peer, fresh, runs, faults,
                   accepted>>

\* Connected, but the queue file does not parse: FlushToPeer returns.
FoundButTorn(f, b) ==
    /\ pc[f] = "idle"
    /\ b \in online \cap Lan
    /\ ~MutexHeld
    /\ torn
    /\ linked' = linked \cup {b}
    /\ UNCHANGED <<online, stored, queue, torn, pc, peer, todo, held, fresh,
                   runs, faults, accepted, raced>>

FlushPushOK(f, i) ==
    /\ pc[f] = "flush"
    /\ i \in todo[f]
    /\ i.to \in online
    /\ stored' = stored \cup {i}
    /\ held' = [held EXCEPT ![f] = held[f] \ {i}]
    /\ todo' = [todo EXCEPT ![f] = todo[f] \ {i}]
    /\ UNCHANGED <<online, linked, queue, torn, pc, peer, fresh, runs, faults,
                   accepted, raced>>

\* Mutant: an item whose push failed is dropped from what will be saved.
FlushPushFails_Dropped(f, i) ==
    /\ pc[f] = "flush"
    /\ i \in todo[f]
    /\ FailedPush(i)
    /\ held' = [held EXCEPT ![f] = held[f] \ {i}]
    /\ todo' = [todo EXCEPT ![f] = todo[f] \ {i}]
    /\ UNCHANGED <<online, linked, queue, torn, pc, peer, fresh, runs, faults,
                   accepted, raced>>

\* The item stays among those that will be saved.
FlushPushFails(f, i) ==
    /\ pc[f] = "flush"
    /\ i \in todo[f]
    /\ FailedPush(i)
    /\ todo' = [todo EXCEPT ![f] = todo[f] \ {i}]
    /\ UNCHANGED <<online, linked, queue, torn, pc, peer, held, fresh, runs,
                   faults, accepted, raced>>

FlushDone(f) ==
    /\ pc[f] = "flush"
    /\ todo[f] = {}
    /\ pc' = [pc EXCEPT ![f] = "save"]
    /\ UNCHANGED <<online, linked, stored, queue, torn, peer, todo, held,
                   fresh, runs, faults, accepted, raced>>

-----------------------------------------------------------------------------
(* saveLocked, of an Enqueue or of a flush. *)

AfterSave(w) == IF w \in Backups THEN "queue" ELSE "idle"

SaveTruncate(w) ==
    /\ pc[w] = "save"
    /\ w \in Flushes => ~MutexHeld
    /\ torn' = TRUE
    /\ pc' = [pc EXCEPT ![w] = "write"]
    /\ UNCHANGED <<online, linked, stored, queue, peer, todo, held, fresh,
                   runs, faults, accepted, raced>>

\* A complete file found here is another writer's, written since this one
\* truncated: the tail of the longer of the two may be left behind.
SaveWrite(w) ==
    /\ pc[w] = "write"
    /\ queue' = held[w]
    /\ torn' \in {FALSE, ~torn}
    /\ accepted' = accepted \cup fresh[w]
    /\ pc' = [pc EXCEPT ![w] = AfterSave(w)]
    /\ held' = [held EXCEPT ![w] = {}]
    /\ fresh' = [fresh EXCEPT ![w] = {}]
    /\ UNCHANGED <<online, linked, stored, peer, todo, runs, faults, raced>>

\* The file cannot be opened, or the disk fills up between the truncation and
\* the end of the write; both callers drop the error.
SaveFails(w) ==
    /\ pc[w] \in {"save", "write"}
    /\ faults < MaxFaults
    /\ faults' = faults + 1
    /\ torn' = (torn \/ pc[w] = "write")
    /\ pc' = [pc EXCEPT ![w] = AfterSave(w)]
    /\ held' = [held EXCEPT ![w] = {}]
    /\ fresh' = [fresh EXCEPT ![w] = {}]
    /\ UNCHANGED <<online, linked, stored, queue, peer, todo, runs, accepted,
                   raced>>

-----------------------------------------------------------------------------
(* The environment. *)

\* Mutant: the error of a dial is not looked at.
Redial_Unchecked(b) ==
    /\ b \notin linked
    /\ linked' = linked \cup {b}
    /\ UNCHANGED <<online, stored, queue, torn, pc, peer, todo, held, fresh,
                   runs, faults, accepted, raced>>

\* PeriodicDialAllBuddies connects to a buddy, by stored addresses or the DHT.
Redial(b) ==
    /\ b \in online \ linked
    /\ linked' = linked \cup {b}
    /\ UNCHANGED <<online, stored, queue, torn, pc, peer, todo, held, fresh,
                   runs, faults, accepted, raced>>

GoOnline(b) ==
    /\ b \notin online
    /\ online' = online \cup {b}
    /\ UNCHANGED <<linked, stored, queue, torn, pc, peer, todo, held, fresh,
                   runs, faults, accepted, raced>>

GoOffline(b) ==
    /\ b \in online
    /\ online' = online \ {b}
    /\ linked' = linked \ {b}
    /\ UNCHANGED <<stored, queue, torn, pc, peer, todo, held, fresh, runs,
                   faults, accepted, raced>>

\* A process is killed: a backup, or the daemon with all its goroutines.
Kill(ws) ==
    /\ faults < MaxFaults
    /\ faults' = faults + 1
    /\ pc' = [w \in Writers |-> IF w \in ws THEN "idle" ELSE pc[w]]
    /\ peer' = [w \in Backups |-> IF w \in ws THEN NoBuddy ELSE peer[w]]
    /\ todo' = [w \in Writers |-> IF w \in ws THEN {} ELSE todo[w]]
    /\ held' = [w \in Writers |-> IF w \in ws THEN {} ELSE held[w]]
    /\ fresh' = [w \in Writers |-> IF w \in ws THEN {} ELSE fresh[w]]
    /\ UNCHANGED <<online, stored, queue, torn, runs, accepted, raced>>

KillBackup(w) == pc[w] # "idle" /\ Kill({w}) /\ UNCHANGED linked

KillDaemon == Kill(Flushes) /\ linked' = {}

-----------------------------------------------------------------------------
BackupStep(w) ==
    \/ \E b \in Buddies : Connect(w, b)
    \/ \E i \in todo[w] : \/ PushOK(w, i)
                          \/ PushFails(w, i)
                          \/ GetFails(w, i)
                          \/ EnqueueLoad(w, i)
                          \/ EnqueueFails(w, i)
    \/ NextBuddy(w)

FlushStep(f) ==
    \/ \E i \in todo[f] : FlushPushOK(f, i) \/ FlushPushFails(f, i)
    \/ FlushDone(f)

Save(w) == SaveTruncate(w) \/ SaveWrite(w)

Next ==
    \/ \E w \in Backups : \/ \E shards \in SUBSET Shards \ {{}} :
                                StartPush(w, shards)
                          \/ BackupStep(w)
                          \/ KillBackup(w)
    \/ \E f \in Flushes : \/ \E b \in Buddies : Found(f, b) \/ FoundButTorn(f, b)
                          \/ FlushStep(f)
    \/ \E w \in Writers : Save(w) \/ SaveFails(w)
    \/ \E b \in Buddies : Redial(b) \/ GoOnline(b) \/ GoOffline(b)
    \/ KillDaemon

Spec == Init /\ [][Next]_vars

\* Goroutines and processes run on.  mDNS reports again and again a buddy that
\* is again and again on the LAN, and a push that is tried again and again
\* with the buddy answering succeeds in the end.
LiveSpec ==
    /\ Spec
    /\ \A w \in Backups : WF_vars(BackupStep(w) \/ Save(w))
    /\ \A f \in Flushes : WF_vars(FlushStep(f) \/ Save(f))
    /\ \A b \in Buddies : SF_vars(\E f \in Flushes : Found(f, b))
    /\ \A i \in Items : SF_vars(\E f \in Flushes : FlushPushOK(f, i))

-----------------------------------------------------------------------------
Labels == {"idle", "next", "direct", "queue", "flush", "save", "write"}

TypeOK ==
    /\ online \subseteq Buddies
    /\ linked \subseteq online
    /\ stored \subseteq Items
    /\ queue \subseteq Items
    /\ torn \in BOOLEAN
    /\ pc \in [Writers -> Labels]
    /\ peer \in [Backups -> Buddies \cup {NoBuddy}]
    /\ todo \in [Writers -> SUBSET Items]
    /\ held \in [Writers -> SUBSET Items]
    /\ fresh \in [Writers -> SUBSET Items]
    /\ runs \in 0 .. MaxRuns
    /\ faults \in 0 .. MaxFaults
    /\ accepted \subseteq Items
    /\ raced \in BOOLEAN

\* What Queue promises ("persists pending shard pushes for offline buddies"),
\* as far as the code keeps it: while no kill or write error has happened and
\* no Enqueue has overlapped another writer's load-to-save window, an item
\* whose Enqueue returned nil is in queue.json or at the buddy, whatever
\* pushes failed or were half acknowledged and however flushes of the daemon
\* overlap; and the file fails to parse only while a save is under way.
QueueDurable ==
    faults = 0 /\ ~raced =>
        /\ accepted \subseteq queue \cup stored
        /\ torn => \E w \in Writers : pc[w] = "write"

\* "shards destined for offline buddies are queued and flushed on reconnect":
\* if the daemon is connected to the buddy from some point on, a queued item
\* reaches it, but for the losses QueueDurable names.
FlushedOnReconnect ==
    \A i \in Items :
        <>[](i.to \in linked) =>
            (i \in accepted ~> (i \in stored \/ raced \/ faults > 0))

-----------------------------------------------------------------------------
\* An item waits when its Enqueue returned nil and the queue file still has it.
Abstract == INSTANCE Delivery WITH
    waiting   <- (accepted \cap queue) \ stored,
    delivered <- stored,
    excused   <- raced \/ faults > 0

\* Backups, flushes and the queue file together implement Delivery: step by
\* step, an accepted item leaves the queue only when its buddy has it, until
\* a kill, a write error or an Enqueue inside another writer's window.
ImplementsDelivery == Abstract!Spec
=============================================================================
