# A TLA+ model of CerclBackup

CerclBackup backs up files by cutting them into chunks, coding each chunk into
Reed-Solomon shards, encrypting the shards, and keeping them in a local store
and with *buddies*, other people's machines reached over libp2p. This directory
models the parts that keep state, model-checks them with TLC and proves their
safety properties with TLAPS. `PROJECT.json` lists, in machine-readable form,
which lines each definition models, the runs, the findings and the hazards.

## The system

| Component | State | Operations | Talks to |
|---|---|---|---|
| Backup, prune (`internal/api/backup.go`, `maintenance.go`) | locals of one call | Backup, backupOneFile, AutoPrune, Prune | store, manifest, queue, buddies |
| Shard store (`internal/storage`) | one directory per file id: `N.shard`, `meta.json` | Put, Get, Delete | backup, restore, prune |
| Manifest (`internal/manifest`) | one encrypted JSON file; a copy in every operation | Load, Save, Upsert, PruneVersions, ImportEntry | every operation |
| Offline queue (`internal/p2p/queue.go`) | `queue.json` | Enqueue, FlushToPeer | backup, mDNS callback |
| Discovery and redial (`discovery.go`, `dialer.go`) | connections, addresses in the registry | HandlePeerFound, DialBuddy, PeriodicDialAllBuddies | registry, queue |
| Watcher (`internal/watcher`) | map of pending timers, timer goroutines, stop channel | event loop, fire, Stop | calls Backup |
| Watch session (`internal/api/watch.go`, GUI) | the handle of the running watch | Watch, StartWatch, StopWatch | watcher |
| Restore (`internal/api/restore.go`) | locals | Restore, tryFetchFromBuddies | manifest, store, buddies |
| Shard exchange (`internal/p2p/handler.go`, `internal/buddy/store.go`) | shards held for others, by owner | push, pull, invite and manifest handlers | registry |
| Buddy registry (`internal/buddy/registry.go`) | one encrypted file; a copy per process | Add, Remove, UpdateAddrs | handlers, dialer, CLI |
| Scrub, rebalance, audit | none of their own | periodic verification, revival, redistribution | stores, buddies |
| Invitations (`internal/invite`, `internal/emailinvite`) | pending tokens and commitments | Generate, Consume | handlers, CLI |
| Keystore, identity, circles | `keystore`, recovery phrase, circle file | Create, Unlock, Save, Recover | everything |
| Manifest distribution (`internal/manifdist`) | copies of the manifest at buddies | PushToAll, pull | backup, recovery |
| GUI session (`cmd/cerclbackup-gui/app.go`) | password, handles of daemon and watch, one mutex | Unlock, Lock, StartServe, StopServe, StartWatch, StopWatch | keystore, daemon, watcher |
| Export and import (`internal/api/data.go`) | an archive file | Export, Import | manifest, store |
| Upload limiter (`internal/ratelimit`) | token bucket | Wait | PushShard |

What makes it hard: nothing but in-process mutexes orders two operations, and
every operation (each call of Backup, also each watch handler) has its own
Manifest and Queue object over the same file; every file is rewritten in place,
so a kill leaves it truncated; buddies come and go; acknowledgements get lost;
debounce timers race with new events; and shards are shared between versions
with the same content.

What each component owes its users: the manifest names only what is stored, no
version disappears, and every version can be restored up to the promised number
of lost shards; a queued shard is kept until delivered, and is delivered; a
change is backed up once it has settled, once, and not after Stop; a restore
returns the recorded content or an error; only registered buddies read and
write, and only their own shards; an invitation is used once; the cap on the
upload rate holds.

## Modules

| Module | Models |
|---|---|
| `LocalBackup` | Backup and Prune over the shard store and the manifest, one process per running operation |
| `Restore` | Restore of one file, beside a backup of the same content and buddies that come and go |
| `DeliveryQueue` | pushToBuddies, the offline queue, the daemon's flushes, redial |
| `Delivery` | what the queue promises, without files and copies; `DeliveryQueue` implements it |
| `ShardExchange` | the handlers, clients and store behind push, pull and manifest streams, and scrub |
| `Invitation` | invitations, the handshake and the buddy registry |
| `Keystore` | the keystore file and everything that rewrites it |
| `Session` | extends `Keystore` by the GUI: password, daemon, watch |
| `RateLimit` | the token bucket of all uploads |
| `Watcher` | the event loop and the debounce timers |
| `MC*` | constants and symmetry for TLC |
| `*Proofs` | theorems about the module of the same name |

Definitions whose name ends in `_Something` after the name of another
definition are deliberately wrong variants of it; they are used by no
specification and serve to show that the properties notice such a mistake.

Common to all: `os.WriteFile` is two steps, truncate and write; a process loads
a file, works on its copy, and writes the whole copy back; mutexes order only
the goroutines of one process. History variables (`raced`, `accepted`,
`spoiled`, ...) record what a property excuses; no step depends on them.

### LocalBackup

`src` is what the user's files hold, `store` and `meta` are the shard files and
`meta.json` per directory, `disk` and `torn` the manifest file, `mem[p]` the
Manifest object of operation `p`, `pc[p]` and `job[p]` where it is and its
locals. Directories are keyed by content id, where Put writes, and by UUID,
where Prune deletes. A shard is abstracted to the scheme that produced it: for
one content, scheme and index its plaintext is fixed. `os.WriteFile` is two
steps, truncate and write, so a kill between them leaves a file that does not
decrypt. Each shard takes three steps (`PutTruncate`, `PutFill`, `PutMeta`).
`PutFails` is an I/O error, before the file is truncated or after, `Crash` a
kill at any point. When two operations
write one file at once the outcome is any that two overlapping writes of two
lengths can leave. PruneVersions may keep any set that contains the newest
version of every path and respects the cap: which of the others are kept
depends on their age.

### DeliveryQueue

A backup tries each buddy in turn: it pushes directly if it can connect, and
enqueues otherwise; an Enqueue is a load, a truncation and a write. A flush of
the daemon loads the queue, pushes the buddy's items one at a time without the
lock, and saves what is left of its copy. Failed pushes may or may not have
stored the shard; a shard that cannot be read again from the store is skipped
(`GetFails`). `Redial` connects without flushing, as the code does.
`accepted` and `raced` are history variables: the items whose Enqueue returned
nil, and whether an Enqueue ever overlapped another writer's load-to-save
window. The queue's order and repetitions are left out, as pushing a shard
twice stores it once.

### Watcher

Time is counted in ticks. A timer is armed, popped (its goroutine is on the way
to the mutex) or running the handler. A due timer pops before time goes on and
`fire` has the mutex at most `MaxLag` ticks later; these two are the only
timing assumptions. Events are the ones the loop acts on, at the time it
receives them. Stop is two steps, and the loop may leave by either branch.

### Restore

One file content with `Chunks` chunks. A shard file is named by content and
index only, so `local` and `remote[b]` map an index to the scheme whose backup
wrote it, to nothing, or to a file that does not decrypt. `Start` looks up the
entry and truncates the output file; then each shard is read here (`ReadLocal`),
or the buddies are asked for it one after the other (`Fetch`, one step per
buddy, `asked` being those that had nothing) until one sends something. Buddies
come and go between two questions, so a shard that is always with some buddy
can be missed. `Merge` decodes a chunk. The decoder works from the first data
shards it has: with shards of another scheme among them it fails or produces
something else, both of which are allowed. `Finish` compares the hash and
removes a wrong file; the error of os.Remove is ignored (`restore.go:230`), so
the file may stay (`"leftover"`), although the message says "output deleted".
`BackupStart` to `BackupRecord` are backupOneFile on the same content, with the
manifest saved last, as Backup does: each buddy in turn gets its shards pushed
if it can be reached, and queued if not. `Deliver` is a flush of the daemon,
which may bring a shard of an earlier scheme after a newer one.

`ToleratesLoss` needs a notion of what was to be had. `Offers` says for the local
store (`Here`) and for each buddy whether it alone makes sure that Restore gets
a good shard, and `lapsed` collects, for each of them, the shards of the chunk
for which that was not so all the time.

### Delivery and its refinement

`Delivery` has three variables: what waits, what is delivered, and whether the
queue is excused. `DeliveryQueue` maps `accepted` without what arrived to
`waiting`, what the buddies hold to `delivered`, and a fault or an overlapping
Enqueue to `excused`.

### ShardExchange

`Links` are the pairs of a client and a server that open streams, `file` and
`hash` the two files of a shard per holder, owner and object (manifests have no
hash). Every stream has a handler with its own program counter. Requests that
are refused change nothing and are no steps. The registry is asked when the
stream opens and not again. Answers may be lost. `ScrubStart`, `ScrubCheck` and
`ScrubRevive` are one pass over the store. Data is known by who sent it and a
version, which is what the properties tell apart.

### Invitation

Seen from the inviter's machine: `inv` and `reg` are invites.json and
buddies.enc, each with a flag for an unreadable file. The daemon's goroutines
(`Handlers`, `Dialers`) exclude each other; `Commands` exclude nobody. A handler
consumes the invitation, then adds the peer, then answers, and answers OK also
when the registry could not be read (`AddFails`) or not be written
(`RegSaveFails`); `unsaved` records for whom. buddies.enc exists from the start.

### Keystore and Session

A keystore is its password, master key, seed, peer key and circles. An
operation is the list of copies it writes (`EnsurePeerIdentity`, `Add`, ...), each
written by `SaveTruncate` and `SaveWrite`. A backup opens the keystore, opens it
again in pushToBuddies, and in the end makes sure of the identity in the copy it
read first. `data` is the master key the manifest was written under. `Session`
adds the GUI's calls: which password they use, `a.mu` (held between two steps
only by StopServe), the handles of the daemon and of the watch, and signals.
`NoCall` is the empty handle and no call (`SessionAssumption`). Recover writes the
keystore at `DefaultKeystorePath` (`setup.go:138`), everything else the one under
`ConfigDir`; they are the same file with `CERCLBACKUP_CONFIG_DIR` set and on Linux
by default, which is the installation modelled.

### RateLimit

Time goes in ticks of one token. `Wait` and `Wake` are the two critical sections
of `Limiter.Wait`; `SetUploadRate` replaces the limiter while others sleep on the
old one. That it does so between PushShard's read of `UploadLimiter` and the lock
in `Wait` (`sender.go:27`), so that a push still takes from the old bucket, is left
out.

## Runs

Passing:

- `backup_one`: one operation at a time, two files, two contents, a 2+1 scheme,
  two faults, three versions, retention cap 1. The smallest instance in which a
  version is pruned while another with the same content stays, a path skips a
  version number, and two faults exceed the parity. That entries stay backed and
  single-scheme versions restorable with any number of operations at once is
  proved.
- `restore`: schemes 2+1 and 3+2, two chunks, one buddy, one fault, with
  losses, failed pushes and late deliveries at index 3, which belongs to
  different chunks in the two schemes. A restore that succeeds wrote the
  recorded content, whatever was mixed; without mixture it fails only on more
  losses than the parity, counting a local shard that exists but does not
  decrypt as lost even where a buddy has a good one. With one buddy the order in
  which buddies are asked does not show: that several come and go while they
  are asked is left to the proofs, as two of them and a backup beside the
  restore have more states than TLC goes through in minutes.
- `queue_safe`: one backup, two flushes, two buddies, one fault. Two buddies
  are needed for items a flush must keep for someone else, two flushes for
  their overlap. Also the refinement of `Delivery`.
- `queue_live`: liveness of delivery with one buddy, two shards, one fault.
- `exchange`: two owners, one holder, two streams, two pushes of two versions,
  one fault, one removal; one of the two file ids is no path component. A retry
  overlaps the push it repeats, and a scrub pass meets half-written shards.
- `invite`: one invitation of each kind, two peers, two handlers, one redial
  goroutine, one command, one kill or failed write. Two handlers race for one
  invitation.
- `keystore`: three calls, two at a time, of init, recover, show-phrase, backup,
  circle add and remove, unlock and passwd; two passwords, three keys,
  two seeds, one kill. With two keys no backup could follow a killed
  `init --force`. Init starts without a keystore or with one from before seeds.
- `session`: four calls, two at a time, of the GUI; two ports, one signal, one
  kill.
- `upload`: two goroutines, a bucket of 2, shards of 1, 3 and 4, 12 ticks, one
  replacement of the limiter.
- `watch_timely`: two paths, four timers, debounce 2, lag 1: a popped timer can
  be overtaken by an event, and a stopped one replaced.

Each of the following shows the code doing something a comment or document of
the repository excludes (the quotations are in `PROJECT.json`):

- `backup_rescheme`: re-backup with another scheme breaks an older version.
- `session_watch`: StartWatch never returns, so a watch cannot be stopped.

Deadlock is not checked except in the watcher's run, whose clock never stops:
the bounds on versions, calls, faults and time let the others come to rest.

Bounds: `MaxIds`, `MaxShards`, `MaxFaults`, `MaxRuns`, `MaxGen`, `Timers`,
`MaxLag`, `MaxVersions`, `MaxSends`, `MaxTrust`, `Streams`, `MaxRevokes`,
`MaxDials`, `Fragile`, `MaxKeys`, `MaxSeeds`, `MaxCalls`, `MaxSignals`,
`MaxTime`, `MaxSets`; each is
a constant used in a guard. Operations that have reached a bound wait; none of
the properties depends on their going on.

Fairness. `DeliveryQueue`: weak fairness of the steps of a backup and of a flush,
as goroutines are scheduled; strong fairness of mDNS reporting a buddy that is
again and again on the LAN, which is what mDNS is for; strong fairness of a
successful push to a buddy that is again and again online while the push is
tried, as an error that always recurs would be no transient one.
`ShardExchange`: weak fairness of the handlers and of the scrub goroutine, which
runs at every tick; that assumes that a fetch from the owner returns, for which
FetchShard sets no deadline (`sender.go:60-84`): an owner that takes the request
and never answers stops the scrub goroutine at `scrub.go:132`. `Session`: a call goes on, with strong fairness as it may have
to wait for `a.mu`, and a sync.Mutex hands itself to a waiter that has waited for
a millisecond; closing the host takes finite time. Nothing is assumed about the
user, about buddies coming and going, or about starting backups.

## Disagreements between the code and its documents

Besides the two above, met while modelling; each is a step of a model, and the
property that would exclude it is stated with a proviso or not at all:

- Overlapping operations each save the manifest they loaded; the later save
  drops versions the other recorded, although Upsert "preserves all previous
  versions" (`manifest.go:129`). Hence `LatestNeverRegresses` is for one operation
  at a time. Watch handlers do overlap, although `watcher.go:19` says "concurrent
  calls never happen".
- A kill while the manifest is saved leaves a file that nothing can open any
  more, although a new version is "soit complète, soit absente"
  (`ARCHITECTURE.md:516`). `LatestNeverRegresses` says that no later operation
  takes it for an empty one.
- Commands and the daemon undo each other's changes to the registry, although
  Add reloads it so that they "don't clobber each other's concurrent writes"
  (`registry.go:91-93`). `RegistryFaithful` is for changes that do not overlap.
- An Add that fails is logged and the joiner is told OK: it knows the inviter,
  who does not know it, although "both should know each other"
  (`p2p_test.go:258`). `BothSides` says that there is no other way to this than
  overlapping writers or a torn registry.
- Prune deletes by UUID what is stored by content id, and frees nothing,
  although it should be "deleting shard sets" (`maintenance.go:166`). Rebalance,
  Audit and Export look under the UUID too.
- A flush saves what is left of the queue it loaded over what a backup enqueued
  meanwhile (`QueueDurable` excuses it), and the redial loop connects without
  flushing, although shards are "flushed on reconnect" (`docs/Changelog.md:133`).
- If the loop of the watcher sees the closed fsnotify channel before the stop
  channel, timers go on after Stop, which "cancels in-flight timers"
  (`docs/Changelog.md:122`).
- A file that vanishes between the listing of its directory and its lstat ends
  the whole backup before the manifest is saved (`WalkFails`), although the backup
  "continues with the rest" (`backup.go`). A push that fails after the connection
  was made is only logged (`PushFails`): the shard is neither at the buddy nor
  queued.
- A scrub asks the owner for a damaged shard, but the owner's handler looks in
  the store of what it holds for others and finds nothing: no shard is revived,
  although "the owner keeps local copies" (`scrub.go:111`).
- Recover draws a new master key, so manifest and shards of before cannot be
  read, although the phrase "regenerates the master key" (`README.md:219`).
  `ManifestReadable` is for histories without it. Neither init --force nor recover
  touches buddies.enc, which then does not decrypt either.
- The first backup of a keystore without identity stores two, one after the
  other (`staleCopy` in `Keystore`).
- Sleeps in the limiter are counted as refill by other callers (`WithinShare`),
  although the code means to be "preventing the sleep from being double-counted"
  (`ratelimit.go:77`).
- A host that Backup or Rebalance creates has no addresses and no connections,
  so the manifest push and the rebalancing probably reach nobody. That is a
  matter of libp2p and not modelled.

## Proofs

All theorems hold for every value of the constants that the named assumptions
of the module allow, so for any number of files, operations, buddies, streams,
calls and timers. Every invariant that a run checks is proved, and so are the
action properties and the refinement. For each component a type invariant comes
first; the rest is what a single step needs to know beyond the property.

- `LocalBackupProofs`. `ManifestBacked` rests on `BackedInv`: in every copy of
  the manifest, not only in the file, entries name existing shards, the shards
  below `next` of a backup under way exist, and no step removes a shard from a
  content directory (Prune deletes by UUID). `VersionsNeverCollide` rests on
  `NumberInv`, which also bounds all UUIDs by `nextId`. `SingleSchemeSafe` rests
  on `OrphanInv`: the torn shards of a content that no operation is filling are
  at most as many as there were faults. These hold however operations overlap.
  `NoRegression` and `AloneCatalogues` are for behaviours in which at most one
  operation runs at a time (`[]Alone`, true by itself with one process, as in
  `backup_one`), and need it: two overlapping operations drop each other's
  versions and lose each other's records in meta.json.
- `DeliveryQueueProofs`. `AcceptedIsKept` rests on `DurableInv`: every copy in
  memory that will be saved still contains each accepted item that is not at
  its buddy; a backup that enqueues is alone in its window; only one writer
  writes at a time. `QueueImplementsDelivery` maps every step to a step of
  `Delivery` or a stutter, from the same invariant.
- `WatcherProofs`, under `MaxLag < Debounce`. `ClockInv` ties the clocks
  together: an armed timer counts down from the last event on its path; a
  popped timer is the entry's own, or has been overtaken by a timer armed after
  it popped, which cannot pop before the old goroutine is gone. Debouncing, the
  bound on the delay and the uniqueness of the armed timer follow.
  The assumption is needed: with `MaxLag` above `Debounce` in
  `MCWatcher_timely.cfg` TLC finds a behaviour in which an entry is removed and
  made anew, again with generation 0, while the goroutine of an old timer with
  that generation is still waiting; `fire` then starts the handler in the
  middle of a burst, contrary to the comment above it. That takes a goroutine
  held up for three seconds by default.
- `RestoreProofs`. `RestoresOnlyRecorded` needs only that no piece is held once
  the last chunk is written. `FailsOnlyBeyondParity` rests on `Unmixed`: while no
  shard of another scheme is about, every piece read so far is the row it should
  be, or its index is among those that neither the store nor any one buddy offered
  all the time; a shard that is being fetched has been missing here and at every
  buddy already asked (`Tried`); all chunks written are right. That buddies are
  asked one at a time is why `lapsed` is kept for each of them: of a shard that
  was always with one buddy or another, but with none all the time, nothing is
  promised. A chunk that does not decode then maps its missing pieces
  one to one to such indices (`TooManyLost`), and there are more of them than the
  parity. Where an index lies, `div` and `mod` the number of shards, is
  `RowPlace`.
- `ShardExchangeProofs`. `NobodyReadsOthers` rests on `Owned`: a file is the data
  of the owner it is stored under, and nothing is stored under the name of the
  node that holds it, so naming that node in a pull yields nothing. `AckedIsHeld`
  rests on `HeldInv`: a shard outside any write is the last one pushed with its
  hash, and a handler that writes is the only one at that shard unless the shard
  counts as spoiled.
- `InvitationProofs`. Mutual exclusion of the daemon's goroutines (`Exclusive`)
  comes first. While no command has written between another process's load and
  save, every copy of invites.json about to be written differs from the file by
  the one change of its process (`InvSound`), and likewise for buddies.enc
  (`RegSound`); who was admitted and is not in the registry was removed, or is
  among those whose Add failed. Single use, the faithful registry and the promise
  to the peer that was told OK follow.
- `SessionProofs`, for `Keystore` and `Session` together. `PhraseRecovers` holds
  without provisos: every copy still to be written satisfies what the property
  says of the file (`Sound`). The others hold until two calls use the keystore at
  once (`raced`); until then (`Solo`) one call at a time is open, and the layers
  `Identity`, `Changes`, `Manifest`, `InSession` and `Served` say what its
  remaining writes amount to.
- `RateLimitProofs`. The bound in `CapIsShared` is a count, not a sum: `Paid` is
  the set of tokens the sleepers have come by, one more each tick, and `Grow` and
  `Swap` say how it grows with time and when a caller goes to sleep or wakes. As
  long as the limiter is not replaced, `Shared` bounds what was sent, what is in
  the bucket and what is paid by the time of the last refill, counted once per
  caller: a caller that has slept through a tick was not refilled for it.
  `Budget` is the weaker bound that survives a replacement.

Two results of proving were changes to the models. `ChangesKept` no longer
excuses a backup that replaces the identity, as that turned out to lose no
circle or password. And a third key in the `keystore` run showed that the
histories of identities and circles have to start anew when `init --force`
removes the file, as the user gives them up with it: with a kill before the new
file is written the next backup makes another identity.

Only model-checked: liveness (`FlushedOnReconnect`, `RotIsFlagged`, `CallsReturn`),
which is outside what TLAPS proves.

## Not modelled

Formatting, printing, flag parsing and bindings that pass arguments on;
compression, encryption and Reed-Solomon arithmetic, which appear by what they
guarantee; libp2p, DHT, relay and health endpoints; the set of directories being
watched; the tray, the keyring and the configuration file. Doctor, Dashboard,
Audit, Storage, Diff and the lists only read. Rebalance and Export find no shards
under the ids they look for and so move none; Import would be a further
operation of `LocalBackup`.

## Plan

The models are complete along the plan above and the safety properties of all
of them are proved. What would be worth adding:

1. An abstract specification of the keystore (a master key, an identity, a
   password and circles that calls change at once) that `Keystore` implements
   while no two calls overlap; `Changes` and `Identity` are its refinement mapping
   in another form.
2. The same for invitations and registry: a peer is admitted in one step.
3. What overlapping backups do keep: a save loses only versions that were
   recorded since its operation loaded the manifest.
