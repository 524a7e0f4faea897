----------------------------- MODULE Keystore -----------------------------
(***************************************************************************)
(* The keystore file (crypto/keystore.go) and what rewrites it: first run, *)
(* recovery, password change, the peer identity and the circles.           *)
(*                                                                         *)
(* A call reads the whole file, then writes whole copies of what it has in *)
(* memory, each under the caller's password and in place.  No lock is      *)
(* taken, so two calls undo each other's changes, and a kill between the   *)
(* truncation and the write leaves no keystore.  A copy is                 *)
(*   [pw, key, seed, peer, circles]                                        *)
(* where peer, the Ed25519 key, is represented by the seed it derives from.*)
(***************************************************************************)
EXTENDS Integers, Sequences

CONSTANTS
    Calls,      \* calls in progress at the same time
    Passwords,  \* passwords the user types
    Names,      \* circles besides the default one
    MaxKeys,    \* bound: master keys drawn at random
    MaxSeeds,   \* bound: seeds drawn at random
    MaxCalls,   \* bound: calls that are made
    MaxFaults   \* bound: kills

ASSUME KeystoreAssumption ==
    /\ MaxKeys \in Nat /\ MaxSeeds \in Nat
    /\ MaxCalls \in Nat /\ MaxFaults \in Nat

None == 0           \* no key, no seed, no password
Legacy == -1        \* a peer key from before seeds were stored
Default == "Default"

VARIABLES
    status,         \* keystore.enc: "absent", "torn" or "ok"
    store,          \* its content when status is "ok"
    data,           \* the master key manifest.enc is written under, or None
    call,           \* the calls in progress
    keys, seeds,    \* how many were drawn
    calls, faults,
    shown,          \* history: phrases shown since the last reset
    ids,            \* history: identities stored since the last reset
    wantPw, wantCircles, \* history: what completed changes amount to
    raced,          \* history: a call used the keystore while another did
    recovered,      \* history: Recover wrote a keystore
    staleCopy,      \* history: a backup replaced the identity by a second one
    halfReset       \* history: a kill interrupted init --force

fileVars == <<status, store, data>>
drawn == <<keys, seeds>>
history == <<shown, ids, wantPw, wantCircles, recovered, staleCopy,
             halfReset>>
ksVars == <<fileVars, call, drawn, calls, faults, history, raced>>

\* Create: a fresh keystore under pw, with master key k and no extras.
Blank(pw, k) ==
    [pw |-> pw, key |-> k, seed |-> None, peer |-> None, circles |-> {}]

Idle == [pc |-> "idle", op |-> "", gui |-> FALSE, pw |-> None, arg |-> None,
         mem |-> Blank(None, None), todo |-> <<>>]

-----------------------------------------------------------------------------
(* The copies an operation writes, one per save, given the copy s it holds. *)

\* Mutant: the key is stored before the seed it derives from.
EnsurePeerIdentity_KeyFirst(s, n) ==
    IF s.peer # None
    THEN <<>>
    ELSE <<[s EXCEPT !.peer = n], [s EXCEPT !.peer = n, !.seed = n]>>

\* Mutant: a new identity every time.
EnsurePeerIdentity_Always(s, n) ==
    <<[s EXCEPT !.seed = n], [s EXCEPT !.seed = n, !.peer = n]>>

\* A stored peer key is used as it is.  Without one a seed is drawn, a stored
\* seed notwithstanding.
EnsurePeerIdentity(s, n) ==
    IF s.peer # None
    THEN <<>>
    ELSE <<[s EXCEPT !.seed = n], [s EXCEPT !.seed = n, !.peer = n]>>

EnsurePeerIdentityFromSeed(s, n) ==
    <<[s EXCEPT !.seed = n], [s EXCEPT !.seed = n, !.peer = n]>>

Add(s, name) ==
    IF name \in s.circles
    THEN <<>>
    ELSE <<[s EXCEPT !.circles = @ \cup {name}]>>

\* Mutant: the other circles go too.
Remove_All(s, name) ==
    IF name \in s.circles THEN <<[s EXCEPT !.circles = {}]>> ELSE <<>>

Remove(s, name) ==
    IF name \in s.circles
    THEN <<[s EXCEPT !.circles = @ \ {name}]>>
    ELSE <<>>

\* GetOrDefault(""): the default circle is made when there is none.
GetOrDefault(s) == Add(s, Default)

\* init: Create, the identity, the default circle.
InitCopies(pw, k, n) ==
    LET made == <<Blank(pw, k)>> \o EnsurePeerIdentity(Blank(pw, k), n)
    IN  made \o GetOrDefault(made[Len(made)])

\* recover: Create, then the seed of the phrase and its key.
RecoverCopies(pw, k, n) ==
    <<Blank(pw, k)>> \o EnsurePeerIdentityFromSeed(Blank(pw, k), n)

\* Save under another password.
PasswdCopies(s, new) == <<[s EXCEPT !.pw = new]>>

-----------------------------------------------------------------------------
Init ==
    /\ \/ status = "absent" /\ store = Blank(None, None) /\ keys = 0
       \/ /\ status = "ok" /\ keys = 1
          /\ \E pw \in Passwords :
                store = [Blank(pw, 1) EXCEPT !.peer = Legacy,
                                             !.circles = {Default}]
    /\ data = None
    /\ call = [c \in Calls |-> Idle]
    /\ seeds = 0 /\ calls = 0 /\ faults = 0
    /\ shown = {} /\ ids = {store.peer} \ {None}
    /\ wantPw = store.pw /\ wantCircles = store.circles
    /\ raced = FALSE /\ recovered = FALSE
    /\ staleCopy = FALSE /\ halfReset = FALSE

Busy(c) == call[c].pc # "idle"

\* Between the first read of the file and the last use of what was read.
Open(c) ==
    call[c].pc \in
        {"wipe", "save", "write", "load", "push", "manifest", "ident", "done"}

\* c reads the file, or finds it missing, and goes on as r.
Read(c, r) ==
    /\ call' = [call EXCEPT ![c] = r]
    /\ raced' = (raced \/ \E d \in Calls \ {c} : Open(d))

Fail(c) ==
    /\ call' = [call EXCEPT ![c] = Idle]
    /\ UNCHANGED <<fileVars, drawn, calls, faults, history, raced>>

\* The operations that use OpenKeystore, and those that use
\* OpenOrCreateKeystore.
Opening == {"unlock", "passwd", "phrase", "add", "remove", "serve"}
Creating == {"backup", "watch"}

\* A call is made, with the password pw, and starts at pc.
Begin(c, op, gui, pw, arg, pc) ==
    /\ ~Busy(c)
    /\ calls < MaxCalls
    /\ calls' = calls + 1
    /\ call' = [call EXCEPT ![c] = [Idle EXCEPT !.pc = pc, !.op = op,
                                      !.gui = gui, !.pw = pw, !.arg = arg]]
    /\ UNCHANGED <<fileVars, drawn, faults, history, raced>>

Unlocks(c) == status = "ok" /\ store.pw = call[c].pw

\* The wrong password, no file, or an unreadable one.
UnlockFails(c) ==
    /\ call[c].pc = "open"
    /\ \/ call[c].op \in Opening
       \/ call[c].op \in Creating /\ status # "absent"
    /\ ~Unlocks(c)
    /\ Fail(c)

\* A seed is drawn for the copy s when it has no peer key.
DrawSeed(s) ==
    /\ s.peer = None => seeds < MaxSeeds
    /\ seeds' = IF s.peer = None THEN seeds + 1 ELSE seeds

\* What c writes, given the copy s.
Copies(c, s) ==
    LET op == call[c].op
    IN  CASE op = "passwd" -> PasswdCopies(s, call[c].arg)
          [] op = "add"    -> Add(s, call[c].arg)
          [] op = "remove" -> Remove(s, call[c].arg)
          [] op = "serve"  -> EnsurePeerIdentity(s, seeds + 1)
          [] OTHER         -> <<>>

\* The phrase of the stored seed, if there is one.
ShowPhrase(s) == {s.seed} \ {None}

Unlock(c) ==
    /\ call[c].pc = "open"
    /\ call[c].op \in Opening \cup Creating
    /\ Unlocks(c)
    /\ IF call[c].op = "serve" THEN DrawSeed(store) ELSE UNCHANGED seeds
    /\ Read(c, [call[c] EXCEPT
            !.pc = IF call[c].op = "backup" THEN "load" ELSE "save",
            !.mem = store, !.todo = Copies(c, store)])
    /\ shown' = shown \cup (IF call[c].op = "phrase" THEN ShowPhrase(store) ELSE {})
    /\ UNCHANGED <<fileVars, keys, calls, faults, ids, wantPw, wantCircles,
                   recovered, staleCopy, halfReset>>

\* OpenOrCreateKeystore without a file.
CreateMissing(c) ==
    /\ call[c].pc = "open"
    /\ call[c].op \in Creating
    /\ status = "absent"
    /\ keys < MaxKeys
    /\ keys' = keys + 1
    /\ LET s == Blank(call[c].pw, keys + 1)
       IN  Read(c, [call[c] EXCEPT !.pc = "save", !.mem = s, !.todo = <<s>>])
    /\ UNCHANGED <<fileVars, seeds, calls, faults, history>>

\* init.  A file that is there is replaced only with --force (arg = 1): it is
\* removed, then the manifest and the shards.
InitKeystore(c) ==
    /\ call[c].pc = "open"
    /\ call[c].op = "init"
    /\ status = "absent" \/ call[c].arg = 1
    /\ keys < MaxKeys /\ seeds < MaxSeeds
    /\ keys' = keys + 1 /\ seeds' = seeds + 1
    /\ Read(c, [call[c] EXCEPT
            !.pc = IF status = "absent" THEN "save" ELSE "wipe",
            !.todo = InitCopies(call[c].pw, keys + 1, seeds + 1)])
    /\ status' = "absent"
    /\ ids' = {} /\ wantCircles' = {}
    /\ UNCHANGED <<store, data, calls, faults, shown, wantPw, recovered,
                   staleCopy, halfReset>>

InitRefused(c) ==
    /\ call[c].pc = "open"
    /\ call[c].op = "init"
    /\ status # "absent" /\ call[c].arg # 1
    /\ Fail(c)

\* Mutant: the manifest stays.
Wipe_KeepManifest(c) ==
    /\ call[c].pc = "wipe"
    /\ call' = [call EXCEPT ![c].pc = "save"]
    /\ UNCHANGED <<fileVars, drawn, calls, faults, history, raced>>

Wipe(c) ==
    /\ call[c].pc = "wipe"
    /\ data' = None
    /\ call' = [call EXCEPT ![c].pc = "save"]
    /\ UNCHANGED <<status, store, drawn, calls, faults, history, raced>>

\* recover with a phrase the user has (arg).  A keystore that is there is
\* overwritten, the manifest is left.  Recover writes DefaultKeystorePath, the
\* others ConfigDir's keystore.enc: the model is of an installation where the
\* two are one, as with CERCLBACKUP_CONFIG_DIR or on Linux by default.
Recover(c) ==
    /\ call[c].pc = "open"
    /\ call[c].op = "recover"
    /\ keys < MaxKeys
    /\ keys' = keys + 1
    /\ Read(c, [call[c] EXCEPT
            !.pc = "save",
            !.todo = RecoverCopies(call[c].pw, keys + 1, call[c].arg)])
    /\ UNCHANGED <<fileVars, seeds, calls, faults, history>>

-----------------------------------------------------------------------------
(* save: os.WriteFile truncates, then writes. *)

SaveTruncate(c) ==
    /\ call[c].pc = "save" /\ call[c].todo # <<>>
    /\ status' = "torn"
    /\ call' = [call EXCEPT ![c].pc = "write"]
    /\ UNCHANGED <<store, data, drawn, calls, faults, history, raced>>

\* A file another call wrote meanwhile may keep a tail; one that was removed
\* meanwhile stays removed.
SaveWrite(c) ==
    LET s == Head(call[c].todo)
        op == call[c].op
    IN  /\ call[c].pc = "write"
        /\ IF status = "absent"
           THEN UNCHANGED <<status, store>>
           ELSE /\ store' = s
                /\ status' \in {"ok", IF status = "ok" THEN "torn" ELSE "ok"}
        /\ call' = [call EXCEPT ![c].pc = "save",
                                ![c].mem = IF op = "push" THEN @ ELSE s,
                                ![c].todo = Tail(@)]
        /\ wantPw' = IF op = "passwd" THEN call[c].arg ELSE call[c].pw
        /\ wantCircles' =
             CASE op = "add"     -> wantCircles \cup {call[c].arg}
               [] op = "remove"  -> wantCircles \ {call[c].arg}
               [] op = "recover" -> {}
               [] op = "init"    -> IF Len(call[c].todo) = 1 THEN {Default} ELSE {}
               [] OTHER          -> wantCircles
        /\ ids' = ({s.peer} \ {None}) \cup
                    IF op \in {"init", "recover"} THEN {} ELSE ids
        /\ shown' = IF op \in {"init", "recover"} THEN {} ELSE shown
        /\ recovered' = (recovered \/ op = "recover")
        /\ UNCHANGED <<data, drawn, calls, faults, staleCopy, halfReset, raced>>

\* All copies are written.  init shows the phrase; a backup goes on.
Saved(c) ==
    LET op == call[c].op
    IN  /\ call[c].pc = "save" /\ call[c].todo = <<>>
        /\ call' = [call EXCEPT
                ![c].pc = CASE op = "backup" -> "load"
                            [] op = "push"   -> "manifest"
                            [] OTHER         -> "done"]
        /\ shown' = shown \cup (IF op = "init" THEN ShowPhrase(call[c].mem) ELSE {})
        /\ UNCHANGED <<fileVars, drawn, calls, faults, ids, wantPw, wantCircles,
                       recovered, staleCopy, halfReset, raced>>

-----------------------------------------------------------------------------
(* What a backup does with the keystore it opened. *)

\* The manifest decrypts under the master key, or there is none.
LoadManifest(c) ==
    /\ call[c].pc = "load"
    /\ data \in {None, call[c].mem.key}
    /\ call' = [call EXCEPT ![c].pc = "push"]
    /\ UNCHANGED <<fileVars, drawn, calls, faults, history, raced>>

ManifestUnreadable(c) ==
    /\ call[c].pc = "load"
    /\ data \notin {None, call[c].mem.key}
    /\ Fail(c)

\* pushToBuddies, after each file: opens the keystore again and makes sure of
\* the peer identity in a copy of its own.
PushIdentity(c) ==
    /\ call[c].pc = "push"
    /\ Unlocks(c)
    /\ DrawSeed(store)
    /\ call' = [call EXCEPT ![c].pc = "save", ![c].op = "push",
                            ![c].todo = EnsurePeerIdentity(store, seeds + 1)]
    /\ UNCHANGED <<fileVars, keys, calls, faults, history, raced>>

\* No file was stored, or the keystore no longer opens.
NoPush(c) ==
    /\ call[c].pc = "push"
    /\ call' = [call EXCEPT ![c].pc = "manifest"]
    /\ UNCHANGED <<fileVars, drawn, calls, faults, history, raced>>

SaveManifest(c) ==
    /\ call[c].pc = "manifest"
    /\ data' = call[c].mem.key
    /\ call' = [call EXCEPT ![c].pc = "ident"]
    /\ UNCHANGED <<status, store, drawn, calls, faults, history, raced>>

\* The identity for the manifest's distribution, from the copy of the
\* keystore that was read when the backup began.
BackupIdentity(c) ==
    LET s == call[c].mem
    IN  /\ call[c].pc = "ident"
        /\ DrawSeed(s)
        /\ staleCopy' = (staleCopy \/ (s.peer = None /\ store.peer # None))
        /\ call' = [call EXCEPT ![c].pc = "save", ![c].op = "ident",
                                ![c].todo = EnsurePeerIdentity(s, seeds + 1)]
        /\ UNCHANGED <<fileVars, keys, calls, faults, shown, ids, wantPw,
                       wantCircles, recovered, halfReset, raced>>

\* The processes that make the calls cs are killed.
Kill(cs) ==
    /\ faults < MaxFaults
    /\ faults' = faults + 1
    /\ call' = [c \in Calls |-> IF c \in cs THEN Idle ELSE call[c]]
    /\ halfReset' = (halfReset \/ \E c \in cs : call[c].pc = "wipe")
    /\ UNCHANGED <<fileVars, drawn, calls, shown, ids, wantPw, wantCircles,
                   recovered, staleCopy, raced>>

\* A step of a call on the keystore.
KeystoreStep(c) ==
    \/ UnlockFails(c) \/ Unlock(c) \/ CreateMissing(c)
    \/ InitKeystore(c) \/ InitRefused(c) \/ Wipe(c) \/ Recover(c)
    \/ SaveTruncate(c) \/ SaveWrite(c) \/ Saved(c)
    \/ LoadManifest(c) \/ ManifestUnreadable(c) \/ PushIdentity(c) \/ NoPush(c)
    \/ SaveManifest(c) \/ BackupIdentity(c)

-----------------------------------------------------------------------------
Copy(s) ==
    /\ DOMAIN s = {"pw", "key", "seed", "peer", "circles"}
    /\ s.pw \in Passwords \cup {None}
    /\ s.key \in 0..keys /\ s.seed \in 0..seeds /\ s.peer \in Legacy..seeds
    /\ s.circles \subseteq Names \cup {Default}

KeystoreTypeOK ==
    /\ status \in {"absent", "torn", "ok"}
    /\ Copy(store)
    /\ data \in 0..keys
    /\ \A c \in Calls :
         /\ Copy(call[c].mem)
         /\ \A i \in 1..Len(call[c].todo) : Copy(call[c].todo[i])
    /\ shown \subseteq 1..seeds
    /\ ids \subseteq (Legacy..seeds) \ {None}

\* The stored peer key derives from the stored seed, so that the phrase shown
\* for it recovers that identity, whatever calls overlap and whatever is
\* killed.  Only keys older than the phrases have no seed.
PhraseOfIdentity ==
    status = "ok" /\ store.peer # None =>
        store.peer = IF store.seed = None THEN Legacy ELSE store.seed

\* An identity that was stored is not replaced, except by init --force and by
\* recover, if no two calls use the keystore at the same time; a killed call
\* replaces none either.
IdentityKept ==
    status = "ok" /\ ~raced /\ ~staleCopy => ids \subseteq {store.peer}

\* The keystore has the password and the circles that the completed changes
\* amount to, if no two calls use it at the same time.
ChangesKept ==
    status = "ok" /\ ~raced =>
        store.pw = wantPw /\ store.circles = wantCircles

\* The manifest can be read with the keystore's master key, if no two calls
\* use the keystore at the same time, none was recovered, and no kill came
\* between the removal of the keystore and that of the manifest.
ManifestReadable ==
    status = "ok" /\ ~raced /\ ~recovered /\ ~halfReset =>
        data \in {None, store.key}
=============================================================================
