---------------------------- MODULE Invitation ----------------------------
(***************************************************************************)
(* How two nodes come to know each other: invitations (invite/generator.go,*)
(* api/invite.go, emailinvite), the handshake (handleInvite and            *)
(* SendInviteRequest in p2p/handler.go) and the buddy registry             *)
(* (buddy/registry.go), as seen from the inviter's machine.                *)
(*                                                                         *)
(* Two files are shared by the daemon and by commands: invites.json and    *)
(* buddies.enc.  Whoever changes one loads it, changes its copy and writes *)
(* it back in place.  The daemon's goroutines take turns under a mutex;    *)
(* a command has a mutex of its own, which excludes nobody.                *)
(***************************************************************************)
EXTENDS Integers, FiniteSets

CONSTANTS
    Words,      \* invitations by 12 words, which Consume looks for
    Mails,      \* invitations by e-mail, which ConsumeCommitment looks for
    Peers,      \* nodes that may join
    Handlers,   \* streams the daemon serves at the same time
    Dialers,    \* the daemon's goroutines that store addresses
    Commands,   \* commands running at the same time
    MaxRevokes, \* bound: buddies removed
    MaxDials,   \* bound: addresses stored
    MaxFaults   \* bound: kills and failed saves

Tokens == Words \cup Mails
Daemon == Handlers \cup Dialers
Procs == Daemon \cup Commands

ASSUME InvitationAssumption ==
    /\ Words \cap Mails = {}
    /\ Handlers \cap Dialers = {} /\ Daemon \cap Commands = {}
    /\ MaxRevokes \in Nat /\ MaxDials \in Nat /\ MaxFaults \in Nat

VARIABLES
    inv, invTorn,   \* invites.json: what is pending, or an unreadable file
    reg, regTorn,   \* buddies.enc: who is registered, or an unreadable file
    proc,           \* where each process is, and its copy of the file
    expired,        \* invitations past their time
    joined,         \* peers told OK, which have registered the inviter
    revokes, dials, faults,
    issued,         \* history: invitations given to the user
    used,           \* history: pairs <<t, j>>, j was admitted with t
    expect,         \* history: who should be registered
    revoked,        \* history: who was ever removed
    unsaved,        \* history: admitted, but the registry did not take them
    invRaced, regRaced  \* history: a change of the file overlapped another

vars == <<inv, invTorn, reg, regTorn, proc, expired, joined, revokes, dials,
          faults, issued, used, expect, revoked, unsaved, invRaced, regRaced>>

Idle == [pc |-> "idle"]

\* buddies.enc exists: as long as it does not, the daemon's load keeps what an
\* earlier operation left in memory, which is not modelled.
Init ==
    /\ inv = {} /\ invTorn = FALSE
    /\ reg \in SUBSET Peers /\ regTorn = FALSE
    /\ proc = [p \in Procs |-> Idle]
    /\ expired = {} /\ joined = {}
    /\ revokes = 0 /\ dials = 0 /\ faults = 0
    /\ issued = {} /\ used = {}
    /\ expect = reg
    /\ revoked = {} /\ unsaved = {}
    /\ invRaced = FALSE /\ regRaced = FALSE

\* Between load and the end of the write.
InvOpen(p) == proc[p].pc \in {"isave", "iwrite"}
RegOpen(p) == proc[p].pc \in {"rsave", "rwrite"}

Become(p, r) == proc' = [proc EXCEPT ![p] = r]

-----------------------------------------------------------------------------
(* invite and invite-email. *)

\* Mutant: the new invitation replaces those that were pending.
AddPending_NewOnly(t) == {t}

\* addPending drops the expired words, AddCommitment drops nothing.
AddPending(t) == {t} \cup (inv \ (expired \cap Words))
AddCommitment(t) == {t} \cup inv

\* loadLocked: an unreadable file is an error.
InvLoad(p, r) ==
    /\ ~invTorn
    /\ Become(p, r)
    /\ invRaced' = (invRaced \/ \E q \in Procs : InvOpen(q))
    /\ UNCHANGED <<inv, invTorn, reg, regTorn, expired, joined, revokes, dials,
                   faults, issued, used, expect, revoked, unsaved, regRaced>>

\* Nobody else draws t, and it does not expire before it is shown.
Fresh(p, t) == proc[p].pc = "idle" /\ t \notin issued \cup expired

Invite(p, t) ==
    /\ t \in Words
    /\ Fresh(p, t)
    /\ InvLoad(p, [pc |-> "isave", op |-> "issue", token |-> t,
                   held |-> AddPending(t)])

InviteEmail(p, t) ==
    /\ t \in Mails
    /\ Fresh(p, t)
    /\ InvLoad(p, [pc |-> "isave", op |-> "issue", token |-> t,
                   held |-> AddCommitment(t)])

(* join and join-email of a peer j, and handleInvite, which serves them. *)

\* Mutant: an invitation that was accepted stays pending.
Consume_Kept(t) == inv \ (expired \cap Words)

\* What stays pending: Consume drops the expired words too.
Consume(t) == inv \ ({t} \cup (expired \cap Words))
ConsumeCommitment(t) == inv \ {t}

\* Mutant: Consume does not take the mutex.
InvMutex_None == FALSE

\* invite.Manager.mu is held by a goroutine of the daemon.
InvMutex == \E q \in Daemon : InvOpen(q)

\* handleInvite.  Unknown, expired, or an unreadable file: turned down.
Accept(p, t, j, rest) ==
    /\ proc[p].pc = "idle"
    /\ ~InvMutex
    /\ t \in inv \ expired
    /\ InvLoad(p, [pc |-> "isave", op |-> "consume", token |-> t, peer |-> j,
                   held |-> rest])

Join(p, t, j) == t \in Words /\ Accept(p, t, j, Consume(t))

\* The joiner looks at the time in the payload; its words and its signature
\* are those of the invitation.
Verify(t) == t \notin expired

JoinEmail(p, t, j) ==
    t \in Mails /\ Verify(t) /\ Accept(p, t, j, ConsumeCommitment(t))

(* saveLocked of invite.Manager. *)

InvTruncate(p) ==
    /\ proc[p].pc = "isave"
    /\ invTorn' = TRUE
    /\ Become(p, [proc[p] EXCEPT !.pc = "iwrite"])
    /\ UNCHANGED <<inv, reg, regTorn, expired, joined, revokes, dials, faults,
                   issued, used, expect, revoked, unsaved, invRaced, regRaced>>

\* The words go to the user; an accepted peer goes on to the registry.
InvWrite(p) ==
    /\ proc[p].pc = "iwrite"
    /\ inv' = proc[p].held
    /\ invTorn' \in {FALSE, ~invTorn}
    /\ \/ /\ proc[p].op = "issue"
          /\ issued' = issued \cup {proc[p].token}
          /\ Become(p, Idle)
          /\ UNCHANGED used
       \/ /\ proc[p].op = "consume"
          /\ used' = used \cup {<<proc[p].token, proc[p].peer>>}
          /\ Become(p, [pc |-> "add", peer |-> proc[p].peer])
          /\ UNCHANGED issued
    /\ UNCHANGED <<reg, regTorn, expired, joined, revokes, dials, faults,
                   expect, revoked, unsaved, invRaced, regRaced>>

\* The directory cannot be made, the file cannot be opened or (after it was
\* truncated) not be written: no words are shown, a joiner is turned down.
InvSaveFails(p) ==
    /\ InvOpen(p)
    /\ faults < MaxFaults
    /\ faults' = faults + 1
    /\ Become(p, Idle)
    /\ UNCHANGED <<inv, invTorn, reg, regTorn, expired, joined, revokes, dials,
                   issued, used, expect, revoked, unsaved, invRaced, regRaced>>

-----------------------------------------------------------------------------
(* Registry.Add, Remove and UpdateAddrs. *)

\* A goroutine of the daemon has the mutex of the daemon's registry.
RegMutex == \E q \in Daemon : RegOpen(q)

RegLoad(p, r) ==
    /\ ~regTorn
    /\ Become(p, r)
    /\ regRaced' = (regRaced \/ \E q \in Procs : RegOpen(q))

\* What Add, Remove and UpdateAddrs save, given what they load.
Add(j) == reg \cup {j}
Remove(j) == reg \ {j}

\* handleInvite adds the peer that was accepted.
AddLoad(p) ==
    /\ proc[p].pc = "add"
    /\ ~RegMutex
    /\ RegLoad(p, [pc |-> "rsave", op |-> "add", peer |-> proc[p].peer,
                   held |-> Add(proc[p].peer)])
    /\ UNCHANGED <<inv, invTorn, reg, regTorn, expired, joined, revokes, dials,
                   faults, issued, used, expect, revoked, unsaved, invRaced>>

\* The registry cannot be read: the error is logged, the answer is OK.
AddFails(p) ==
    /\ proc[p].pc = "add"
    /\ ~RegMutex
    /\ regTorn
    /\ Become(p, [pc |-> "answer", peer |-> proc[p].peer])
    /\ regRaced' = (regRaced \/ \E q \in Procs : RegOpen(q))
    /\ unsaved' = unsaved \cup {proc[p].peer}
    /\ UNCHANGED <<inv, invTorn, reg, regTorn, expired, joined, revokes, dials,
                   faults, issued, used, expect, revoked, invRaced>>

\* revoke, by a command.
BuddyRemove(p, j) ==
    /\ proc[p].pc = "idle"
    /\ revokes < MaxRevokes
    /\ revokes' = revokes + 1
    /\ RegLoad(p, [pc |-> "rsave", op |-> "remove", peer |-> j,
                   held |-> Remove(j)])
    /\ UNCHANGED <<inv, invTorn, reg, regTorn, expired, joined, dials, faults,
                   issued, used, expect, revoked, unsaved, invRaced>>

\* Mutant: addresses are stored for a peer that is not registered, too.
Known_Always(j) == TRUE

Known(j) == j \in reg

\* HandlePeerFound and DialBuddy: the entries stay, with other addresses.
UpdateLoad(p, j) ==
    /\ proc[p].pc = "idle"
    /\ dials < MaxDials
    /\ dials' = dials + 1
    /\ ~RegMutex
    /\ Known(j)
    /\ RegLoad(p, [pc |-> "rsave", op |-> "addrs", peer |-> j,
                   held |-> Add(j)])
    /\ UNCHANGED <<inv, invTorn, reg, regTorn, expired, joined, revokes,
                   faults, issued, used, expect, revoked, unsaved, invRaced>>

(* save of buddy.Registry. *)

RegTruncate(p) ==
    /\ proc[p].pc = "rsave"
    /\ regTorn' = TRUE
    /\ Become(p, [proc[p] EXCEPT !.pc = "rwrite"])
    /\ UNCHANGED <<inv, invTorn, reg, expired, joined, revokes, dials, faults,
                   issued, used, expect, revoked, unsaved, invRaced, regRaced>>

RegWrite(p) ==
    /\ proc[p].pc = "rwrite"
    /\ reg' = proc[p].held
    /\ regTorn' \in {FALSE, ~regTorn}
    /\ LET j == proc[p].peer
       IN  \/ /\ proc[p].op = "add"
              /\ expect' = expect \cup {j}
              /\ Become(p, [pc |-> "answer", peer |-> j])
              /\ UNCHANGED revoked
           \/ /\ proc[p].op = "remove"
              /\ expect' = expect \ {j}
              /\ revoked' = revoked \cup {j}
              /\ Become(p, Idle)
           \/ /\ proc[p].op = "addrs"
              /\ Become(p, Idle)
              /\ UNCHANGED <<expect, revoked>>
    /\ UNCHANGED <<inv, invTorn, expired, joined, revokes, dials, faults,
                   issued, used, unsaved, invRaced, regRaced>>

\* As for invites.json.  handleInvite logs the error of Add and answers OK.
RegSaveFails(p) ==
    /\ RegOpen(p)
    /\ faults < MaxFaults
    /\ faults' = faults + 1
    /\ LET j == proc[p].peer
       IN  \/ /\ proc[p].op = "add"
              /\ Become(p, [pc |-> "answer", peer |-> j])
              /\ unsaved' = unsaved \cup {j}
           \/ /\ proc[p].op # "add"
              /\ Become(p, Idle)
              /\ UNCHANGED unsaved
    /\ UNCHANGED <<inv, invTorn, reg, regTorn, expired, joined, revokes, dials,
                   issued, used, expect, revoked, invRaced, regRaced>>

-----------------------------------------------------------------------------
\* Mutant: the answer goes out as soon as the invitation is accepted.
Answer_Early(p) ==
    /\ proc[p].pc \in {"add", "answer"}
    /\ joined' \in {joined, joined \cup {proc[p].peer}}
    /\ Become(p, Idle)
    /\ UNCHANGED <<inv, invTorn, reg, regTorn, expired, revokes, dials, faults,
                   issued, used, expect, revoked, unsaved, invRaced, regRaced>>

\* The joiner gets the OK and registers the inviter, or the answer is lost.
Answer(p) ==
    /\ proc[p].pc = "answer"
    /\ joined' \in {joined, joined \cup {proc[p].peer}}
    /\ Become(p, Idle)
    /\ UNCHANGED <<inv, invTorn, reg, regTorn, expired, revokes, dials, faults,
                   issued, used, expect, revoked, unsaved, invRaced, regRaced>>

Expire(t) ==
    /\ t \notin expired
    /\ expired' = expired \cup {t}
    /\ UNCHANGED <<inv, invTorn, reg, regTorn, proc, joined, revokes, dials,
                   faults, issued, used, expect, revoked, unsaved, invRaced, regRaced>>

\* The daemon or a command is killed.
Kill(ps) ==
    /\ faults < MaxFaults
    /\ faults' = faults + 1
    /\ \E p \in ps : proc[p].pc # "idle"
    /\ proc' = [p \in Procs |-> IF p \in ps THEN Idle ELSE proc[p]]
    /\ UNCHANGED <<inv, invTorn, reg, regTorn, expired, joined, revokes, dials,
                   issued, used, expect, revoked, unsaved, invRaced, regRaced>>

Next ==
    \/ \E p \in Commands : \/ \E t \in Tokens : Invite(p, t) \/ InviteEmail(p, t)
                           \/ \E j \in Peers : BuddyRemove(p, j)
                           \/ Kill({p})
    \/ \E p \in Handlers : \/ \E t \in Tokens, j \in Peers :
                                Join(p, t, j) \/ JoinEmail(p, t, j)
                           \/ AddLoad(p)
                           \/ AddFails(p)
                           \/ Answer(p)
    \/ \E p \in Dialers, j \in Peers : UpdateLoad(p, j)
    \/ \E p \in Procs : \/ InvTruncate(p) \/ InvWrite(p) \/ InvSaveFails(p)
                        \/ RegTruncate(p) \/ RegWrite(p) \/ RegSaveFails(p)
    \/ \E t \in Tokens : Expire(t)
    \/ Kill(Daemon)

Spec == Init /\ [][Next]_vars

-----------------------------------------------------------------------------
Labels == {"idle", "isave", "iwrite", "add", "rsave", "rwrite", "answer"}

TypeOK ==
    /\ inv \subseteq Tokens /\ invTorn \in BOOLEAN
    /\ reg \subseteq Peers /\ regTorn \in BOOLEAN
    /\ \A p \in Procs : proc[p].pc \in Labels
    /\ \A p \in Commands : proc[p].pc \notin {"add", "answer"}
    /\ expired \subseteq Tokens /\ joined \subseteq Peers
    /\ issued \subseteq Tokens
    /\ used \subseteq Tokens \X Peers
    /\ expect \subseteq Peers /\ revoked \subseteq Peers /\ unsaved \subseteq Peers
    /\ \A p, q \in Daemon :
            (InvOpen(p) /\ InvOpen(q)) \/ (RegOpen(p) /\ RegOpen(q)) => p = q

\* An invitation admits one peer, however many present it at the same time and
\* whatever is killed, as long as no command writes invites.json between
\* another writer's load and save.
SingleUse ==
    ~invRaced => \A u, v \in used : u[1] = v[1] => u = v

\* The invitation the user was given can be used until it is used or expires,
\* with the same proviso; only a kill or a failed save makes the file
\* unreadable.
InvitationsKept ==
    ~invRaced /\ (\A p \in Procs : ~InvOpen(p)) =>
        /\ faults = 0 => ~invTorn
        /\ inv \ expired = {t \in issued \ expired :
                                \A j \in Peers : <<t, j>> \notin used}

\* The registry holds who was added and not removed since, whatever addresses
\* the daemon stores meanwhile, unless a command's load-to-save window
\* overlapped the daemon's; only a kill or a failed save makes the file
\* unreadable.
RegistryFaithful ==
    ~regRaced /\ (\A p \in Procs : ~RegOpen(p)) =>
        /\ faults = 0 => ~regTorn
        /\ reg = expect

\* A peer that was told OK, and so has registered the inviter, is registered
\* with the inviter too (or was, and got removed), with the same proviso and
\* unless Add reported an error.
BothSides ==
    ~regRaced /\ ~regTorn => joined \subseteq reg \cup revoked \cup unsaved
=============================================================================
