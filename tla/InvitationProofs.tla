-------------------------- MODULE InvitationProofs --------------------------
(***************************************************************************)
(* Invitations and the registry, for any peers, handlers and commands: an  *)
(* invitation admits one peer and is kept until then, and the registry     *)
(* holds who was added, as far as commands do not write between another    *)
(* process's load and save.                                                *)
(***************************************************************************)
EXTENDS Invitation, TLAPS

Issuing == [pc : {"isave", "iwrite"}, op : {"issue"}, token : Tokens,
            held : SUBSET Tokens]
Consuming == [pc : {"isave", "iwrite"}, op : {"consume"}, token : Tokens,
              peer : Peers, held : SUBSET Tokens]
Admitting == [pc : {"add", "answer"}, peer : Peers]
Changing(ops) == [pc : {"rsave", "rwrite"}, op : ops, peer : Peers,
                  held : SUBSET Peers]

\* What each kind of process does.
ProcsTyped ==
    /\ DOMAIN proc = Procs
    /\ \A p \in Commands : proc[p] \in {Idle} \cup Issuing \cup Changing({"remove"})
    /\ \A p \in Handlers : proc[p] \in {Idle} \cup Consuming \cup Admitting
                                        \cup Changing({"add"})
    /\ \A p \in Dialers : proc[p] \in {Idle} \cup Changing({"addrs"})

\* What is pending was issued, and so was what has been used.
Issued ==
    /\ inv \subseteq issued
    /\ \A u \in used : u[1] \in issued
    /\ \A p \in Procs : InvOpen(p) /\ proc[p].op = "consume" =>
            proc[p].held \subseteq issued /\ proc[p].token \in issued
    /\ \A p \in Procs : InvOpen(p) /\ proc[p].op = "issue" =>
            proc[p].held \subseteq issued \cup {proc[p].token}

\* While changes of invites.json do not overlap: one process at a time changes
\* it, what has been used is not pending and will not be written back, and
\* the copy in memory is the file with the one change.
Pending == {t \in issued : \A j \in Peers : <<t, j>> \notin used}

InvSound ==
    /\ \A p, q \in Procs : InvOpen(p) /\ InvOpen(q) => p = q
    /\ \A u, v \in used : u[1] = v[1] => u = v
    /\ inv \subseteq Pending
    /\ Pending \ expired \subseteq inv
    /\ \A p \in Procs : InvOpen(p) /\ proc[p].op = "issue" =>
            /\ proc[p].token \notin issued
            /\ proc[p].held \subseteq inv \cup {proc[p].token}
            /\ (inv \cup {proc[p].token}) \ expired \subseteq proc[p].held
    /\ \A p \in Procs : InvOpen(p) /\ proc[p].op = "consume" =>
            /\ proc[p].token \in Pending
            /\ proc[p].held \subseteq inv \ {proc[p].token}
            /\ inv \ (expired \cup {proc[p].token}) \subseteq proc[p].held
    /\ faults = 0 => (invTorn <=> \E p \in Procs : proc[p].pc = "iwrite")

\* While changes of buddies.enc do not overlap: one process at a time changes
\* it, its copy is the file with the one change, and who is about to be told OK
\* has been registered, or Add reported an error.
Attempted == expect \cup revoked \cup unsaved

RegSound ==
    /\ \A p, q \in Procs : RegOpen(p) /\ RegOpen(q) => p = q
    /\ reg = expect
    /\ (\E p \in Procs : proc[p].pc = "rwrite") => regTorn
    /\ faults = 0 /\ regTorn => \E p \in Procs : proc[p].pc = "rwrite"
    /\ \A p \in Procs : RegOpen(p) =>
            proc[p].held = CASE proc[p].op = "add" -> reg \cup {proc[p].peer}
                             [] proc[p].op = "remove" -> reg \ {proc[p].peer}
                             [] proc[p].op = "addrs" -> reg
    /\ \A p \in Procs : proc[p].pc = "answer" => proc[p].peer \in Attempted
    /\ joined \subseteq Attempted

-----------------------------------------------------------------------------
\* Every step of the next-state relation, one disjunct per action.
LEMMA NextCases ==
    ASSUME Next
    PROVE  \/ \E p \in Commands, t \in Tokens : Invite(p, t)
           \/ \E p \in Commands, t \in Tokens : InviteEmail(p, t)
           \/ \E p \in Commands, j \in Peers : BuddyRemove(p, j)
           \/ \E p \in Handlers, t \in Tokens, j \in Peers : Join(p, t, j)
           \/ \E p \in Handlers, t \in Tokens, j \in Peers : JoinEmail(p, t, j)
           \/ \E p \in Handlers : AddLoad(p)
           \/ \E p \in Handlers : AddFails(p)
           \/ \E p \in Handlers : Answer(p)
           \/ \E p \in Dialers, j \in Peers : UpdateLoad(p, j)
           \/ \E p \in Procs : InvTruncate(p)
           \/ \E p \in Procs : InvWrite(p)
           \/ \E p \in Procs : RegTruncate(p)
           \/ \E p \in Procs : RegWrite(p)
           \/ \E p \in Procs : InvSaveFails(p)
           \/ \E p \in Procs : RegSaveFails(p)
           \/ \E t \in Tokens : Expire(t)
           \/ \E ps \in SUBSET Procs : Kill(ps)
<1>1. Daemon \subseteq Procs /\ Commands \subseteq Procs
  BY DEF Procs
<1> QED
  BY <1>1 DEF Next

\* Who may be changing invites.json, and with what in memory.
LEMMA InvOpenType ==
    ASSUME ProcsTyped, NEW p \in Procs, InvOpen(p)
    PROVE  /\ \/ p \in Commands /\ proc[p] \in Issuing
              \/ p \in Handlers /\ proc[p] \in Consuming
           /\ proc[p].token \in Tokens /\ proc[p].held \in SUBSET Tokens
           /\ proc[p].op \in {"issue", "consume"}
           /\ proc[p].op = "consume" => proc[p].peer \in Peers
           /\ ~RegOpen(p)
<1>1. proc[p] \in Issuing \cup Consuming
  BY DEF ProcsTyped, InvOpen, Procs, Daemon, Idle, Issuing, Consuming,
         Admitting, Changing
<1>2. p \notin Dialers /\ (p \in Commands => proc[p] \in Issuing)
      /\ (p \in Handlers => proc[p] \in Consuming)
  BY <1>1 DEF ProcsTyped, InvOpen, Procs, Daemon, Idle, Issuing, Consuming,
              Admitting, Changing
<1> QED
  BY <1>1, <1>2 DEF Procs, Daemon, RegOpen, Issuing, Consuming

\* Who may be changing buddies.enc, and with what in memory.
LEMMA RegOpenType ==
    ASSUME ProcsTyped, NEW p \in Procs, RegOpen(p)
    PROVE  /\ \/ p \in Commands /\ proc[p] \in Changing({"remove"})
              \/ p \in Handlers /\ proc[p] \in Changing({"add"})
              \/ p \in Dialers /\ proc[p] \in Changing({"addrs"})
           /\ proc[p].peer \in Peers /\ proc[p].held \in SUBSET Peers
           /\ proc[p].op \in {"add", "remove", "addrs"}
           /\ ~InvOpen(p)
<1>1. /\ p \in Commands => proc[p] \in Changing({"remove"})
      /\ p \in Handlers => proc[p] \in Changing({"add"})
      /\ p \in Dialers => proc[p] \in Changing({"addrs"})
  BY DEF ProcsTyped, RegOpen, Idle, Issuing, Consuming, Admitting, Changing
<1> QED
  BY <1>1 DEF Procs, Daemon, InvOpen, Changing

\* A process that has accepted a peer and not yet answered is a handler.
LEMMA AdmittingType ==
    ASSUME ProcsTyped, NEW p \in Procs, proc[p].pc \in {"add", "answer"}
    PROVE  p \in Handlers /\ proc[p] \in Admitting /\ proc[p].peer \in Peers
<1>1. /\ p \notin Commands /\ p \notin Dialers
      /\ p \in Handlers => proc[p] \in Admitting
  BY DEF ProcsTyped, Idle, Issuing, Consuming, Admitting, Changing
<1> QED
  BY <1>1 DEF Procs, Daemon, Admitting

LEMMA BecomeType ==
    ASSUME ProcsTyped, NEW p \in Procs, NEW r, Become(p, r)
    PROVE  /\ DOMAIN proc' = Procs
           /\ proc'[p] = r
           /\ \A q \in Procs \ {p} : proc'[q] = proc[q]
BY DEF ProcsTyped, Become

\* A process may become what its kind may be.
LEMMA BecomeTyped ==
    ASSUME ProcsTyped, NEW p \in Procs, NEW r, Become(p, r),
           p \in Commands => r \in {Idle} \cup Issuing \cup Changing({"remove"}),
           p \in Handlers => r \in {Idle} \cup Consuming \cup Admitting
                                    \cup Changing({"add"}),
           p \in Dialers => r \in {Idle} \cup Changing({"addrs"})
    PROVE  ProcsTyped'
<1>1. /\ DOMAIN proc' = Procs /\ proc'[p] = r
      /\ \A q \in Procs \ {p} : proc'[q] = proc[q]
  BY BecomeType
<1>2. Commands \subseteq Procs /\ Handlers \subseteq Procs /\ Dialers \subseteq Procs
  BY DEF Procs, Daemon
<1> QED
  BY <1>1, <1>2 DEF ProcsTyped, Idle, Issuing, Consuming, Admitting, Changing

-----------------------------------------------------------------------------
(* Types, and the mutexes of the daemon. *)

Sets ==
    /\ inv \subseteq Tokens /\ invTorn \in BOOLEAN
    /\ reg \subseteq Peers /\ regTorn \in BOOLEAN
    /\ expired \subseteq Tokens /\ joined \subseteq Peers
    /\ issued \subseteq Tokens /\ used \subseteq Tokens \X Peers
    /\ expect \subseteq Peers /\ revoked \subseteq Peers /\ unsaved \subseteq Peers
    /\ faults \in Nat

Exclusive ==
    \A p, q \in Daemon :
        (InvOpen(p) /\ InvOpen(q)) \/ (RegOpen(p) /\ RegOpen(q)) => p = q

LEMMA LabelsTyped ==
    ProcsTyped => /\ \A p \in Procs : proc[p].pc \in Labels
                  /\ \A p \in Commands : proc[p].pc \notin {"add", "answer"}
<1> SUFFICES ASSUME ProcsTyped
             PROVE  /\ \A p \in Procs : proc[p].pc \in Labels
                    /\ \A p \in Commands : proc[p].pc \notin {"add", "answer"}
  OBVIOUS
<1>1. \A p \in Commands : /\ proc[p].pc \in Labels
                          /\ proc[p].pc \notin {"add", "answer"}
  BY DEF ProcsTyped, Labels, Idle, Issuing, Changing
<1>2. \A p \in Handlers : proc[p].pc \in Labels
  BY DEF ProcsTyped, Labels, Idle, Consuming, Admitting, Changing
<1>3. \A p \in Dialers : proc[p].pc \in Labels
  BY DEF ProcsTyped, Labels, Idle, Changing
<1> QED
  BY <1>1, <1>2, <1>3 DEF Procs, Daemon

LEMMA TypeParts == Sets /\ Exclusive /\ ProcsTyped => TypeOK
BY LabelsTyped DEF TypeOK, Sets, Exclusive

\* A load by p of invites.json: the daemon's goroutines wait for the mutex.
LEMMA InvLoadTyped ==
    ASSUME Sets, Exclusive, ProcsTyped, NEW p \in Procs, NEW r, InvLoad(p, r),
           r.pc = "isave", p \in Daemon => ~InvMutex,
           \/ p \in Commands /\ r \in Issuing
           \/ p \in Handlers /\ r \in Consuming
    PROVE  Sets' /\ Exclusive' /\ ProcsTyped'
<1>1. Sets'
  BY DEF InvLoad, Sets
<1>2. ProcsTyped'
  <2>1. Become(p, r) /\ p \notin Dialers /\ (p \in Commands => p \notin Handlers)
    BY InvitationAssumption DEF InvLoad, Daemon
  <2> QED
    BY <2>1, BecomeTyped DEF Daemon
<1>3. Exclusive'
  <2>1. /\ proc'[p] = r
        /\ \A q \in Procs \ {p} : proc'[q] = proc[q]
    BY BecomeType DEF InvLoad
  <2> QED
    BY <2>1 DEF Exclusive, InvMutex, InvOpen, RegOpen, Procs
<1> QED
  BY <1>1, <1>2, <1>3

\* A load by p of buddies.enc, likewise.
LEMMA RegLoadTyped ==
    ASSUME Exclusive, ProcsTyped, NEW p \in Procs, NEW r, RegLoad(p, r),
           r.pc = "rsave", p \in Daemon => ~RegMutex,
           \/ p \in Commands /\ r \in Changing({"remove"})
           \/ p \in Handlers /\ r \in Changing({"add"})
           \/ p \in Dialers /\ r \in Changing({"addrs"})
    PROVE  Exclusive' /\ ProcsTyped'
<1>1. ProcsTyped'
  <2>1. /\ Become(p, r)
        /\ p \in Commands => p \notin Handlers /\ p \notin Dialers
        /\ p \in Handlers => p \notin Dialers
    BY InvitationAssumption DEF RegLoad, Daemon
  <2> QED
    BY <2>1, BecomeTyped
<1>2. Exclusive'
  <2>1. /\ proc'[p] = r
        /\ \A q \in Procs \ {p} : proc'[q] = proc[q]
    BY BecomeType DEF RegLoad
  <2> QED
    BY <2>1 DEF Exclusive, RegMutex, InvOpen, RegOpen, Procs
<1> QED
  BY <1>1, <1>2

\* A step of p that opens nothing keeps the mutual exclusion.
LEMMA ExclusiveFrame ==
    ASSUME Exclusive, ProcsTyped, NEW p \in Procs, NEW r, Become(p, r),
           r.pc \in {"isave", "iwrite"} => InvOpen(p),
           r.pc \in {"rsave", "rwrite"} => RegOpen(p)
    PROVE  Exclusive'
<1>1. /\ proc'[p] = r
      /\ \A q \in Procs \ {p} : proc'[q] = proc[q]
  BY BecomeType
<1> QED
  BY <1>1 DEF Exclusive, InvOpen, RegOpen, Procs

LEMMA TypedStep ==
    ASSUME Sets, Exclusive, ProcsTyped, [Next]_vars
    PROVE  Sets' /\ Exclusive' /\ ProcsTyped'
<1> DEFINE Good == Sets' /\ Exclusive' /\ ProcsTyped'
<1>0. /\ Commands \subseteq Procs /\ Handlers \subseteq Procs
      /\ Dialers \subseteq Procs /\ Handlers \subseteq Daemon
      /\ Dialers \subseteq Daemon
      /\ \A p \in Commands : p \notin Daemon /\ p \notin Handlers /\ p \notin Dialers
      /\ \A p \in Handlers : p \notin Dialers
  BY InvitationAssumption DEF Procs, Daemon
<1>1. CASE UNCHANGED vars
  BY <1>1 DEF vars, Sets, Exclusive, ProcsTyped, InvOpen, RegOpen
<1>2. ASSUME NEW p \in Commands, NEW t \in Tokens, Invite(p, t) \/ InviteEmail(p, t)
      PROVE  Good
  <2>1. PICK held \in SUBSET Tokens :
            InvLoad(p, [pc |-> "isave", op |-> "issue", token |-> t, held |-> held])
    <3>1. AddPending(t) \in SUBSET Tokens /\ AddCommitment(t) \in SUBSET Tokens
      BY DEF AddPending, AddCommitment, Sets
    <3> QED
      BY <1>2, <3>1 DEF Invite, InviteEmail
  <2> DEFINE r == [pc |-> "isave", op |-> "issue", token |-> t, held |-> held]
  <2>2. r \in Issuing /\ r.pc = "isave"
    BY DEF Issuing
  <2>3. p \in Procs /\ p \notin Daemon
    BY <1>0
  <2>4. InvLoad(p, r)
    BY <2>1
  <2> QED
    BY <2>2, <2>3, <2>4, InvLoadTyped
<1>3. ASSUME NEW p \in Handlers, NEW t \in Tokens, NEW j \in Peers,
             Join(p, t, j) \/ JoinEmail(p, t, j)
      PROVE  Good
  <2>1. PICK held \in SUBSET Tokens : ~InvMutex /\
            InvLoad(p, [pc |-> "isave", op |-> "consume", token |-> t,
                        peer |-> j, held |-> held])
    <3>1. Consume(t) \in SUBSET Tokens /\ ConsumeCommitment(t) \in SUBSET Tokens
      BY DEF Consume, ConsumeCommitment, Sets
    <3> QED
      BY <1>3, <3>1 DEF Join, JoinEmail, Accept
  <2> DEFINE r == [pc |-> "isave", op |-> "consume", token |-> t, peer |-> j,
                   held |-> held]
  <2>2. r \in Consuming /\ r.pc = "isave"
    BY DEF Consuming
  <2> QED
    BY <1>0, <2>1, <2>2, InvLoadTyped
<1>4. ASSUME NEW p \in Procs, InvTruncate(p)
      PROVE  Good
  <2>1. InvOpen(p) /\ Become(p, [proc[p] EXCEPT !.pc = "iwrite"])
    BY <1>4 DEF InvTruncate, InvOpen
  <2>2. /\ [proc[p] EXCEPT !.pc = "iwrite"].pc = "iwrite"
        /\ p \in Commands => [proc[p] EXCEPT !.pc = "iwrite"] \in Issuing
        /\ p \in Handlers => [proc[p] EXCEPT !.pc = "iwrite"] \in Consuming
        /\ p \notin Dialers
    BY <1>0, <2>1, InvOpenType DEF Issuing, Consuming
  <2>3. ProcsTyped' /\ Exclusive'
    BY <2>1, <2>2, BecomeTyped, ExclusiveFrame
  <2> QED
    BY <1>4, <2>3 DEF InvTruncate, Sets
<1>5. ASSUME NEW p \in Procs, InvWrite(p)
      PROVE  Good
  <2>1. /\ InvOpen(p)
        /\ \/ p \in Commands /\ proc[p].op = "issue"
           \/ p \in Handlers /\ proc[p].op = "consume" /\ proc[p].peer \in Peers
        /\ p \in Handlers => proc[p].peer \in Peers
        /\ proc[p].token \in Tokens /\ proc[p].held \in SUBSET Tokens
    BY <1>0, <1>5, InvOpenType DEF InvWrite, InvOpen, Issuing, Consuming
  <2>2. PICK r : /\ Become(p, r)
                 /\ r = Idle \/ (p \in Handlers /\ r = [pc |-> "add", peer |-> proc[p].peer])
    BY <1>0, <1>5, <2>1 DEF InvWrite
  <2>3. /\ r \in {Idle} \cup Admitting /\ r.pc \in {"idle", "add"}
        /\ p \notin Handlers => r = Idle
    BY <2>1, <2>2 DEF Idle, Admitting
  <2>4. ProcsTyped' /\ Exclusive'
    BY <1>0, <2>1, <2>2, <2>3, BecomeTyped, ExclusiveFrame
  <2>5. invTorn' \in BOOLEAN
    BY <1>5 DEF InvWrite, Sets
  <2>6. issued' \subseteq Tokens /\ used' \subseteq Tokens \X Peers
    BY <1>0, <1>5, <2>1 DEF InvWrite, Sets
  <2>7. Sets'
    BY <1>5, <2>1, <2>5, <2>6 DEF InvWrite, Sets
  <2> QED
    BY <2>4, <2>7
<1>6. ASSUME NEW p \in Handlers, AddLoad(p)
      PROVE  Good
  <2>1. proc[p].peer \in Peers
    BY <1>0, <1>6, AdmittingType DEF AddLoad
  <2> DEFINE r == [pc |-> "rsave", op |-> "add", peer |-> proc[p].peer,
                   held |-> Add(proc[p].peer)]
  <2>2. r \in Changing({"add"}) /\ r.pc = "rsave"
    BY <2>1 DEF Changing, Add, Sets
  <2>3. ProcsTyped' /\ Exclusive'
    BY <1>0, <1>6, <2>2, RegLoadTyped DEF AddLoad
  <2> QED
    BY <1>6, <2>3 DEF AddLoad, Sets
<1>7. ASSUME NEW p \in Handlers, AddFails(p)
      PROVE  Good
  <2>1. proc[p].peer \in Peers
    BY <1>0, <1>7, AdmittingType DEF AddFails
  <2> DEFINE r == [pc |-> "answer", peer |-> proc[p].peer]
  <2>2. r \in Admitting /\ r.pc = "answer" /\ Become(p, r)
    BY <1>7, <2>1 DEF Admitting, AddFails
  <2>3. ProcsTyped' /\ Exclusive'
    BY <1>0, <2>2, BecomeTyped, ExclusiveFrame
  <2> QED
    BY <1>7, <2>1, <2>3 DEF AddFails, Sets
<1>8. ASSUME NEW p \in Commands, NEW j \in Peers, BuddyRemove(p, j)
      PROVE  Good
  <2> DEFINE r == [pc |-> "rsave", op |-> "remove", peer |-> j, held |-> Remove(j)]
  <2>1. r \in Changing({"remove"}) /\ r.pc = "rsave"
    BY DEF Changing, Remove, Sets
  <2>2. ProcsTyped' /\ Exclusive'
    BY <1>0, <1>8, <2>1, RegLoadTyped DEF BuddyRemove
  <2> QED
    BY <1>8, <2>2 DEF BuddyRemove, Sets
<1>9. ASSUME NEW p \in Dialers, NEW j \in Peers, UpdateLoad(p, j)
      PROVE  Good
  <2> DEFINE r == [pc |-> "rsave", op |-> "addrs", peer |-> j, held |-> Add(j)]
  <2>1. r \in Changing({"addrs"}) /\ r.pc = "rsave"
    BY DEF Changing, Add, Sets
  <2>2. ProcsTyped' /\ Exclusive'
    BY <1>0, <1>9, <2>1, RegLoadTyped DEF UpdateLoad
  <2> QED
    BY <1>9, <2>2 DEF UpdateLoad, Sets
<1>10. ASSUME NEW p \in Procs, RegTruncate(p)
       PROVE  Good
  <2>1. RegOpen(p) /\ Become(p, [proc[p] EXCEPT !.pc = "rwrite"])
    BY <1>10 DEF RegTruncate, RegOpen
  <2> DEFINE r == [proc[p] EXCEPT !.pc = "rwrite"]
  <2>2. /\ r.pc = "rwrite"
        /\ p \in Commands => r \in Changing({"remove"})
        /\ p \in Handlers => r \in Changing({"add"})
        /\ p \in Dialers => r \in Changing({"addrs"})
    BY <1>0, <2>1, RegOpenType DEF Changing
  <2>3. ProcsTyped' /\ Exclusive'
    BY <2>1, <2>2, BecomeTyped, ExclusiveFrame
  <2> QED
    BY <1>10, <2>3 DEF RegTruncate, Sets
<1>11. ASSUME NEW p \in Procs, RegWrite(p)
       PROVE  Good
  <2>1. /\ RegOpen(p)
        /\ proc[p].op = "add" => p \in Handlers
        /\ proc[p].peer \in Peers /\ proc[p].held \in SUBSET Peers
    BY <1>11, RegOpenType DEF RegWrite, RegOpen, Changing
  <2>2. PICK r : /\ Become(p, r)
                 /\ r = Idle \/ (p \in Handlers /\ r = [pc |-> "answer", peer |-> proc[p].peer])
    BY <1>11, <2>1 DEF RegWrite
  <2>3. /\ r \in {Idle} \cup Admitting /\ r.pc \in {"idle", "answer"}
        /\ p \notin Handlers => r = Idle
    BY <2>1, <2>2 DEF Idle, Admitting
  <2>4. ProcsTyped' /\ Exclusive'
    BY <1>0, <2>1, <2>2, <2>3, BecomeTyped, ExclusiveFrame
  <2>5. Sets'
    BY <1>11, <2>1 DEF RegWrite, Sets
  <2> QED
    BY <2>4, <2>5
<1>12. ASSUME NEW p \in Handlers, Answer(p)
       PROVE  Good
  <2>1. proc[p].peer \in Peers /\ Become(p, Idle) /\ Idle.pc = "idle"
    BY <1>0, <1>12, AdmittingType DEF Answer, Idle
  <2>2. ProcsTyped' /\ Exclusive'
    BY <1>0, <2>1, BecomeTyped, ExclusiveFrame
  <2> QED
    BY <1>12, <2>1, <2>2 DEF Answer, Sets
<1>13. ASSUME NEW t \in Tokens, Expire(t)
       PROVE  Good
  BY <1>13 DEF Expire, Sets, Exclusive, ProcsTyped, InvOpen, RegOpen
<1>14. ASSUME NEW ps \in SUBSET Procs, Kill(ps)
       PROVE  Good
  <2>1. /\ DOMAIN proc' = Procs
        /\ \A p \in Procs : proc'[p] \in {proc[p], Idle}
    BY <1>14 DEF Kill
  <2>2. Exclusive'
    BY <1>0, <2>1 DEF Exclusive, InvOpen, RegOpen, Idle, Procs
  <2>3. ProcsTyped'
    BY <1>0, <2>1 DEF ProcsTyped, Issuing, Consuming, Admitting, Changing
  <2> QED
    BY <1>14, <2>2, <2>3 DEF Kill, Sets
<1>15. ASSUME NEW p \in Procs, InvSaveFails(p)
       PROVE  Good
  <2>1. Become(p, Idle) /\ Idle.pc = "idle"
    BY <1>15 DEF InvSaveFails, Idle
  <2>2. ProcsTyped' /\ Exclusive'
    BY <2>1, BecomeTyped, ExclusiveFrame
  <2> QED
    BY <1>15, <2>2 DEF InvSaveFails, Sets
<1>16. ASSUME NEW p \in Procs, RegSaveFails(p)
       PROVE  Good
  <2>1. /\ proc[p].op = "add" => p \in Handlers
        /\ proc[p].peer \in Peers
    BY <1>16, RegOpenType DEF RegSaveFails, Changing
  <2>2. PICK r : /\ Become(p, r)
                 /\ r = Idle \/ (p \in Handlers /\ r = [pc |-> "answer", peer |-> proc[p].peer])
    BY <1>16, <2>1 DEF RegSaveFails
  <2>3. /\ r \in {Idle} \cup Admitting /\ r.pc \in {"idle", "answer"}
        /\ p \notin Handlers => r = Idle
    BY <2>1, <2>2 DEF Idle, Admitting
  <2>4. ProcsTyped' /\ Exclusive'
    BY <1>0, <2>2, <2>3, BecomeTyped, ExclusiveFrame
  <2>5. Sets'
    BY <1>16, <2>1 DEF RegSaveFails, Sets
  <2> QED
    BY <2>4, <2>5
<1> QED
  BY <1>1, <1>2, <1>3, <1>4, <1>5, <1>6, <1>7, <1>8, <1>9, <1>10, <1>11,
     <1>12, <1>13, <1>14, <1>15, <1>16, NextCases

LEMMA TypedInit == Init => Sets /\ Exclusive /\ ProcsTyped
<1> SUFFICES ASSUME Init PROVE Sets /\ Exclusive /\ ProcsTyped
  OBVIOUS
<1>1. \A p \in Procs : proc[p] = Idle
  BY DEF Init
<1> QED
  BY <1>1 DEF Init, Sets, Exclusive, ProcsTyped, InvOpen, RegOpen, Idle, Procs,
              Daemon

\* Every variable keeps its type, only handlers admit peers, and of the
\* daemon's goroutines one at a time changes invites.json and one at a time
\* buddies.enc.
THEOREM TypeCorrect == Spec => []TypeOK
<1>1. Sets /\ Exclusive /\ ProcsTyped /\ [Next]_vars
        => (Sets /\ Exclusive /\ ProcsTyped)'
  BY TypedStep
<1> QED
  BY <1>1, TypedInit, TypeParts, PTL DEF Spec

-----------------------------------------------------------------------------
(* invites.json. *)

Typed == Sets /\ Exclusive /\ ProcsTyped

\* A step that leaves invites.json, and whoever is changing it, alone; or
\* kills some of them.
InvSteady ==
    /\ UNCHANGED <<inv, invTorn, issued, used, invRaced>>
    /\ expired \subseteq expired'
    /\ \A q \in Procs : InvOpen(q)' => InvOpen(q) /\ proc'[q] = proc[q]
    /\ faults' = 0 => /\ faults = 0
                      /\ \A q \in Procs : InvOpen(q) => proc'[q] = proc[q]

LEMMA InvSteadyKeeps ==
    ASSUME InvSteady, Issued, ~invRaced => InvSound
    PROVE  Issued' /\ (~invRaced' => InvSound')
<1>1. Issued'
  BY DEF InvSteady, Issued
<1>2. Pending' = Pending
  BY DEF InvSteady, Pending
<1>3. ASSUME ~invRaced'
      PROVE  InvSound'
  <2>1. InvSound
    BY <1>3 DEF InvSteady
  <2>2. faults' = 0 => (invTorn' <=> \E q \in Procs : proc'[q].pc = "iwrite")
    BY <2>1 DEF InvSteady, InvSound, InvOpen
  <2>3. /\ \A q, r \in Procs : InvOpen(q)' /\ InvOpen(r)' => q = r
        /\ \A u, v \in used' : u[1] = v[1] => u = v
        /\ inv' \subseteq Pending' /\ Pending' \ expired' \subseteq inv'
    BY <1>2, <2>1 DEF InvSteady, InvSound
  <2>4. \A q \in Procs : InvOpen(q)' /\ proc'[q].op = "issue" =>
            /\ proc'[q].token \notin issued'
            /\ proc'[q].held \subseteq inv' \cup {proc'[q].token}
            /\ (inv' \cup {proc'[q].token}) \ expired' \subseteq proc'[q].held
    BY <2>1 DEF InvSteady, InvSound
  <2>5. \A q \in Procs : InvOpen(q)' /\ proc'[q].op = "consume" =>
            /\ proc'[q].token \in Pending'
            /\ proc'[q].held \subseteq inv' \ {proc'[q].token}
            /\ inv' \ (expired' \cup {proc'[q].token}) \subseteq proc'[q].held
    BY <1>2, <2>1 DEF InvSteady, InvSound
  <2> QED
    BY <2>2, <2>3, <2>4, <2>5 DEF InvSound
<1> QED
  BY <1>1, <1>3

\* A process that has nothing to do with invites.json goes on.
LEMMA InvSteadyBecome ==
    ASSUME ProcsTyped, NEW p \in Procs, NEW r, Become(p, r), ~InvOpen(p),
           r.pc \notin {"isave", "iwrite"},
           UNCHANGED <<inv, invTorn, issued, used, invRaced, expired, faults>>
    PROVE  InvSteady
<1>1. /\ proc'[p] = r
      /\ \A q \in Procs \ {p} : proc'[q] = proc[q]
  BY BecomeType
<1> QED
  BY <1>1 DEF InvSteady, InvOpen

LEMMA IssueLoads ==
    ASSUME Typed, Issued, ~invRaced => InvSound,
           NEW p \in Commands, NEW t \in Tokens,
           Invite(p, t) \/ InviteEmail(p, t)
    PROVE  Issued' /\ (~invRaced' => InvSound')
<1>1. PICK held : /\ InvLoad(p, [pc |-> "isave", op |-> "issue", token |-> t,
                                 held |-> held])
                  /\ held \subseteq inv \cup {t}
                  /\ (inv \cup {t}) \ expired \subseteq held
  BY DEF Invite, InviteEmail, AddPending, AddCommitment
<1> DEFINE r == [pc |-> "isave", op |-> "issue", token |-> t, held |-> held]
<1>2. /\ p \in Procs /\ proc'[p] = r
      /\ \A q \in Procs \ {p} : proc'[q] = proc[q]
      /\ t \notin issued /\ ~invTorn
      /\ UNCHANGED <<inv, invTorn, issued, used, expired, faults>>
      /\ ~invRaced' => ~invRaced /\ \A q \in Procs : ~InvOpen(q)
  <2>1. p \in Procs
    BY DEF Procs
  <2> QED
    BY <1>1, <2>1, BecomeType DEF InvLoad, Invite, InviteEmail, Fresh, Typed
<1>3. r.pc = "isave" /\ r.op = "issue" /\ r.token = t /\ r.held = held
  OBVIOUS
<1> HIDE DEF r
<1>4. Issued'
  BY <1>1, <1>2, <1>3 DEF Issued, InvOpen
<1>5. ASSUME ~invRaced'
      PROVE  InvSound'
  <2>1. InvSound /\ \A q \in Procs \ {p} : ~InvOpen(q)'
    BY <1>2, <1>5 DEF InvOpen
  <2>2. Pending' = Pending
    BY <1>2 DEF Pending
  <2>3. \A q \in Procs : proc'[q].pc # "iwrite"
    BY <1>2, <1>3, <2>1 DEF InvOpen
  <2> QED
    BY <1>1, <1>2, <1>3, <2>1, <2>2, <2>3 DEF InvSound
<1> QED
  BY <1>4, <1>5

LEMMA ConsumeLoads ==
    ASSUME Typed, Issued, ~invRaced => InvSound,
           NEW p \in Handlers, NEW t \in Tokens, NEW j \in Peers,
           Join(p, t, j) \/ JoinEmail(p, t, j)
    PROVE  Issued' /\ (~invRaced' => InvSound')
<1>1. PICK held : /\ InvLoad(p, [pc |-> "isave", op |-> "consume", token |-> t,
                                 peer |-> j, held |-> held])
                  /\ held \subseteq inv \ {t}
                  /\ inv \ (expired \cup {t}) \subseteq held
  BY DEF Join, JoinEmail, Accept, Consume, ConsumeCommitment
<1> DEFINE r == [pc |-> "isave", op |-> "consume", token |-> t, peer |-> j,
                 held |-> held]
<1>2. /\ p \in Procs /\ proc'[p] = r
      /\ \A q \in Procs \ {p} : proc'[q] = proc[q]
      /\ t \in inv /\ ~invTorn
      /\ UNCHANGED <<inv, invTorn, issued, used, expired, faults>>
      /\ ~invRaced' => ~invRaced /\ \A q \in Procs : ~InvOpen(q)
  <2>1. p \in Procs
    BY DEF Procs, Daemon
  <2> QED
    BY <1>1, <2>1, BecomeType DEF InvLoad, Join, JoinEmail, Accept, Typed
<1>3. r.pc = "isave" /\ r.op = "consume" /\ r.token = t /\ r.held = held
  OBVIOUS
<1> HIDE DEF r
<1>4. Issued'
  BY <1>1, <1>2, <1>3 DEF Issued, InvOpen
<1>5. ASSUME ~invRaced'
      PROVE  InvSound'
  <2>1. InvSound /\ \A q \in Procs \ {p} : ~InvOpen(q)'
    BY <1>2, <1>5 DEF InvOpen
  <2>2. Pending' = Pending
    BY <1>2 DEF Pending
  <2>3. \A q \in Procs : proc'[q].pc # "iwrite"
    BY <1>2, <1>3, <2>1 DEF InvOpen
  <2> QED
    BY <1>1, <1>2, <1>3, <2>1, <2>2, <2>3 DEF InvSound
<1> QED
  BY <1>4, <1>5

LEMMA TruncateKeeps ==
    ASSUME Typed, Issued, ~invRaced => InvSound, NEW p \in Procs, InvTruncate(p)
    PROVE  Issued' /\ (~invRaced' => InvSound')
<1> DEFINE r == [proc[p] EXCEPT !.pc = "iwrite"]
<1>1. /\ proc'[p] = r
      /\ \A q \in Procs \ {p} : proc'[q] = proc[q]
      /\ InvOpen(p) /\ invTorn' = TRUE
      /\ UNCHANGED <<inv, issued, used, expired, faults, invRaced>>
  BY BecomeType DEF InvTruncate, InvOpen, Typed
<1>2. /\ r.pc = "iwrite" /\ r.op = proc[p].op /\ r.token = proc[p].token
      /\ r.held = proc[p].held
  BY <1>1, InvOpenType DEF Issuing, Consuming, Typed
<1> HIDE DEF r
<1>3. \A q \in Procs : InvOpen(q)' = InvOpen(q)
  BY <1>1, <1>2 DEF InvOpen
<1>4. \A q \in Procs : InvOpen(q) => /\ proc'[q].op = proc[q].op
                                     /\ proc'[q].token = proc[q].token
                                     /\ proc'[q].held = proc[q].held
  BY <1>1, <1>2
<1>5. Issued'
  BY <1>1, <1>3, <1>4 DEF Issued
<1>6. ASSUME ~invRaced'
      PROVE  InvSound'
  <2>1. Pending' = Pending
    BY <1>1 DEF Pending
  <2> QED
    BY <1>1, <1>2, <1>3, <1>4, <1>6, <2>1 DEF InvSound
<1> QED
  BY <1>5, <1>6

LEMMA WriteKeeps ==
    ASSUME Typed, Issued, ~invRaced => InvSound, NEW p \in Procs, InvWrite(p)
    PROVE  Issued' /\ (~invRaced' => InvSound')
<1> DEFINE t == proc[p].token
<1>1. /\ InvOpen(p) /\ proc[p].pc = "iwrite"
      /\ \A q \in Procs \ {p} : proc'[q] = proc[q]
      /\ proc'[p].pc \notin {"isave", "iwrite"}
      /\ inv' = proc[p].held /\ invTorn' \in {FALSE, ~invTorn}
      /\ UNCHANGED <<expired, faults, invRaced>>
  <2>1. PICK r : Become(p, r) /\ r.pc \in {"idle", "add"}
    BY DEF InvWrite, Idle
  <2>2. /\ proc'[p] = r
        /\ \A q \in Procs \ {p} : proc'[q] = proc[q]
    BY <2>1, BecomeType DEF Typed
  <2> QED
    BY <2>1, <2>2 DEF InvWrite, InvOpen
<1>2. /\ proc[p].op \in {"issue", "consume"}
      /\ proc[p].op = "issue" =>
            issued' = issued \cup {t} /\ UNCHANGED used
      /\ proc[p].op = "consume" =>
            /\ used' = used \cup {<<t, proc[p].peer>>} /\ UNCHANGED issued
            /\ proc[p].peer \in Peers
  BY <1>1, InvOpenType DEF InvWrite, Typed
<1>3. ~InvOpen(p)' /\ \A q \in Procs \ {p} : InvOpen(q)' = InvOpen(q)
  BY <1>1 DEF InvOpen
<1>4. issued \subseteq issued'
  BY <1>2
<1>5. Issued'
  <2>1. inv' \subseteq issued'
    BY <1>1, <1>2 DEF Issued
  <2>2. \A u \in used' : u[1] \in issued'
    BY <1>1, <1>2 DEF Issued
  <2> QED
    BY <1>1, <1>3, <1>4, <2>1, <2>2 DEF Issued
<1>6. ASSUME ~invRaced'
      PROVE  InvSound'
  <2>1. InvSound /\ \A q \in Procs : ~InvOpen(q)'
    BY <1>1, <1>3, <1>6 DEF InvSound
  <2>2. faults' = 0 => ~invTorn' /\ \A q \in Procs : proc'[q].pc # "iwrite"
    BY <1>1, <2>1 DEF InvSound, InvOpen
  <2>3. CASE proc[p].op = "issue"
    <3>1. Pending' = Pending \cup {t}
      BY <1>1, <1>2, <2>1, <2>3 DEF Pending, Issued, InvSound
    <3> QED
      BY <1>1, <1>2, <2>1, <2>2, <2>3, <3>1 DEF InvSound
  <2>4. CASE proc[p].op = "consume"
    <3>1. Pending' = Pending \ {t}
      BY <1>1, <1>2, <2>1, <2>4 DEF Pending, InvSound
    <3>2. \A u \in used : u[1] # t
      BY <1>1, <2>1, <2>4 DEF Pending, InvSound, Sets, Typed
    <3>3. \A u, v \in used' : u[1] = v[1] => u = v
      BY <1>2, <2>1, <2>4, <3>2 DEF InvSound
    <3> QED
      BY <1>1, <1>2, <2>1, <2>2, <2>4, <3>1, <3>3 DEF InvSound
  <2> QED
    BY <1>2, <2>3, <2>4
<1> QED
  BY <1>5, <1>6

LEMMA InvStep ==
    ASSUME Typed, Issued, ~invRaced => InvSound, [Next]_vars
    PROVE  Issued' /\ (~invRaced' => InvSound')
<1>0. /\ Commands \subseteq Procs /\ Handlers \subseteq Procs
      /\ Dialers \subseteq Procs
  BY DEF Procs, Daemon
<1>1. CASE UNCHANGED vars
  <2>1. InvSteady
    BY <1>1 DEF vars, InvSteady, InvOpen
  <2> QED
    BY <2>1, InvSteadyKeeps
<1>2. ASSUME NEW p \in Procs, NEW r, Become(p, r), proc[p].pc \notin {"isave", "iwrite"},
             r.pc \notin {"isave", "iwrite"},
             UNCHANGED <<inv, invTorn, issued, used, invRaced, expired, faults>>
      PROVE  Issued' /\ (~invRaced' => InvSound')
  <2>1. InvSteady
    BY <1>2, InvSteadyBecome DEF InvOpen, Typed
  <2> QED
    BY <2>1, InvSteadyKeeps
<1>3. ASSUME NEW p \in Handlers, AddLoad(p) \/ AddFails(p)
      PROVE  Issued' /\ (~invRaced' => InvSound')
  <2>1. PICK r : Become(p, r) /\ r.pc \in {"rsave", "answer"}
    BY <1>3 DEF AddLoad, AddFails, RegLoad
  <2> QED
    BY <1>0, <1>2, <1>3, <2>1 DEF AddLoad, AddFails
<1>4. ASSUME NEW p \in Commands, NEW j \in Peers, BuddyRemove(p, j)
      PROVE  Issued' /\ (~invRaced' => InvSound')
  <2>1. PICK r : Become(p, r) /\ r.pc = "rsave"
    BY <1>4 DEF BuddyRemove, RegLoad
  <2> QED
    BY <1>0, <1>2, <1>4, <2>1 DEF BuddyRemove
<1>5. ASSUME NEW p \in Dialers, NEW j \in Peers, UpdateLoad(p, j)
      PROVE  Issued' /\ (~invRaced' => InvSound')
  <2>1. PICK r : Become(p, r) /\ r.pc = "rsave"
    BY <1>5 DEF UpdateLoad, RegLoad
  <2> QED
    BY <1>0, <1>2, <1>5, <2>1 DEF UpdateLoad
<1>6. ASSUME NEW p \in Procs, RegTruncate(p)
      PROVE  Issued' /\ (~invRaced' => InvSound')
  <2>1. PICK r : Become(p, r) /\ r.pc = "rwrite"
    <3>1. [proc[p] EXCEPT !.pc = "rwrite"].pc = "rwrite"
      BY <1>6, RegOpenType DEF RegTruncate, RegOpen, Changing, Typed
    <3> QED
      BY <1>6, <3>1 DEF RegTruncate
  <2> QED
    BY <1>2, <1>6, <2>1 DEF RegTruncate
<1>7. ASSUME NEW p \in Procs, RegWrite(p)
      PROVE  Issued' /\ (~invRaced' => InvSound')
  <2>1. PICK r : Become(p, r) /\ r.pc \in {"answer", "idle"}
    BY <1>7 DEF RegWrite, Idle
  <2> QED
    BY <1>2, <1>7, <2>1 DEF RegWrite
<1>8. ASSUME NEW p \in Handlers, Answer(p)
      PROVE  Issued' /\ (~invRaced' => InvSound')
  <2>1. Become(p, Idle) /\ Idle.pc = "idle"
    BY <1>8 DEF Answer, Idle
  <2> QED
    BY <1>0, <1>2, <1>8, <2>1 DEF Answer
<1>9. ASSUME NEW t \in Tokens, Expire(t)
      PROVE  Issued' /\ (~invRaced' => InvSound')
  <2>1. InvSteady
    BY <1>9 DEF Expire, InvSteady, InvOpen
  <2> QED
    BY <2>1, InvSteadyKeeps
<1>10. ASSUME NEW ps \in SUBSET Procs, Kill(ps)
       PROVE  Issued' /\ (~invRaced' => InvSound')
  <2>1. \A q \in Procs : proc'[q] \in {proc[q], Idle}
    BY <1>10 DEF Kill
  <2>2. \A q \in Procs : InvOpen(q)' => InvOpen(q) /\ proc'[q] = proc[q]
    BY <2>1 DEF InvOpen, Idle
  <2>3. faults' # 0
    BY <1>10 DEF Kill, Sets, Typed
  <2>4. InvSteady
    BY <1>10, <2>2, <2>3 DEF Kill, InvSteady
  <2> QED
    BY <2>4, InvSteadyKeeps
<1>11. ASSUME NEW p \in Procs, InvSaveFails(p) \/ RegSaveFails(p)
       PROVE  Issued' /\ (~invRaced' => InvSound')
  <2>1. PICK r : Become(p, r) /\ r.pc \in {"answer", "idle"}
    BY <1>11 DEF InvSaveFails, RegSaveFails, Idle
  <2>2. /\ proc'[p] = r
        /\ \A q \in Procs \ {p} : proc'[q] = proc[q]
    BY <2>1, BecomeType DEF Typed
  <2>3. \A q \in Procs : InvOpen(q)' => InvOpen(q) /\ proc'[q] = proc[q]
    BY <2>1, <2>2 DEF InvOpen
  <2>4. faults' # 0
    BY <1>11 DEF InvSaveFails, RegSaveFails, Sets, Typed
  <2>5. InvSteady
    BY <1>11, <2>3, <2>4 DEF InvSaveFails, RegSaveFails, InvSteady
  <2> QED
    BY <2>5, InvSteadyKeeps
<1> QED
  BY <1>1, <1>3, <1>4, <1>5, <1>6, <1>7, <1>8, <1>9, <1>10, <1>11, IssueLoads,
     ConsumeLoads, TruncateKeeps, WriteKeeps, NextCases

LEMMA InvInit == Init => Issued /\ InvSound
<1> SUFFICES ASSUME Init PROVE Issued /\ InvSound
  OBVIOUS
<1>1. \A p \in Procs : ~InvOpen(p) /\ proc[p].pc = "idle"
  BY DEF Init, Idle, InvOpen
<1> QED
  BY <1>1 DEF Init, Issued, InvSound, Pending

\* An invitation admits one peer, however many handlers are presented with it
\* at the same time and whatever is killed, as long as no command writes
\* invites.json between the load and the save of another process.
THEOREM AdmitsOnce == Spec => []SingleUse
<1> DEFINE Inv == Typed /\ Issued /\ (~invRaced => InvSound)
<1>1. Init => Inv
  BY TypedInit, InvInit DEF Typed
<1>2. Inv /\ [Next]_vars => Inv'
  BY TypedStep, InvStep DEF Typed
<1>3. Inv => SingleUse
  BY DEF InvSound, SingleUse
<1> QED
  BY <1>1, <1>2, <1>3, PTL DEF Spec

\* With the same proviso, what can be used is what was given to the user and is
\* neither used nor expired, and only a kill or a failed save makes the file
\* unreadable.
THEOREM KeptUntilUsed == Spec => []InvitationsKept
<1> DEFINE Inv == Typed /\ Issued /\ (~invRaced => InvSound)
<1>1. Init => Inv
  BY TypedInit, InvInit DEF Typed
<1>2. Inv /\ [Next]_vars => Inv'
  BY TypedStep, InvStep DEF Typed
<1>3. Inv => InvitationsKept
  <2> SUFFICES ASSUME Inv, ~invRaced, \A p \in Procs : ~InvOpen(p)
               PROVE  /\ faults = 0 => ~invTorn
                      /\ inv \ expired = {t \in issued \ expired :
                                            \A j \in Peers : <<t, j>> \notin used}
    BY DEF InvitationsKept
  <2>1. faults = 0 => ~invTorn
    BY DEF InvSound, InvOpen
  <2>2. inv \ expired = Pending \ expired
    BY DEF InvSound
  <2> QED
    BY <2>1, <2>2 DEF Pending
<1> QED
  BY <1>1, <1>2, <1>3, PTL DEF Spec

-----------------------------------------------------------------------------
(* buddies.enc. *)

RegInv == ~regRaced => RegSound

\* A step that leaves buddies.enc alone; whoever is changing it goes on
\* unchanged or, as a fault, no more.
RegSteady ==
    /\ UNCHANGED <<reg, regTorn, expect, revoked>>
    /\ regRaced => regRaced'
    /\ unsaved \subseteq unsaved'
    /\ ~regRaced => joined' \subseteq joined \cup Attempted
    /\ \A q \in Procs :
            /\ RegOpen(q)' => RegOpen(q) /\ proc'[q] = proc[q]
            /\ proc'[q].pc = "answer" => \/ proc'[q] = proc[q]
                                         \/ proc'[q].peer \in unsaved'
    /\ faults' = 0 =>
            /\ faults = 0
            /\ \A q \in Procs : proc[q].pc = "rwrite" => proc'[q] = proc[q]

LEMMA RegSteadyKeeps ==
    ASSUME RegInv, RegSteady
    PROVE  RegInv'
<1> SUFFICES ASSUME ~regRaced' PROVE RegSound'
  BY DEF RegInv
<1>1. RegSound /\ ~regRaced
  BY DEF RegInv, RegSteady
<1>2. \A q \in Procs : proc'[q].pc = "rwrite" => proc[q].pc = "rwrite"
  BY DEF RegSteady, RegOpen
<1>3. /\ (\E q \in Procs : proc'[q].pc = "rwrite") => regTorn'
      /\ faults' = 0 /\ regTorn' => \E q \in Procs : proc'[q].pc = "rwrite"
  BY <1>1, <1>2 DEF RegSteady, RegSound
<1>4. Attempted \subseteq Attempted' /\ unsaved' \subseteq Attempted'
  BY DEF RegSteady, Attempted
<1>5. /\ \A q, r \in Procs : RegOpen(q)' /\ RegOpen(r)' => q = r
      /\ reg' = expect' /\ joined' \subseteq Attempted'
      /\ \A q \in Procs : proc'[q].pc = "answer" => proc'[q].peer \in Attempted'
  BY <1>1, <1>4 DEF RegSteady, RegSound
<1>6. \A q \in Procs : RegOpen(q)' => proc'[q] = proc[q] /\ RegOpen(q)
  BY DEF RegSteady
<1> QED
  BY <1>1, <1>3, <1>5, <1>6 DEF RegSound, RegSteady

\* A process that has nothing to do with buddies.enc goes on.
LEMMA RegSteadyBecome ==
    ASSUME ProcsTyped, NEW p \in Procs, NEW r, Become(p, r), ~RegOpen(p),
           r.pc \notin {"rsave", "rwrite", "answer"},
           UNCHANGED <<reg, regTorn, expect, revoked, unsaved, regRaced, joined>>,
           faults' = 0 => faults = 0
    PROVE  RegSteady
<1>1. /\ proc'[p] = r
      /\ \A q \in Procs \ {p} : proc'[q] = proc[q]
  BY BecomeType
<1> QED
  BY <1>1 DEF RegSteady, RegOpen

\* A load makes the loading process the only one that is changing the file.
LEMMA RegLoadKeeps ==
    ASSUME ProcsTyped, RegInv, NEW p \in Procs, NEW r, RegLoad(p, r),
           ~RegOpen(p), r.pc = "rsave",
           r.held = CASE r.op = "add" -> reg \cup {r.peer}
                      [] r.op = "remove" -> reg \ {r.peer}
                      [] r.op = "addrs" -> reg,
           UNCHANGED <<reg, regTorn, expect, revoked, unsaved, faults, joined>>
    PROVE  RegInv'
<1> SUFFICES ASSUME ~regRaced' PROVE RegSound'
  BY DEF RegInv
<1>1. RegSound /\ \A q \in Procs : ~RegOpen(q)
  BY DEF RegInv, RegLoad
<1>2. /\ proc'[p] = r
      /\ \A q \in Procs \ {p} : proc'[q] = proc[q]
  BY BecomeType DEF RegLoad
<1>3. \A q \in Procs : RegOpen(q)' => q = p
  BY <1>1, <1>2 DEF RegOpen
<1>4. ~regTorn' /\ \A q \in Procs : proc'[q].pc # "rwrite"
  BY <1>1, <1>2 DEF RegLoad, RegOpen
<1>5. Attempted' = Attempted
  BY DEF Attempted
<1>6. \A q \in Procs : proc'[q].pc = "answer" => proc'[q].peer \in Attempted'
  BY <1>1, <1>2, <1>5 DEF RegSound
<1>7. reg' = expect' /\ joined' \subseteq Attempted'
  BY <1>1, <1>5 DEF RegSound
<1>8. proc'[p].held = CASE proc'[p].op = "add" -> reg' \cup {proc'[p].peer}
                        [] proc'[p].op = "remove" -> reg' \ {proc'[p].peer}
                        [] proc'[p].op = "addrs" -> reg'
  BY <1>2
<1> QED
  BY <1>3, <1>4, <1>6, <1>7, <1>8 DEF RegSound

LEMMA RegStep ==
    ASSUME Typed, RegInv, [Next]_vars
    PROVE  RegInv'
<1> USE DEF Typed
<1>0. /\ Commands \subseteq Procs /\ Handlers \subseteq Procs
      /\ Dialers \subseteq Procs
  BY DEF Procs, Daemon
<1>1. CASE UNCHANGED vars
  <2>1. RegSteady
    BY <1>1 DEF vars, RegSteady, RegOpen
  <2> QED
    BY <2>1, RegSteadyKeeps
<1>2. ASSUME NEW p \in Procs, NEW r, Become(p, r),
             proc[p].pc \notin {"rsave", "rwrite"},
             r.pc \notin {"rsave", "rwrite", "answer"},
             UNCHANGED <<reg, regTorn, expect, revoked, unsaved, regRaced, joined>>,
             faults' = 0 => faults = 0
      PROVE  RegInv'
  <2>1. RegSteady
    BY <1>2, RegSteadyBecome DEF RegOpen
  <2> QED
    BY <2>1, RegSteadyKeeps
<1>3. ASSUME NEW p \in Commands, NEW t \in Tokens, Invite(p, t) \/ InviteEmail(p, t)
      PROVE  RegInv'
  <2>1. PICK r : InvLoad(p, r) /\ r.pc = "isave"
    BY <1>3 DEF Invite, InviteEmail
  <2> QED
    BY <1>0, <1>2, <1>3, <2>1 DEF InvLoad, Invite, InviteEmail, Fresh
<1>4. ASSUME NEW p \in Handlers, NEW t \in Tokens, NEW j \in Peers,
             Join(p, t, j) \/ JoinEmail(p, t, j)
      PROVE  RegInv'
  <2>1. PICK r : InvLoad(p, r) /\ r.pc = "isave"
    BY <1>4 DEF Join, JoinEmail, Accept
  <2> QED
    BY <1>0, <1>2, <1>4, <2>1 DEF InvLoad, Join, JoinEmail, Accept
<1>5. ASSUME NEW p \in Procs, InvTruncate(p)
      PROVE  RegInv'
  <2>1. PICK r : Become(p, r) /\ r.pc = "iwrite"
    <3>1. [proc[p] EXCEPT !.pc = "iwrite"].pc = "iwrite"
      BY <1>5, InvOpenType DEF InvTruncate, InvOpen, Issuing, Consuming
    <3> QED
      BY <1>5, <3>1 DEF InvTruncate
  <2> QED
    BY <1>2, <1>5, <2>1 DEF InvTruncate
<1>6. ASSUME NEW p \in Procs, InvWrite(p)
      PROVE  RegInv'
  <2>1. PICK r : Become(p, r) /\ r.pc \in {"idle", "add"}
    BY <1>6 DEF InvWrite, Idle
  <2> QED
    BY <1>2, <1>6, <2>1 DEF InvWrite
<1>7. ASSUME NEW p \in Handlers, AddLoad(p)
      PROVE  RegInv'
  <2> DEFINE r == [pc |-> "rsave", op |-> "add", peer |-> proc[p].peer,
                   held |-> Add(proc[p].peer)]
  <2>1. RegLoad(p, r) /\ proc[p].pc = "add" /\ r.pc = "rsave" /\ r.op = "add"
        /\ r.held = reg \cup {r.peer}
    BY <1>7 DEF AddLoad, Add
  <2>2. UNCHANGED <<reg, regTorn, expect, revoked, unsaved, faults, joined>>
    BY <1>7 DEF AddLoad
  <2> HIDE DEF r
  <2> QED
    BY <1>0, <2>1, <2>2, RegLoadKeeps DEF RegOpen
<1>8. ASSUME NEW p \in Handlers, AddFails(p)
      PROVE  RegInv'
  <2> DEFINE r == [pc |-> "answer", peer |-> proc[p].peer]
  <2>1. /\ proc'[p] = r
        /\ \A q \in Procs \ {p} : proc'[q] = proc[q]
    BY <1>0, <1>8, BecomeType DEF AddFails
  <2>2. r.pc = "answer" /\ r.peer \in unsaved'
    BY <1>8 DEF AddFails
  <2> HIDE DEF r
  <2>3. RegSteady
    BY <1>0, <1>8, <2>1, <2>2 DEF AddFails, RegSteady, RegOpen
  <2> QED
    BY <2>3, RegSteadyKeeps
<1>9. ASSUME NEW p \in Commands, NEW j \in Peers, BuddyRemove(p, j)
      PROVE  RegInv'
  <2> DEFINE r == [pc |-> "rsave", op |-> "remove", peer |-> j, held |-> Remove(j)]
  <2>1. RegLoad(p, r) /\ proc[p].pc = "idle" /\ r.pc = "rsave" /\ r.op = "remove"
        /\ r.held = reg \ {r.peer}
    BY <1>9 DEF BuddyRemove, Remove
  <2>2. UNCHANGED <<reg, regTorn, expect, revoked, unsaved, faults, joined>>
    BY <1>9 DEF BuddyRemove
  <2> HIDE DEF r
  <2> QED
    BY <1>0, <2>1, <2>2, RegLoadKeeps DEF RegOpen
<1>10. ASSUME NEW p \in Dialers, NEW j \in Peers, UpdateLoad(p, j)
       PROVE  RegInv'
  <2> DEFINE r == [pc |-> "rsave", op |-> "addrs", peer |-> j, held |-> Add(j)]
  <2>1. RegLoad(p, r) /\ proc[p].pc = "idle" /\ r.pc = "rsave" /\ r.op = "addrs"
        /\ r.held = reg
    BY <1>10 DEF UpdateLoad, Add, Known
  <2>2. UNCHANGED <<reg, regTorn, expect, revoked, unsaved, faults, joined>>
    BY <1>10 DEF UpdateLoad
  <2> HIDE DEF r
  <2> QED
    BY <1>0, <2>1, <2>2, RegLoadKeeps DEF RegOpen
<1>11. ASSUME NEW p \in Procs, RegTruncate(p)
       PROVE  RegInv'
  <2> DEFINE r == [proc[p] EXCEPT !.pc = "rwrite"]
  <2>1. /\ r.pc = "rwrite" /\ r.op = proc[p].op /\ r.peer = proc[p].peer
        /\ r.held = proc[p].held
    BY <1>11, RegOpenType DEF RegTruncate, RegOpen, Changing
  <2>2. /\ proc'[p] = r
        /\ \A q \in Procs \ {p} : proc'[q] = proc[q]
    BY <1>11, BecomeType DEF RegTruncate
  <2> HIDE DEF r
  <2>3. \A q \in Procs : RegOpen(q)' = RegOpen(q)
    BY <1>11, <2>1, <2>2 DEF RegTruncate, RegOpen
  <2>4. \A q \in Procs : /\ RegOpen(q) => /\ proc'[q].op = proc[q].op
                                          /\ proc'[q].peer = proc[q].peer
                                          /\ proc'[q].held = proc[q].held
                         /\ proc'[q].pc = "answer" => proc'[q] = proc[q]
    BY <2>1, <2>2
  <2> SUFFICES ASSUME ~regRaced' PROVE RegSound'
    BY DEF RegInv
  <2>5. /\ RegSound /\ UNCHANGED <<reg, expect, joined>> /\ regTorn' = TRUE
        /\ Attempted' = Attempted
    BY <1>11 DEF RegInv, RegTruncate, Attempted
  <2>6. \A q \in Procs : proc'[q].pc = "answer" => proc'[q].peer \in Attempted'
    BY <2>4, <2>5 DEF RegSound
  <2> QED
    BY <2>1, <2>2, <2>3, <2>4, <2>5, <2>6 DEF RegSound
<1>12. ASSUME NEW p \in Procs, RegWrite(p)
       PROVE  RegInv'
  <2> SUFFICES ASSUME ~regRaced' PROVE RegSound'
    BY DEF RegInv
  <2>1. /\ RegSound /\ RegOpen(p) /\ proc[p].pc = "rwrite"
        /\ proc[p].op \in {"add", "remove", "addrs"}
    BY <1>12, RegOpenType DEF RegInv, RegWrite, RegOpen
  <2>2. PICK r : /\ Become(p, r) /\ r.pc \in {"idle", "answer"}
                 /\ r.pc = "answer" => proc[p].op = "add" /\ r.peer = proc[p].peer
    BY <1>12 DEF RegWrite, Idle
  <2>3. /\ proc'[p] = r
        /\ \A q \in Procs \ {p} : proc'[q] = proc[q]
    BY <2>2, BecomeType
  <2>4. \A q \in Procs : ~RegOpen(q)'
    BY <2>1, <2>2, <2>3 DEF RegSound, RegOpen
  <2>5. ~regTorn' /\ \A q \in Procs : proc'[q].pc # "rwrite"
    BY <1>12, <2>1, <2>4 DEF RegWrite, RegSound, RegOpen
  <2>6. /\ reg' = expect' /\ UNCHANGED joined
        /\ Attempted \subseteq Attempted'
        /\ proc[p].op = "add" => proc[p].peer \in Attempted'
    <3>1. CASE proc[p].op = "add"
      BY <1>12, <2>1, <3>1 DEF RegWrite, RegSound, Attempted
    <3>2. CASE proc[p].op = "remove"
      BY <1>12, <2>1, <3>2 DEF RegWrite, RegSound, Attempted
    <3>3. CASE proc[p].op = "addrs"
      BY <1>12, <2>1, <3>3 DEF RegWrite, RegSound, Attempted
    <3> QED
      BY <2>1, <3>1, <3>2, <3>3
  <2>7. \A q \in Procs : proc'[q].pc = "answer" => proc'[q].peer \in Attempted'
    BY <2>1, <2>2, <2>3, <2>6 DEF RegSound
  <2> QED
    BY <2>1, <2>4, <2>5, <2>6, <2>7 DEF RegSound
<1>13. ASSUME NEW p \in Handlers, Answer(p)
       PROVE  RegInv'
  <2>1. /\ proc'[p] = Idle /\ Idle.pc = "idle"
        /\ \A q \in Procs \ {p} : proc'[q] = proc[q]
    BY <1>0, <1>13, BecomeType DEF Answer, Idle
  <2>2. ASSUME ~regRaced
        PROVE  joined' \subseteq joined \cup Attempted
    BY <1>0, <1>13, <2>2 DEF Answer, RegInv, RegSound
  <2>3. RegSteady
    BY <1>0, <1>13, <2>1, <2>2 DEF Answer, RegSteady, RegOpen
  <2> QED
    BY <2>3, RegSteadyKeeps
<1>14. ASSUME NEW t \in Tokens, Expire(t)
       PROVE  RegInv'
  <2>1. RegSteady
    BY <1>14 DEF Expire, RegSteady, RegOpen
  <2> QED
    BY <2>1, RegSteadyKeeps
<1>15. ASSUME NEW ps \in SUBSET Procs, Kill(ps)
       PROVE  RegInv'
  <2>1. \A q \in Procs : proc'[q] \in {proc[q], Idle}
    BY <1>15 DEF Kill
  <2>2. \A q \in Procs : /\ RegOpen(q)' => RegOpen(q) /\ proc'[q] = proc[q]
                         /\ proc'[q].pc = "answer" => proc'[q] = proc[q]
    BY <2>1 DEF RegOpen, Idle
  <2>3. faults' # 0
    BY <1>15 DEF Kill, Sets
  <2>4. RegSteady
    BY <1>15, <2>2, <2>3 DEF Kill, RegSteady
  <2> QED
    BY <2>4, RegSteadyKeeps
<1>16. ASSUME NEW p \in Procs, InvSaveFails(p)
       PROVE  RegInv'
  <2>1. Become(p, Idle) /\ Idle.pc = "idle" /\ proc[p].pc \notin {"rsave", "rwrite"}
    BY <1>16 DEF InvSaveFails, Idle, InvOpen
  <2>2. faults' # 0
    BY <1>16 DEF InvSaveFails, Sets
  <2> QED
    BY <1>2, <1>16, <2>1, <2>2 DEF InvSaveFails
<1>17. ASSUME NEW p \in Procs, RegSaveFails(p)
       PROVE  RegInv'
  <2>1. PICK r : /\ Become(p, r) /\ r.pc \in {"idle", "answer"}
                 /\ r.pc = "answer" => r.peer \in unsaved'
    BY <1>17 DEF RegSaveFails, Idle
  <2>2. /\ proc'[p] = r
        /\ \A q \in Procs \ {p} : proc'[q] = proc[q]
    BY <2>1, BecomeType
  <2>3. \A q \in Procs : /\ RegOpen(q)' => RegOpen(q) /\ proc'[q] = proc[q]
                         /\ proc'[q].pc = "answer" => \/ proc'[q] = proc[q]
                                                      \/ proc'[q].peer \in unsaved'
    BY <2>1, <2>2 DEF RegOpen
  <2>4. faults' # 0 /\ unsaved \subseteq unsaved'
    BY <1>17 DEF RegSaveFails, Sets
  <2>5. RegSteady
    BY <1>17, <2>3, <2>4 DEF RegSaveFails, RegSteady
  <2> QED
    BY <2>5, RegSteadyKeeps
<1> QED
  BY <1>1, <1>3, <1>4, <1>5, <1>6, <1>7, <1>8, <1>9, <1>10, <1>11, <1>12,
     <1>13, <1>14, <1>15, <1>16, <1>17, NextCases

LEMMA RegInit == Init => RegInv
<1> SUFFICES ASSUME Init PROVE RegSound
  BY DEF RegInv
<1>1. \A p \in Procs : ~RegOpen(p) /\ proc[p].pc = "idle"
  BY DEF Init, Idle, RegOpen
<1> QED
  BY <1>1 DEF Init, RegSound, Attempted

\* The registry holds who was added and not removed since, whatever addresses
\* the redial goroutines store meanwhile and whatever is killed or fails, unless
\* a command's change overlaps another; the file is readable unless a kill or a
\* failed save came in the middle of writing it.
THEOREM RegistryKept == Spec => []RegistryFaithful
<1>1. Init => Typed /\ RegInv
  BY TypedInit, RegInit DEF Typed
<1>2. Typed /\ RegInv /\ [Next]_vars => (Typed /\ RegInv)'
  BY TypedStep, RegStep DEF Typed
<1>3. RegInv => RegistryFaithful
  BY DEF RegInv, RegSound, RegistryFaithful, RegOpen
<1> QED
  BY <1>1, <1>2, <1>3, PTL DEF Spec

\* With the same proviso a peer that was told OK is registered, or was until it
\* was removed, or Registry.Add had reported an error, whatever is killed and
\* whichever saves fail.
THEOREM ToldIsRegistered == Spec => []BothSides
<1>1. Init => Typed /\ RegInv
  BY TypedInit, RegInit DEF Typed
<1>2. Typed /\ RegInv /\ [Next]_vars => (Typed /\ RegInv)'
  BY TypedStep, RegStep DEF Typed
<1>3. RegInv => BothSides
  BY DEF RegInv, RegSound, BothSides, Attempted
<1> QED
  BY <1>1, <1>2, <1>3, PTL DEF Spec
=============================================================================
