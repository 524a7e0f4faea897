--------------------------- MODULE SessionProofs ---------------------------
(***************************************************************************)
(* The keystore and the GUI's session, for any calls, passwords and        *)
(* circles: what the file holds is sound whatever overlaps and whatever is *)
(* killed, and it is what the completed calls amount to as long as no two  *)
(* calls use it at the same time.                                          *)
(***************************************************************************)
EXTENDS Session, SequenceTheorems, TLAPS

CopySet == [pw : Passwords \cup {None}, key : Nat, seed : Nat, peer : Int,
            circles : SUBSET (Names \cup {Default})]

OpenPcs == {"wipe", "save", "write", "load", "push", "manifest", "ident", "done"}

Pcs == OpenPcs \cup {"idle", "open", "check", "register", "stopping", "watching"}

Ops == {"", "unlock", "init", "recover", "passwd", "phrase", "add", "remove",
        "backup", "push", "ident", "serve", "watch"}

CallSet == [pc : Pcs, op : Ops, gui : BOOLEAN,
            pw : Passwords \cup {None},
            arg : Nat \cup Passwords \cup Names \cup Ports,
            mem : CopySet, todo : Seq(CopySet)]

\* A copy made of the first k keys and n seeds, whose identity derives from
\* its seed.
Sound(s, k, n) ==
    /\ s.key <= k /\ s.seed <= n /\ s.peer \in Legacy..n
    /\ s.peer # None => s.peer = IF s.seed = None THEN Legacy ELSE s.seed

\* The password a call leaves the keystore under.
Target(r) == IF r.op = "passwd" THEN r.arg ELSE r.pw

\* What a call knows by itself, whatever the others do.
Local(r, k, n) ==
    /\ Sound(r.mem, k, n)
    /\ \A i \in 1..Len(r.todo) : Sound(r.todo[i], k, n) /\ r.todo[i].pw = Target(r)
    /\ r.pc \in {"wipe", "write"} => r.todo # <<>>
    /\ r.op = "passwd" => r.arg \in Passwords
    /\ r.op \in {"add", "remove"} => r.arg \in Names
    /\ r.op = "recover" => r.arg \in 1..n
    /\ r.pc = "stopping" => r.gui
    /\ r.pc = "wipe" => r.op = "init"
    /\ r.pc \in {"load", "push", "manifest", "ident"} => r.op \in {"backup", "push"}
    /\ r.pc \in OpenPcs /\ r.op \in {"backup", "push"} => r.mem.pw = r.pw

KsTyped ==
    /\ keys \in Nat /\ seeds \in Nat /\ calls \in Nat /\ faults \in Nat
    /\ status \in {"absent", "torn", "ok"}
    /\ store \in CopySet /\ Sound(store, keys, seeds)
    /\ data \in 0..keys
    /\ call \in [Calls -> CallSet]
    /\ \A c \in Calls : Local(call[c], keys, seeds)
    /\ shown \subseteq 1..seeds
    /\ ids \subseteq (Legacy..seeds) \ {None}

SeTyped ==
    /\ session \in Passwords \cup {None}
    /\ mu \in Calls \cup {NoCall}
    /\ handle \in Calls \cup {NoCall} /\ watchHandle \in Calls \cup {NoCall}
    /\ \A c \in Calls : (mu = c) = (call[c].pc = "stopping")

\* While no two calls have used the keystore at once: one call at a time has
\* it open, the file is being written only by that call, and a call that has
\* nothing left to write finds it readable.
Settled(c) ==
    \/ call[c].pc \in {"load", "push", "manifest", "ident", "done"}
    \/ call[c].pc = "save" /\ call[c].todo = <<>>

Solo ==
    ~raced =>
        /\ \A c, d \in Calls : Open(c) /\ Open(d) => c = d
        /\ \A c \in Calls : call[c].pc = "write" => status = "torn"
        /\ \A c \in Calls : Settled(c) => status = "ok"

Resets == {"init", "recover"}

\* The one identity that was stored is in the file and in every copy that is
\* about to replace it; of two such copies only the last has one.
Identity ==
    ~raced /\ ~staleCopy =>
        /\ status = "ok" => ids \subseteq {store.peer}
        /\ status = "absent" => ids = {}
        /\ \A c \in Calls : Open(c) /\ call[c].op \notin Resets =>
             \A i \in 1..Len(call[c].todo) :
                /\ ids \subseteq {call[c].todo[i].peer}
                /\ \A j \in 1..Len(call[c].todo) :
                        i < j => call[c].todo[i].peer = None

\* The circles of the i-th copy that c has left to write.
CirclesOf(c, i) ==
    CASE call[c].op = "add"     -> wantCircles \cup {call[c].arg}
      [] call[c].op = "remove"  -> wantCircles \ {call[c].arg}
      [] call[c].op = "recover" -> {}
      [] call[c].op = "init"    -> IF i = Len(call[c].todo) THEN {Default} ELSE {}
      [] OTHER                  -> wantCircles

\* The file, and every copy about to replace it, has the changes so far and
\* the one the call makes.
Changes ==
    ~raced =>
        /\ status = "ok" => store.pw = wantPw /\ store.circles = wantCircles
        /\ status = "absent" => wantCircles = {}
        /\ \A c \in Calls : Open(c) =>
             /\ \A i \in 1..Len(call[c].todo) :
                    call[c].todo[i].circles = CirclesOf(c, i)
             /\ call[c].op \in {"backup", "push"} =>
                    call[c].mem.circles = wantCircles

\* The manifest is under the key of the file, and of every copy about to
\* replace it; once the keystore was removed only init, which is about to
\* remove the manifest too, may find one.
Manifest ==
    ~raced /\ ~recovered /\ ~halfReset =>
        /\ status = "ok" => data \in {None, store.key}
        /\ status = "absent" => data = None \/ \E c \in Calls : call[c].pc = "wipe"
        /\ \A c \in Calls : Open(c) =>
             /\ call[c].op = "init" /\ call[c].pc # "wipe" /\ call[c].todo # <<>>
                    => data = None
             /\ call[c].op \notin Resets => \A i \in 1..Len(call[c].todo) :
                    data \in {None, call[c].todo[i].key}
             /\ call[c].op \in {"backup", "push", "ident"} =>
                    /\ status = "ok" => store.key = call[c].mem.key
                    /\ \A i \in 1..Len(call[c].todo) :
                            call[c].todo[i].key = call[c].mem.key

Retargets == {"init", "recover", "passwd"}

\* The session's password is the keystore's, unless a call is about to change
\* it; a call that has written all its copies leaves the one it was given.
InSession ==
    ~raced /\ ~foreign /\ faults = 0 =>
        /\ session # None /\ (\A c \in Calls : Open(c) => call[c].op \notin Retargets)
             => status # "absent" /\ store.pw = session
        /\ \A c \in Calls : Open(c) =>
             /\ call[c].op \notin Retargets /\ session # None => call[c].pw = session
             /\ Settled(c) => store.pw = Target(call[c])

DaemonSet == [st : {"down", "up", "closing"},
              port : Nat \cup Passwords \cup Names \cup Ports]

\* The daemon that runs is the one the handle names or about to become so.
Served ==
    /\ daemon \in [Calls -> DaemonSet] /\ signals \in Nat
    /\ \A c \in Calls : call[c].pc = "register" =>
            /\ call[c].gui /\ call[c].op = "serve"
            /\ signals = 0 => daemon[c].st = "up"
    /\ \A c \in Calls : Starting(c) => handle # c
    /\ ~overlap => \A c, d \in Calls : Starting(c) =>
            handle = NoCall /\ (Starting(d) => c = d)
    /\ ~overlap => \A c \in Calls : daemon[c].st = "up" =>
            handle = c \/ call[c].pc = "register"
    /\ signals = 0 /\ handle # NoCall /\ mu = NoCall => daemon[handle].st = "up"

-----------------------------------------------------------------------------
(* Copies and calls. *)

LEMMA SoundMono ==
    ASSUME NEW s \in CopySet, NEW k \in Nat, NEW n \in Nat, NEW l \in Nat,
           NEW m \in Nat, k <= l, n <= m, Sound(s, k, n)
    PROVE  Sound(s, l, m)
  BY DEF Sound, CopySet, Legacy, None

LEMMA LocalMono ==
    ASSUME NEW r \in CallSet, NEW k \in Nat, NEW n \in Nat, NEW l \in Nat,
           NEW m \in Nat, k <= l, n <= m, Local(r, k, n)
    PROVE  Local(r, l, m)
<1>1. r.mem \in CopySet /\ r.todo \in Seq(CopySet)
  BY DEF CallSet
<1>2. \A i \in 1..Len(r.todo) : r.todo[i] \in CopySet
  BY <1>1
<1>3. Sound(r.mem, l, m)
  BY <1>1, SoundMono DEF Local
<1>4. \A i \in 1..Len(r.todo) : Sound(r.todo[i], l, m)
  BY <1>2, SoundMono DEF Local
<1>5. r.op = "recover" => r.arg \in 1..m
  BY DEF Local
<1> QED
  BY <1>3, <1>4, <1>5 DEF Local

LEMMA BlankSound ==
    ASSUME NEW pw \in Passwords \cup {None}, NEW k \in Nat, NEW n \in Nat
    PROVE  Blank(pw, k) \in CopySet /\ Sound(Blank(pw, k), k, n)
  BY DEF Blank, CopySet, Sound, None, Legacy

LEMMA IdleLocal ==
    ASSUME NEW k \in Nat, NEW n \in Nat
    PROVE  Idle \in CallSet /\ Local(Idle, k, n)
<1> DEFINE b == Blank(None, None)
<1>1. b \in CopySet /\ Sound(b, k, n)
  <2>1. b \in CopySet /\ Sound(b, 0, n)
    BY BlankSound DEF None
  <2> QED
    BY <2>1, SoundMono
<1> HIDE DEF b
<1>2. Idle = [pc |-> "idle", op |-> "", gui |-> FALSE, pw |-> None, arg |-> None,
              mem |-> b, todo |-> <<>>]
  BY DEF Idle, b
<1>3. /\ Idle.mem = b /\ Idle.todo = <<>> /\ Idle.pc = "idle"
      /\ Idle.op = "" /\ Idle.pw = None
  BY <1>2
<1>4. Idle \in CallSet
  <2>1. <<>> \in Seq(CopySet) /\ FALSE \in BOOLEAN /\ None \in Nat
        /\ "idle" \in Pcs /\ "" \in Ops
    BY DEF None, Pcs, Ops
  <2> QED
    BY <1>1, <1>2, <2>1 DEF CallSet
<1>5. Len(Idle.todo) = 0
  <2>1. Len(<<>>) = 0
    OBVIOUS
  <2> QED
    BY <1>3, <2>1, Zenon
<1>6. Idle.pc \notin OpenPcs \cup {"write", "stopping"}
      /\ Idle.op \notin {"passwd", "add", "remove", "recover"}
  BY <1>3 DEF OpenPcs
<1>7. \A i \in 1..Len(Idle.todo) : FALSE
  BY <1>5
<1> QED
  BY <1>1, <1>3, <1>4, <1>6, <1>7, Zenon DEF Local, OpenPcs

LEMMA NonEmpty ==
    ASSUME NEW t, Len(t) = 1 \/ Len(t) = 3 \/ Len(t) = 4
    PROVE  t # <<>>
<1>1. Len(<<>>) = 0
  OBVIOUS
<1>2. 0 # 1 /\ 0 # 3 /\ 0 # 4
  OBVIOUS
<1> QED
  BY <1>1, <1>2, Zenon

LEMMA PairSeq ==
    ASSUME NEW S, NEW a \in S, NEW b \in S, NEW t, t = <<a, b>>
    PROVE  t \in Seq(S) /\ Len(t) = 2 /\ t[1] = a /\ t[2] = b
  OBVIOUS

LEMMA TripleSeq ==
    ASSUME NEW S, NEW s \in S, NEW a \in S, NEW b \in S, NEW t,
           t = <<s>> \o <<a, b>>
    PROVE  t \in Seq(S) /\ Len(t) = 3 /\ t[1] = s /\ t[2] = a /\ t[3] = b
<1>1. <<s>> \in Seq(S) /\ <<a, b>> \in Seq(S)
  OBVIOUS
<1>2. Len(<<s>>) = 1 /\ Len(<<a, b>>) = 2
  OBVIOUS
<1> QED
  BY <1>1, <1>2

LEMMA LastSeq ==
    ASSUME NEW S, NEW d \in S, NEW u \in Seq(S), Len(u) = 3, NEW t,
           t = u \o <<d>>
    PROVE  /\ t \in Seq(S) /\ Len(t) = 4 /\ t[4] = d
           /\ t[1] = u[1] /\ t[2] = u[2] /\ t[3] = u[3]
<1>1. <<d>> \in Seq(S) /\ Len(<<d>>) = 1 /\ <<d>>[1] = d
  OBVIOUS
<1>2. /\ t \in Seq(S) /\ Len(t) = 3 + 1
      /\ \A i \in 1..(3 + 1) : t[i] = IF i <= 3 THEN u[i] ELSE <<d>>[i - 3]
  <2>1. /\ u \o <<d>> \in Seq(S) /\ Len(u \o <<d>>) = Len(u) + Len(<<d>>)
        /\ \A i \in 1..(Len(u) + Len(<<d>>)) : (u \o <<d>>)[i] =
                IF i <= Len(u) THEN u[i] ELSE <<d>>[i - Len(u)]
    BY <1>1, ConcatProperties, Zenon
  <2> QED
    BY <1>1, <2>1, Zenon
<1>3. 3 + 1 = 4 /\ 4 - 3 = 1
  OBVIOUS
<1> QED
  BY <1>1, <1>2, <1>3

\* A seed, then the identity derived from it.
Seeded(s, m) == [s EXCEPT !.seed = m]
Identified(s, m) == [s EXCEPT !.seed = m, !.peer = m]

LEMMA Derived ==
    ASSUME NEW s \in CopySet, NEW k \in Nat, s.key <= k, NEW n \in Nat,
           NEW m \in 1..n, s.peer = None
    PROVE  /\ Seeded(s, m) \in CopySet /\ Sound(Seeded(s, m), k, n)
           /\ Seeded(s, m).peer = None
           /\ Seeded(s, m).pw = s.pw /\ Seeded(s, m).key = s.key
           /\ Seeded(s, m).circles = s.circles
           /\ Identified(s, m) \in CopySet /\ Sound(Identified(s, m), k, n)
           /\ Identified(s, m).pw = s.pw /\ Identified(s, m).key = s.key
           /\ Identified(s, m).circles = s.circles
<1> DEFINE a == Seeded(s, m)
           b == Identified(s, m)
<1>1. m \in Nat /\ m \in Int /\ m <= n /\ m # 0
  OBVIOUS
<1>2. a \in CopySet /\ a.seed = m /\ a.peer = None
      /\ a.pw = s.pw /\ a.key = s.key /\ a.circles = s.circles
  BY <1>1 DEF CopySet, Seeded
<1>3. b = [a EXCEPT !.peer = m]
  BY DEF CopySet, Seeded, Identified
<1> HIDE DEF a, b
<1>4. b \in CopySet /\ b.seed = m /\ b.peer = m
      /\ b.pw = s.pw /\ b.key = s.key /\ b.circles = s.circles
  BY <1>1, <1>2, <1>3 DEF CopySet
<1>5. s.key <= k /\ s.key \in Nat
  BY DEF CopySet
<1>6. Sound(a, k, n) /\ Sound(b, k, n)
  BY <1>1, <1>2, <1>4, <1>5 DEF Sound, None, Legacy
<1> QED
  BY <1>2, <1>4, <1>6 DEF a, b

\* What EnsurePeerIdentity writes: nothing, or a copy with the seed and then
\* one with the key too.
LEMMA EnsureCopies ==
    ASSUME NEW s \in CopySet, NEW k \in Nat, NEW n \in Nat, Sound(s, k, n),
           NEW m \in Nat, m = IF s.peer = None THEN n + 1 ELSE n,
           NEW t, t = EnsurePeerIdentity(s, n + 1)
    PROVE  /\ t \in Seq(CopySet)
           /\ \A i \in 1..Len(t) :
                /\ Sound(t[i], k, m)
                /\ t[i].pw = s.pw /\ t[i].key = s.key /\ t[i].circles = s.circles
                /\ s.peer = None
                /\ \A j \in 1..Len(t) : i < j => t[i].peer = None
<1>1. CASE s.peer # None
  BY <1>1 DEF EnsurePeerIdentity, Seeded, Identified
<1>2. CASE s.peer = None
  <2> DEFINE a == Seeded(s, n + 1)
             b == Identified(s, n + 1)
  <2>1. s.key <= k /\ n + 1 \in Nat /\ n + 1 \in 1..(n + 1)
    BY DEF Sound
  <2>2. /\ a \in CopySet /\ Sound(a, k, n + 1) /\ a.peer = None
        /\ b \in CopySet /\ Sound(b, k, n + 1)
        /\ a.pw = s.pw /\ a.key = s.key /\ a.circles = s.circles
        /\ b.pw = s.pw /\ b.key = s.key /\ b.circles = s.circles
    BY <1>2, <2>1, Derived
  <2>3. t = <<a, b>> /\ m = n + 1
    BY <1>2 DEF EnsurePeerIdentity, Seeded, Identified
  <2> HIDE DEF a, b
  <2>4. t \in Seq(CopySet) /\ Len(t) = 2 /\ t[1] = a /\ t[2] = b
    BY <2>2, <2>3, PairSeq
  <2>5. \A i \in 1..2 : i = 1 \/ i = 2
    OBVIOUS
  <2>6. \A i \in 1..2 :
            /\ Sound(t[i], k, m)
            /\ t[i].pw = s.pw /\ t[i].key = s.key /\ t[i].circles = s.circles
    BY <2>2, <2>3, <2>4, <2>5
  <2>7. \A i, j \in 1..2 : i < j => t[i].peer = None
    BY <2>2, <2>4, <2>5
  <2> QED
    BY <1>2, <2>4, <2>6, <2>7
<1> QED
  BY <1>1, <1>2

\* What init writes: four copies, the last of which has the default circle.
LEMMA InitFour ==
    ASSUME NEW pw \in Passwords \cup {None}, NEW k \in Nat, NEW n \in Nat,
           NEW t, t = InitCopies(pw, k, n + 1)
    PROVE  /\ t \in Seq(CopySet) /\ Len(t) = 4
           /\ \A i \in 1..4 :
                /\ Sound(t[i], k, n + 1) /\ t[i].pw = pw
                /\ t[i].circles = IF i = 4 THEN {Default} ELSE {}
<1> DEFINE s == Blank(pw, k)
           a == Seeded(s, n + 1)
           b == Identified(s, n + 1)
           d == [b EXCEPT !.circles = @ \cup {Default}]
           u == <<s>> \o EnsurePeerIdentity(s, n + 1)
<1>1. /\ s \in CopySet /\ Sound(s, k, n + 1) /\ s.pw = pw /\ s.circles = {}
      /\ s.peer = None /\ s.key <= k
  <2>1. n + 1 \in Nat
    OBVIOUS
  <2> QED
    BY <2>1, BlankSound DEF Blank
<1>2. EnsurePeerIdentity(s, n + 1) = <<a, b>>
  BY <1>1 DEF EnsurePeerIdentity, Seeded, Identified
<1>3. /\ a \in CopySet /\ Sound(a, k, n + 1) /\ a.pw = pw /\ a.circles = {}
      /\ b \in CopySet /\ Sound(b, k, n + 1) /\ b.pw = pw /\ b.circles = {}
  <2>1. n + 1 \in Nat /\ n + 1 \in 1..(n + 1)
    OBVIOUS
  <2> HIDE DEF s
  <2>2. /\ a \in CopySet /\ Sound(a, k, n + 1)
        /\ b \in CopySet /\ Sound(b, k, n + 1)
        /\ a.pw = s.pw /\ a.circles = s.circles
        /\ b.pw = s.pw /\ b.circles = s.circles
    BY <1>1, <2>1, Derived
  <2> HIDE DEF a, b
  <2> QED
    BY <1>1, <2>2
<1>4. t = u \o GetOrDefault(u[Len(u)])
  BY DEF InitCopies
<1> HIDE DEF s, a, b
<1>5. d \in CopySet /\ Sound(d, k, n + 1) /\ d.pw = pw /\ d.circles = {Default}
  BY <1>3 DEF CopySet, Sound, None, Legacy
<1>6. GetOrDefault(b) = <<d>>
  BY <1>3 DEF GetOrDefault, Add
<1>7. /\ u \in Seq(CopySet) /\ Len(u) = 3
      /\ u[1] = s /\ u[2] = a /\ u[3] = b
  <2>1. u = <<s>> \o <<a, b>>
    BY <1>2
  <2> HIDE DEF u
  <2> QED
    BY <1>1, <1>3, <2>1, TripleSeq
<1> HIDE DEF u, d
<1>8. t = u \o <<d>>
  BY <1>4, <1>6, <1>7
<1>9. /\ t \in Seq(CopySet) /\ Len(t) = 4
      /\ t[1] = s /\ t[2] = a /\ t[3] = b /\ t[4] = d
  <2>1. /\ t \in Seq(CopySet) /\ Len(t) = 4 /\ t[4] = d
        /\ t[1] = u[1] /\ t[2] = u[2] /\ t[3] = u[3]
    BY <1>5, <1>7, <1>8, LastSeq, SMT
  <2> QED
    BY <1>7, <2>1
<1>10. \A i \in 1..4 : i = 1 \/ i = 2 \/ i = 3 \/ i = 4
  OBVIOUS
<1> QED
  BY <1>1, <1>3, <1>5, <1>9, <1>10

\* What recover writes: three copies.
ThreeFresh(t, pw, k, n) ==
    /\ t \in Seq(CopySet) /\ Len(t) = 3
    /\ \A i \in 1..3 : Sound(t[i], k, n) /\ t[i].pw = pw /\ t[i].circles = {}

LEMMA RecoverThree ==
    ASSUME NEW pw \in Passwords \cup {None}, NEW k \in Nat, NEW n \in Nat,
           NEW m \in 1..n, NEW t, t = RecoverCopies(pw, k, m)
    PROVE  ThreeFresh(t, pw, k, n)
<1> DEFINE s == Blank(pw, k)
           a == Seeded(s, m)
           b == Identified(s, m)
<1>1. /\ s \in CopySet /\ Sound(s, k, n) /\ s.pw = pw /\ s.circles = {}
      /\ s.peer = None /\ s.key <= k
  BY BlankSound DEF Blank
<1>2. t = <<s>> \o <<a, b>>
  BY DEF RecoverCopies, EnsurePeerIdentityFromSeed, Seeded, Identified
<1> HIDE DEF s
<1>3. /\ a \in CopySet /\ Sound(a, k, n)
      /\ b \in CopySet /\ Sound(b, k, n)
      /\ a.pw = s.pw /\ a.circles = s.circles
      /\ b.pw = s.pw /\ b.circles = s.circles
  BY <1>1, Derived
<1> HIDE DEF a, b
<1>4. t \in Seq(CopySet) /\ Len(t) = 3 /\ t[1] = s /\ t[2] = a /\ t[3] = b
  BY <1>1, <1>2, <1>3, TripleSeq
<1>5. \A i \in 1..3 : i = 1 \/ i = 2 \/ i = 3
  OBVIOUS
<1> QED
  BY <1>1, <1>3, <1>4, <1>5 DEF ThreeFresh

-----------------------------------------------------------------------------
(* Types. *)

LEMMA OneCall ==
    ASSUME KsTyped, NEW c \in Calls, NEW r \in CallSet,
           call' = [call EXCEPT ![c] = r],
           keys' \in Nat, seeds' \in Nat, keys <= keys', seeds <= seeds',
           Local(r, keys', seeds')
    PROVE  /\ call' \in [Calls -> CallSet]
           /\ \A d \in Calls : Local(call'[d], keys', seeds')
<1>1. call' \in [Calls -> CallSet] /\ call'[c] = r
      /\ \A d \in Calls \ {c} : call'[d] = call[d]
  BY DEF KsTyped
<1>2. \A d \in Calls : call[d] \in CallSet /\ Local(call[d], keys, seeds)
      /\ keys \in Nat /\ seeds \in Nat
  BY DEF KsTyped
<1>3. \A d \in Calls : Local(call[d], keys', seeds')
  BY <1>2, LocalMono
<1> QED
  BY <1>1, <1>3

\* The file and the histories stay typed when more has been drawn.
LEMMA FileMono ==
    ASSUME KsTyped, keys' \in Nat, seeds' \in Nat, keys <= keys', seeds <= seeds'
    PROVE  /\ store \in CopySet /\ Sound(store, keys', seeds')
           /\ data \in 0..keys' /\ shown \subseteq 1..seeds'
           /\ ids \subseteq (Legacy..seeds') \ {None}
<1>1. store \in CopySet /\ Sound(store, keys', seeds')
  BY SoundMono DEF KsTyped
<1> QED
  BY <1>1 DEF KsTyped, Legacy

LEMMA CallOnly ==
    ASSUME KsTyped, NEW c \in Calls, NEW r \in CallSet,
           call' = [call EXCEPT ![c] = r], Local(r, keys, seeds),
           UNCHANGED <<status, store, data, keys, seeds, faults, ids>>,
           shown' \subseteq 1..seeds, calls' \in Nat
    PROVE  KsTyped'
<1>1. keys' \in Nat /\ seeds' \in Nat /\ keys <= keys' /\ seeds <= seeds'
  BY DEF KsTyped
<1>2. /\ call' \in [Calls -> CallSet]
      /\ \A d \in Calls : Local(call'[d], keys', seeds')
  BY <1>1, OneCall
<1> QED
  BY <1>1, <1>2 DEF KsTyped

LEMMA MovedLocal ==
    ASSUME NEW r \in CallSet, NEW k \in Nat, NEW n \in Nat, Local(r, k, n),
           NEW x \in Pcs \ {"stopping", "wipe"}, x = "write" => r.todo # <<>>,
           x \in {"load", "push", "manifest", "ident"} => r.op \in {"backup", "push"},
           x \in OpenPcs => r.pc \in OpenPcs,
           NEW q, q = [r EXCEPT !.pc = x]
    PROVE  q \in CallSet /\ Local(q, k, n)
<1>1. /\ q \in CallSet /\ q.pc = x /\ q.op = r.op /\ q.gui = r.gui
      /\ q.pw = r.pw /\ q.arg = r.arg /\ q.mem = r.mem /\ q.todo = r.todo
  BY DEF CallSet
<1>2. Target(q) = Target(r)
  BY <1>1 DEF Target
<1> QED
  BY <1>1, <1>2 DEF Local

LEMMA LoadedLocal ==
    ASSUME NEW r \in CallSet, NEW k \in Nat, NEW n \in Nat, Local(r, k, n),
           NEW x \in {"save", "load", "wipe"},
           x = "load" => r.op = "backup", x = "wipe" => r.op = "init",
           NEW o \in Ops, o = r.op \/ {o, r.op} \subseteq {"backup", "push", "ident"},
           x # "save" => o = r.op,
           NEW m \in CopySet, Sound(m, k, n), o \in {"backup", "push"} => m.pw = r.pw,
           NEW t \in Seq(CopySet),
           \A i \in 1..Len(t) : Sound(t[i], k, n) /\ t[i].pw = Target(r),
           x = "wipe" => t # <<>>,
           NEW q \in CallSet, q.pc = x, q.op = o, q.gui = r.gui,
           q.pw = r.pw, q.arg = r.arg, q.mem = m, q.todo = t
    PROVE  Local(q, k, n)
<1>1. Target(q) = Target(r)
  BY DEF Target
<1> QED
  BY <1>1 DEF Local, OpenPcs

LEMMA PcOnly ==
    ASSUME KsTyped, NEW c \in Calls, NEW x \in Pcs \ {"stopping", "wipe"},
           call' = [call EXCEPT ![c].pc = x],
           x = "write" => call[c].todo # <<>>,
           x \in {"load", "push", "manifest", "ident"} =>
                call[c].op \in {"backup", "push"},
           x \in OpenPcs => call[c].pc \in OpenPcs,
           UNCHANGED <<store, keys, seeds, faults, ids>>, calls' \in Nat,
           shown' \subseteq 1..seeds, data' \in 0..keys,
           status' \in {"absent", "torn", "ok"}
    PROVE  KsTyped'
<1> DEFINE q == [call[c] EXCEPT !.pc = x]
<1>1. call' = [call EXCEPT ![c] = q]
  OBVIOUS
<1>2. call[c] \in CallSet /\ Local(call[c], keys, seeds)
      /\ keys \in Nat /\ seeds \in Nat
  BY DEF KsTyped
<1>3. q \in CallSet /\ Local(q, keys, seeds)
  BY <1>2, MovedLocal
<1> HIDE DEF q
<1>4. keys' \in Nat /\ seeds' \in Nat /\ keys <= keys' /\ seeds <= seeds'
  BY DEF KsTyped
<1>5. /\ call' \in [Calls -> CallSet]
      /\ \A d \in Calls : Local(call'[d], keys', seeds')
  BY <1>1, <1>3, <1>4, OneCall
<1> QED
  BY <1>5 DEF KsTyped

LEMMA ReturnTyped ==
    ASSUME KsTyped, NEW c \in Calls, Return(c),
           UNCHANGED <<status, store, data, keys, seeds, calls, faults, ids, shown>>
    PROVE  KsTyped'
<1>1. keys \in Nat /\ seeds \in Nat
  BY DEF KsTyped
<1>2. Idle \in CallSet /\ Local(Idle, keys, seeds)
  BY <1>1, IdleLocal
<1>3. shown' \subseteq 1..seeds /\ calls' \in Nat
  BY DEF KsTyped
<1> QED
  BY <1>2, <1>3, CallOnly DEF Return

LEMMA BeginTyped ==
    ASSUME KsTyped, NEW c \in Calls, NEW op \in Ops, NEW gui \in BOOLEAN,
           NEW pw \in Passwords \cup {None},
           NEW arg \in Nat \cup Passwords \cup Names \cup Ports,
           NEW pc \in {"open", "check"},
           op = "passwd" => arg \in Passwords,
           op \in {"add", "remove"} => arg \in Names,
           op = "recover" => arg \in 1..seeds,
           Begin(c, op, gui, pw, arg, pc)
    PROVE  KsTyped'
<1> DEFINE q == [Idle EXCEPT !.pc = pc, !.op = op, !.gui = gui, !.pw = pw,
                             !.arg = arg]
<1>1. keys \in Nat /\ seeds \in Nat /\ calls \in Nat
  BY DEF KsTyped
<1>2. Idle \in CallSet /\ Local(Idle, keys, seeds)
  BY <1>1, IdleLocal
<1>3. /\ q.pc = pc /\ q.op = op /\ q.gui = gui /\ q.pw = pw /\ q.arg = arg
      /\ q.mem = Idle.mem /\ q.todo = Idle.todo
  BY <1>2 DEF CallSet
<1>4. q \in CallSet
  BY <1>2 DEF CallSet, Pcs
<1>5. call' = [call EXCEPT ![c] = q]
  BY DEF Begin
<1> HIDE DEF q
<1>6. Len(Idle.todo) = 0
  <2>1. Idle.todo = <<>> /\ Len(<<>>) = 0
    BY DEF Idle
  <2> QED
    BY <2>1, Zenon
<1>7. \A i \in 1..Len(q.todo) : FALSE
  BY <1>3, <1>6
<1>8. Local(q, keys, seeds)
  BY <1>2, <1>3, <1>7 DEF Local, OpenPcs
<1>9. /\ UNCHANGED <<status, store, data, keys, seeds, faults, ids>>
      /\ shown' \subseteq 1..seeds /\ calls' \in Nat
  BY <1>1 DEF Begin, fileVars, drawn, history, KsTyped
<1> QED
  BY <1>4, <1>5, <1>8, <1>9, CallOnly

Edited(t, s, r) ==
    /\ r.op = "passwd" => t # <<>>
    /\ r.op \notin {"passwd", "add", "remove", "serve"} => t = <<>>
    /\ \A i \in 1..Len(t) :
        /\ t[i].pw = Target(r) /\ t[i].key = s.key
        /\ s.peer # None => t[i].peer = s.peer
        /\ \A j \in 1..Len(t) : i < j => t[i].peer = None
        /\ t[i].circles = CASE r.op = "add"    -> s.circles \cup {r.arg}
                            [] r.op = "remove" -> s.circles \ {r.arg}
                            [] OTHER           -> s.circles

\* What a call that opened the keystore writes back: nothing, or copies of the
\* file with its own change.
LEMMA UnlockCopies ==
    ASSUME KsTyped, NEW c \in Calls, Unlock(c), NEW t, t = Copies(c, store)
    PROVE  /\ seeds' \in Nat /\ seeds <= seeds' /\ t \in Seq(CopySet)
           /\ Edited(t, store, call[c])
           /\ \A i \in 1..Len(t) : Sound(t[i], keys, seeds') /\ t[i].pw = Target(call[c])
<1> DEFINE op == call[c].op
           arg == call[c].arg
           pw == call[c].pw
<1>1. /\ keys \in Nat /\ seeds \in Nat /\ store \in CopySet
      /\ Sound(store, keys, seeds) /\ store.pw = pw
      /\ op = "passwd" => arg \in Passwords
      /\ op \in {"add", "remove"} => arg \in Names
      /\ op \in Opening \cup Creating
      /\ op = "serve" => DrawSeed(store)
      /\ op # "serve" => seeds' = seeds
  BY DEF KsTyped, Unlock, Unlocks, Local
<1>2. CASE op = "serve"
  <2>1. /\ t = EnsurePeerIdentity(store, seeds + 1)
        /\ seeds' = IF store.peer = None THEN seeds + 1 ELSE seeds
    BY <1>1, <1>2 DEF Copies, DrawSeed
  <2>2. seeds' \in Nat /\ seeds <= seeds'
    BY <1>1, <2>1
  <2>3. /\ t \in Seq(CopySet)
        /\ \A i \in 1..Len(t) :
                /\ Sound(t[i], keys, seeds')
                /\ t[i].pw = store.pw /\ t[i].key = store.key
                /\ t[i].circles = store.circles
                /\ store.peer = None
                /\ \A j \in 1..Len(t) : i < j => t[i].peer = None
    BY <1>1, <2>1, <2>2, EnsureCopies
  <2> QED
    BY <1>1, <1>2, <2>2, <2>3 DEF Target, Edited
<1>3. CASE op # "serve" /\ op \notin {"passwd", "add", "remove"}
  <2>1. t = <<>>
    BY <1>3 DEF Copies
  <2> QED
    BY <1>1, <1>3, <2>1 DEF Edited
<1>4. CASE op \in {"passwd", "add", "remove"}
  <2> DEFINE x == CASE op = "passwd" -> [store EXCEPT !.pw = arg]
                    [] op = "add" -> [store EXCEPT !.circles = @ \cup {arg}]
                    [] OTHER -> [store EXCEPT !.circles = @ \ {arg}]
  <2>1. /\ x \in CopySet /\ x.pw = IF op = "passwd" THEN arg ELSE pw
        /\ x.key = store.key /\ x.seed = store.seed /\ x.peer = store.peer
        /\ x.circles = CASE op = "add"    -> store.circles \cup {arg}
                         [] op = "remove" -> store.circles \ {arg}
                         [] OTHER         -> store.circles
    <3>1. CASE op = "passwd"
      BY <1>1, <3>1 DEF CopySet
    <3>2. CASE op = "add"
      BY <1>1, <3>2 DEF CopySet
    <3>3. CASE op = "remove"
      BY <1>1, <3>3 DEF CopySet
    <3> QED
      BY <1>4, <3>1, <3>2, <3>3
  <2>2. t = <<x>> \/ (t = <<>> /\ op # "passwd")
    BY <1>4 DEF Copies, PasswdCopies, Add, Remove
  <2> HIDE DEF x
  <2>3. Sound(x, keys, seeds') /\ seeds' = seeds
    BY <1>1, <1>4, <2>1 DEF Sound
  <2>4. CASE t = <<x>>
    <3>1. t \in Seq(CopySet) /\ Len(t) = 1 /\ t[1] = x
      BY <2>1, <2>4
    <3>2. /\ \A i \in 1..Len(t) : t[i] = x
          /\ \A i, j \in 1..Len(t) : ~(i < j)
      BY <3>1
    <3>3. x.pw = Target(call[c])
      BY <2>1 DEF Target
    <3>5. t # <<>>
      BY <3>1
    <3>4. seeds' \in Nat /\ seeds <= seeds'
      BY <1>1, <2>3
    <3> QED
      BY <1>4, <2>1, <2>3, <3>1, <3>2, <3>3, <3>4, <3>5 DEF Edited
  <2>5. CASE t = <<>> /\ op # "passwd"
    BY <1>1, <1>4, <2>3, <2>5 DEF Edited
  <2> QED
    BY <2>2, <2>4, <2>5
<1> QED
  BY <1>2, <1>3, <1>4

LEMMA UnlockTyped ==
    ASSUME KsTyped, NEW c \in Calls, Unlock(c)
    PROVE  KsTyped'
<1> DEFINE t == Copies(c, store)
           x == IF call[c].op = "backup" THEN "load" ELSE "save"
           q == [call[c] EXCEPT !.pc = x, !.mem = store, !.todo = t]
<1>1. /\ Unlocks(c)
      /\ call' = [call EXCEPT ![c] = q]
      /\ shown' = shown \cup (IF call[c].op = "phrase" THEN ShowPhrase(store) ELSE {})
      /\ UNCHANGED <<status, store, data, keys, calls, faults, ids>>
  BY DEF Unlock, Read, fileVars
<1>2. /\ seeds' \in Nat /\ seeds <= seeds' /\ t \in Seq(CopySet)
      /\ \A i \in 1..Len(t) : Sound(t[i], keys, seeds') /\ t[i].pw = Target(call[c])
  <2>1. t = Copies(c, store)
    OBVIOUS
  <2> HIDE DEF t
  <2> QED
    BY <1>1, <2>1, UnlockCopies
<1> HIDE DEF t
<1>3. /\ keys \in Nat /\ seeds \in Nat /\ keys' \in Nat /\ keys <= keys' /\ keys' = keys
      /\ call[c] \in CallSet /\ Local(call[c], keys, seeds)
  BY <1>1 DEF KsTyped
<1>4. /\ store \in CopySet /\ Sound(store, keys, seeds') /\ data \in 0..keys'
      /\ shown \subseteq 1..seeds' /\ ids \subseteq (Legacy..seeds') \ {None}
  BY <1>2, <1>3, FileMono
<1>5. Local(call[c], keys, seeds')
  BY <1>2, <1>3, LocalMono
<1>6. x \in {"save", "load"} /\ (x = "load" => call[c].op = "backup")
  OBVIOUS
<1> HIDE DEF x
<1>7. /\ q \in CallSet /\ q.pc = x /\ q.op = call[c].op /\ q.gui = call[c].gui
      /\ q.pw = call[c].pw /\ q.arg = call[c].arg /\ q.mem = store /\ q.todo = t
  BY <1>2, <1>3, <1>4, <1>6 DEF CallSet, Pcs, OpenPcs
<1> HIDE DEF q
<1>8. call[c].op \in Ops /\ store.pw = call[c].pw
  BY <1>1, <1>3 DEF CallSet, Unlocks
<1>9. Local(q, keys, seeds')
  BY <1>2, <1>3, <1>4, <1>5, <1>6, <1>7, <1>8, LoadedLocal
<1>10. /\ call' \in [Calls -> CallSet]
       /\ \A d \in Calls : Local(call'[d], keys', seeds')
  BY <1>1, <1>2, <1>3, <1>7, <1>9, OneCall
<1>11. ShowPhrase(store) \subseteq 1..seeds'
  BY <1>2, <1>4 DEF ShowPhrase, CopySet, Sound, None
<1> QED
  BY <1>1, <1>2, <1>3, <1>4, <1>10, <1>11 DEF KsTyped

LEMMA CreateMissingTyped ==
    ASSUME KsTyped, NEW c \in Calls, CreateMissing(c)
    PROVE  KsTyped'
<1> DEFINE s == Blank(call[c].pw, keys + 1)
           q == [call[c] EXCEPT !.pc = "save", !.mem = s, !.todo = <<s>>]
<1>1. /\ call[c].op \in Creating /\ keys' = keys + 1
      /\ call' = [call EXCEPT ![c] = q]
      /\ UNCHANGED <<status, store, data, seeds, calls, faults, ids, shown>>
  BY DEF CreateMissing, Read, fileVars, history
<1>2. /\ keys \in Nat /\ seeds \in Nat /\ keys' \in Nat /\ keys <= keys'
      /\ seeds' \in Nat /\ seeds <= seeds' /\ seeds' = seeds
      /\ call[c] \in CallSet /\ Local(call[c], keys, seeds)
  BY <1>1 DEF KsTyped
<1>3. /\ store \in CopySet /\ Sound(store, keys', seeds') /\ data \in 0..keys'
      /\ shown \subseteq 1..seeds' /\ ids \subseteq (Legacy..seeds') \ {None}
  BY <1>2, FileMono
<1>4. Local(call[c], keys', seeds)
  BY <1>2, LocalMono
<1>5. call[c].pw \in Passwords \cup {None} /\ call[c].op \in Ops
  BY <1>2 DEF CallSet
<1>6. s \in CopySet /\ Sound(s, keys', seeds) /\ s.pw = call[c].pw
  BY <1>1, <1>2, <1>5, BlankSound DEF Blank
<1> HIDE DEF s
<1>7. /\ <<s>> \in Seq(CopySet) /\ Len(<<s>>) = 1
      /\ \A i \in 1..Len(<<s>>) : <<s>>[i] = s
  BY <1>6
<1>8. /\ q \in CallSet /\ q.pc = "save" /\ q.op = call[c].op /\ q.gui = call[c].gui
      /\ q.pw = call[c].pw /\ q.arg = call[c].arg /\ q.mem = s /\ q.todo = <<s>>
  BY <1>2, <1>6, <1>7 DEF CallSet, Pcs, OpenPcs
<1> HIDE DEF q
<1>9. \A i \in 1..Len(<<s>>) : /\ Sound(<<s>>[i], keys', seeds)
                               /\ <<s>>[i].pw = Target(call[c])
  BY <1>1, <1>6, <1>7 DEF Target, Creating
<1>10. Local(q, keys', seeds)
  BY <1>2, <1>4, <1>5, <1>6, <1>7, <1>8, <1>9, LoadedLocal
<1>11. /\ call' \in [Calls -> CallSet]
       /\ \A d \in Calls : Local(call'[d], keys', seeds')
  BY <1>1, <1>2, <1>8, <1>10, OneCall
<1> QED
  BY <1>1, <1>2, <1>3, <1>11 DEF KsTyped

LEMMA InitKeystoreTyped ==
    ASSUME KsTyped, NEW c \in Calls, InitKeystore(c)
    PROVE  KsTyped'
<1> DEFINE t == InitCopies(call[c].pw, keys + 1, seeds + 1)
           x == IF status = "absent" THEN "save" ELSE "wipe"
           q == [call[c] EXCEPT !.pc = x, !.todo = t]
<1>1. /\ call[c].op = "init" /\ keys' = keys + 1 /\ seeds' = seeds + 1
      /\ call' = [call EXCEPT ![c] = q]
      /\ status' = "absent" /\ ids' = {}
      /\ UNCHANGED <<store, data, calls, faults, shown>>
  BY DEF InitKeystore, Read
<1>2. /\ keys \in Nat /\ seeds \in Nat /\ keys' \in Nat /\ keys <= keys'
      /\ seeds' \in Nat /\ seeds <= seeds'
      /\ call[c] \in CallSet /\ Local(call[c], keys, seeds)
  BY <1>1 DEF KsTyped
<1>3. /\ store \in CopySet /\ Sound(store, keys', seeds') /\ data \in 0..keys'
      /\ shown \subseteq 1..seeds'
  BY <1>2, FileMono
<1>4. /\ Local(call[c], keys', seeds') /\ call[c].pw \in Passwords \cup {None}
      /\ call[c].mem \in CopySet /\ Sound(call[c].mem, keys', seeds')
      /\ call[c].op \in Ops
  <2>1. Local(call[c], keys', seeds')
    BY <1>2, LocalMono
  <2> QED
    BY <1>2, <2>1 DEF CallSet, Local
<1>5. /\ t \in Seq(CopySet) /\ Len(t) = 4
      /\ \A i \in 1..4 : Sound(t[i], keys', seeds') /\ t[i].pw = call[c].pw
  <2>1. t = InitCopies(call[c].pw, keys', seeds + 1)
    BY <1>1
  <2> HIDE DEF t
  <2>2. /\ t \in Seq(CopySet) /\ Len(t) = 4
        /\ \A i \in 1..4 : Sound(t[i], keys', seeds + 1) /\ t[i].pw = call[c].pw
    BY <1>2, <1>4, <2>1, InitFour
  <2> QED
    BY <1>1, <2>2
<1>6. x \in {"save", "wipe"}
  OBVIOUS
<1> HIDE DEF t, x
<1>7. /\ q \in CallSet /\ q.pc = x /\ q.op = call[c].op /\ q.gui = call[c].gui
      /\ q.pw = call[c].pw /\ q.arg = call[c].arg /\ q.mem = call[c].mem
      /\ q.todo = t
  BY <1>2, <1>5, <1>6 DEF CallSet, Pcs, OpenPcs
<1> HIDE DEF q
<1>8. Target(call[c]) = call[c].pw
  BY <1>1 DEF Target
<1>9. Local(q, keys', seeds')
  <2>1. t # <<>>
    BY <1>5, NonEmpty, Zenon
  <2> QED
    BY <1>1, <1>2, <1>4, <1>5, <1>6, <1>7, <1>8, <2>1, LoadedLocal
<1>10. /\ call' \in [Calls -> CallSet]
       /\ \A d \in Calls : Local(call'[d], keys', seeds')
  BY <1>1, <1>2, <1>7, <1>9, OneCall
<1> QED
  BY <1>1, <1>2, <1>3, <1>10 DEF KsTyped

LEMMA RecoverTyped ==
    ASSUME KsTyped, NEW c \in Calls, Recover(c)
    PROVE  KsTyped'
<1> DEFINE t == RecoverCopies(call[c].pw, keys + 1, call[c].arg)
           q == [call[c] EXCEPT !.pc = "save", !.todo = t]
<1>1. /\ call[c].op = "recover" /\ keys' = keys + 1
      /\ call' = [call EXCEPT ![c] = q]
      /\ UNCHANGED <<status, store, data, seeds, calls, faults, ids, shown>>
  BY DEF Recover, Read, fileVars, history
<1>2. /\ keys \in Nat /\ seeds \in Nat /\ keys' \in Nat /\ keys <= keys'
      /\ seeds' \in Nat /\ seeds <= seeds' /\ seeds' = seeds
      /\ call[c] \in CallSet /\ Local(call[c], keys, seeds)
  BY <1>1 DEF KsTyped
<1>3. /\ store \in CopySet /\ Sound(store, keys', seeds') /\ data \in 0..keys'
      /\ shown \subseteq 1..seeds' /\ ids \subseteq (Legacy..seeds') \ {None}
  BY <1>2, FileMono
<1>4. /\ Local(call[c], keys', seeds') /\ call[c].pw \in Passwords \cup {None}
      /\ call[c].mem \in CopySet /\ Sound(call[c].mem, keys', seeds')
      /\ call[c].op \in Ops /\ call[c].arg \in 1..seeds
  <2>1. Local(call[c], keys', seeds')
    BY <1>2, LocalMono
  <2> QED
    BY <1>1, <1>2, <2>1 DEF CallSet, Local
<1>5. /\ t \in Seq(CopySet) /\ Len(t) = 3
      /\ \A i \in 1..3 : Sound(t[i], keys', seeds') /\ t[i].pw = call[c].pw
  <2>1. t = RecoverCopies(call[c].pw, keys', call[c].arg)
    BY <1>1
  <2> HIDE DEF t
  <2>2. PICK m \in 1..seeds : m = call[c].arg
    BY <1>4, Zenon
  <2>3. t = RecoverCopies(call[c].pw, keys', m)
    BY <2>1, <2>2, Zenon
  <2>4. ThreeFresh(t, call[c].pw, keys', seeds)
    BY <1>2, <1>4, <2>3, RecoverThree
  <2> QED
    BY <1>2, <2>4 DEF ThreeFresh
<1> HIDE DEF t
<1>7. /\ q \in CallSet /\ q.pc = "save" /\ q.op = call[c].op /\ q.gui = call[c].gui
      /\ q.pw = call[c].pw /\ q.arg = call[c].arg /\ q.mem = call[c].mem
      /\ q.todo = t
  BY <1>2, <1>5 DEF CallSet, Pcs, OpenPcs
<1> HIDE DEF q
<1>8. Target(call[c]) = call[c].pw
  BY <1>1 DEF Target
<1>9. Local(q, keys', seeds')
  BY <1>1, <1>2, <1>4, <1>5, <1>7, <1>8, LoadedLocal
<1>10. /\ call' \in [Calls -> CallSet]
       /\ \A d \in Calls : Local(call'[d], keys', seeds')
  BY <1>1, <1>2, <1>7, <1>9, OneCall
<1> QED
  BY <1>1, <1>2, <1>3, <1>10 DEF KsTyped

Ensured(t, s) ==
    \A i \in 1..Len(t) :
        /\ t[i].pw = s.pw /\ t[i].key = s.key /\ t[i].circles = s.circles
        /\ s.peer = None
        /\ \A j \in 1..Len(t) : i < j => t[i].peer = None

\* What PushIdentity and BackupIdentity do to the call: the copies of
\* EnsurePeerIdentity made from s.
LEMMA EnsureEffect ==
    ASSUME KsTyped, NEW c \in Calls, NEW s \in CopySet, Sound(s, keys, seeds),
           s.pw = call[c].pw, call[c].op \in {"backup", "push"},
           NEW o \in {"push", "ident"}, DrawSeed(s),
           call' = [call EXCEPT ![c].pc = "save", ![c].op = o,
                                ![c].todo = EnsurePeerIdentity(s, seeds + 1)],
           o = "push" => call[c].mem.pw = call[c].pw,
           UNCHANGED <<status, store, data, keys, calls, faults, ids, shown>>
    PROVE  /\ KsTyped'
           /\ \A d \in Calls \ {c} : call'[d] = call[d]
           /\ call'[c].pc = "save" /\ call'[c].op = o /\ call'[c].pw = call[c].pw
           /\ call'[c].mem = call[c].mem /\ call'[c].gui = call[c].gui
           /\ Ensured(call'[c].todo, s)
<1> DEFINE t == EnsurePeerIdentity(s, seeds + 1)
           q == [call[c] EXCEPT !.pc = "save", !.op = o, !.todo = t]
<1>1. /\ keys \in Nat /\ seeds \in Nat /\ keys' \in Nat /\ keys <= keys'
      /\ keys' = keys /\ call \in [Calls -> CallSet]
      /\ call[c] \in CallSet /\ Local(call[c], keys, seeds)
  BY DEF KsTyped
<1>2. /\ seeds' = IF s.peer = None THEN seeds + 1 ELSE seeds
      /\ seeds' \in Nat /\ seeds <= seeds'
  BY <1>1 DEF DrawSeed
<1>3. /\ t \in Seq(CopySet)
      /\ \A i \in 1..Len(t) :
            /\ Sound(t[i], keys, seeds')
            /\ t[i].pw = s.pw /\ t[i].key = s.key /\ t[i].circles = s.circles
            /\ s.peer = None
            /\ \A j \in 1..Len(t) : i < j => t[i].peer = None
  <2>1. t = EnsurePeerIdentity(s, seeds + 1)
    OBVIOUS
  <2> HIDE DEF t
  <2> QED
    BY <1>1, <1>2, <2>1, EnsureCopies
<1> HIDE DEF t
<1>4. call' = [call EXCEPT ![c] = q]
  BY DEF t
<1>5. /\ store \in CopySet /\ Sound(store, keys', seeds') /\ data \in 0..keys'
      /\ shown \subseteq 1..seeds' /\ ids \subseteq (Legacy..seeds') \ {None}
  BY <1>1, <1>2, FileMono
<1>6. /\ Local(call[c], keys', seeds')
      /\ call[c].mem \in CopySet /\ Sound(call[c].mem, keys', seeds')
  <2>1. Local(call[c], keys', seeds')
    BY <1>1, <1>2, LocalMono
  <2> QED
    BY <1>1, <2>1 DEF CallSet, Local
<1>7. /\ q \in CallSet /\ q.pc = "save" /\ q.op = o /\ q.gui = call[c].gui
      /\ q.pw = call[c].pw /\ q.arg = call[c].arg /\ q.mem = call[c].mem
      /\ q.todo = t
  BY <1>1, <1>3 DEF CallSet, Pcs, OpenPcs, Ops
<1> HIDE DEF q
<1>9. Local(q, keys', seeds')
  <2>1. \A i \in 1..Len(q.todo) :
            Sound(q.todo[i], keys', seeds') /\ q.todo[i].pw = Target(q)
    BY <1>1, <1>3, <1>7 DEF Target
  <2>2. q.op \in {"backup", "push"} => q.mem.pw = q.pw
    BY <1>7
  <2> QED
    BY <1>6, <1>7, <2>1, <2>2 DEF Local
<1>10. /\ call' \in [Calls -> CallSet]
       /\ \A d \in Calls : Local(call'[d], keys', seeds')
  BY <1>1, <1>2, <1>4, <1>7, <1>9, OneCall
<1>11. KsTyped'
  BY <1>1, <1>2, <1>5, <1>10 DEF KsTyped
<1>12. call'[c] = q /\ \A d \in Calls \ {c} : call'[d] = call[d]
  BY <1>1, <1>4
<1> HIDE DEF t
<1>13. call'[c].todo = t
  BY <1>7, <1>12
<1>14. Ensured(t, s)
  BY <1>3, Zenon DEF Ensured
<1> QED
  BY <1>7, <1>11, <1>12, <1>13, <1>14, Zenon

\* What SaveWrite does to the call: its first copy is written, the rest is left.
LEMMA SaveWriteEffect ==
    ASSUME KsTyped, NEW c \in Calls, SaveWrite(c)
    PROVE  /\ \A d \in Calls \ {c} : call'[d] = call[d]
           /\ call[c].todo # <<>> /\ Len(call[c].todo) >= 1
           /\ call[c].todo[1] = Head(call[c].todo) /\ call[c].todo[1] \in CopySet
           /\ call'[c] \in CallSet
           /\ call'[c].pc = "save" /\ call'[c].op = call[c].op
           /\ call'[c].gui = call[c].gui
           /\ call'[c].pw = call[c].pw /\ call'[c].arg = call[c].arg
           /\ call'[c].mem = IF call[c].op = "push" THEN call[c].mem
                                                    ELSE call[c].todo[1]
           /\ Len(call'[c].todo) = Len(call[c].todo) - 1
           /\ \A i \in 1..Len(call'[c].todo) :
                /\ i + 1 \in 1..Len(call[c].todo)
                /\ call'[c].todo[i] = call[c].todo[i + 1]
<1> DEFINE r == call[c]
           s == Head(r.todo)
           q == [r EXCEPT !.pc = "save",
                          !.mem = IF r.op = "push" THEN r.mem ELSE s,
                          !.todo = Tail(r.todo)]
<1>1. r \in CallSet /\ r.todo \in Seq(CopySet) /\ r.todo # <<>>
      /\ call \in [Calls -> CallSet]
  BY DEF KsTyped, CallSet, Local, SaveWrite
<1>2. call' = [call EXCEPT ![c] = q]
  BY DEF SaveWrite
<1>3. /\ Len(r.todo) >= 1 /\ r.todo[1] = s /\ s \in CopySet
      /\ Tail(r.todo) \in Seq(CopySet) /\ Len(Tail(r.todo)) = Len(r.todo) - 1
      /\ \A i \in 1..Len(Tail(r.todo)) :
            i + 1 \in 1..Len(r.todo) /\ Tail(r.todo)[i] = r.todo[i + 1]
  BY <1>1
<1>4. q \in CallSet /\ q.pc = "save" /\ q.op = r.op /\ q.gui = r.gui /\ q.pw = r.pw
      /\ q.arg = r.arg /\ q.mem = (IF r.op = "push" THEN r.mem ELSE s)
      /\ q.todo = Tail(r.todo)
  <2> DEFINE m == IF r.op = "push" THEN r.mem ELSE s
             t == Tail(r.todo)
  <2>1. m \in CopySet /\ t \in Seq(CopySet)
    BY <1>1, <1>3 DEF CallSet
  <2>2. q = [r EXCEPT !.pc = "save", !.mem = m, !.todo = t]
    OBVIOUS
  <2> HIDE DEF m, t, q
  <2>3. q \in CallSet /\ q.pc = "save" /\ q.op = r.op /\ q.gui = r.gui /\ q.pw = r.pw
        /\ q.arg = r.arg /\ q.mem = m /\ q.todo = t
    BY <1>1, <2>1, <2>2 DEF CallSet, Pcs, OpenPcs
  <2> QED
    BY <2>3 DEF m, t
<1>5. call'[c] = q /\ \A d \in Calls \ {c} : call'[d] = call[d]
  BY <1>1, <1>2
<1> HIDE DEF q, s
<1> QED
  BY <1>1, <1>3, <1>4, <1>5 DEF s

LEMMA SaveWriteTyped ==
    ASSUME KsTyped, NEW c \in Calls, SaveWrite(c)
    PROVE  KsTyped'
<1> DEFINE r == call[c]
           q == call'[c]
           s == call[c].todo[1]
<1>1. /\ \A d \in Calls \ {c} : call'[d] = call[d]
      /\ Len(r.todo) >= 1 /\ s = Head(r.todo) /\ s \in CopySet
      /\ q \in CallSet /\ q.pc = "save" /\ q.op = r.op /\ q.gui = r.gui
      /\ q.pw = r.pw /\ q.arg = r.arg
      /\ q.mem = IF r.op = "push" THEN r.mem ELSE s
      /\ Len(q.todo) = Len(r.todo) - 1
      /\ \A i \in 1..Len(q.todo) :
            i + 1 \in 1..Len(r.todo) /\ q.todo[i] = r.todo[i + 1]
  BY SaveWriteEffect
<1>2. /\ keys \in Nat /\ seeds \in Nat /\ call \in [Calls -> CallSet]
      /\ r \in CallSet /\ Local(r, keys, seeds)
      /\ r.todo \in Seq(CopySet) /\ q.todo \in Seq(CopySet)
  BY <1>1 DEF KsTyped, CallSet
<1>3. /\ UNCHANGED <<data, keys, seeds, calls, faults>>
      /\ shown' = (IF r.op \in {"init", "recover"} THEN {} ELSE shown)
      /\ ids' = ({s.peer} \ {None}) \cup
                    IF r.op \in {"init", "recover"} THEN {} ELSE ids
      /\ status' = status \/ status' \in {"ok", "torn"}
      /\ store' = store \/ store' = s
      /\ call' = [call EXCEPT ![c] = q]
  <2>1. call' = [call EXCEPT ![c] = q]
    BY <1>2 DEF SaveWrite
  <2> QED
    BY <1>1, <2>1 DEF SaveWrite, drawn
<1> HIDE DEF q, s
<1>4. /\ Target(q) = Target(r)
      /\ \A i \in 1..Len(r.todo) : Sound(r.todo[i], keys, seeds)
                                    /\ r.todo[i].pw = Target(r)
  BY <1>1, <1>2 DEF Target, Local
<1>5. Sound(s, keys, seeds) /\ s.pw = Target(r)
  BY <1>1, <1>2, <1>4 DEF s
<1>6. q.mem \in CopySet /\ Sound(q.mem, keys, seeds)
  BY <1>1, <1>2, <1>5 DEF CallSet, Local
<1>7. q.op \in {"backup", "push"} => q.mem.pw = q.pw
  BY <1>1, <1>2, <1>5 DEF Local, OpenPcs, Target, SaveWrite
<1>8. \A i \in 1..Len(q.todo) : Sound(q.todo[i], keys, seeds)
                                 /\ q.todo[i].pw = Target(r)
  BY <1>1, <1>4
<1>9. Local(q, keys, seeds)
  <2>1. q.op \in Ops
    BY <1>1 DEF CallSet
  <2> QED
    BY <1>1, <1>2, <1>4, <1>6, <1>7, <1>8, <2>1 DEF Local
<1>10. /\ call' \in [Calls -> CallSet]
       /\ \A d \in Calls : Local(call'[d], keys', seeds')
  <2>1. keys' \in Nat /\ seeds' \in Nat /\ keys <= keys' /\ seeds <= seeds'
        /\ Local(q, keys', seeds')
    BY <1>2, <1>3, <1>9
  <2> QED
    BY <1>1, <1>3, <2>1, OneCall
<1>11. s.peer \in Legacy..seeds
  BY <1>5 DEF Sound
<1> QED
  BY <1>1, <1>2, <1>3, <1>5, <1>10, <1>11 DEF KsTyped

LEMMA PushIdentityEffect ==
    ASSUME KsTyped, NEW c \in Calls, PushIdentity(c)
    PROVE  /\ KsTyped'
           /\ \A d \in Calls \ {c} : call'[d] = call[d]
           /\ call'[c].pc = "save" /\ call'[c].op = "push"
           /\ call'[c].pw = call[c].pw /\ call'[c].mem = call[c].mem
           /\ call'[c].gui = call[c].gui
           /\ Ensured(call'[c].todo, store)
<1>1. /\ store \in CopySet /\ Sound(store, keys, seeds) /\ store.pw = call[c].pw
      /\ call[c].op \in {"backup", "push"} /\ call[c].mem.pw = call[c].pw
      /\ DrawSeed(store) /\ "push" \in {"push", "ident"}
      /\ call' = [call EXCEPT ![c].pc = "save", ![c].op = "push",
                              ![c].todo = EnsurePeerIdentity(store, seeds + 1)]
      /\ UNCHANGED <<status, store, data, keys, calls, faults, ids, shown>>
  BY DEF KsTyped, PushIdentity, Unlocks, Local, OpenPcs, fileVars, history
<1> DEFINE o == "push"
<1>2. o \in {"push", "ident"} /\ o = "push"
  OBVIOUS
<1> HIDE DEF o
<1>3. call' = [call EXCEPT ![c].pc = "save", ![c].op = o,
                           ![c].todo = EnsurePeerIdentity(store, seeds + 1)]
  BY <1>1, <1>2
<1>4. /\ KsTyped'
      /\ \A d \in Calls \ {c} : call'[d] = call[d]
      /\ call'[c].pc = "save" /\ call'[c].op = o
      /\ call'[c].pw = call[c].pw /\ call'[c].mem = call[c].mem
      /\ call'[c].gui = call[c].gui
      /\ Ensured(call'[c].todo, store)
  BY <1>1, <1>2, <1>3, EnsureEffect
<1> QED
  BY <1>2, <1>4, Zenon

LEMMA BackupIdentityEffect ==
    ASSUME KsTyped, NEW c \in Calls, BackupIdentity(c), NEW s, s = call[c].mem
    PROVE  /\ KsTyped'
           /\ \A d \in Calls \ {c} : call'[d] = call[d]
           /\ call'[c].pc = "save" /\ call'[c].op = "ident"
           /\ call'[c].pw = call[c].pw /\ call'[c].mem = call[c].mem
           /\ call'[c].gui = call[c].gui
           /\ Ensured(call'[c].todo, s)
<1>1. /\ s \in CopySet /\ Sound(s, keys, seeds) /\ s.pw = call[c].pw
      /\ call[c].op \in {"backup", "push"} /\ DrawSeed(s)
      /\ call' = [call EXCEPT ![c].pc = "save", ![c].op = "ident",
                              ![c].todo = EnsurePeerIdentity(s, seeds + 1)]
      /\ UNCHANGED <<status, store, data, keys, calls, faults, ids, shown>>
  <2>1. call[c] \in CallSet /\ Local(call[c], keys, seeds)
    BY DEF KsTyped
  <2> QED
    BY <2>1 DEF BackupIdentity, Local, OpenPcs, fileVars, CallSet
<1> DEFINE o == "ident"
<1>2. o \in {"push", "ident"} /\ o = "ident" /\ o # "push"
  OBVIOUS
<1> HIDE DEF o
<1>3. call' = [call EXCEPT ![c].pc = "save", ![c].op = o,
                           ![c].todo = EnsurePeerIdentity(s, seeds + 1)]
  BY <1>1, <1>2
<1>4. /\ KsTyped'
      /\ \A d \in Calls \ {c} : call'[d] = call[d]
      /\ call'[c].pc = "save" /\ call'[c].op = o
      /\ call'[c].pw = call[c].pw /\ call'[c].mem = call[c].mem
      /\ call'[c].gui = call[c].gui
      /\ Ensured(call'[c].todo, s)
  BY <1>1, <1>2, <1>3, EnsureEffect
<1> QED
  BY <1>2, <1>4, Zenon

\* What every step of a call on the keystore leaves alone.
KsFrame(c) ==
    /\ KsTyped'
    /\ \A d \in Calls \ {c} : call'[d] = call[d]
    /\ call[c].pc \in OpenPcs \cup {"open"} /\ call'[c].pc \in OpenPcs \cup {"idle"}
    /\ call'[c].op \in {"", "push", "ident", call[c].op}
    /\ call'[c].gui = FALSE \/ call'[c].gui = call[c].gui

LEMMA KeystoreFrame ==
    ASSUME KsTyped, NEW c \in Calls, KeystoreStep(c)
    PROVE  KsFrame(c)
<1> USE DEF KsFrame
<1>0. /\ call \in [Calls -> CallSet] /\ call[c] \in CallSet
      /\ Local(call[c], keys, seeds) /\ keys \in Nat /\ seeds \in Nat
      /\ calls \in Nat /\ shown \subseteq 1..seeds /\ data \in 0..keys
      /\ status \in {"absent", "torn", "ok"}
  BY DEF KsTyped
<1>1. ASSUME Fail(c), call[c].pc \in OpenPcs \cup {"open"}
      PROVE  KsFrame(c)
  <2>1. Return(c) /\ UNCHANGED <<status, store, data, keys, seeds, calls, faults, ids, shown>>
    BY <1>1 DEF Fail, Return, fileVars, drawn, history
  <2>2. KsTyped'
    BY <2>1, ReturnTyped
  <2>3. call'[c] = Idle /\ \A d \in Calls \ {c} : call'[d] = call[d]
    BY <1>0, <2>1 DEF Return
  <2>4. Idle.pc = "idle" /\ Idle.op = "" /\ Idle.gui = FALSE
    BY DEF Idle
  <2> QED
    BY <1>1, <2>2, <2>3, <2>4, Zenon
<1>2. CASE UnlockFails(c)
  BY <1>1, <1>2 DEF UnlockFails
<1>3. CASE InitRefused(c)
  BY <1>1, <1>3 DEF InitRefused
<1>4. CASE ManifestUnreadable(c)
  BY <1>1, <1>4 DEF ManifestUnreadable, OpenPcs
<1>5. CASE Unlock(c)
  <2>1. KsTyped'
    BY <1>5, UnlockTyped
  <2>2. /\ \A d \in Calls \ {c} : call'[d] = call[d]
        /\ call'[c] = [call[c] EXCEPT
            !.pc = IF call[c].op = "backup" THEN "load" ELSE "save",
            !.mem = store, !.todo = Copies(c, store)]
    BY <1>0, <1>5 DEF Unlock, Read
  <2>3. /\ call'[c].pc = (IF call[c].op = "backup" THEN "load" ELSE "save")
        /\ call'[c].op = call[c].op /\ call'[c].gui = call[c].gui
    BY <1>0, <2>2 DEF CallSet
  <2> QED
    BY <1>5, <2>1, <2>2, <2>3 DEF Unlock, OpenPcs
<1>6. CASE CreateMissing(c)
  <2>1. KsTyped'
    BY <1>6, CreateMissingTyped
  <2>2. /\ \A d \in Calls \ {c} : call'[d] = call[d]
        /\ call'[c].pc = "save"
        /\ call'[c].op = call[c].op /\ call'[c].gui = call[c].gui
    BY <1>0, <1>6 DEF CreateMissing, Read, CallSet
  <2> QED
    BY <1>6, <2>1, <2>2 DEF CreateMissing, OpenPcs
<1>7. CASE InitKeystore(c)
  <2>1. KsTyped'
    BY <1>7, InitKeystoreTyped
  <2>2. /\ \A d \in Calls \ {c} : call'[d] = call[d]
        /\ call'[c] = [call[c] EXCEPT
            !.pc = IF status = "absent" THEN "save" ELSE "wipe",
            !.todo = InitCopies(call[c].pw, keys + 1, seeds + 1)]
    BY <1>0, <1>7 DEF InitKeystore, Read
  <2>3. /\ call'[c].pc = (IF status = "absent" THEN "save" ELSE "wipe")
        /\ call'[c].op = call[c].op /\ call'[c].gui = call[c].gui
    BY <1>0, <2>2 DEF CallSet
  <2> QED
    BY <1>7, <2>1, <2>2, <2>3 DEF InitKeystore, OpenPcs
<1>8. CASE Recover(c)
  <2>1. KsTyped'
    BY <1>8, RecoverTyped
  <2>2. /\ \A d \in Calls \ {c} : call'[d] = call[d]
        /\ call'[c].pc = "save"
        /\ call'[c].op = call[c].op /\ call'[c].gui = call[c].gui
    BY <1>0, <1>8 DEF Recover, Read, CallSet
  <2> QED
    BY <1>8, <2>1, <2>2 DEF Recover, OpenPcs
<1>9. ASSUME NEW x \in OpenPcs \ {"wipe"}, call' = [call EXCEPT ![c].pc = x],
             call[c].pc \in OpenPcs, KsTyped'
      PROVE  KsFrame(c)
  <2>1. /\ \A d \in Calls \ {c} : call'[d] = call[d]
        /\ call'[c].pc = x
        /\ call'[c].op = call[c].op /\ call'[c].gui = call[c].gui
    BY <1>0, <1>9 DEF CallSet
  <2> QED
    BY <1>9, <2>1
<1>10. \A x \in OpenPcs \ {"wipe"} : x \in Pcs \ {"stopping", "wipe"}
  BY DEF Pcs, OpenPcs
<1>11. CASE Wipe(c)
  <2>1. /\ "save" \in OpenPcs \ {"wipe"} /\ call[c].pc \in OpenPcs
        /\ call' = [call EXCEPT ![c].pc = "save"]
    BY <1>11 DEF Wipe, OpenPcs
  <2>2. KsTyped'
    <3>1. data' \in 0..keys
      BY <1>0, <1>11 DEF Wipe, None
    <3> QED
      BY <1>0, <1>10, <1>11, <2>1, <3>1, PcOnly DEF Wipe, drawn, history
  <2> QED
    BY <1>9, <2>1, <2>2
<1>12. CASE SaveTruncate(c)
  <2>1. /\ "write" \in OpenPcs \ {"wipe"} /\ call[c].pc \in OpenPcs
        /\ call' = [call EXCEPT ![c].pc = "write"]
    BY <1>12 DEF SaveTruncate, OpenPcs
  <2>2. KsTyped'
    BY <1>0, <1>10, <1>12, <2>1, PcOnly DEF SaveTruncate, drawn, history
  <2> QED
    BY <1>9, <2>1, <2>2
<1>13. CASE SaveWrite(c)
  <2>1. KsTyped'
    BY <1>13, SaveWriteTyped
  <2> QED
    BY <1>13, <2>1, SaveWriteEffect DEF SaveWrite, OpenPcs
<1>14. CASE Saved(c)
  <2> DEFINE x == CASE call[c].op = "backup" -> "load"
                    [] call[c].op = "push"   -> "manifest"
                    [] OTHER                 -> "done"
  <2>1. /\ x \in OpenPcs \ {"wipe", "write"} /\ call[c].pc \in OpenPcs
        /\ call' = [call EXCEPT ![c].pc = x]
    BY <1>14 DEF Saved, OpenPcs
  <2>2. /\ x \in {"load", "push", "manifest", "ident"} =>
                call[c].op \in {"backup", "push"}
        /\ shown' \subseteq 1..seeds
    <3>1. ShowPhrase(call[c].mem) \subseteq 1..seeds
      BY <1>0 DEF Local, Sound, CallSet, CopySet, ShowPhrase, None
    <3> QED
      BY <1>0, <1>14, <3>1 DEF Saved
  <2> HIDE DEF x
  <2>3. KsTyped'
    BY <1>0, <1>10, <1>14, <2>1, <2>2, PcOnly DEF Saved, drawn, fileVars
  <2> QED
    BY <1>9, <2>1, <2>3
<1>15. CASE LoadManifest(c)
  <2>1. /\ "push" \in OpenPcs \ {"wipe"} /\ call[c].pc \in OpenPcs
        /\ call' = [call EXCEPT ![c].pc = "push"] /\ call[c].op \in {"backup", "push"}
    BY <1>0, <1>15 DEF LoadManifest, OpenPcs, Local
  <2>2. KsTyped'
    BY <1>0, <1>10, <1>15, <2>1, PcOnly DEF LoadManifest, drawn, history, fileVars
  <2> QED
    BY <1>9, <2>1, <2>2
<1>16. CASE NoPush(c)
  <2>1. /\ "manifest" \in OpenPcs \ {"wipe"} /\ call[c].pc \in OpenPcs
        /\ call' = [call EXCEPT ![c].pc = "manifest"]
        /\ call[c].op \in {"backup", "push"}
    BY <1>0, <1>16 DEF NoPush, OpenPcs, Local
  <2>2. KsTyped'
    BY <1>0, <1>10, <1>16, <2>1, PcOnly DEF NoPush, drawn, history, fileVars
  <2> QED
    BY <1>9, <2>1, <2>2
<1>17. CASE SaveManifest(c)
  <2>1. /\ "ident" \in OpenPcs \ {"wipe"} /\ call[c].pc \in OpenPcs
        /\ call' = [call EXCEPT ![c].pc = "ident"]
        /\ call[c].op \in {"backup", "push"}
    BY <1>0, <1>17 DEF SaveManifest, OpenPcs, Local
  <2>2. call[c].mem.key \in 0..keys
    BY <1>0 DEF Local, Sound, CallSet, CopySet
  <2>3. KsTyped'
    BY <1>0, <1>10, <1>17, <2>1, <2>2, PcOnly DEF SaveManifest, drawn, history
  <2> QED
    BY <1>9, <2>1, <2>3
<1>18. CASE PushIdentity(c)
  BY <1>18, PushIdentityEffect DEF PushIdentity, OpenPcs
<1>19. CASE BackupIdentity(c)
  BY <1>19, BackupIdentityEffect DEF BackupIdentity, OpenPcs
<1> QED
  BY <1>2, <1>3, <1>4, <1>5, <1>6, <1>7, <1>8, <1>11, <1>12, <1>13, <1>14,
     <1>15, <1>16, <1>17, <1>18, <1>19 DEF KeystoreStep

-----------------------------------------------------------------------------
(* The steps beside those on the keystore. *)

\* Nothing that the keystore's properties are about changes, and a call that
\* has the keystore open afterwards had it open before.
Quiet ==
    /\ UNCHANGED <<status, store, data, ids, wantPw, wantCircles, recovered,
                   staleCopy, raced>>
    /\ halfReset => halfReset'
    /\ \A d \in Calls : call'[d].pc \in OpenPcs => call'[d] = call[d]
    /\ \A d \in Calls : call[d].pc = "wipe" => halfReset' \/ call'[d] = call[d]

\* The session keeps its password or forgets it, and no call that is about to
\* change the keystore's password ends, unless as a command or by a kill.
SessionQuiet ==
    /\ foreign => foreign'
    /\ faults # 0 => faults' # 0
    /\ session' \in {session, None}
    /\ \/ foreign' \/ faults' # 0
       \/ \A d \in Calls : call[d].pc \in OpenPcs /\ call[d].op \in Retargets =>
                call'[d] = call[d]

Typed == KsTyped /\ SeTyped

LEMMA MuKept ==
    ASSUME SeTyped, NEW c \in Calls, \A d \in Calls \ {c} : call'[d] = call[d],
           call[c].pc # "stopping", call'[c].pc # "stopping",
           UNCHANGED <<session, mu, handle, watchHandle>>
    PROVE  SeTyped'
<1>1. \A d \in Calls \ {c} : (mu' = d) = (call'[d].pc = "stopping")
  BY DEF SeTyped
<1>2. mu # c
  BY DEF SeTyped
<1> QED
  BY <1>1, <1>2 DEF SeTyped

\* A step of call c that ends it, or takes it to a pc outside the keystore.
LEMMA OuterMove ==
    ASSUME Typed, NEW c \in Calls, NEW x \in {"idle", "open", "register", "watching"},
           \/ Return(c)
           \/ call' = [call EXCEPT ![c].pc = x],
           call[c].pc # "wipe", KeepFile, UNCHANGED calls
    PROVE  /\ KsTyped' /\ Quiet
           /\ \A d \in Calls \ {c} : call'[d] = call[d]
           /\ call'[c].pc \in {"idle", x}
           /\ call[c].pc # "stopping" /\ UNCHANGED <<session, mu, handle, watchHandle>>
                => SeTyped'
<1>1. /\ UNCHANGED <<status, store, data, keys, seeds, faults, shown, ids, wantPw,
                     wantCircles, recovered, staleCopy, halfReset, raced>>
  BY DEF KeepFile, fileVars, drawn, history
<1>2. /\ call \in [Calls -> CallSet] /\ call[c] \in CallSet /\ shown \subseteq 1..seeds
      /\ calls \in Nat /\ data \in 0..keys /\ status \in {"absent", "torn", "ok"}
  BY DEF Typed, KsTyped
<1>3. x \in Pcs \ {"stopping", "wipe"} /\ x # "write" /\ x \notin OpenPcs
      /\ x \notin {"load", "push", "manifest", "ident"}
  BY DEF Pcs, OpenPcs
<1>4. /\ KsTyped'
      /\ \A d \in Calls \ {c} : call'[d] = call[d]
      /\ call'[c].pc \in {"idle", x}
  <2>1. CASE Return(c)
    <3>1. KsTyped'
      BY <1>1, <2>1, ReturnTyped DEF Typed
    <3>2. call'[c] = Idle /\ \A d \in Calls \ {c} : call'[d] = call[d]
      BY <1>2, <2>1 DEF Return
    <3>3. Idle.pc = "idle"
      BY DEF Idle
    <3> QED
      BY <3>1, <3>2, <3>3, Zenon
  <2>2. CASE call' = [call EXCEPT ![c].pc = x]
    <3>1. KsTyped'
      BY <1>1, <1>2, <1>3, <2>2, PcOnly DEF Typed
    <3>2. call'[c].pc = x /\ \A d \in Calls \ {c} : call'[d] = call[d]
      BY <1>2, <2>2 DEF CallSet
    <3> QED
      BY <3>1, <3>2
  <2> QED
    BY <2>1, <2>2
<1>5. Quiet
  <2>1. call'[c].pc \notin OpenPcs
    BY <1>4 DEF OpenPcs
  <2> QED
    BY <1>1, <1>4, <2>1 DEF Quiet
<1>6. call'[c].pc # "stopping"
  BY <1>4
<1>7. call[c].pc # "stopping" /\ UNCHANGED <<session, mu, handle, watchHandle>>
        => SeTyped'
  BY <1>4, <1>6, MuKept DEF Typed
<1> QED
  BY <1>4, <1>5, <1>7

\* A step that leaves every call as it is.
LEMMA OuterStill ==
    ASSUME Typed, UNCHANGED call, KeepFile, calls' \in Nat
    PROVE  KsTyped' /\ Quiet
<1>1. /\ UNCHANGED <<status, store, data, keys, seeds, faults, shown, ids, wantPw,
                     wantCircles, recovered, staleCopy, halfReset, raced>>
  BY DEF KeepFile, fileVars, drawn, history
<1> QED
  BY <1>1 DEF Typed, KsTyped, Quiet

LEMMA OuterBegin ==
    ASSUME Typed, NEW c \in Calls, NEW op \in Ops, NEW gui \in BOOLEAN,
           NEW pw \in Passwords \cup {None},
           NEW arg \in Nat \cup Passwords \cup Names \cup Ports,
           NEW pc \in {"open", "check"},
           op = "passwd" => arg \in Passwords,
           op \in {"add", "remove"} => arg \in Names,
           op = "recover" => arg \in 1..seeds,
           Begin(c, op, gui, pw, arg, pc), UNCHANGED seVars
    PROVE  /\ Typed' /\ Quiet
           /\ \A d \in Calls \ {c} : call'[d] = call[d]
           /\ call[c].pc = "idle" /\ call'[c].pc = pc /\ call'[c].op = op
<1>1. KsTyped'
  BY BeginTyped DEF Typed
<1>2. Idle \in CallSet
  BY IdleLocal
<1>3. call \in [Calls -> CallSet]
  BY DEF Typed, KsTyped
<1>4. /\ call'[c] = [Idle EXCEPT !.pc = pc, !.op = op, !.gui = gui, !.pw = pw,
                                 !.arg = arg]
      /\ \A d \in Calls \ {c} : call'[d] = call[d]
      /\ call[c].pc = "idle"
  BY <1>3 DEF Begin, Busy
<1>5. call'[c].pc = pc /\ call'[c].op = op
  BY <1>2, <1>4 DEF CallSet
<1>6. SeTyped'
  BY <1>4, <1>5, MuKept DEF Typed, seVars
<1>7. Quiet
  BY <1>4, <1>5 DEF Begin, Quiet, OpenPcs, fileVars, history
<1> QED
  BY <1>1, <1>4, <1>5, <1>6, <1>7 DEF Typed

LEMMA OuterKill ==
    ASSUME Typed, NEW cs \in SUBSET Calls, Kill(cs)
    PROVE  /\ KsTyped' /\ Quiet /\ faults' # 0
           /\ \A d \in Calls : call'[d] = IF d \in cs THEN Idle ELSE call[d]
<1>1. /\ call' = [d \in Calls |-> IF d \in cs THEN Idle ELSE call[d]]
      /\ faults' = faults + 1
      /\ halfReset' = (halfReset \/ \E c \in cs : call[c].pc = "wipe")
      /\ UNCHANGED <<status, store, data, keys, seeds, calls, shown, ids, wantPw,
                     wantCircles, recovered, staleCopy, raced>>
  BY DEF Kill, fileVars, drawn
<1>2. /\ call \in [Calls -> CallSet] /\ keys \in Nat /\ seeds \in Nat /\ faults \in Nat
      /\ \A d \in Calls : Local(call[d], keys, seeds)
  BY DEF Typed, KsTyped
<1>3. Idle \in CallSet /\ Local(Idle, keys, seeds) /\ Idle.pc = "idle"
  BY <1>2, IdleLocal DEF Idle
<1>4. \A d \in Calls : call'[d] = IF d \in cs THEN Idle ELSE call[d]
  BY <1>1
<1>5. call' \in [Calls -> CallSet] /\ \A d \in Calls : Local(call'[d], keys, seeds)
  BY <1>1, <1>2, <1>3
<1>6. KsTyped'
  BY <1>1, <1>2, <1>5 DEF Typed, KsTyped
<1>7. Quiet
  BY <1>1, <1>3, <1>4 DEF Quiet, OpenPcs
<1>8. faults' # 0
  BY <1>1, <1>2
<1> QED
  BY <1>4, <1>6, <1>7, <1>8

\* The user's calls.
LEMMA CallsOuter ==
    ASSUME Typed, NEW c \in Calls, NEW gui \in BOOLEAN,
           \/ CallUnlock(c) \/ CallServe(c) \/ CallWatch(c)
           \/ CallInit(c, gui) \/ CallRecover(c, gui) \/ CallPasswd(c, gui)
           \/ CallShowPhrase(c, gui) \/ CallCircle(c, gui) \/ CallBackup(c, gui)
    PROVE  /\ Typed' /\ Quiet /\ SessionQuiet /\ UNCHANGED seVars
           /\ \A d \in Calls \ {c} : call'[d] = call[d]
           /\ call[c].pc = "idle" /\ call'[c].pc \in {"open", "check"}
           /\ call'[c].pc = "open" => call'[c].op # "serve"
<1>1. PICK op \in Ops, g \in BOOLEAN, pw \in Passwords \cup {None},
           arg \in Nat \cup Passwords \cup Names \cup Ports, pc \in {"open", "check"} :
        /\ op = "passwd" => arg \in Passwords
        /\ op \in {"add", "remove"} => arg \in Names
        /\ op = "recover" => arg \in 1..seeds
        /\ pc = "open" => op # "serve"
        /\ Begin(c, op, g, pw, arg, pc)
  <2> DEFINE P(op, g, pw, arg, pc) ==
            /\ op \in Ops /\ g \in BOOLEAN /\ pw \in Passwords \cup {None}
            /\ arg \in Nat \cup Passwords \cup Names \cup Ports
            /\ pc \in {"open", "check"}
            /\ op = "passwd" => arg \in Passwords
            /\ op \in {"add", "remove"} => arg \in Names
            /\ op = "recover" => arg \in 1..seeds
            /\ pc = "open" => op # "serve"
            /\ Begin(c, op, g, pw, arg, pc)
  <2>0. /\ None \in Nat /\ 1 \in Nat /\ shown \subseteq 1..seeds
        /\ 1..seeds \subseteq Nat /\ TRUE \in BOOLEAN
        /\ \A g \in BOOLEAN : GetPassword(g) \subseteq Passwords \cup {None}
    <3>1. session \in Passwords \cup {None}
      BY DEF Typed, SeTyped
    <3>2. \A g \in BOOLEAN : GetPassword(g) \subseteq Passwords \cup {None}
      BY <3>1 DEF GetPassword
    <3> QED
      BY <3>2 DEF Typed, KsTyped, None
  <2>1. CASE CallUnlock(c)
    <3>1. PICK pw \in Passwords : Begin(c, "unlock", TRUE, pw, None, "open")
      BY <2>1 DEF CallUnlock
    <3>2. P("unlock", TRUE, pw, None, "open")
      BY <2>0, <3>1 DEF Ops
    <3> QED
      BY <3>2, Zenon
  <2>2. CASE CallServe(c)
    <3>1. PICK pw \in GetPassword(TRUE), port \in Ports :
                Begin(c, "serve", TRUE, pw, port, "check")
      BY <2>2 DEF CallServe
    <3>2. P("serve", TRUE, pw, port, "check")
      BY <2>0, <3>1 DEF Ops
    <3> QED
      BY <3>2, Zenon
  <2>3. CASE CallWatch(c)
    <3>1. PICK pw \in GetPassword(TRUE) : Begin(c, "watch", TRUE, pw, None, "check")
      BY <2>3 DEF CallWatch
    <3>2. P("watch", TRUE, pw, None, "check")
      BY <2>0, <3>1 DEF Ops
    <3> QED
      BY <3>2, Zenon
  <2>4. CASE CallInit(c, gui)
    <3>1. PICK pw \in Passwords, force \in {0, 1} :
                Begin(c, "init", gui, pw, force, "open")
      BY <2>4 DEF CallInit
    <3>2. P("init", gui, pw, force, "open")
      BY <2>0, <3>1 DEF Ops
    <3> QED
      BY <3>2, Zenon
  <2>5. CASE CallRecover(c, gui)
    <3>1. PICK pw \in Passwords, n \in shown :
                Begin(c, "recover", gui, pw, n, "open")
      BY <2>5 DEF CallRecover
    <3>2. P("recover", gui, pw, n, "open")
      BY <2>0, <3>1 DEF Ops
    <3> QED
      BY <3>2, Zenon
  <2>6. CASE CallPasswd(c, gui)
    <3>1. PICK pw \in Passwords, new \in Passwords :
                Begin(c, "passwd", gui, pw, new, "open")
      BY <2>6 DEF CallPasswd
    <3>2. P("passwd", gui, pw, new, "open")
      BY <2>0, <3>1 DEF Ops
    <3> QED
      BY <3>2, Zenon
  <2>7. CASE CallShowPhrase(c, gui)
    <3>1. PICK pw \in GetPassword(gui) : Begin(c, "phrase", gui, pw, None, "open")
      BY <2>7 DEF CallShowPhrase
    <3>2. P("phrase", gui, pw, None, "open")
      BY <2>0, <3>1 DEF Ops
    <3> QED
      BY <3>2, Zenon
  <2>8. CASE CallCircle(c, gui)
    <3>1. PICK op \in {"add", "remove"}, name \in Names, pw \in GetPassword(gui) :
                Begin(c, op, gui, pw, name, "open")
      BY <2>8 DEF CallCircle
    <3>2. P(op, gui, pw, name, "open")
      BY <2>0, <3>1 DEF Ops
    <3> QED
      BY <3>2, Zenon
  <2>9. CASE CallBackup(c, gui)
    <3>1. PICK pw \in GetPassword(gui) : Begin(c, "backup", gui, pw, None, "open")
      BY <2>9 DEF CallBackup
    <3>2. P("backup", gui, pw, None, "open")
      BY <2>0, <3>1 DEF Ops
    <3> QED
      BY <3>2, Zenon
  <2> QED
    BY <2>1, <2>2, <2>3, <2>4, <2>5, <2>6, <2>7, <2>8, <2>9
<1>2. UNCHANGED seVars
  BY DEF CallUnlock, CallServe, CallWatch, CallInit, CallRecover, CallPasswd,
         CallShowPhrase, CallCircle, CallBackup
<1>3. /\ Typed' /\ Quiet
      /\ \A d \in Calls \ {c} : call'[d] = call[d]
      /\ call[c].pc = "idle" /\ call'[c].pc = pc /\ call'[c].op = op
  BY <1>1, <1>2, OuterBegin
<1>4. SessionQuiet
  BY <1>1, <1>2, <1>3 DEF SessionQuiet, seVars, Begin, OpenPcs
<1> QED
  BY <1>1, <1>2, <1>3, <1>4

\* The steps of a call outside the keystore.
OuterStep(c) ==
    \/ SetPassword(c) \/ Finish(c)
    \/ CheckServe(c) \/ Launch(c) \/ LaunchFails(c) \/ Register(c) \/ Stopped(c)
    \/ CheckWatch(c) \/ StartWatcher(c) \/ WatchReturns(c)

LEMMA OuterStepFrame ==
    ASSUME Typed, NEW c \in Calls, OuterStep(c)
    PROVE  /\ Typed' /\ Quiet /\ (SessionQuiet \/ SetPassword(c))
           /\ \A d \in Calls \ {c} : call'[d] = call[d]
           /\ call'[c].pc \in {"idle", "open", "register", "watching"}
           /\ call'[c].pc = "open" => CheckServe(c) \/ CheckWatch(c)
           /\ call'[c].pc = "register" => Launch(c)
<1>0. /\ call \in [Calls -> CallSet] /\ call[c] \in CallSet
      /\ Local(call[c], keys, seeds)
  BY DEF Typed, KsTyped
<1>1. /\ call[c].pc \in {"done", "check", "register", "stopping", "watching"}
      /\ KeepFile /\ UNCHANGED calls
  BY DEF OuterStep, SetPassword, Finish, CheckServe, Launch, LaunchFails, Register,
         Stopped, CheckWatch, StartWatcher, WatchReturns
<1>2. PICK x \in {"idle", "open", "register", "watching"} :
        /\ Return(c) \/ call' = [call EXCEPT ![c].pc = x]
        /\ x = "open" => CheckServe(c) \/ CheckWatch(c)
        /\ x = "register" => Launch(c)
        /\ x = "watching" => StartWatcher(c)
  <2>1. CASE CheckServe(c) \/ CheckWatch(c)
    BY <2>1 DEF CheckServe, CheckWatch
  <2>2. CASE Launch(c)
    BY <2>2 DEF Launch
  <2>3. CASE StartWatcher(c)
    BY <2>3 DEF StartWatcher
  <2>4. CASE \/ SetPassword(c) \/ Finish(c) \/ LaunchFails(c) \/ Register(c)
             \/ Stopped(c) \/ WatchReturns(c)
    BY <2>4 DEF SetPassword, Finish, LaunchFails, Register, Stopped, WatchReturns
  <2> QED
    BY <2>1, <2>2, <2>3, <2>4 DEF OuterStep
<1>3. /\ KsTyped' /\ Quiet
      /\ \A d \in Calls \ {c} : call'[d] = call[d]
      /\ call'[c].pc \in {"idle", x}
      /\ call[c].pc # "stopping" /\ UNCHANGED <<session, mu, handle, watchHandle>>
            => SeTyped'
  BY <1>1, <1>2, OuterMove
<1>4. SeTyped'
  <2>1. CASE SetPassword(c)
    <3>1. session' \in Passwords \cup {None}
      BY <1>0, <2>1 DEF SetPassword, CallSet, Local
    <3>2. \A d \in Calls : (mu' = d) = (call'[d].pc = "stopping")
      <4>1. \A d \in Calls \ {c} : (mu = d) = (call'[d].pc = "stopping")
        BY <1>3 DEF Typed, SeTyped
      <4>2. mu # c /\ call'[c].pc # "stopping" /\ mu' = mu
        BY <1>2, <1>3, <2>1 DEF SetPassword, Typed, SeTyped
      <4> QED
        BY <4>1, <4>2
    <3> QED
      BY <2>1, <3>1, <3>2 DEF SetPassword, Typed, SeTyped
  <2>2. CASE Stopped(c)
    <3>1. \A d \in Calls : call'[d].pc # "stopping"
      BY <1>3, <2>2 DEF Stopped, Typed, SeTyped
    <3>2. mu' = NoCall /\ handle' = NoCall /\ UNCHANGED <<session, watchHandle>>
      BY <2>2 DEF Stopped
    <3>3. \A d \in Calls : (mu' = d) = (call'[d].pc = "stopping")
      BY <3>1, <3>2, SessionAssumption
    <3> QED
      BY <3>2, <3>3 DEF Typed, SeTyped
  <2>3. CASE Register(c) \/ WatchReturns(c)
    <3>1. /\ handle' \in Calls \cup {NoCall} /\ watchHandle' \in Calls \cup {NoCall}
          /\ UNCHANGED <<session, mu>> /\ call[c].pc # "stopping"
      BY <2>3 DEF Register, WatchReturns, Typed, SeTyped
    <3>2. \A d \in Calls \ {c} : (mu = d) = (call'[d].pc = "stopping")
      BY <1>3 DEF Typed, SeTyped
    <3>3. mu # c /\ call'[c].pc # "stopping"
      BY <1>2, <1>3, <3>1 DEF Typed, SeTyped
    <3>4. \A d \in Calls : (mu' = d) = (call'[d].pc = "stopping")
      BY <3>1, <3>2, <3>3
    <3> QED
      BY <3>1, <3>4 DEF Typed, SeTyped
  <2>4. CASE \/ Finish(c) \/ CheckServe(c) \/ Launch(c) \/ LaunchFails(c)
             \/ CheckWatch(c) \/ StartWatcher(c)
    <3>1. UNCHANGED <<session, mu, handle, watchHandle>> /\ call[c].pc # "stopping"
      BY <2>4 DEF Finish, CheckServe, Launch, LaunchFails, CheckWatch,
                  StartWatcher, seVars
    <3> QED
      BY <1>3, <3>1
  <2> QED
    BY <2>1, <2>2, <2>3, <2>4 DEF OuterStep
<1>5. SessionQuiet \/ SetPassword(c)
  <2> SUFFICES ASSUME ~SetPassword(c) PROVE SessionQuiet
    OBVIOUS
  <2>1. /\ session' = session /\ faults' = faults /\ (foreign => foreign')
        /\ \/ call[c].pc \notin OpenPcs \/ call[c].op \notin Retargets \/ foreign'
    <3>1. CASE Finish(c)
      <4>1. /\ foreign' = (foreign \/ call[c].op \in {"init", "recover", "passwd"})
            /\ session' = session /\ faults' = faults
        BY <1>1, <3>1 DEF Finish, KeepFile
      <4> QED
        BY <4>1, Zenon DEF Retargets
    <3>2. CASE Register(c) \/ Stopped(c) \/ WatchReturns(c)
      BY <1>1, <3>2 DEF Register, Stopped, WatchReturns, KeepFile, OpenPcs
    <3>3. CASE CheckServe(c) \/ CheckWatch(c)
      BY <1>1, <3>3 DEF CheckServe, CheckWatch, KeepFile, OpenPcs, seVars
    <3>4. CASE Launch(c) \/ LaunchFails(c) \/ StartWatcher(c)
      BY <1>1, <3>4 DEF Launch, LaunchFails, StartWatcher, KeepFile, Retargets, seVars
    <3> QED
      BY <3>1, <3>2, <3>3, <3>4 DEF OuterStep
  <2> QED
    BY <1>3, <2>1 DEF SessionQuiet
<1> QED
  BY <1>2, <1>3, <1>4, <1>5 DEF Typed

\* StopServe, and what happens beside the calls.
LEMMA OtherOuter ==
    ASSUME Typed,
           \/ \E c \in Calls : StopServe(c) \/ StopWatch(c) \/ Close(c) \/ KillCommand(c)
           \/ Lock \/ Signal \/ KillGui
    PROVE  Typed' /\ Quiet /\ SessionQuiet
<1>0. /\ call \in [Calls -> CallSet] /\ keys \in Nat /\ seeds \in Nat /\ calls \in Nat
      /\ \A d \in Calls : call[d] \in CallSet /\ Local(call[d], keys, seeds)
      /\ shown \subseteq 1..seeds
  BY DEF Typed, KsTyped
<1>1. ASSUME NEW c \in Calls, StopServe(c)
      PROVE  Typed' /\ Quiet /\ SessionQuiet
  <2> DEFINE q == [Idle EXCEPT !.pc = "stopping", !.gui = TRUE]
  <2>1. /\ call' = [call EXCEPT ![c] = q] /\ calls' \in Nat /\ call[c].pc = "idle"
        /\ mu = NoCall /\ mu' = c
        /\ UNCHANGED <<status, store, data, keys, seeds, faults, shown, ids, wantPw,
                       wantCircles, recovered, staleCopy, halfReset, raced,
                       session, handle, watchHandle, foreign>>
    BY <1>0, <1>1 DEF StopServe, Busy, KeepFile, fileVars, drawn, history
  <2>2. Idle \in CallSet /\ Local(Idle, keys, seeds)
    BY <1>0, IdleLocal
  <2>3. /\ q \in CallSet /\ q.pc = "stopping" /\ q.gui = TRUE /\ q.op = Idle.op
        /\ q.pw = Idle.pw /\ q.arg = Idle.arg /\ q.mem = Idle.mem /\ q.todo = Idle.todo
    BY <2>2 DEF CallSet, Pcs
  <2> HIDE DEF q
  <2>4. Local(q, keys, seeds)
    BY <2>2, <2>3 DEF Local, OpenPcs, Target
  <2>5. KsTyped'
    BY <1>0, <2>1, <2>3, <2>4, CallOnly DEF Typed
  <2>6. call'[c] = q /\ \A d \in Calls \ {c} : call'[d] = call[d]
    BY <1>0, <2>1
  <2>7. \A d \in Calls : (mu' = d) = (call'[d].pc = "stopping")
    <3>1. \A d \in Calls \ {c} : call'[d].pc # "stopping"
      BY <2>1, <2>6, SessionAssumption DEF Typed, SeTyped
    <3> QED
      BY <2>1, <2>3, <2>6, <3>1
  <2>8. SeTyped'
    BY <2>1, <2>7 DEF Typed, SeTyped
  <2>9. Quiet
    BY <2>1, <2>3, <2>6 DEF Quiet, OpenPcs
  <2>10. SessionQuiet
    BY <2>1, <2>6 DEF SessionQuiet, OpenPcs
  <2> QED
    BY <2>5, <2>8, <2>9, <2>10 DEF Typed
<1>2. ASSUME UNCHANGED call, KeepFile, calls' \in Nat, session' \in {session, None},
             UNCHANGED <<mu, foreign>>, handle' \in Calls \cup {NoCall},
             watchHandle' \in Calls \cup {NoCall}
      PROVE  Typed' /\ Quiet /\ SessionQuiet
  <2>1. KsTyped' /\ Quiet
    BY <1>2, OuterStill
  <2>2. SeTyped'
    BY <1>2 DEF Typed, SeTyped
  <2>3. SessionQuiet
    BY <1>2 DEF SessionQuiet, KeepFile
  <2> QED
    BY <2>1, <2>2, <2>3 DEF Typed
<1>3. ASSUME NEW c \in Calls, StopWatch(c) \/ Close(c)
      PROVE  Typed' /\ Quiet /\ SessionQuiet
  BY <1>0, <1>2, <1>3 DEF StopWatch, Close, ksVars, KeepFile, Typed, SeTyped
<1>4. CASE Lock \/ Signal
  BY <1>0, <1>2, <1>4 DEF Lock, Signal, ksVars, KeepFile, Typed, SeTyped
<1>5. ASSUME NEW c \in Calls, KillCommand(c)
      PROVE  Typed' /\ Quiet /\ SessionQuiet
  <2>1. {c} \in SUBSET Calls /\ Kill({c}) /\ UNCHANGED seVars /\ ~call[c].gui
    BY <1>5 DEF KillCommand
  <2>2. /\ KsTyped' /\ Quiet /\ faults' # 0
        /\ \A d \in Calls : call'[d] = IF d \in {c} THEN Idle ELSE call[d]
    BY <2>1, OuterKill
  <2>3. call[c].pc # "stopping" /\ Idle.pc = "idle"
    BY <1>0, <2>1 DEF Local, Idle
  <2>4. call'[c] = Idle /\ \A d \in Calls \ {c} : call'[d] = call[d]
    BY <2>2
  <2>5. SeTyped'
    BY <2>1, <2>3, <2>4, MuKept DEF Typed, seVars
  <2>6. SessionQuiet
    BY <2>1, <2>2 DEF SessionQuiet, seVars
  <2> QED
    BY <2>2, <2>5, <2>6 DEF Typed
<1>6. CASE KillGui
  <2> DEFINE cs == {c \in Calls : call[c].gui}
  <2>1. /\ cs \in SUBSET Calls /\ Kill(cs) /\ session' = None /\ mu' = NoCall
        /\ handle' = NoCall /\ watchHandle' = NoCall /\ UNCHANGED foreign
    BY <1>6 DEF KillGui
  <2> HIDE DEF cs
  <2>2. /\ KsTyped' /\ Quiet /\ faults' # 0
        /\ \A d \in Calls : call'[d] = IF d \in cs THEN Idle ELSE call[d]
    BY <2>1, OuterKill
  <2>3. \A d \in Calls : call'[d].pc # "stopping"
    <3>1. \A d \in Calls : call[d].pc = "stopping" => d \in cs
      BY <1>0 DEF cs, Local
    <3>2. Idle.pc = "idle"
      BY DEF Idle
    <3> QED
      BY <2>2, <3>1, <3>2
  <2>4. \A d \in Calls : (mu' = d) = (call'[d].pc = "stopping")
    BY <2>1, <2>3, SessionAssumption
  <2>5. SeTyped'
    BY <2>1, <2>4 DEF SeTyped
  <2>6. SessionQuiet
    BY <2>1, <2>2 DEF SessionQuiet
  <2> QED
    BY <2>2, <2>5, <2>6 DEF Typed
<1> QED
  BY <1>1, <1>3, <1>4, <1>5, <1>6

\* Every step is one of a call on the keystore or a quiet one.
LEMMA Steps ==
    ASSUME Typed, Next
    PROVE  /\ Typed'
           /\ \/ \E c \in Calls : KeystoreStep(c) /\ UNCHANGED seVars
              \/ Quiet /\ (SessionQuiet \/ \E c \in Calls : SetPassword(c))
<1>1. ASSUME NEW c \in Calls, KeystoreStep(c), UNCHANGED seVars
      PROVE  Typed'
  <2>1. KsFrame(c)
    BY <1>1, KeystoreFrame DEF Typed
  <2>2. call[c].pc # "stopping" /\ call'[c].pc # "stopping"
    BY <2>1 DEF KsFrame, OpenPcs
  <2>3. SeTyped'
    BY <1>1, <2>1, <2>2, MuKept DEF Typed, KsFrame, seVars
  <2> QED
    BY <2>1, <2>3 DEF Typed, KsFrame
<1>2. ASSUME NEW c \in Calls, OuterStep(c)
      PROVE  Typed' /\ Quiet /\ (SessionQuiet \/ SetPassword(c))
  BY <1>2, OuterStepFrame
<1>3. ASSUME NEW c \in Calls, NEW gui \in BOOLEAN,
             \/ CallUnlock(c) \/ CallServe(c) \/ CallWatch(c)
             \/ CallInit(c, gui) \/ CallRecover(c, gui) \/ CallPasswd(c, gui)
             \/ CallShowPhrase(c, gui) \/ CallCircle(c, gui) \/ CallBackup(c, gui)
      PROVE  Typed' /\ Quiet /\ SessionQuiet
  BY <1>3, CallsOuter
<1>4. ASSUME \/ \E c \in Calls : StopServe(c) \/ StopWatch(c) \/ Close(c)
                                    \/ KillCommand(c)
             \/ Lock \/ Signal \/ KillGui
      PROVE  Typed' /\ Quiet /\ SessionQuiet
  BY <1>4, OtherOuter
<1>5. TRUE \in BOOLEAN
  OBVIOUS
<1> QED
  BY <1>1, <1>2, <1>3, <1>4, <1>5 DEF Next, Step, OuterStep

-----------------------------------------------------------------------------
(* Types, and the phrase. *)

LEMMA TypedInit ==
    ASSUME SessionInit
    PROVE  Typed
<1>1. /\ None \in Nat /\ keys \in {0, 1} /\ seeds = 0 /\ calls = 0 /\ faults = 0
      /\ status \in {"absent", "ok"} /\ data = None /\ shown = {}
      /\ call = [c \in Calls |-> Idle] /\ ids = {store.peer} \ {None}
  BY DEF SessionInit, Init, None
<1>2. store \in CopySet /\ Sound(store, keys, 0)
  <2>1. CASE store = Blank(None, None) /\ keys = 0
    BY <2>1, BlankSound DEF None
  <2>2. ASSUME keys = 1, NEW pw \in Passwords,
               store = [Blank(pw, 1) EXCEPT !.peer = Legacy, !.circles = {Default}]
        PROVE  store \in CopySet /\ Sound(store, keys, 0)
    <3>1. store = [pw |-> pw, key |-> 1, seed |-> None, peer |-> Legacy,
                   circles |-> {Default}]
      BY <2>2 DEF Blank
    <3>2. /\ Legacy \in Int /\ 1 \in Nat /\ None \in Nat
          /\ {Default} \in SUBSET (Names \cup {Default})
      BY DEF Legacy, None
    <3>3. store \in CopySet
      BY <3>1, <3>2 DEF CopySet
    <3>4. store.key = 1 /\ store.seed = 0 /\ store.peer = -1
      BY <3>1 DEF None, Legacy
    <3>5. -1 \in -1..0 /\ 1 <= keys /\ 0 <= 0
      BY <2>2
    <3> QED
      BY <3>3, <3>4, <3>5 DEF Sound, None, Legacy
  <2> QED
    BY <2>1, <2>2 DEF SessionInit, Init
<1>3. Idle \in CallSet /\ Local(Idle, keys, 0) /\ Idle.pc = "idle"
  BY <1>1, IdleLocal DEF Idle
<1>4. KsTyped
  <2>1. store.peer \in Legacy..0
    BY <1>2 DEF Sound
  <2> QED
    BY <1>1, <1>2, <1>3, <2>1 DEF KsTyped, None
<1>5. \A c \in Calls : (mu = c) = (call[c].pc = "stopping")
  BY <1>1, <1>3, SessionAssumption DEF SessionInit
<1>6. SeTyped
  BY <1>5 DEF SeTyped, SessionInit
<1> QED
  BY <1>4, <1>6 DEF Typed

LEMMA TypedStep ==
    Typed /\ [Next]_vars => Typed'
<1>1. ASSUME Typed, UNCHANGED vars PROVE Typed'
  BY <1>1 DEF vars, ksVars, seVars, fileVars, drawn, history, Typed, KsTyped, SeTyped
<1> QED
  BY <1>1, Steps

LEMMA TypedAlways == Spec => []Typed
  BY TypedInit, TypedStep, PTL DEF Spec

\* Every state of the keystore and of the session is typed: the file and every
\* copy a call holds is made of keys, seeds, passwords and circles that exist,
\* and a.mu is held by the StopServe that waits for the daemon, by nobody else.
THEOREM TypeCorrect == Spec => []TypeOK
<1>1. ASSUME NEW s \in CopySet, Sound(s, keys, seeds) PROVE Copy(s)
  BY <1>1 DEF CopySet, Sound, Copy, Legacy
<1>2. ASSUME Typed PROVE TypeOK
  <2>1. Copy(store)
    BY <1>1, <1>2 DEF Typed, KsTyped
  <2>2. ASSUME NEW c \in Calls
        PROVE  /\ Copy(call[c].mem)
               /\ \A i \in 1..Len(call[c].todo) : Copy(call[c].todo[i])
    <3>1. /\ call[c].mem \in CopySet /\ Sound(call[c].mem, keys, seeds)
          /\ call[c].todo \in Seq(CopySet)
          /\ \A i \in 1..Len(call[c].todo) : Sound(call[c].todo[i], keys, seeds)
      BY <1>2 DEF Typed, KsTyped, CallSet, Local
    <3>2. \A i \in 1..Len(call[c].todo) : call[c].todo[i] \in CopySet
      BY <3>1
    <3> QED
      BY <1>1, <3>1, <3>2
  <2> QED
    BY <1>2, <2>1, <2>2 DEF Typed, KsTyped, SeTyped, TypeOK, KeystoreTypeOK
<1>3. Typed => TypeOK
  BY <1>2
<1> QED
  BY <1>3, TypedAlways, PTL

\* The stored identity is the one its phrase recovers, for any number of calls
\* that overlap in any way, and any kills.
THEOREM PhraseRecovers == Spec => []PhraseOfIdentity
<1>1. Typed => PhraseOfIdentity
  BY DEF Typed, KsTyped, Sound, PhraseOfIdentity
<1> QED
  BY <1>1, TypedAlways, PTL

-----------------------------------------------------------------------------
(* What the steps on the keystore do. *)

\* c opens the keystore at a time nobody else has it open, or raced is set.
Reads(c) ==
    /\ call[c].pc = "open"
    /\ ~raced' => ~raced /\ \A d \in Calls \ {c} : call[d].pc \notin OpenPcs
    /\ \A d \in Calls \ {c} : call'[d] = call[d]
    /\ call'[c].op = call[c].op /\ call'[c].pw = call[c].pw
    /\ call'[c].arg = call[c].arg

LEMMA UnlockEffect ==
    ASSUME KsTyped, NEW c \in Calls, Unlock(c)
    PROVE  /\ status = "ok" /\ store.pw = call[c].pw
           /\ UNCHANGED <<status, store, data, ids, wantPw, wantCircles, recovered,
                          staleCopy, halfReset, faults>>
           /\ Reads(c)
           /\ call[c].op \in Opening \cup Creating
           /\ call'[c].pc = IF call[c].op = "backup" THEN "load" ELSE "save"
           /\ call'[c].mem = store /\ Edited(call'[c].todo, store, call[c])
<1> DEFINE t == Copies(c, store)
<1>0. call \in [Calls -> CallSet] /\ call[c] \in CallSet
  BY DEF KsTyped
<1>1. call'[c] = [call[c] EXCEPT
            !.pc = IF call[c].op = "backup" THEN "load" ELSE "save",
            !.mem = store, !.todo = t]
      /\ \A d \in Calls \ {c} : call'[d] = call[d]
  BY <1>0 DEF Unlock, Read
<1>2. Edited(t, store, call[c])
  <2>1. t = Copies(c, store)
    OBVIOUS
  <2> HIDE DEF t
  <2> QED
    BY <2>1, UnlockCopies
<1> HIDE DEF t
<1>3. /\ call'[c].pc = (IF call[c].op = "backup" THEN "load" ELSE "save")
      /\ call'[c].op = call[c].op /\ call'[c].pw = call[c].pw
      /\ call'[c].arg = call[c].arg /\ call'[c].mem = store /\ call'[c].todo = t
  BY <1>0, <1>1 DEF CallSet
<1>4. raced' = (raced \/ \E d \in Calls \ {c} : Open(d)) /\ call[c].pc = "open"
  BY DEF Unlock, Read
<1>5. Reads(c)
  BY <1>1, <1>3, <1>4 DEF Reads, Open, OpenPcs
<1>6. /\ status = "ok" /\ store.pw = call[c].pw
      /\ UNCHANGED <<status, store, data, ids, wantPw, wantCircles, recovered,
                     staleCopy, halfReset, faults>>
      /\ call[c].op \in Opening \cup Creating
  BY DEF Unlock, Unlocks, fileVars
<1> QED
  BY <1>2, <1>3, <1>5, <1>6

LEMMA CreateMissingEffect ==
    ASSUME KsTyped, NEW c \in Calls, CreateMissing(c)
    PROVE  /\ status = "absent"
           /\ UNCHANGED <<status, store, data, ids, wantPw, wantCircles, recovered,
                          staleCopy, halfReset, faults>>
           /\ Reads(c)
           /\ call[c].op \in Creating /\ call'[c].pc = "save"
           /\ call'[c].mem.circles = {}
           /\ Len(call'[c].todo) = 1 /\ call'[c].todo[1] = call'[c].mem
<1> DEFINE s == Blank(call[c].pw, keys + 1)
<1>0. call \in [Calls -> CallSet] /\ call[c] \in CallSet
  BY DEF KsTyped
<1>1. call'[c] = [call[c] EXCEPT !.pc = "save", !.mem = s, !.todo = <<s>>]
      /\ \A d \in Calls \ {c} : call'[d] = call[d]
  BY <1>0 DEF CreateMissing, Read
<1>2. s.circles = {}
  BY DEF Blank
<1> HIDE DEF s
<1>3. /\ call'[c].pc = "save"
      /\ call'[c].op = call[c].op /\ call'[c].pw = call[c].pw
      /\ call'[c].arg = call[c].arg /\ call'[c].mem = s /\ call'[c].todo = <<s>>
  BY <1>0, <1>1 DEF CallSet
<1>4. raced' = (raced \/ \E d \in Calls \ {c} : Open(d)) /\ call[c].pc = "open"
  BY DEF CreateMissing, Read
<1>5. Reads(c)
  BY <1>1, <1>3, <1>4 DEF Reads, Open, OpenPcs
<1>6. /\ status = "absent"
      /\ UNCHANGED <<status, store, data, ids, wantPw, wantCircles, recovered,
                     staleCopy, halfReset, faults>>
      /\ call[c].op \in Creating
  BY DEF CreateMissing, fileVars, history
<1>7. Len(<<s>>) = 1 /\ <<s>>[1] = s
  OBVIOUS
<1> QED
  BY <1>2, <1>3, <1>5, <1>6, <1>7

LEMMA InitKeystoreEffect ==
    ASSUME KsTyped, NEW c \in Calls, InitKeystore(c)
    PROVE  /\ status' = "absent" /\ ids' = {} /\ wantCircles' = {}
           /\ UNCHANGED <<store, data, wantPw, recovered, staleCopy, halfReset, faults>>
           /\ Reads(c)
           /\ call[c].op = "init"
           /\ call'[c].pc = IF status = "absent" THEN "save" ELSE "wipe"
           /\ Len(call'[c].todo) = 4
           /\ \A i \in 1..4 :
                call'[c].todo[i].circles = IF i = 4 THEN {Default} ELSE {}
<1> DEFINE t == InitCopies(call[c].pw, keys + 1, seeds + 1)
<1>0. /\ call \in [Calls -> CallSet] /\ call[c] \in CallSet /\ keys + 1 \in Nat
      /\ seeds \in Nat
  BY DEF KsTyped
<1>1. call'[c] = [call[c] EXCEPT
            !.pc = IF status = "absent" THEN "save" ELSE "wipe", !.todo = t]
      /\ \A d \in Calls \ {c} : call'[d] = call[d]
  BY <1>0 DEF InitKeystore, Read
<1>2. /\ Len(t) = 4
      /\ \A i \in 1..4 : t[i].circles = IF i = 4 THEN {Default} ELSE {}
  <2>1. t = InitCopies(call[c].pw, keys + 1, seeds + 1)
        /\ call[c].pw \in Passwords \cup {None}
    BY <1>0 DEF CallSet
  <2> HIDE DEF t
  <2> QED
    BY <1>0, <2>1, InitFour
<1> HIDE DEF t
<1>3. /\ call'[c].pc = (IF status = "absent" THEN "save" ELSE "wipe")
      /\ call'[c].op = call[c].op /\ call'[c].pw = call[c].pw
      /\ call'[c].arg = call[c].arg /\ call'[c].todo = t
  BY <1>0, <1>1 DEF CallSet
<1>4. raced' = (raced \/ \E d \in Calls \ {c} : Open(d)) /\ call[c].pc = "open"
  BY DEF InitKeystore, Read
<1>5. Reads(c)
  BY <1>1, <1>3, <1>4 DEF Reads, Open, OpenPcs
<1>6. /\ status' = "absent" /\ ids' = {} /\ wantCircles' = {}
      /\ UNCHANGED <<store, data, wantPw, recovered, staleCopy, halfReset, faults>>
      /\ call[c].op = "init"
  BY DEF InitKeystore
<1> QED
  BY <1>2, <1>3, <1>5, <1>6

LEMMA RecoverEffect ==
    ASSUME KsTyped, NEW c \in Calls, Recover(c)
    PROVE  /\ UNCHANGED <<status, store, data, ids, wantPw, wantCircles, recovered,
                          staleCopy, halfReset, faults>>
           /\ Reads(c)
           /\ call[c].op = "recover" /\ call'[c].pc = "save"
           /\ Len(call'[c].todo) = 3
           /\ \A i \in 1..3 : call'[c].todo[i].circles = {}
<1> DEFINE t == RecoverCopies(call[c].pw, keys + 1, call[c].arg)
<1>0. /\ call \in [Calls -> CallSet] /\ call[c] \in CallSet /\ keys + 1 \in Nat
      /\ seeds \in Nat /\ call[c].pw \in Passwords \cup {None}
      /\ call[c].arg \in 1..seeds
  BY DEF KsTyped, CallSet, Local, Recover
<1>1. call'[c] = [call[c] EXCEPT !.pc = "save", !.todo = t]
      /\ \A d \in Calls \ {c} : call'[d] = call[d]
  BY <1>0 DEF Recover, Read
<1>2. Len(t) = 3 /\ \A i \in 1..3 : t[i].circles = {}
  <2>1. t = RecoverCopies(call[c].pw, keys + 1, call[c].arg)
    OBVIOUS
  <2> HIDE DEF t
  <2>2. PICK m \in 1..seeds : m = call[c].arg
    BY <1>0, Zenon
  <2>3. t = RecoverCopies(call[c].pw, keys + 1, m)
    BY <2>1, <2>2, Zenon
  <2>4. ThreeFresh(t, call[c].pw, keys + 1, seeds)
    BY <1>0, <2>3, RecoverThree
  <2> QED
    BY <2>4 DEF ThreeFresh
<1> HIDE DEF t
<1>3. /\ call'[c].pc = "save"
      /\ call'[c].op = call[c].op /\ call'[c].pw = call[c].pw
      /\ call'[c].arg = call[c].arg /\ call'[c].todo = t
  BY <1>0, <1>1 DEF CallSet
<1>4. raced' = (raced \/ \E d \in Calls \ {c} : Open(d)) /\ call[c].pc = "open"
  BY DEF Recover, Read
<1>5. Reads(c)
  BY <1>1, <1>3, <1>4 DEF Reads, Open, OpenPcs
<1>6. /\ UNCHANGED <<status, store, data, ids, wantPw, wantCircles, recovered,
                     staleCopy, halfReset, faults>>
      /\ call[c].op = "recover"
  BY DEF Recover, fileVars, history
<1> QED
  BY <1>2, <1>3, <1>5, <1>6

\* The steps on the keystore that do more than give up.
CoreStep(c) ==
    \/ Unlock(c) \/ CreateMissing(c) \/ InitKeystore(c) \/ Wipe(c) \/ Recover(c)
    \/ SaveTruncate(c) \/ SaveWrite(c) \/ Saved(c) \/ LoadManifest(c)
    \/ PushIdentity(c) \/ NoPush(c) \/ SaveManifest(c) \/ BackupIdentity(c)

LEMMA CoreSteps ==
    ASSUME Typed, Next
    PROVE  \/ \E c \in Calls : CoreStep(c) /\ UNCHANGED seVars
           \/ Quiet /\ (SessionQuiet \/ \E c \in Calls : SetPassword(c))
<1>1. ASSUME NEW c \in Calls, UNCHANGED seVars,
             UnlockFails(c) \/ InitRefused(c) \/ ManifestUnreadable(c)
      PROVE  Quiet /\ SessionQuiet
  <2>1. /\ call \in [Calls -> CallSet] /\ Local(call[c], keys, seeds)
    BY DEF Typed, KsTyped
  <2>2. /\ call' = [call EXCEPT ![c] = Idle]
        /\ UNCHANGED <<status, store, data, ids, wantPw, wantCircles, recovered,
                       staleCopy, raced, halfReset, faults, foreign, session>>
        /\ call[c].pc \in {"open", "load"}
    BY <1>1 DEF UnlockFails, InitRefused, ManifestUnreadable, Fail, fileVars,
                history, seVars
  <2>3. call'[c] = Idle /\ \A d \in Calls \ {c} : call'[d] = call[d]
    BY <2>1, <2>2
  <2>4. Idle.pc \notin OpenPcs
    BY DEF Idle, OpenPcs
  <2>5. call[c].pc \in OpenPcs => call[c].op \notin Retargets
    BY <2>1, <2>2 DEF Local, OpenPcs, Retargets
  <2>6. Quiet
    BY <2>2, <2>3, <2>4 DEF Quiet
  <2>7. SessionQuiet
    BY <2>2, <2>3, <2>5 DEF SessionQuiet
  <2> QED
    BY <2>6, <2>7
<1>2. ASSUME NEW c \in Calls, KeystoreStep(c), UNCHANGED seVars
      PROVE  CoreStep(c) \/ (Quiet /\ SessionQuiet)
  BY <1>1, <1>2 DEF KeystoreStep, CoreStep
<1> QED
  BY <1>2, Steps

\* Unless calls have raced, the call that makes a step on the keystore is the
\* only one that has it open, before and after the step.
LEMMA Alone ==
    ASSUME Typed, Solo, NEW c \in Calls, CoreStep(c), ~raced'
    PROVE  /\ ~raced
           /\ \A d \in Calls \ {c} : call[d].pc \notin OpenPcs /\ call'[d] = call[d]
           /\ \A d \in Calls : call'[d].pc \in OpenPcs => d = c
<1>1. KsTyped /\ KsFrame(c)
  BY KeystoreFrame DEF Typed, CoreStep, KeystoreStep
<1>2. CASE Unlock(c) \/ CreateMissing(c) \/ InitKeystore(c) \/ Recover(c)
  <2>1. Reads(c)
    BY <1>1, <1>2, UnlockEffect, CreateMissingEffect, InitKeystoreEffect, RecoverEffect
  <2> QED
    BY <2>1 DEF Reads
<1>3. CASE \/ Wipe(c) \/ SaveTruncate(c) \/ SaveWrite(c) \/ Saved(c) \/ LoadManifest(c)
           \/ PushIdentity(c) \/ NoPush(c) \/ SaveManifest(c) \/ BackupIdentity(c)
  <2>1. raced' = raced /\ call[c].pc \in OpenPcs
    BY <1>3 DEF Wipe, SaveTruncate, SaveWrite, Saved, LoadManifest, PushIdentity,
                NoPush, SaveManifest, BackupIdentity, OpenPcs
  <2> QED
    BY <1>1, <2>1 DEF Solo, Open, OpenPcs, KsFrame
<1> QED
  BY <1>2, <1>3 DEF CoreStep

LEMMA PcEffect ==
    ASSUME KsTyped, NEW c \in Calls, NEW x, call' = [call EXCEPT ![c].pc = x]
    PROVE  /\ call'[c].pc = x /\ call'[c].op = call[c].op /\ call'[c].pw = call[c].pw
           /\ call'[c].arg = call[c].arg /\ call'[c].mem = call[c].mem
           /\ call'[c].todo = call[c].todo
<1>1. call \in [Calls -> CallSet] /\ call[c] \in CallSet
  BY DEF KsTyped
<1> QED
  BY <1>1 DEF CallSet

LEMMA SoloCore ==
    ASSUME Typed, Solo, NEW c \in Calls, CoreStep(c)
    PROVE  Solo'
<1> SUFFICES ASSUME ~raced' PROVE Solo'
  BY DEF Solo
<1>1. /\ ~raced
      /\ \A d \in Calls \ {c} : call[d].pc \notin OpenPcs /\ call'[d] = call[d]
      /\ \A d \in Calls : call'[d].pc \in OpenPcs => d = c
  BY Alone
<1>2. KsTyped
  BY DEF Typed
<1>3. /\ call'[c].pc = "write" => status' = "torn"
      /\ Settled(c)' => status' = "ok"
  <2>1. CASE Unlock(c)
    BY <1>2, <2>1, UnlockEffect
  <2>2. CASE CreateMissing(c)
    <3>1. call'[c].pc = "save" /\ Len(call'[c].todo) = 1
      BY <1>2, <2>2, CreateMissingEffect
    <3>2. call'[c].todo # <<>>
      BY <3>1, NonEmpty, Zenon
    <3> QED
      BY <3>1, <3>2 DEF Settled
  <2>3. CASE InitKeystore(c)
    <3>1. call'[c].pc \in {"save", "wipe"} /\ Len(call'[c].todo) = 4
      BY <1>2, <2>3, InitKeystoreEffect
    <3>2. call'[c].todo # <<>>
      BY <3>1, NonEmpty, Zenon
    <3> QED
      BY <3>1, <3>2 DEF Settled
  <2>4. CASE Recover(c)
    <3>1. call'[c].pc = "save" /\ Len(call'[c].todo) = 3
      BY <1>2, <2>4, RecoverEffect
    <3>2. call'[c].todo # <<>>
      BY <3>1, NonEmpty, Zenon
    <3> QED
      BY <3>1, <3>2 DEF Settled
  <2>5. CASE Wipe(c)
    <3>1. call'[c].pc = "save" /\ call'[c].todo = call[c].todo /\ call[c].pc = "wipe"
      BY <1>2, <2>5, PcEffect DEF Wipe
    <3>2. call[c].todo # <<>>
      BY <1>2, <3>1 DEF KsTyped, Local
    <3> QED
      BY <3>1, <3>2 DEF Settled
  <2>6. CASE SaveTruncate(c)
    <3>1. call'[c].pc = "write" /\ status' = "torn"
      BY <1>2, <2>6, PcEffect DEF SaveTruncate
    <3> QED
      BY <3>1 DEF Settled
  <2>7. CASE SaveWrite(c)
    <3>1. call'[c].pc = "save"
      BY <1>2, <2>7, SaveWriteEffect
    <3>2. status = "torn"
      BY <1>1, <2>7 DEF Solo, SaveWrite
    <3> QED
      BY <2>7, <3>1, <3>2 DEF SaveWrite
  <2>8. CASE \/ Saved(c) \/ LoadManifest(c) \/ NoPush(c) \/ SaveManifest(c)
             \/ PushIdentity(c) \/ BackupIdentity(c)
    <3>1. Settled(c) /\ status' = status
      BY <2>8 DEF Saved, LoadManifest, NoPush, SaveManifest, PushIdentity,
                  BackupIdentity, Settled, fileVars
    <3>2. status' = "ok"
      BY <1>1, <3>1 DEF Solo
    <3>3. call'[c].pc # "write"
      <4>1. CASE LoadManifest(c) \/ NoPush(c) \/ SaveManifest(c)
        BY <1>2, <4>1, PcEffect DEF LoadManifest, NoPush, SaveManifest
      <4>2. CASE PushIdentity(c) \/ BackupIdentity(c)
        BY <1>2, <4>2, PushIdentityEffect, BackupIdentityEffect
      <4>3. CASE Saved(c)
        <5> DEFINE x == CASE call[c].op = "backup" -> "load"
                          [] call[c].op = "push"   -> "manifest"
                          [] OTHER                 -> "done"
        <5>1. call' = [call EXCEPT ![c].pc = x] /\ x # "write"
          BY <4>3 DEF Saved
        <5> HIDE DEF x
        <5> QED
          BY <1>2, <5>1, PcEffect
      <4> QED
        BY <2>8, <4>1, <4>2, <4>3
    <3> QED
      BY <3>2, <3>3
  <2> QED
    BY <2>1, <2>2, <2>3, <2>4, <2>5, <2>6, <2>7, <2>8 DEF CoreStep
<1>4. \A d \in Calls : Open(d)' => d = c
  BY <1>1 DEF Open, OpenPcs
<1>5. \A d \in Calls : Settled(d)' => d = c
  BY <1>1 DEF Settled, OpenPcs
<1>6. \A d \in Calls : call'[d].pc = "write" => d = c
  BY <1>1 DEF OpenPcs
<1> QED
  BY <1>3, <1>4, <1>5, <1>6 DEF Solo

LEMMA SoloQuiet ==
    ASSUME Solo, Quiet
    PROVE  Solo'
<1>1. \A d \in Calls : Open(d)' => Open(d)
  BY DEF Quiet, Open, OpenPcs
<1>2. \A d \in Calls : Settled(d)' => Settled(d)
  BY DEF Quiet, Settled, OpenPcs
<1>3. \A d \in Calls : call'[d].pc = "write" => call[d].pc = "write"
  BY DEF Quiet, OpenPcs
<1> QED
  BY <1>1, <1>2, <1>3 DEF Solo, Quiet

-----------------------------------------------------------------------------
(* The identity. *)

LEMMA NoIds ==
    ASSUME KsTyped, ids \subseteq {None}
    PROVE  ids = {}
  BY DEF KsTyped

\* What Identity says of the copies t that a call is about to write.
SameIdentity(t, known) ==
    \A i \in 1..Len(t) :
        /\ known \subseteq {t[i].peer}
        /\ \A j \in 1..Len(t) : i < j => t[i].peer = None

LEMMA IdentityCore ==
    ASSUME Typed, Solo, Identity, NEW c \in Calls, CoreStep(c)
    PROVE  Identity'
<1> SUFFICES ASSUME ~raced', ~staleCopy' PROVE Identity'
  BY DEF Identity
<1>1. /\ ~raced
      /\ \A d \in Calls \ {c} : call[d].pc \notin OpenPcs /\ call'[d] = call[d]
      /\ \A d \in Calls : call'[d].pc \in OpenPcs => d = c
  BY Alone
<1>2. KsTyped
  BY DEF Typed
<1>3. ~staleCopy
  <2>1. CASE BackupIdentity(c)
    BY <2>1 DEF BackupIdentity
  <2>2. CASE ~BackupIdentity(c)
    <3>1. staleCopy' = staleCopy
      BY <2>2 DEF CoreStep, Unlock, CreateMissing, InitKeystore, Wipe, Recover,
            SaveTruncate, SaveWrite, Saved, LoadManifest, PushIdentity, NoPush,
            SaveManifest, history
    <3> QED
      BY <3>1
  <2> QED
    BY <2>1, <2>2
<1>4. /\ status = "ok" => ids \subseteq {store.peer}
      /\ status = "absent" => ids = {}
      /\ call[c].pc \in OpenPcs /\ call[c].op \notin Resets =>
            SameIdentity(call[c].todo, ids)
  BY <1>1, <1>3 DEF Identity, Open, OpenPcs, SameIdentity
<1>5. /\ status' = "ok" => ids' \subseteq {store'.peer}
      /\ status' = "absent" => ids' = {}
      /\ call'[c].op \notin Resets => SameIdentity(call'[c].todo, ids')
  <2>1. CASE Unlock(c)
    <3>1. /\ status = "ok" /\ UNCHANGED <<status, store, ids>>
          /\ Edited(call'[c].todo, store, call[c])
      BY <1>2, <2>1, UnlockEffect
    <3>2. store.peer = None => ids = {}
      BY <1>2, <1>4, <3>1, NoIds
    <3>3. SameIdentity(call'[c].todo, ids)
      BY <1>4, <3>1, <3>2 DEF Edited, SameIdentity
    <3> QED
      BY <1>4, <3>1, <3>3
  <2>2. CASE CreateMissing(c)
    <3>1. /\ status = "absent" /\ UNCHANGED <<status, store, ids>>
          /\ Len(call'[c].todo) = 1
      BY <1>2, <2>2, CreateMissingEffect
    <3>2. ids = {}
      BY <1>4, <3>1
    <3>3. SameIdentity(call'[c].todo, ids)
      BY <3>1, <3>2 DEF SameIdentity
    <3> QED
      BY <3>1, <3>2, <3>3
  <2>3. CASE InitKeystore(c)
    <3>1. /\ status' = "absent" /\ ids' = {} /\ call'[c].op = "init"
      BY <1>2, <2>3, InitKeystoreEffect DEF Reads
    <3> QED
      BY <3>1 DEF Resets
  <2>4. CASE Recover(c)
    <3>1. /\ UNCHANGED <<status, store, ids>> /\ call'[c].op = "recover"
      BY <1>2, <2>4, RecoverEffect DEF Reads
    <3> QED
      BY <1>4, <3>1 DEF Resets
  <2>5. CASE Wipe(c)
    <3>1. call'[c].op = call[c].op /\ call[c].op = "init"
      BY <1>2, <2>5, PcEffect DEF Wipe, KsTyped, Local
    <3> QED
      BY <1>4, <2>5, <3>1 DEF Wipe, Resets, history
  <2>6. CASE SaveTruncate(c)
    <3>1. /\ call'[c].op = call[c].op /\ call'[c].todo = call[c].todo
          /\ call[c].pc \in OpenPcs /\ status' = "torn" /\ ids' = ids
      BY <1>2, <2>6, PcEffect DEF SaveTruncate, OpenPcs, history
    <3> QED
      BY <1>4, <3>1
  <2>7. CASE SaveWrite(c)
    <3> DEFINE t == call[c].todo
               u == call'[c].todo
    <3>1. /\ Len(t) >= 1 /\ t[1] = Head(t) /\ call'[c].op = call[c].op
          /\ \A i \in 1..Len(u) : i + 1 \in 1..Len(t) /\ u[i] = t[i + 1]
          /\ Len(u) = Len(t) - 1 /\ call[c].todo \in Seq(CopySet)
      BY <1>2, <2>7, SaveWriteEffect DEF KsTyped, CallSet
    <3>2. status = "torn" /\ call[c].pc \in OpenPcs
      BY <1>1, <2>7 DEF Solo, SaveWrite, OpenPcs
    <3>3. /\ store' = t[1] /\ status' = "ok"
          /\ call[c].op \in Resets => ids' = {t[1].peer} \ {None}
          /\ call[c].op \notin Resets => ids' = ({t[1].peer} \ {None}) \cup ids
      BY <2>7, <3>1, <3>2 DEF SaveWrite, Resets
    <3> HIDE DEF u, t
    <3>4. CASE call[c].op \in Resets
      BY <3>1, <3>3, <3>4
    <3>5. CASE call[c].op \notin Resets
      <4>1. SameIdentity(t, ids) /\ 1 \in 1..Len(t)
        BY <1>4, <3>1, <3>2, <3>5 DEF t
      <4>2. ids' \subseteq {t[1].peer}
        BY <3>3, <3>5, <4>1 DEF SameIdentity
      <4>3. ASSUME NEW i \in 1..Len(u) PROVE ids' \subseteq {u[i].peer}
        <5>1. i + 1 \in 1..Len(t) /\ 1 < i + 1 /\ u[i] = t[i + 1]
          BY <3>1
        <5>2. t[1].peer = None
          BY <4>1, <5>1 DEF SameIdentity
        <5>3. ids \subseteq {t[i + 1].peer}
          BY <4>1, <5>1 DEF SameIdentity
        <5> QED
          BY <3>3, <3>5, <5>1, <5>2, <5>3
      <4>4. ASSUME NEW i \in 1..Len(u), NEW j \in 1..Len(u), i < j
            PROVE  u[i].peer = None
        <5>1. /\ i + 1 \in 1..Len(t) /\ j + 1 \in 1..Len(t) /\ i + 1 < j + 1
              /\ u[i] = t[i + 1]
          BY <3>1, <4>4
        <5> QED
          BY <4>1, <5>1 DEF SameIdentity
      <4>5. SameIdentity(u, ids')
        BY <4>3, <4>4 DEF SameIdentity
      <4> QED
        BY <3>1, <3>3, <4>2, <4>5 DEF u
    <3> QED
      BY <3>4, <3>5
  <2>8. CASE Saved(c) \/ LoadManifest(c) \/ NoPush(c) \/ SaveManifest(c)
    <3>1. PICK x : call' = [call EXCEPT ![c].pc = x]
      BY <2>8 DEF Saved, LoadManifest, NoPush, SaveManifest
    <3>2. call'[c].op = call[c].op /\ call'[c].todo = call[c].todo
      BY <1>2, <3>1, PcEffect
    <3>3. UNCHANGED <<status, store, ids>> /\ call[c].pc \in OpenPcs
      BY <2>8 DEF Saved, LoadManifest, NoPush, SaveManifest, fileVars, history, OpenPcs
    <3> QED
      BY <1>4, <3>2, <3>3
  <2>9. CASE PushIdentity(c)
    <3>1. Ensured(call'[c].todo, store)
      BY <1>2, <2>9, PushIdentityEffect
    <3>2. status = "ok" /\ UNCHANGED <<status, store, ids>>
      BY <2>9 DEF PushIdentity, Unlocks, fileVars, history
    <3>3. store.peer = None => ids = {}
      BY <1>2, <1>4, <3>2, NoIds
    <3>4. SameIdentity(call'[c].todo, ids)
      BY <3>1, <3>3 DEF Ensured, SameIdentity
    <3> QED
      BY <1>4, <3>2, <3>4
  <2>10. CASE BackupIdentity(c)
    <3>1. Ensured(call'[c].todo, call[c].mem)
      BY <1>2, <2>10, BackupIdentityEffect
    <3>2. UNCHANGED <<status, store, ids>> /\ Settled(c)
      BY <2>10 DEF BackupIdentity, fileVars, Settled
    <3>3. status = "ok"
      BY <1>1, <3>2 DEF Solo
    <3>4. call[c].mem.peer = None => store.peer = None
      BY <2>10 DEF BackupIdentity
    <3>5. call[c].mem.peer = None => ids = {}
      BY <1>2, <1>4, <3>3, <3>4, NoIds
    <3>6. SameIdentity(call'[c].todo, ids)
      BY <3>1, <3>5 DEF Ensured, SameIdentity
    <3> QED
      BY <1>4, <3>2, <3>6
  <2> QED
    BY <2>1, <2>2, <2>3, <2>4, <2>5, <2>6, <2>7, <2>8, <2>9, <2>10 DEF CoreStep
<1>6. \A d \in Calls : Open(d)' => d = c
  BY <1>1 DEF Open, OpenPcs
<1> QED
  BY <1>5, <1>6 DEF Identity, SameIdentity

LEMMA IdentityQuiet ==
    ASSUME Identity, Quiet
    PROVE  Identity'
<1>1. \A d \in Calls : Open(d)' => Open(d) /\ call'[d] = call[d]
  BY DEF Quiet, Open, OpenPcs
<1> QED
  BY <1>1 DEF Identity, Quiet

LEMMA NoneOpen ==
    ASSUME SessionInit
    PROVE  /\ \A c \in Calls : call[c] = Idle /\ call[c].pc = "idle"
           /\ \A c \in Calls : ~Open(c) /\ ~Settled(c) /\ ~Starting(c)
<1>1. \A c \in Calls : call[c] = Idle
  BY DEF SessionInit, Init
<1>2. Idle.pc = "idle"
  BY DEF Idle
<1> QED
  BY <1>1, <1>2 DEF Open, Settled, Starting

LEMMA SoloStep ==
    Typed /\ Solo /\ [Next]_vars => Solo'
<1>1. ASSUME Solo, UNCHANGED vars PROVE Solo'
  BY <1>1 DEF vars, ksVars, fileVars, Solo, Open, Settled
<1> QED
  BY <1>1, CoreSteps, SoloCore, SoloQuiet

LEMMA IdentityStep ==
    Typed /\ Solo /\ Identity /\ [Next]_vars => Identity'
<1>1. ASSUME Identity, UNCHANGED vars PROVE Identity'
  BY <1>1 DEF vars, ksVars, fileVars, history, Identity, Open
<1> QED
  BY <1>1, CoreSteps, IdentityCore, IdentityQuiet

LEMMA SoloAlways == Spec => []Solo
<1>1. SessionInit => Solo
  BY NoneOpen DEF Solo
<1> QED
  BY <1>1, SoloStep, TypedAlways, PTL DEF Spec

\* As long as no two calls use the keystore at the same time and no backup
\* writes the copy it read before it made an identity, an identity that was
\* stored is still the stored one, whatever is killed between two writes.
THEOREM IdentityStays == Spec => []IdentityKept
<1>1. ASSUME SessionInit PROVE Identity
  <2>1. ids = {store.peer} \ {None} /\ (status = "absent" => store = Blank(None, None))
    BY <1>1 DEF SessionInit, Init
  <2>2. Blank(None, None).peer = None
    BY DEF Blank
  <2> QED
    BY <1>1, <2>1, <2>2, NoneOpen DEF Identity
<1>2. Identity => IdentityKept
  BY DEF Identity, IdentityKept
<1> QED
  BY <1>1, <1>2, IdentityStep, SoloAlways, TypedAlways, PTL DEF Spec

-----------------------------------------------------------------------------
(* The password and the circles. *)

\* What Changes says of a call that has the keystore open.
Changed(c) ==
    /\ \A i \in 1..Len(call[c].todo) : call[c].todo[i].circles = CirclesOf(c, i)
    /\ call[c].op \in {"backup", "push"} => call[c].mem.circles = wantCircles

LEMMA ChangesCore ==
    ASSUME Typed, Solo, Changes, NEW c \in Calls, CoreStep(c)
    PROVE  Changes'
<1> SUFFICES ASSUME ~raced' PROVE Changes'
  BY DEF Changes
<1>1. /\ ~raced
      /\ \A d \in Calls \ {c} : call[d].pc \notin OpenPcs /\ call'[d] = call[d]
      /\ \A d \in Calls : call'[d].pc \in OpenPcs => d = c
  BY Alone
<1>2. KsTyped /\ call[c] \in CallSet /\ Local(call[c], keys, seeds)
  BY DEF Typed, KsTyped
<1>3. /\ status = "ok" => store.pw = wantPw /\ store.circles = wantCircles
      /\ status = "absent" => wantCircles = {}
      /\ call[c].pc \in OpenPcs => Changed(c)
  BY <1>1 DEF Changes, Open, OpenPcs, Changed
<1>4. /\ status' = "ok" => store'.pw = wantPw' /\ store'.circles = wantCircles'
      /\ status' = "absent" => wantCircles' = {}
      /\ Changed(c)'
  <2>1. CASE Unlock(c)
    <3>1. /\ status = "ok" /\ UNCHANGED <<status, store, wantPw, wantCircles>>
          /\ Edited(call'[c].todo, store, call[c]) /\ call'[c].mem = store
          /\ call'[c].op = call[c].op /\ call'[c].arg = call[c].arg
          /\ call[c].op \notin Resets
      BY <1>2, <2>1, UnlockEffect DEF Reads, Opening, Creating, Resets
    <3>2. \A i \in 1..Len(call'[c].todo) : call'[c].todo[i].circles = CirclesOf(c, i)'
      BY <1>3, <3>1 DEF Edited, CirclesOf, Resets
    <3> QED
      BY <1>3, <3>1, <3>2 DEF Changed
  <2>2. CASE CreateMissing(c)
    <3>1. /\ status = "absent" /\ UNCHANGED <<status, store, wantPw, wantCircles>>
          /\ Len(call'[c].todo) = 1 /\ call'[c].todo[1] = call'[c].mem
          /\ call'[c].mem.circles = {} /\ call'[c].op \in {"backup", "watch"}
      BY <1>2, <2>2, CreateMissingEffect DEF Reads, Creating
    <3>2. \A i \in 1..Len(call'[c].todo) : i = 1
      BY <3>1
    <3>3. \A i \in 1..Len(call'[c].todo) : call'[c].todo[i].circles = CirclesOf(c, i)'
      BY <1>3, <3>1, <3>2 DEF CirclesOf
    <3> QED
      BY <1>3, <3>1, <3>3 DEF Changed
  <2>3. CASE InitKeystore(c)
    <3>1. /\ status' = "absent" /\ wantCircles' = {} /\ call'[c].op = "init"
          /\ Len(call'[c].todo) = 4
          /\ \A i \in 1..4 :
                call'[c].todo[i].circles = IF i = 4 THEN {Default} ELSE {}
      BY <1>2, <2>3, InitKeystoreEffect DEF Reads
    <3>2. \A i \in 1..Len(call'[c].todo) : call'[c].todo[i].circles = CirclesOf(c, i)'
      BY <3>1 DEF CirclesOf
    <3> QED
      BY <3>1, <3>2 DEF Changed
  <2>4. CASE Recover(c)
    <3>1. /\ UNCHANGED <<status, store, wantPw, wantCircles>>
          /\ call'[c].op = "recover" /\ Len(call'[c].todo) = 3
          /\ \A i \in 1..3 : call'[c].todo[i].circles = {}
      BY <1>2, <2>4, RecoverEffect DEF Reads
    <3>2. \A i \in 1..Len(call'[c].todo) : call'[c].todo[i].circles = CirclesOf(c, i)'
      BY <3>1 DEF CirclesOf
    <3> QED
      BY <1>3, <3>1, <3>2 DEF Changed
  <2>5. CASE \/ Wipe(c) \/ SaveTruncate(c) \/ Saved(c) \/ LoadManifest(c) \/ NoPush(c)
             \/ SaveManifest(c)
    <3>1. PICK x : call' = [call EXCEPT ![c].pc = x]
      BY <2>5 DEF Wipe, SaveTruncate, Saved, LoadManifest, NoPush, SaveManifest
    <3>2. /\ call'[c].op = call[c].op /\ call'[c].todo = call[c].todo
          /\ call'[c].mem = call[c].mem /\ call'[c].arg = call[c].arg
      BY <1>2, <3>1, PcEffect
    <3>3. /\ status' = status \/ status' = "torn"
          /\ UNCHANGED <<store, wantPw, wantCircles>> /\ call[c].pc \in OpenPcs
      BY <2>5 DEF Wipe, SaveTruncate, Saved, LoadManifest, NoPush, SaveManifest,
                  fileVars, history, OpenPcs
    <3>4. Changed(c)'
      BY <1>3, <3>2, <3>3 DEF Changed, CirclesOf
    <3> QED
      BY <1>3, <3>3, <3>4
  <2>6. CASE SaveWrite(c)
    <3> DEFINE t == call[c].todo
               u == call'[c].todo
    <3>1. /\ Len(t) >= 1 /\ t[1] = Head(t) /\ t \in Seq(CopySet)
          /\ call'[c].op = call[c].op /\ call'[c].arg = call[c].arg
          /\ call'[c].mem = IF call[c].op = "push" THEN call[c].mem ELSE t[1]
          /\ Len(u) = Len(t) - 1
          /\ \A i \in 1..Len(u) : i + 1 \in 1..Len(t) /\ u[i] = t[i + 1]
      BY <1>2, <2>6, SaveWriteEffect DEF CallSet
    <3>2. status = "torn" /\ call[c].pc \in OpenPcs
      BY <1>1, <2>6 DEF Solo, SaveWrite, OpenPcs
    <3>3. /\ store' = t[1] /\ status' = "ok" /\ wantPw' = Target(call[c])
          /\ wantCircles' = CirclesOf(c, 1)
      <4>1. Len(t) \in Nat
        BY <3>1
      <4> QED
        BY <2>6, <3>1, <3>2, <4>1 DEF SaveWrite, Target, CirclesOf
    <3>4. /\ \A i \in 1..Len(t) : t[i].circles = CirclesOf(c, i)
          /\ call[c].op \in {"backup", "push"} => call[c].mem.circles = wantCircles
      BY <1>3, <3>2 DEF Changed
    <3>5. t[1].pw = Target(call[c]) /\ t[1].circles = CirclesOf(c, 1)
      <4>1. 1 \in 1..Len(t)
        BY <3>1
      <4> QED
        BY <1>2, <3>4, <4>1 DEF Local
    <3>6. call[c].op \in {"backup", "push"} => wantCircles' = wantCircles
      BY <3>3 DEF CirclesOf
    <3>7. ASSUME NEW i \in 1..Len(u) PROVE u[i].circles = CirclesOf(c, i)'
      <4>0. i + 1 \in 1..Len(t) /\ u[i] = t[i + 1] /\ Len(t) \in Nat
        BY <3>1, <3>7
      <4>1. /\ i + 1 \in 1..Len(t) /\ u[i] = t[i + 1] /\ 1 # Len(t)
            /\ i = Len(u) <=> i + 1 = Len(t)
        <5> HIDE DEF t, u
        <5> QED
          BY <3>1, <4>0
      <4>2. u[i].circles = CirclesOf(c, i + 1)
        BY <3>4, <4>1
      <4> HIDE DEF t
      <4>3. CirclesOf(c, i)' = CirclesOf(c, i + 1)
        BY <3>1, <3>3, <4>1 DEF CirclesOf, t, u
      <4> QED
        BY <4>2, <4>3
    <3>8. call'[c].op \in {"backup", "push"} => call'[c].mem.circles = wantCircles'
      BY <3>1, <3>3, <3>4, <3>5, <3>6
    <3>9. Changed(c)'
      BY <3>7, <3>8 DEF Changed
    <3> QED
      BY <3>3, <3>5, <3>9
  <2>7. CASE PushIdentity(c)
    <3>1. /\ Ensured(call'[c].todo, store) /\ call'[c].op = "push"
          /\ call'[c].mem = call[c].mem
      BY <1>2, <2>7, PushIdentityEffect
    <3>2. /\ status = "ok" /\ UNCHANGED <<status, store, wantPw, wantCircles>>
          /\ call[c].pc \in OpenPcs /\ call[c].pc = "push"
      BY <2>7 DEF PushIdentity, Unlocks, fileVars, history, OpenPcs
    <3>3. call[c].mem.circles = wantCircles
      BY <1>2, <1>3, <3>2 DEF Changed, Local
    <3>4. Changed(c)'
      BY <1>3, <3>1, <3>2, <3>3 DEF Ensured, Changed, CirclesOf
    <3> QED
      BY <1>3, <3>2, <3>4
  <2>8. CASE BackupIdentity(c)
    <3>1. Ensured(call'[c].todo, call[c].mem) /\ call'[c].op = "ident"
      BY <1>2, <2>8, BackupIdentityEffect
    <3>2. /\ UNCHANGED <<status, store, wantPw, wantCircles>>
          /\ call[c].pc \in OpenPcs /\ call[c].pc = "ident"
      BY <2>8 DEF BackupIdentity, fileVars, OpenPcs
    <3>3. call[c].mem.circles = wantCircles
      BY <1>2, <1>3, <3>2 DEF Changed, Local
    <3>4. Changed(c)'
      BY <3>1, <3>2, <3>3 DEF Ensured, Changed, CirclesOf
    <3> QED
      BY <1>3, <3>2, <3>4
  <2> QED
    BY <2>1, <2>2, <2>3, <2>4, <2>5, <2>6, <2>7, <2>8 DEF CoreStep
<1>5. \A d \in Calls : Open(d)' => d = c
  BY <1>1 DEF Open, OpenPcs
<1> QED
  BY <1>4, <1>5 DEF Changes, Changed

LEMMA ChangesQuiet ==
    ASSUME Changes, Quiet
    PROVE  Changes'
<1>1. \A d \in Calls : Open(d)' => Open(d) /\ call'[d] = call[d]
  BY DEF Quiet, Open, OpenPcs
<1>2. UNCHANGED <<status, store, wantPw, wantCircles, raced>>
  BY DEF Quiet
<1>3. ASSUME NEW d \in Calls, ~raced, Open(d)'
      PROVE  Changed(d)'
  <2>1. Changed(d)
    BY <1>1, <1>3 DEF Changes, Changed
  <2> QED
    BY <1>1, <1>2, <1>3, <2>1 DEF Changed, CirclesOf
<1> QED
  BY <1>2, <1>3 DEF Changes, Changed

LEMMA ChangesStep ==
    Typed /\ Solo /\ Changes /\ [Next]_vars => Changes'
<1>1. ASSUME Changes, UNCHANGED vars PROVE Changes'
  BY <1>1 DEF vars, ksVars, fileVars, history, Changes, Open, CirclesOf
<1> QED
  BY <1>1, CoreSteps, ChangesCore, ChangesQuiet

\* As long as no two calls use the keystore at the same time, the file has the
\* password and the circles that the completed changes amount to: no rewrite
\* of the whole file by one operation loses what another one stored.
THEOREM ChangesStay == Spec => []ChangesKept
<1>1. ASSUME SessionInit PROVE Changes
  <2>1. /\ wantPw = store.pw /\ wantCircles = store.circles
        /\ status = "absent" => store = Blank(None, None)
    BY <1>1 DEF SessionInit, Init
  <2>2. Blank(None, None).circles = {}
    BY DEF Blank
  <2> QED
    BY <1>1, <2>1, <2>2, NoneOpen DEF Changes
<1>2. Changes => ChangesKept
  BY DEF Changes, ChangesKept
<1> QED
  BY <1>1, <1>2, ChangesStep, SoloAlways, TypedAlways, PTL DEF Spec

-----------------------------------------------------------------------------
(* The manifest. *)

\* What Manifest says of a call that has the keystore open.
Keyed(c) ==
    /\ call[c].op = "init" /\ call[c].pc # "wipe" /\ call[c].todo # <<>>
            => data = None
    /\ call[c].op \notin Resets =>
            \A i \in 1..Len(call[c].todo) : data \in {None, call[c].todo[i].key}
    /\ call[c].op \in {"backup", "push", "ident"} =>
            /\ status = "ok" => store.key = call[c].mem.key
            /\ \A i \in 1..Len(call[c].todo) : call[c].todo[i].key = call[c].mem.key

LEMMA ManifestCore ==
    ASSUME Typed, Solo, Manifest, NEW c \in Calls, CoreStep(c)
    PROVE  Manifest'
<1> SUFFICES ASSUME ~raced', ~recovered', ~halfReset' PROVE Manifest'
  BY DEF Manifest
<1>1. /\ ~raced
      /\ \A d \in Calls \ {c} : call[d].pc \notin OpenPcs /\ call'[d] = call[d]
      /\ \A d \in Calls : call'[d].pc \in OpenPcs => d = c
  BY Alone
<1>2. KsTyped /\ call[c] \in CallSet /\ Local(call[c], keys, seeds)
  BY DEF Typed, KsTyped
<1>3. ~recovered /\ ~halfReset
  <2>1. CASE SaveWrite(c)
    BY <2>1, Zenon DEF SaveWrite
  <2>2. CASE ~SaveWrite(c)
    <3>1. UNCHANGED <<recovered, halfReset>>
      BY <2>2 DEF CoreStep, Unlock, CreateMissing, InitKeystore, Wipe, Recover,
            SaveTruncate, Saved, LoadManifest, PushIdentity, NoPush, SaveManifest,
            BackupIdentity, history
    <3> QED
      BY <3>1
  <2> QED
    BY <2>1, <2>2
<1>4. /\ status = "ok" => data \in {None, store.key}
      /\ status = "absent" => data = None \/ call[c].pc = "wipe"
      /\ call[c].pc \in OpenPcs => Keyed(c)
  <2>1. \A d \in Calls : call[d].pc = "wipe" => d = c
    BY <1>1 DEF OpenPcs
  <2>2. \A d \in Calls : Open(d) => Keyed(d)
    BY <1>1, <1>3 DEF Manifest, Keyed
  <2>3. call[c].pc \in OpenPcs => Keyed(c)
    BY <2>2 DEF Open, OpenPcs
  <2> QED
    BY <1>1, <1>3, <2>1, <2>3 DEF Manifest
<1>5. /\ status' = "ok" => data' \in {None, store'.key}
      /\ status' = "absent" => data' = None \/ call'[c].pc = "wipe"
      /\ Keyed(c)'
  <2>1. CASE Unlock(c)
    <3>1. /\ status = "ok" /\ UNCHANGED <<status, store, data>>
          /\ Edited(call'[c].todo, store, call[c]) /\ call'[c].mem = store
          /\ call'[c].op = call[c].op /\ call[c].op \notin Resets
      BY <1>2, <2>1, UnlockEffect DEF Reads, Opening, Creating, Resets
    <3>2. \A i \in 1..Len(call'[c].todo) : call'[c].todo[i].key = store.key
      BY <3>1 DEF Edited
    <3> QED
      BY <1>4, <3>1, <3>2 DEF Keyed, Resets
  <2>2. CASE CreateMissing(c)
    <3>1. /\ status = "absent" /\ UNCHANGED <<status, store, data>>
          /\ Len(call'[c].todo) = 1 /\ call'[c].todo[1] = call'[c].mem
          /\ call[c].pc = "open"
      BY <1>2, <2>2, CreateMissingEffect DEF Reads
    <3>2. \A i \in 1..Len(call'[c].todo) : call'[c].todo[i] = call'[c].mem
      BY <3>1
    <3>3. data' = None
      BY <1>4, <3>1
    <3> QED
      BY <3>1, <3>2, <3>3 DEF Keyed
  <2>3. CASE InitKeystore(c)
    <3>1. /\ status' = "absent" /\ data' = data /\ call'[c].op = "init"
          /\ call'[c].pc = (IF status = "absent" THEN "save" ELSE "wipe")
          /\ call[c].pc = "open"
      BY <1>2, <2>3, InitKeystoreEffect DEF Reads
    <3>2. data' = None \/ call'[c].pc = "wipe"
      BY <1>4, <3>1
    <3> QED
      BY <3>1, <3>2 DEF Keyed, Resets
  <2>4. CASE Recover(c)
    <3>1. /\ UNCHANGED <<status, store, data>> /\ call'[c].op = "recover"
          /\ call[c].pc = "open"
      BY <1>2, <2>4, RecoverEffect DEF Reads
    <3> QED
      BY <1>4, <3>1 DEF Keyed, Resets
  <2>5. CASE Wipe(c)
    <3>1. call'[c].op = call[c].op /\ call[c].op = "init"
      BY <1>2, <2>5, PcEffect DEF Wipe, Local
    <3>2. data' = None
      BY <2>5 DEF Wipe
    <3> QED
      BY <3>1, <3>2 DEF Keyed, Resets
  <2>6. CASE SaveTruncate(c)
    <3>1. /\ call'[c].op = call[c].op /\ call'[c].todo = call[c].todo
          /\ call'[c].mem = call[c].mem /\ call[c].pc = "save" /\ call[c].pc \in OpenPcs
          /\ status' = "torn" /\ data' = data
      BY <1>2, <2>6, PcEffect DEF SaveTruncate, OpenPcs
    <3> QED
      BY <1>4, <3>1 DEF Keyed
  <2>7. CASE SaveWrite(c)
    <3> DEFINE t == call[c].todo
               u == call'[c].todo
    <3>1. /\ 1 \in 1..Len(t) /\ t[1] = Head(t) /\ t # <<>>
          /\ call'[c].op = call[c].op
          /\ call'[c].mem = IF call[c].op = "push" THEN call[c].mem ELSE t[1]
          /\ \A i \in 1..Len(u) : i + 1 \in 1..Len(t) /\ u[i] = t[i + 1]
      BY <1>2, <2>7, SaveWriteEffect DEF CallSet
    <3>2. status = "torn" /\ call[c].pc = "write" /\ call[c].pc \in OpenPcs
      BY <1>1, <2>7 DEF Solo, SaveWrite, OpenPcs
    <3>3. /\ store' = t[1] /\ status' = "ok" /\ data' = data
          /\ call[c].op # "recover"
      BY <2>7, <3>1, <3>2 DEF SaveWrite
    <3>4. Keyed(c)
      BY <1>4, <3>2
    <3> HIDE DEF t, u
    <3>5. CASE call[c].op = "init"
      <4>1. data' = None
        BY <3>1, <3>2, <3>3, <3>4, <3>5 DEF Keyed, t
      <4> QED
        BY <3>1, <3>3, <3>5, <4>1 DEF Keyed, Resets
    <3>6. CASE call[c].op # "init"
      <4>1. \A i \in 1..Len(t) : data \in {None, t[i].key}
        BY <3>3, <3>4, <3>6 DEF Keyed, Resets, t
      <4>2. call[c].op \in {"backup", "push", "ident"} =>
                \A i \in 1..Len(t) : t[i].key = call[c].mem.key
        BY <3>4 DEF Keyed, t
      <4>3. call[c].op \in {"backup", "push", "ident"} =>
                call'[c].mem.key = call[c].mem.key /\ store'.key = call[c].mem.key
        BY <3>1, <3>3, <4>2
      <4>4. \A i \in 1..Len(u) : data' \in {None, u[i].key}
        BY <3>1, <3>3, <4>1
      <4>5. call[c].op \in {"backup", "push", "ident"} =>
                \A i \in 1..Len(u) : u[i].key = call'[c].mem.key
        BY <3>1, <4>2, <4>3
      <4> QED
        BY <3>1, <3>3, <3>6, <4>1, <4>3, <4>4, <4>5 DEF Keyed, u
    <3> QED
      BY <3>5, <3>6
  <2>8. CASE Saved(c) \/ LoadManifest(c) \/ NoPush(c)
    <3>1. PICK x : call' = [call EXCEPT ![c].pc = x]
      BY <2>8 DEF Saved, LoadManifest, NoPush
    <3>2. /\ call'[c].op = call[c].op /\ call'[c].todo = call[c].todo
          /\ call'[c].mem = call[c].mem
      BY <1>2, <3>1, PcEffect
    <3>3. UNCHANGED <<status, store, data>> /\ call[c].pc \in OpenPcs \ {"wipe"}
      BY <2>8 DEF Saved, LoadManifest, NoPush, fileVars, OpenPcs
    <3> QED
      BY <1>4, <3>2, <3>3 DEF Keyed
  <2>9. CASE SaveManifest(c)
    <3>1. /\ call'[c].op = call[c].op /\ call'[c].todo = call[c].todo
          /\ call'[c].mem = call[c].mem
      BY <1>2, <2>9, PcEffect DEF SaveManifest
    <3>2. /\ UNCHANGED <<status, store>> /\ data' = call[c].mem.key
          /\ call[c].pc = "manifest" /\ call[c].pc \in OpenPcs /\ Settled(c)
      BY <2>9 DEF SaveManifest, OpenPcs, Settled
    <3>3. status = "ok" /\ call[c].op \in {"backup", "push"}
      BY <1>1, <1>2, <3>2 DEF Solo, Local
    <3> QED
      BY <1>4, <3>1, <3>2, <3>3 DEF Keyed
  <2>10. CASE PushIdentity(c)
    <3>1. /\ Ensured(call'[c].todo, store) /\ call'[c].op = "push"
          /\ call'[c].mem = call[c].mem
      BY <1>2, <2>10, PushIdentityEffect
    <3>2. /\ status = "ok" /\ UNCHANGED <<status, store, data>>
          /\ call[c].pc \in OpenPcs /\ call[c].pc = "push"
      BY <2>10 DEF PushIdentity, Unlocks, fileVars, OpenPcs
    <3>3. store.key = call[c].mem.key
      BY <1>2, <1>4, <3>2 DEF Keyed, Local
    <3>4. \A i \in 1..Len(call'[c].todo) : call'[c].todo[i].key = store.key
      BY <3>1 DEF Ensured
    <3> QED
      BY <1>4, <3>1, <3>2, <3>3, <3>4 DEF Keyed
  <2>11. CASE BackupIdentity(c)
    <3>1. /\ Ensured(call'[c].todo, call[c].mem) /\ call'[c].op = "ident"
          /\ call'[c].mem = call[c].mem
      BY <1>2, <2>11, BackupIdentityEffect
    <3>2. /\ UNCHANGED <<status, store, data>> /\ call[c].pc = "ident"
          /\ call[c].pc \in OpenPcs /\ Settled(c)
      BY <2>11 DEF BackupIdentity, fileVars, OpenPcs, Settled
    <3>3. status = "ok" /\ store.key = call[c].mem.key
      BY <1>1, <1>2, <1>4, <3>2 DEF Solo, Local, Keyed
    <3>4. \A i \in 1..Len(call'[c].todo) : call'[c].todo[i].key = call[c].mem.key
      BY <3>1 DEF Ensured
    <3> QED
      BY <1>4, <3>1, <3>2, <3>3, <3>4 DEF Keyed
  <2> QED
    BY <2>1, <2>2, <2>3, <2>4, <2>5, <2>6, <2>7, <2>8, <2>9, <2>10, <2>11 DEF CoreStep
<1>6. \A d \in Calls : Open(d)' => Keyed(d)'
  <2>1. \A d \in Calls : Open(d)' => d = c
    BY <1>1 DEF Open, OpenPcs
  <2> QED
    BY <1>5, <2>1
<1> QED
  BY <1>5, <1>6 DEF Manifest, Keyed

LEMMA ManifestQuiet ==
    ASSUME Manifest, Quiet
    PROVE  Manifest'
<1> SUFFICES ASSUME ~raced', ~recovered', ~halfReset' PROVE Manifest'
  BY DEF Manifest
<1>1. \A d \in Calls : Open(d)' => Open(d) /\ call'[d] = call[d]
  BY DEF Quiet, Open, OpenPcs
<1>2. UNCHANGED <<status, store, data>> /\ ~raced /\ ~recovered /\ ~halfReset
  BY DEF Quiet
<1>3. \A d \in Calls : call[d].pc = "wipe" => call'[d].pc = "wipe"
  BY DEF Quiet
<1>4. \A d \in Calls : Open(d) => Keyed(d)
  BY <1>2 DEF Manifest, Keyed
<1>5. \A d \in Calls : Open(d)' => Keyed(d)'
  BY <1>1, <1>2, <1>4 DEF Keyed
<1>6. /\ status' = "ok" => data' \in {None, store'.key}
      /\ status' = "absent" => data' = None \/ \E d \in Calls : call'[d].pc = "wipe"
  BY <1>2, <1>3 DEF Manifest
<1> QED
  BY <1>5, <1>6 DEF Manifest, Keyed

LEMMA ManifestStep ==
    Typed /\ Solo /\ Manifest /\ [Next]_vars => Manifest'
<1>1. ASSUME Manifest, UNCHANGED vars PROVE Manifest'
  BY <1>1 DEF vars, ksVars, fileVars, history, Manifest, Open
<1> QED
  BY <1>1, CoreSteps, ManifestCore, ManifestQuiet

\* The manifest can be decrypted with the key in the keystore, as long as no
\* two calls use the keystore at the same time, none recovers it, and no kill
\* falls between the two removals of init --force.  Kills anywhere else keep
\* it readable.
THEOREM ManifestStays == Spec => []ManifestReadable
<1>1. ASSUME SessionInit PROVE Manifest
  <2>1. data = None
    BY <1>1 DEF SessionInit, Init
  <2> QED
    BY <1>1, <2>1, NoneOpen DEF Manifest
<1>2. Manifest => ManifestReadable
  BY DEF Manifest, ManifestReadable
<1> QED
  BY <1>1, <1>2, ManifestStep, SoloAlways, TypedAlways, PTL DEF Spec

-----------------------------------------------------------------------------
(* The session's password. *)

LEMMA InSessionCore ==
    ASSUME Typed, Solo, InSession, NEW c \in Calls, CoreStep(c), UNCHANGED seVars
    PROVE  InSession'
<1> SUFFICES ASSUME ~raced', ~foreign', faults' = 0 PROVE InSession'
  BY DEF InSession
<1>1. /\ ~raced
      /\ \A d \in Calls \ {c} : call[d].pc \notin OpenPcs /\ call'[d] = call[d]
      /\ \A d \in Calls : call'[d].pc \in OpenPcs => d = c
  BY Alone
<1>2. KsTyped /\ call[c] \in CallSet /\ Local(call[c], keys, seeds)
  BY DEF Typed, KsTyped
<1>3. ~foreign /\ faults = 0 /\ session' = session
  BY DEF CoreStep, Unlock, CreateMissing, InitKeystore, Wipe, Recover, SaveTruncate,
         SaveWrite, Saved, LoadManifest, PushIdentity, NoPush, SaveManifest,
         BackupIdentity, seVars
<1>4. /\ session # None /\ (call[c].pc \in OpenPcs => call[c].op \notin Retargets)
            => status # "absent" /\ store.pw = session
      /\ call[c].pc \in OpenPcs =>
            /\ call[c].op \notin Retargets /\ session # None => call[c].pw = session
            /\ Settled(c) => store.pw = Target(call[c])
  <2>1. \A d \in Calls : Open(d) <=> call[d].pc \in OpenPcs
    BY DEF Open, OpenPcs
  <2>2. (call[c].pc \in OpenPcs => call[c].op \notin Retargets)
            => \A d \in Calls : Open(d) => call[d].op \notin Retargets
    BY <1>1, <2>1
  <2> QED
    BY <1>1, <1>3, <2>1, <2>2 DEF InSession
<1>5. /\ call'[c].pc \in OpenPcs
      /\ call'[c].op \notin Retargets /\ session # None =>
            status' # "absent" /\ store'.pw = session /\ call'[c].pw = session
      /\ Settled(c)' => store'.pw = Target(call[c])'
  <2>1. CASE Unlock(c)
    <3>1. /\ status = "ok" /\ UNCHANGED <<status, store>> /\ store.pw = call[c].pw
          /\ Edited(call'[c].todo, store, call[c]) /\ call[c].pc = "open"
          /\ call'[c].op = call[c].op /\ call'[c].pw = call[c].pw
          /\ call'[c].pc = IF call[c].op = "backup" THEN "load" ELSE "save"
      BY <1>2, <2>1, UnlockEffect DEF Reads
    <3>2. Settled(c)' => call'[c].op # "passwd"
      BY <3>1 DEF Settled, Edited
    <3>3. call[c].pc \notin OpenPcs /\ call'[c].pc \in OpenPcs
      BY <3>1 DEF OpenPcs
    <3> QED
      BY <1>4, <3>1, <3>2, <3>3 DEF Target
  <2>2. CASE CreateMissing(c)
    <3>1. /\ status = "absent" /\ call'[c].pc = "save" /\ call[c].pc = "open"
          /\ Len(call'[c].todo) = 1
      BY <1>2, <2>2, CreateMissingEffect DEF Reads
    <3>2. call[c].pc \notin OpenPcs /\ call'[c].pc \in OpenPcs
      BY <3>1 DEF OpenPcs
    <3>3. session = None
      BY <1>4, <3>1, <3>2
    <3>4. call'[c].todo # <<>>
      BY <3>1, NonEmpty, Zenon
    <3> QED
      BY <3>1, <3>2, <3>3, <3>4 DEF Settled
  <2>3. CASE InitKeystore(c) \/ Recover(c)
    <3>1. /\ call'[c].pc \in {"save", "wipe"} /\ call'[c].op \in Retargets
          /\ Len(call'[c].todo) = 3 \/ Len(call'[c].todo) = 4
      BY <1>2, <2>3, InitKeystoreEffect, RecoverEffect DEF Reads, Retargets
    <3>2. call'[c].todo # <<>>
      BY <3>1, NonEmpty, Zenon
    <3> QED
      BY <3>1, <3>2 DEF Settled, OpenPcs
  <2>4. CASE Wipe(c)
    <3>1. /\ call'[c].pc = "save" /\ call'[c].todo = call[c].todo
          /\ call'[c].op = call[c].op /\ call[c].pc = "wipe"
      BY <1>2, <2>4, PcEffect DEF Wipe
    <3>2. call[c].todo # <<>> /\ call[c].op = "init"
      BY <1>2, <3>1 DEF Local
    <3> QED
      BY <3>1, <3>2 DEF Settled, OpenPcs, Retargets
  <2>5. CASE SaveTruncate(c)
    <3>1. /\ call'[c].pc = "write" /\ status' = "torn" /\ store' = store
          /\ call'[c].op = call[c].op /\ call'[c].pw = call[c].pw
          /\ call[c].pc \in OpenPcs
      BY <1>2, <2>5, PcEffect DEF SaveTruncate, OpenPcs
    <3> QED
      BY <1>4, <3>1 DEF Settled, OpenPcs
  <2>6. CASE SaveWrite(c)
    <3>1. /\ call'[c].pc = "save" /\ call'[c].op = call[c].op
          /\ call'[c].pw = call[c].pw /\ call'[c].arg = call[c].arg
          /\ 1 \in 1..Len(call[c].todo) /\ call[c].todo[1] = Head(call[c].todo)
      BY <1>2, <2>6, SaveWriteEffect DEF CallSet
    <3>2. status = "torn" /\ call[c].pc \in OpenPcs
      BY <1>1, <2>6 DEF Solo, SaveWrite, OpenPcs
    <3>3. store' = call[c].todo[1] /\ status' = "ok"
      BY <2>6, <3>1, <3>2 DEF SaveWrite
    <3>4. store'.pw = Target(call[c])
      BY <1>2, <3>1, <3>3 DEF Local
    <3> QED
      BY <1>4, <3>1, <3>2, <3>3, <3>4 DEF Target, Retargets, OpenPcs
  <2>7. CASE Saved(c) \/ LoadManifest(c) \/ NoPush(c) \/ SaveManifest(c)
    <3>1. PICK x \in OpenPcs : call' = [call EXCEPT ![c].pc = x]
      <4> DEFINE x == CASE call[c].op = "backup" -> "load"
                        [] call[c].op = "push"   -> "manifest"
                        [] OTHER                 -> "done"
      <4>1. x \in OpenPcs
        BY DEF OpenPcs
      <4>2. Saved(c) => call' = [call EXCEPT ![c].pc = x]
        BY DEF Saved
      <4> HIDE DEF x
      <4> QED
        BY <2>7, <4>1, <4>2 DEF LoadManifest, NoPush, SaveManifest, OpenPcs
    <3>2. /\ call'[c].pc \in OpenPcs /\ call'[c].op = call[c].op
          /\ call'[c].pw = call[c].pw /\ call'[c].arg = call[c].arg
      BY <1>2, <3>1, PcEffect
    <3>3. UNCHANGED <<status, store>> /\ call[c].pc \in OpenPcs /\ Settled(c)
      BY <2>7 DEF Saved, LoadManifest, NoPush, SaveManifest, fileVars, OpenPcs, Settled
    <3> QED
      BY <1>4, <3>2, <3>3 DEF Target
  <2>8. CASE PushIdentity(c) \/ BackupIdentity(c)
    <3>1. /\ call'[c].pc \in OpenPcs /\ call'[c].op \in {"push", "ident"}
          /\ call'[c].pw = call[c].pw
      BY <1>2, <2>8, PushIdentityEffect, BackupIdentityEffect DEF OpenPcs
    <3>2. /\ UNCHANGED <<status, store>> /\ call[c].pc \in {"push", "ident"}
          /\ call[c].pc \in OpenPcs /\ Settled(c)
      BY <2>8 DEF PushIdentity, BackupIdentity, fileVars, OpenPcs, Settled
    <3>3. call[c].op \in {"backup", "push"}
      BY <1>2, <3>2 DEF Local
    <3> QED
      BY <1>4, <3>1, <3>2, <3>3 DEF Target, Retargets
  <2> QED
    BY <2>1, <2>2, <2>3, <2>4, <2>5, <2>6, <2>7, <2>8 DEF CoreStep
<1>6. Open(c)' /\ \A d \in Calls : Open(d)' => d = c
  BY <1>1, <1>5 DEF Open, OpenPcs
<1> QED
  BY <1>3, <1>5, <1>6 DEF InSession

LEMMA InSessionQuiet ==
    ASSUME InSession, Quiet, SessionQuiet
    PROVE  InSession'
<1> SUFFICES ASSUME ~raced', ~foreign', faults' = 0 PROVE InSession'
  BY DEF InSession
<1>1. ~raced /\ ~foreign /\ faults = 0 /\ session' \in {session, None}
  BY DEF Quiet, SessionQuiet
<1>2. \A d \in Calls : call[d].pc \in OpenPcs /\ call[d].op \in Retargets =>
            call'[d] = call[d]
  BY DEF SessionQuiet
<1>3. \A d \in Calls : Open(d)' => Open(d) /\ call'[d] = call[d]
  BY DEF Quiet, Open, OpenPcs
<1>4. \A d \in Calls : Open(d) /\ call[d].op \in Retargets =>
            Open(d)' /\ call'[d].op \in Retargets
  BY <1>2 DEF Open, OpenPcs
<1>5. UNCHANGED <<status, store>>
  BY DEF Quiet
<1>6. \A d \in Calls : Open(d)' => (Settled(d)' => Settled(d))
  BY <1>3 DEF Settled
<1>7. \A d \in Calls : Open(d)' => Target(call[d])' = Target(call[d])
  BY <1>3
<1> QED
  BY <1>1, <1>3, <1>4, <1>5, <1>6, <1>7 DEF InSession

LEMMA InSessionSet ==
    ASSUME Typed, Solo, InSession, NEW c \in Calls, SetPassword(c), Quiet
    PROVE  InSession'
<1> SUFFICES ASSUME ~raced', ~foreign', faults' = 0 PROVE InSession'
  BY DEF InSession
<1>1. /\ ~raced /\ ~foreign /\ faults = 0 /\ UNCHANGED <<status, store>>
      /\ call[c].pc = "done" /\ session' = Target(call[c])
      /\ call' = [call EXCEPT ![c] = Idle]
  BY DEF Quiet, SetPassword, KeepFile, Return, Target
<1>2. Open(c) /\ Settled(c)
  BY <1>1 DEF Open, Settled
<1>3. status = "ok" /\ store.pw = Target(call[c])
  BY <1>1, <1>2 DEF Solo, InSession
<1>4. \A d \in Calls : ~Open(d)'
  <2>1. \A d \in Calls : Open(d)' => Open(d)
    BY DEF Quiet, Open, OpenPcs
  <2>2. \A d \in Calls : Open(d) => d = c
    BY <1>1, <1>2 DEF Solo
  <2>3. call'[c] = Idle
    BY <1>1 DEF Typed, KsTyped
  <2>4. ~Open(c)'
    <3>1. Idle.pc = "idle"
      BY DEF Idle
    <3> QED
      BY <2>3, <3>1 DEF Open
  <2> QED
    BY <2>1, <2>2, <2>4
<1> QED
  BY <1>1, <1>3, <1>4 DEF InSession

LEMMA InSessionStep ==
    Typed /\ Solo /\ InSession /\ [Next]_vars => InSession'
<1>1. ASSUME InSession, UNCHANGED vars PROVE InSession'
  BY <1>1 DEF vars, ksVars, seVars, fileVars, InSession, Open, Settled
<1> QED
  BY <1>1, CoreSteps, InSessionCore, InSessionQuiet, InSessionSet

\* The password the GUI holds opens the keystore whenever no call is under way,
\* as long as no two calls used it at the same time, no command changed it
\* behind the GUI and nothing was killed.
THEOREM SessionStaysOpen == Spec => []SessionOpens
<1>1. ASSUME SessionInit PROVE InSession
  <2>1. session = None
    BY <1>1 DEF SessionInit
  <2> QED
    BY <1>1, <2>1, NoneOpen DEF InSession
<1>2. InSession => SessionOpens
  BY DEF InSession, SessionOpens, Busy, Open
<1> QED
  BY <1>1, <1>2, InSessionStep, SoloAlways, TypedAlways, PTL DEF Spec

-----------------------------------------------------------------------------
(* The daemon. *)

\* A step that leaves the daemons and the handle as they are, and lets no call
\* begin to start a daemon or register one.
LEMMA ServedFrame ==
    ASSUME Served, UNCHANGED <<daemon, handle, mu, signals, overlap>>,
           \A d \in Calls : Starting(d)' => Starting(d),
           \A d \in Calls : call[d].pc = "register" \/ call'[d].pc = "register" =>
                call'[d] = call[d]
    PROVE  Served'
<1>1. \A d \in Calls : call[d].pc = "register" <=> call'[d].pc = "register"
  OBVIOUS
<1>2. \A d \in Calls : call'[d].pc = "register" =>
            /\ call'[d].gui /\ call'[d].op = "serve"
            /\ signals = 0 => daemon[d].st = "up"
  BY DEF Served
<1> QED
  BY <1>1, <1>2 DEF Served

LEMMA OneFrame ==
    ASSUME Served, UNCHANGED <<daemon, handle, mu, signals, overlap>>,
           NEW c \in Calls, \A d \in Calls \ {c} : call'[d] = call[d],
           Starting(c)' => Starting(c),
           call[c].pc # "register", call'[c].pc # "register"
    PROVE  Served'
<1>1. \A d \in Calls : Starting(d)' => Starting(d)
  BY DEF Starting
<1> QED
  BY <1>1, ServedFrame

LEMMA ServedKeystore ==
    ASSUME Typed, Served, NEW c \in Calls, KeystoreStep(c), UNCHANGED seVars
    PROVE  Served'
<1>1. KsFrame(c) /\ Local(call[c], keys, seeds)
  BY KeystoreFrame DEF Typed, KsTyped
<1>2. UNCHANGED <<daemon, handle, mu, signals, overlap>>
  BY DEF seVars
<1>3. call[c].pc # "register" /\ call'[c].pc # "register"
  BY <1>1 DEF KsFrame, OpenPcs
<1>4. Starting(c)' => Starting(c)
  <2> SUFFICES ASSUME Starting(c)' PROVE Starting(c)
    OBVIOUS
  <2>1. call'[c].gui /\ call'[c].op = "serve"
    BY DEF Starting
  <2>2. call[c].gui /\ call[c].op = "serve"
    BY <1>1, <2>1 DEF KsFrame
  <2>3. call[c].pc \in {"open", "save", "write", "done"}
    BY <1>1, <2>2 DEF KsFrame, OpenPcs, Local
  <2> QED
    BY <2>2, <2>3 DEF Starting
<1>5. \A d \in Calls \ {c} : call'[d] = call[d]
  BY <1>1 DEF KsFrame
<1> QED
  BY <1>2, <1>3, <1>4, <1>5, OneFrame

\* StartServe goes past its check.
LEMMA ServedCheck ==
    ASSUME Typed, Served, NEW c \in Calls, CheckServe(c)
    PROVE  Served'
<1>1. /\ UNCHANGED <<daemon, handle, mu, signals>> /\ call[c].pc = "check"
      /\ call \in [Calls -> CallSet]
  BY DEF CheckServe, Typed, KsTyped
<1>2. CASE handle = NoCall
  <2>1. /\ call' = [call EXCEPT ![c].pc = "open"]
        /\ overlap' = (overlap \/ \E d \in Calls \ {c} : Starting(d))
    BY <1>2 DEF CheckServe
  <2>2. call'[c].pc = "open" /\ \A d \in Calls \ {c} : call'[d] = call[d]
    BY <1>1, <2>1 DEF CallSet
  <2>3. \A d \in Calls \ {c} : Starting(d)' => Starting(d)
    BY <2>2 DEF Starting
  <2>4. ~overlap' => ~overlap /\ \A d \in Calls \ {c} : ~Starting(d)'
    BY <2>1, <2>3
  <2>5. \A d \in Calls : call[d].pc = "register" \/ call'[d].pc = "register" =>
            call'[d] = call[d]
    BY <1>1, <2>2
  <2>6. \A d \in Calls : call[d].pc = "register" <=> call'[d].pc = "register"
    BY <2>5
  <2>7. /\ \A d \in Calls : Starting(d)' => handle # d
        /\ ~overlap' => \A d, e \in Calls : Starting(d)' =>
                handle = NoCall /\ (Starting(e)' => d = e)
    BY <1>2, <2>4, SessionAssumption
  <2>8. \A d \in Calls : call'[d].pc = "register" =>
            /\ call'[d].gui /\ call'[d].op = "serve"
            /\ signals = 0 => daemon[d].st = "up"
    BY <2>5 DEF Served
  <2> QED
    BY <1>1, <1>2, <2>4, <2>6, <2>7, <2>8 DEF Served
<1>3. CASE handle # NoCall
  <2>1. Return(c) /\ UNCHANGED overlap
    BY <1>3 DEF CheckServe
  <2>2. call'[c] = Idle /\ \A d \in Calls \ {c} : call'[d] = call[d]
    BY <1>1, <2>1 DEF Return
  <2>3. Idle.pc = "idle"
    BY DEF Idle
  <2>4. call'[c].pc # "register" /\ ~Starting(c)'
    BY <2>2, <2>3 DEF Starting
  <2> QED
    BY <1>1, <2>1, <2>2, <2>4, OneFrame
<1> QED
  BY <1>2, <1>3

LEMMA ServedLaunch ==
    ASSUME Typed, Served, NEW c \in Calls, Launch(c)
    PROVE  Served'
<1> DEFINE x == [st |-> "up", port |-> call[c].arg]
<1>1. /\ UNCHANGED <<handle, mu, signals, overlap>>
      /\ call[c].pc = "done" /\ call[c].gui /\ call[c].op = "serve"
      /\ call \in [Calls -> CallSet] /\ call[c] \in CallSet
      /\ call' = [call EXCEPT ![c].pc = "register"]
      /\ daemon' = [daemon EXCEPT ![c] = x]
  BY DEF Launch, Typed, KsTyped
<1>2. x \in DaemonSet /\ x.st = "up"
  BY <1>1 DEF CallSet, DaemonSet
<1> HIDE DEF x
<1>3. /\ call'[c].pc = "register" /\ call'[c].gui /\ call'[c].op = "serve"
      /\ \A d \in Calls \ {c} : call'[d] = call[d]
  BY <1>1 DEF CallSet
<1>4. /\ daemon' \in [Calls -> DaemonSet] /\ daemon'[c].st = "up"
      /\ \A d \in Calls \ {c} : daemon'[d] = daemon[d]
  BY <1>1, <1>2 DEF Served
<1>5. Starting(c) /\ \A d \in Calls : Starting(d)' => Starting(d)
  BY <1>1, <1>3 DEF Starting
<1>6. \A d \in Calls : call'[d].pc = "register" =>
            /\ call'[d].gui /\ call'[d].op = "serve"
            /\ signals = 0 => daemon'[d].st = "up"
  BY <1>3, <1>4 DEF Served
<1>7. ~overlap => \A d \in Calls : daemon'[d].st = "up" =>
            handle = d \/ call'[d].pc = "register"
  BY <1>3, <1>4 DEF Served
<1>8. signals = 0 /\ handle # NoCall /\ mu = NoCall => daemon'[handle].st = "up"
  BY <1>4 DEF Served, Typed, SeTyped
<1> QED
  BY <1>1, <1>4, <1>5, <1>6, <1>7, <1>8 DEF Served

LEMMA ServedRegister ==
    ASSUME Typed, Served, NEW c \in Calls, Register(c)
    PROVE  Served'
<1>1. /\ UNCHANGED <<daemon, mu, signals, overlap>> /\ handle' = c
      /\ call[c].pc = "register" /\ call \in [Calls -> CallSet]
      /\ call' = [call EXCEPT ![c] = Idle]
  BY DEF Register, Return, Typed, KsTyped
<1>2. call'[c] = Idle /\ Idle.pc = "idle" /\ \A d \in Calls \ {c} : call'[d] = call[d]
  BY <1>1 DEF Idle
<1>3. Starting(c) /\ (signals = 0 => daemon[c].st = "up")
  BY <1>1 DEF Served, Starting
<1>4. ~Starting(c)' /\ \A d \in Calls : Starting(d)' => Starting(d) /\ d # c
  BY <1>2 DEF Starting
<1>5. ~overlap => handle = NoCall /\ \A d \in Calls : Starting(d) => d = c
  BY <1>3 DEF Served
<1>6. ~overlap => \A d \in Calls : daemon[d].st = "up" => d = c
  <2>1. \A d \in Calls : call[d].pc = "register" => Starting(d)
    BY DEF Served, Starting
  <2>2. \A d \in Calls : d # NoCall
    BY SessionAssumption
  <2> QED
    BY <1>5, <2>1, <2>2 DEF Served
<1>7. \A d \in Calls : call'[d].pc = "register" =>
            /\ call'[d].gui /\ call'[d].op = "serve"
            /\ signals = 0 => daemon[d].st = "up"
  BY <1>2 DEF Served
<1>8. /\ \A d \in Calls : Starting(d)' => c # d
      /\ ~overlap => \A d \in Calls : ~Starting(d)'
  BY <1>4, <1>5
<1> QED
  BY <1>1, <1>3, <1>6, <1>7, <1>8 DEF Served

LEMMA ServedStopped ==
    ASSUME Typed, Served, NEW c \in Calls, Stopped(c)
    PROVE  Served'
<1>1. /\ UNCHANGED <<daemon, signals, overlap>> /\ handle' = NoCall /\ mu' = NoCall
      /\ call[c].pc = "stopping" /\ call \in [Calls -> CallSet]
      /\ call' = [call EXCEPT ![c] = Idle] /\ daemon[handle].st = "down"
  BY DEF Stopped, Return, Typed, KsTyped
<1>2. call'[c] = Idle /\ Idle.pc = "idle" /\ \A d \in Calls \ {c} : call'[d] = call[d]
  BY <1>1 DEF Idle
<1>3. \A d \in Calls : Starting(d)' => Starting(d)
  BY <1>2 DEF Starting
<1>4. \A d \in Calls : call[d].pc = "register" <=> call'[d].pc = "register"
  BY <1>1, <1>2
<1>5. ~overlap => \A d \in Calls : daemon[d].st = "up" => call'[d].pc = "register"
  BY <1>1, <1>4 DEF Served
<1>6. \A d \in Calls : call'[d].pc = "register" =>
            /\ call'[d].gui /\ call'[d].op = "serve"
            /\ signals = 0 => daemon[d].st = "up"
  BY <1>2 DEF Served
<1>7. \A d \in Calls : d # NoCall
  BY SessionAssumption
<1> QED
  BY <1>1, <1>3, <1>5, <1>6, <1>7 DEF Served

LEMMA ServedOuter ==
    ASSUME Typed, Served, NEW c \in Calls, OuterStep(c)
    PROVE  Served'
<1>1. CASE CheckServe(c)
  BY <1>1, ServedCheck
<1>2. CASE Launch(c)
  BY <1>2, ServedLaunch
<1>3. CASE Register(c)
  BY <1>3, ServedRegister
<1>4. CASE Stopped(c)
  BY <1>4, ServedStopped
<1>5. CASE CheckWatch(c)
  <2>1. /\ call \in [Calls -> CallSet] /\ call[c].pc = "check" /\ call[c].op = "watch"
        /\ UNCHANGED <<daemon, handle, mu, signals, overlap>>
        /\ call' = [call EXCEPT ![c].pc = "open"] \/ call' = [call EXCEPT ![c] = Idle]
    BY <1>5 DEF CheckWatch, Return, seVars, Typed, KsTyped
  <2>2. Idle.pc = "idle"
    BY DEF Idle
  <2>3. \A d \in Calls \ {c} : call'[d] = call[d]
    BY <2>1
  <2>4. call'[c].pc # "register" /\ ~Starting(c)'
    <3>1. CASE call' = [call EXCEPT ![c].pc = "open"]
      BY <2>1, <3>1, PcEffect DEF Starting, Typed
    <3>2. CASE call' = [call EXCEPT ![c] = Idle]
      BY <2>1, <2>2, <3>2 DEF Starting
    <3> QED
      BY <2>1, <3>1, <3>2
  <2> QED
    BY <2>1, <2>3, <2>4, OneFrame
<1>6. CASE \/ SetPassword(c) \/ Finish(c) \/ LaunchFails(c) \/ StartWatcher(c)
           \/ WatchReturns(c)
  <2>1. /\ UNCHANGED <<daemon, handle, mu, signals, overlap>>
        /\ call[c].pc \in {"done", "watching"} /\ call \in [Calls -> CallSet]
        /\ \/ call' = [call EXCEPT ![c].pc = "watching"]
           \/ call' = [call EXCEPT ![c] = Idle]
    BY <1>6 DEF SetPassword, Finish, LaunchFails, StartWatcher, WatchReturns, Return,
                seVars, Typed, KsTyped
  <2>2. Idle.pc = "idle"
    BY DEF Idle
  <2>3. /\ \A d \in Calls \ {c} : call'[d] = call[d]
        /\ call'[c].pc \in {"idle", "watching"}
    BY <2>1, <2>2 DEF CallSet
  <2>4. call'[c].pc # "register" /\ ~Starting(c)' /\ call[c].pc # "register"
    BY <2>1, <2>3 DEF Starting
  <2> QED
    BY <2>1, <2>3, <2>4, OneFrame
<1> QED
  BY <1>1, <1>2, <1>3, <1>4, <1>5, <1>6 DEF OuterStep

LEMMA CancelledDaemon ==
    ASSUME NEW d \in DaemonSet
    PROVE  Cancelled(d) \in DaemonSet /\ Cancelled(d).st # "up"
  BY DEF Cancelled, DaemonSet

LEMMA ServedStop ==
    ASSUME Typed, Served, NEW c \in Calls, StopServe(c)
    PROVE  Served'
<1> DEFINE q == [Idle EXCEPT !.pc = "stopping", !.gui = TRUE]
<1>1. /\ UNCHANGED <<handle, signals, overlap>> /\ mu' = c /\ handle \in Calls
      /\ call[c].pc = "idle" /\ call \in [Calls -> CallSet]
      /\ call' = [call EXCEPT ![c] = q]
      /\ daemon' = [daemon EXCEPT ![handle] = Cancelled(@)]
  BY DEF StopServe, Busy, Typed, KsTyped, SeTyped
<1>2. q.pc = "stopping"
  BY IdleLocal DEF Idle
<1> HIDE DEF q
<1>3. call'[c].pc = "stopping" /\ \A d \in Calls \ {c} : call'[d] = call[d]
  BY <1>1, <1>2
<1>4. daemon[handle] \in DaemonSet
  BY <1>1 DEF Served
<1>5. /\ daemon' \in [Calls -> DaemonSet] /\ daemon'[handle].st # "up"
      /\ \A d \in Calls \ {handle} : daemon'[d] = daemon[d]
  BY <1>1, <1>4, CancelledDaemon DEF Served
<1>6. /\ \A d \in Calls : Starting(d)' => Starting(d)
      /\ \A d \in Calls : call[d].pc = "register" => Starting(d)
  BY <1>3 DEF Starting, Served
<1>7. \A d \in Calls : call[d].pc = "register" <=> call'[d].pc = "register"
  BY <1>1, <1>3
<1>8. \A d \in Calls : call'[d].pc = "register" =>
            /\ call'[d].gui /\ call'[d].op = "serve"
            /\ signals = 0 => daemon'[d].st = "up"
  <2>1. \A d \in Calls : call[d].pc = "register" => d # handle
    BY <1>6 DEF Served
  <2> QED
    BY <1>3, <1>5, <1>7, <2>1 DEF Served
<1>9. ~overlap => \A d \in Calls : daemon'[d].st = "up" =>
            handle = d \/ call'[d].pc = "register"
  BY <1>5, <1>7 DEF Served
<1>10. mu' # NoCall
  BY <1>1, SessionAssumption
<1> QED
  BY <1>1, <1>5, <1>6, <1>8, <1>9, <1>10 DEF Served

LEMMA ServedClose ==
    ASSUME Typed, Served, NEW c \in Calls, Close(c)
    PROVE  Served'
<1>1. /\ UNCHANGED <<call, handle, mu, signals, overlap>> /\ daemon[c].st = "closing"
      /\ daemon' = [daemon EXCEPT ![c] = Down]
  BY DEF Close, ksVars
<1>2. Down \in DaemonSet /\ Down.st = "down"
  BY DEF Down, DaemonSet, None
<1>3. /\ daemon' \in [Calls -> DaemonSet] /\ daemon'[c].st = "down"
      /\ \A d \in Calls \ {c} : daemon'[d] = daemon[d]
  BY <1>1, <1>2 DEF Served
<1>4. \A d \in Calls : /\ Starting(d)' <=> Starting(d)
                       /\ daemon'[d].st = "up" <=> daemon[d].st = "up"
  BY <1>1, <1>3 DEF Starting
<1>5. signals = 0 /\ handle # NoCall /\ mu = NoCall => daemon'[handle].st = "up"
  BY <1>4 DEF Served, Typed, SeTyped
<1> QED
  BY <1>1, <1>3, <1>4, <1>5 DEF Served

LEMMA ServedSignal ==
    ASSUME Typed, Served, Signal
    PROVE  Served'
<1>1. /\ UNCHANGED <<call, handle, mu, overlap>> /\ signals' = signals + 1
      /\ signals \in Nat
      /\ daemon' = [c \in Calls |-> Cancelled(daemon[c])]
  BY DEF Signal, ksVars, Served
<1>2. \A c \in Calls : Cancelled(daemon[c]) \in DaemonSet /\ Cancelled(daemon[c]).st # "up"
  BY CancelledDaemon DEF Served
<1>3. daemon' \in [Calls -> DaemonSet] /\ \A c \in Calls : daemon'[c].st # "up"
  BY <1>1, <1>2
<1>4. signals' \in Nat /\ signals' # 0
  BY <1>1
<1>5. \A d \in Calls : Starting(d)' <=> Starting(d)
  BY <1>1 DEF Starting
<1> QED
  BY <1>1, <1>3, <1>4, <1>5 DEF Served

LEMMA ServedKill ==
    ASSUME Typed, Served, KillGui
    PROVE  Served'
<1>1. /\ UNCHANGED <<signals, overlap>> /\ handle' = NoCall
      /\ daemon' = [c \in Calls |-> Down]
      /\ call' = [c \in Calls |-> IF c \in {d \in Calls : call[d].gui}
                                  THEN Idle ELSE call[c]]
  BY DEF KillGui, Kill
<1>2. Down \in DaemonSet /\ Down.st = "down"
  BY DEF Down, DaemonSet, None
<1>3. daemon' \in [Calls -> DaemonSet] /\ \A c \in Calls : daemon'[c].st = "down"
  BY <1>1, <1>2
<1>4. Idle.pc = "idle"
  BY DEF Idle
<1>5. \A c \in Calls : call[c].pc = "register" => call[c].gui
  BY DEF Served
<1>6. \A c \in Calls : ~Starting(c)' /\ call'[c].pc # "register"
  BY <1>1, <1>4, <1>5 DEF Starting
<1> QED
  BY <1>1, <1>3, <1>6 DEF Served

LEMMA ServedOther ==
    ASSUME Typed, Served, NEW c \in Calls, StopWatch(c) \/ KillCommand(c)
    PROVE  Served'
<1>1. UNCHANGED <<daemon, handle, mu, signals, overlap>>
  BY DEF StopWatch, KillCommand, seVars
<1>2. CASE StopWatch(c)
  <2>1. call' = call
    BY <1>2 DEF StopWatch
  <2> QED
    BY <1>1, <2>1, ServedFrame DEF Starting
<1>3. CASE KillCommand(c)
  <2>1. /\ ~call[c].gui
        /\ call' = [d \in Calls |-> IF d \in {c} THEN Idle ELSE call[d]]
    BY <1>3 DEF KillCommand, Kill
  <2>2. Idle.pc = "idle"
    BY DEF Idle
  <2>3. /\ \A d \in Calls \ {c} : call'[d] = call[d]
        /\ call[c].pc # "register" /\ call'[c].pc # "register" /\ ~Starting(c)'
    BY <2>1, <2>2 DEF Starting, Served
  <2> QED
    BY <1>1, <2>3, OneFrame
<1> QED
  BY <1>2, <1>3

LEMMA ServedCalls ==
    ASSUME Typed, Served, NEW c \in Calls, NEW gui \in BOOLEAN,
           \/ CallUnlock(c) \/ CallServe(c) \/ CallWatch(c)
           \/ CallInit(c, gui) \/ CallRecover(c, gui) \/ CallPasswd(c, gui)
           \/ CallShowPhrase(c, gui) \/ CallCircle(c, gui) \/ CallBackup(c, gui)
    PROVE  Served'
<1>1. /\ UNCHANGED seVars /\ \A d \in Calls \ {c} : call'[d] = call[d]
      /\ call[c].pc = "idle" /\ call'[c].pc \in {"open", "check"}
      /\ call'[c].pc = "open" => call'[c].op # "serve"
  BY CallsOuter
<1>2. ~Starting(c)'
  BY <1>1 DEF Starting
<1>3. UNCHANGED <<daemon, handle, mu, signals, overlap>>
  BY <1>1 DEF seVars
<1> QED
  BY <1>1, <1>2, <1>3, OneFrame

LEMMA ServedStep ==
    Typed /\ Served /\ [Next]_vars => Served'
<1> SUFFICES ASSUME Typed, Served, [Next]_vars PROVE Served'
  OBVIOUS
<1>1. CASE UNCHANGED vars
  BY <1>1 DEF vars, ksVars, seVars, Served, Starting
<1>2. ASSUME NEW c \in Calls, Step(c) PROVE Served'
  BY <1>2, ServedKeystore, ServedOuter DEF Step, OuterStep
<1>3. ASSUME NEW c \in Calls,
             \/ CallUnlock(c) \/ CallServe(c) \/ CallWatch(c)
             \/ \E gui \in BOOLEAN :
                    \/ CallInit(c, gui) \/ CallRecover(c, gui) \/ CallPasswd(c, gui)
                    \/ CallShowPhrase(c, gui) \/ CallCircle(c, gui)
                    \/ CallBackup(c, gui)
      PROVE  Served'
  <2>1. TRUE \in BOOLEAN
    OBVIOUS
  <2> QED
    BY <1>3, <2>1, ServedCalls
<1>4. ASSUME NEW c \in Calls, StopServe(c) \/ StopWatch(c) \/ Close(c) \/ KillCommand(c)
      PROVE  Served'
  BY <1>4, ServedStop, ServedClose, ServedOther
<1>5. CASE Signal \/ KillGui
  BY <1>5, ServedSignal, ServedKill
<1>6. CASE Lock
  <2>1. UNCHANGED <<call, daemon, handle, mu, signals, overlap>>
    BY <1>6 DEF Lock, ksVars
  <2> QED
    BY <2>1, ServedFrame DEF Starting
<1> QED
  BY <1>1, <1>2, <1>3, <1>4, <1>5, <1>6 DEF Next

\* Unless two StartServe overlapped, every daemon that runs is the one that
\* StopServe would stop or is about to become it; and the handle is of a
\* running daemon until a signal ends it.  Kills, restarts of the daemon and
\* calls on the keystore between the steps of StartServe change nothing of it.
THEOREM ServeStaysTracked == Spec => []ServeTracked
<1>1. ASSUME SessionInit PROVE Served
  <2>1. Down \in DaemonSet /\ Down.st = "down"
    BY DEF Down, DaemonSet, None
  <2>2. daemon \in [Calls -> DaemonSet] /\ \A c \in Calls : daemon[c].st = "down"
    BY <1>1, <2>1 DEF SessionInit
  <2>3. handle = NoCall /\ signals = 0
    BY <1>1 DEF SessionInit
  <2> QED
    BY <1>1, <2>2, <2>3, NoneOpen DEF Served
<1>2. Served => ServeTracked
  BY DEF Served, ServeTracked
<1> QED
  BY <1>1, <1>2, ServedStep, TypedAlways, PTL DEF Spec
=============================================================================
