----------------------------- MODULE Session ------------------------------
(***************************************************************************)
(* The GUI's session (cmd/cerclbackup-gui/app.go) over the keystore: the   *)
(* password it holds, the daemon it starts and stops (api/serve.go) and    *)
(* the watch it starts (api/watch.go).  Every call of the frontend runs in *)
(* a goroutine of its own; a.mu is taken around single accesses, except by *)
(* StopServe, which keeps it until the daemon is down.  Commands run       *)
(* beside the GUI and change the same keystore.                            *)
(***************************************************************************)
EXTENDS Keystore

CONSTANTS
    CliOps,     \* commands that are run
    GuiOps,     \* calls the frontend makes
    Ports,      \* ports the user starts the daemon on
    MaxSignals  \* bound: SIGINT or SIGTERM received by the GUI

NoCall == "none"

ASSUME SessionAssumption == MaxSignals \in Nat /\ NoCall \notin Calls

VARIABLES
    session,    \* a.password, or None
    mu,         \* who holds a.mu between two steps
    handle,     \* a.serveHandle: the call that started the daemon, or NoCall
    daemon,     \* the daemon each call started last, and its port
    watcher,    \* the watcher each call started last
    watchHandle,\* a.watchHandle
    signals,
    overlap,    \* history: two StartServe were past the check at once
    foreign     \* history: the keystore changed behind the session

seVars == <<session, mu, handle, daemon, watcher, watchHandle, signals,
            overlap, foreign>>
vars == <<ksVars, seVars>>

Down == [st |-> "down", port |-> None]

SessionInit ==
    /\ Init
    /\ session = None /\ mu = NoCall
    /\ handle = NoCall /\ watchHandle = NoCall
    /\ daemon = [c \in Calls |-> Down]
    /\ watcher = [c \in Calls |-> "none"]
    /\ signals = 0
    /\ overlap = FALSE /\ foreign = FALSE

Return(c) == call' = [call EXCEPT ![c] = Idle]
KeepFile == UNCHANGED <<fileVars, drawn, faults, history, raced>>

-----------------------------------------------------------------------------
(* The user's calls. *)

\* The frontend makes a call, or the user runs the command.
Offered(op, gui) == op \in IF gui THEN GuiOps ELSE CliOps

\* getPassword: most calls of the GUI take the session's password.  A command
\* gets its own.
GetPassword(gui) ==
    IF ~gui THEN Passwords
    ELSE IF mu = NoCall /\ session # None THEN {session} ELSE {}

CallUnlock(c) ==
    /\ Offered("unlock", TRUE)
    /\ \E pw \in Passwords : Begin(c, "unlock", TRUE, pw, None, "open")
    /\ UNCHANGED seVars

CallInit(c, gui) ==
    /\ Offered("init", gui)
    /\ \E pw \in Passwords, force \in {0, 1} :
            Begin(c, "init", gui, pw, force, "open")
    /\ UNCHANGED seVars

\* The user types a phrase that was shown.
CallRecover(c, gui) ==
    /\ Offered("recover", gui)
    /\ \E pw \in Passwords, n \in shown :
            Begin(c, "recover", gui, pw, n, "open")
    /\ UNCHANGED seVars

CallPasswd(c, gui) ==
    /\ Offered("passwd", gui)
    /\ \E pw, new \in Passwords :
            pw # new /\ Begin(c, "passwd", gui, pw, new, "open")
    /\ UNCHANGED seVars

CallShowPhrase(c, gui) ==
    /\ Offered("phrase", gui)
    /\ \E pw \in GetPassword(gui) : Begin(c, "phrase", gui, pw, None, "open")
    /\ UNCHANGED seVars

CallCircle(c, gui) ==
    /\ \E op \in {"add", "remove"}, name \in Names, pw \in GetPassword(gui) :
            Offered(op, gui) /\ Begin(c, op, gui, pw, name, "open")
    /\ UNCHANGED seVars

CallBackup(c, gui) ==
    /\ Offered("backup", gui)
    /\ \E pw \in GetPassword(gui) : Begin(c, "backup", gui, pw, None, "open")
    /\ UNCHANGED seVars

CallServe(c) ==
    /\ Offered("serve", TRUE)
    /\ \E pw \in GetPassword(TRUE), port \in Ports :
            Begin(c, "serve", TRUE, pw, port, "check")
    /\ UNCHANGED seVars

CallWatch(c) ==
    /\ Offered("watch", TRUE)
    /\ \E pw \in GetPassword(TRUE) : Begin(c, "watch", TRUE, pw, None, "check")
    /\ UNCHANGED seVars

\* Mutant: passwd leaves the session's password.
SetPassword_NotPasswd(c) ==
    /\ call[c].pc = "done" /\ call[c].gui
    /\ call[c].op \in {"unlock", "init", "recover", "passwd"}
    /\ mu = NoCall
    /\ session' = call[c].pw
    /\ Return(c)
    /\ KeepFile
    /\ UNCHANGED <<calls, mu, handle, daemon, watcher, watchHandle, signals,
                   overlap, foreign>>

\* Unlock, Init, Recover and Passwd store the password that worked.
SetPassword(c) ==
    /\ call[c].pc = "done" /\ call[c].gui
    /\ call[c].op \in {"unlock", "init", "recover", "passwd"}
    /\ mu = NoCall
    /\ session' = IF call[c].op = "passwd" THEN call[c].arg ELSE call[c].pw
    /\ Return(c)
    /\ KeepFile
    /\ UNCHANGED <<calls, mu, handle, daemon, watcher, watchHandle, signals,
                   overlap, foreign>>

\* The others just return.
Finish(c) ==
    /\ call[c].pc = "done"
    /\ \/ ~call[c].gui
       \/ call[c].op \in {"phrase", "add", "remove", "ident"}
    /\ foreign' = (foreign \/ call[c].op \in {"init", "recover", "passwd"})
    /\ Return(c)
    /\ KeepFile
    /\ UNCHANGED <<calls, session, mu, handle, daemon, watcher, watchHandle,
                   signals, overlap>>

Lock ==
    /\ mu = NoCall
    /\ session # None
    /\ session' = None
    /\ UNCHANGED <<ksVars, mu, handle, daemon, watcher, watchHandle, signals,
                   overlap, foreign>>

-----------------------------------------------------------------------------
(* StartServe and StopServe. *)

\* A StartServe that has found no daemon and has not stored its own.
Starting(c) ==
    /\ call[c].gui /\ call[c].op = "serve"
    /\ call[c].pc \in {"open", "save", "write", "done", "register"}

\* Mutant: a daemon that runs does not keep another from being started.
CheckServe_Always(c) ==
    /\ call[c].pc = "check" /\ call[c].op = "serve"
    /\ mu = NoCall
    /\ call' = [call EXCEPT ![c].pc = "open"]
    /\ overlap' = (overlap \/ \E d \in Calls \ {c} : Starting(d))
    /\ KeepFile
    /\ UNCHANGED <<calls, session, mu, handle, daemon, watcher, watchHandle,
                   signals, foreign>>

CheckServe(c) ==
    /\ call[c].pc = "check" /\ call[c].op = "serve"
    /\ mu = NoCall
    /\ IF handle = NoCall
       THEN /\ call' = [call EXCEPT ![c].pc = "open"]
            /\ overlap' = (overlap \/ \E d \in Calls \ {c} : Starting(d))
       ELSE Return(c) /\ UNCHANGED overlap
    /\ KeepFile
    /\ UNCHANGED <<calls, session, mu, handle, daemon, watcher, watchHandle,
                   signals, foreign>>

\* The host listens, the handlers and loops start.
Launch(c) ==
    /\ call[c].pc = "done" /\ call[c].gui /\ call[c].op = "serve"
    /\ \A d \in Calls : daemon[d].st # "down" => daemon[d].port # call[c].arg
    /\ daemon[c].st = "down"
    /\ daemon' = [daemon EXCEPT ![c] = [st |-> "up", port |-> call[c].arg]]
    /\ call' = [call EXCEPT ![c].pc = "register"]
    /\ KeepFile
    /\ UNCHANGED <<calls, session, mu, handle, watcher, watchHandle, signals,
                   overlap, foreign>>

\* The port is taken, by a daemon or another program, or the registry cannot
\* be read.
LaunchFails(c) ==
    /\ call[c].pc = "done" /\ call[c].gui /\ call[c].op = "serve"
    /\ Return(c)
    /\ KeepFile
    /\ UNCHANGED <<calls, seVars>>

Register(c) ==
    /\ call[c].pc = "register"
    /\ mu = NoCall
    /\ handle' = c
    /\ Return(c)
    /\ KeepFile
    /\ UNCHANGED <<calls, session, mu, daemon, watcher, watchHandle, signals,
                   overlap, foreign>>

Cancelled(d) == IF d.st = "up" THEN [d EXCEPT !.st = "closing"] ELSE d

\* Mutant: Stop waits for the daemon without cancelling its context.
StopServe_NoCancel(c) ==
    /\ ~Busy(c) /\ calls < MaxCalls
    /\ mu = NoCall
    /\ handle # NoCall
    /\ mu' = c
    /\ calls' = calls + 1
    /\ call' = [call EXCEPT ![c] = [Idle EXCEPT !.pc = "stopping", !.gui = TRUE]]
    /\ KeepFile
    /\ UNCHANGED <<session, handle, daemon, watcher, watchHandle, signals,
                   overlap, foreign>>

\* Takes a.mu and cancels; keeps a.mu until the daemon is down.
StopServe(c) ==
    /\ ~Busy(c) /\ calls < MaxCalls
    /\ mu = NoCall
    /\ handle # NoCall
    /\ mu' = c
    /\ calls' = calls + 1
    /\ call' = [call EXCEPT ![c] = [Idle EXCEPT !.pc = "stopping", !.gui = TRUE]]
    /\ daemon' = [daemon EXCEPT ![handle] = Cancelled(@)]
    /\ KeepFile
    /\ UNCHANGED <<session, handle, watcher, watchHandle, signals, overlap,
                   foreign>>

\* Mutant: a.mu stays locked.
Stopped_Locked(c) ==
    /\ call[c].pc = "stopping"
    /\ daemon[handle].st = "down"
    /\ handle' = NoCall
    /\ Return(c)
    /\ KeepFile
    /\ UNCHANGED <<calls, session, mu, daemon, watcher, watchHandle, signals,
                   overlap, foreign>>

\* done is closed: the handle goes, a.mu is free.
Stopped(c) ==
    /\ call[c].pc = "stopping"
    /\ daemon[handle].st = "down"
    /\ handle' = NoCall
    /\ mu' = NoCall
    /\ Return(c)
    /\ KeepFile
    /\ UNCHANGED <<calls, session, daemon, watcher, watchHandle, signals,
                   overlap, foreign>>

\* The goroutine that waits for the context closes the host.
Close(c) ==
    /\ daemon[c].st = "closing"
    /\ daemon' = [daemon EXCEPT ![c] = Down]
    /\ UNCHANGED <<ksVars, session, mu, handle, watcher, watchHandle, signals,
                   overlap, foreign>>

\* SIGINT or SIGTERM, which signal.NotifyContext takes from the GUI.
Signal ==
    /\ signals < MaxSignals
    /\ signals' = signals + 1
    /\ daemon' = [c \in Calls |-> Cancelled(daemon[c])]
    /\ UNCHANGED <<ksVars, session, mu, handle, watcher, watchHandle, overlap,
                   foreign>>

-----------------------------------------------------------------------------
(* StartWatch and StopWatch. *)

CheckWatch(c) ==
    /\ call[c].pc = "check" /\ call[c].op = "watch"
    /\ mu = NoCall
    /\ IF watchHandle = NoCall
       THEN call' = [call EXCEPT ![c].pc = "open"]
       ELSE Return(c)
    /\ KeepFile
    /\ UNCHANGED <<calls, seVars>>

\* api.Watch calls watcher.Start, which runs the loop; or the directory cannot
\* be watched.
StartWatcher(c) ==
    /\ call[c].pc = "done" /\ call[c].op = "watch"
    /\ \E st \in {"running", "failed"} : watcher' = [watcher EXCEPT ![c] = st]
    /\ call' = [call EXCEPT ![c].pc = "watching"]
    /\ KeepFile
    /\ UNCHANGED <<calls, session, mu, handle, daemon, watchHandle, signals,
                   overlap, foreign>>

\* Start has returned: with an error, or because the watcher was stopped, and
\* then the handle is stored.
WatchReturns(c) ==
    /\ call[c].pc = "watching"
    /\ watcher[c] # "running"
    /\ mu = NoCall
    /\ watchHandle' = IF watcher[c] = "failed" THEN watchHandle ELSE c
    /\ Return(c)
    /\ KeepFile
    /\ UNCHANGED <<calls, session, mu, handle, daemon, watcher, signals,
                   overlap, foreign>>

\* Without a handle it fails.
StopWatch(c) ==
    /\ ~Busy(c) /\ calls < MaxCalls
    /\ mu = NoCall
    /\ calls' = calls + 1
    /\ watcher' = [d \in Calls |-> IF d = watchHandle THEN "stopped" ELSE watcher[d]]
    /\ watchHandle' = NoCall
    /\ KeepFile
    /\ UNCHANGED <<call, session, mu, handle, daemon, signals, overlap, foreign>>

-----------------------------------------------------------------------------
\* The GUI is killed, with its calls, its daemons and its watchers.
KillGui ==
    /\ session # None \/ handle # NoCall \/ \E c \in Calls : call[c].gui
    /\ Kill({c \in Calls : call[c].gui})
    /\ session' = None /\ mu' = NoCall
    /\ handle' = NoCall /\ watchHandle' = NoCall
    /\ daemon' = [c \in Calls |-> Down]
    /\ watcher' = [c \in Calls |-> "none"]
    /\ UNCHANGED <<signals, overlap, foreign>>

KillCommand(c) ==
    /\ Busy(c) /\ ~call[c].gui
    /\ Kill({c})
    /\ UNCHANGED seVars

\* The steps of a call once it is made.
Step(c) ==
    \/ KeystoreStep(c) /\ UNCHANGED seVars
    \/ SetPassword(c) \/ Finish(c)
    \/ CheckServe(c) \/ Launch(c) \/ LaunchFails(c) \/ Register(c) \/ Stopped(c)
    \/ CheckWatch(c) \/ StartWatcher(c) \/ WatchReturns(c)

Next ==
    \/ \E c \in Calls :
         \/ CallUnlock(c) \/ CallServe(c) \/ CallWatch(c)
         \/ \E gui \in BOOLEAN :
                \/ CallInit(c, gui) \/ CallRecover(c, gui) \/ CallPasswd(c, gui)
                \/ CallShowPhrase(c, gui) \/ CallCircle(c, gui)
                \/ CallBackup(c, gui)
         \/ StopServe(c) \/ StopWatch(c)
         \/ Step(c) \/ Close(c)
         \/ KillCommand(c)
    \/ Lock \/ Signal \/ KillGui

Spec == SessionInit /\ [][Next]_vars

\* A goroutine runs on; a.mu is a sync.Mutex, which hands itself to a waiter
\* that has waited for a millisecond, so a call that waits for it gets it.
\* Closing the host and the DHT takes finite time.
LiveSpec ==
    Spec /\ \A c \in Calls : SF_vars(Step(c)) /\ WF_vars(Close(c))

-----------------------------------------------------------------------------
TypeOK ==
    /\ KeystoreTypeOK
    /\ session \in Passwords \cup {None}
    /\ mu \in Calls \cup {NoCall}
    /\ handle \in Calls \cup {NoCall} /\ watchHandle \in Calls \cup {NoCall}
    /\ \A c \in Calls : (mu = c) = (call[c].pc = "stopping")

\* The password the session holds opens the keystore, as long as calls do not
\* overlap and no command changed the keystore behind the GUI.
SessionOpens ==
    /\ status = "ok" /\ session # None
    /\ ~raced /\ ~foreign /\ faults = 0
    /\ \A c \in Calls : ~Busy(c)
    => store.pw = session

\* Every daemon that runs can be stopped: it is the one StopServe would stop,
\* or its StartServe is about to store it, unless two StartServe overlapped.
\* And a stored handle is of a running daemon, until a signal ends it.
ServeTracked ==
    /\ ~overlap => \A c \in Calls : daemon[c].st = "up" =>
            handle = c \/ call[c].pc = "register"
    /\ signals = 0 /\ handle # NoCall /\ mu = NoCall => daemon[handle].st = "up"

\* Every call returns, those that wait for StopServe too; StartWatch apart.
CallsReturn ==
    \A c \in Calls : Busy(c) ~> (~Busy(c) \/ call[c].pc = "watching")

\* api/watch.go:43: Watch "returns immediately with a handle to stop the
\* watcher".
WatchCallReturns ==
    \A c \in Calls : call[c].pc = "watching" ~> ~Busy(c)
=============================================================================
