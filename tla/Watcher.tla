------------------------------ MODULE Watcher ------------------------------
(***************************************************************************)
(* The event loop of internal/watcher and its debounce timers.  An event   *)
(* on a path (re)starts the timer of that path; a timer that pops runs     *)
(* fire on a goroutine of its own, some time later, and fire starts the    *)
(* handler unless the path's entry has been renewed or removed meanwhile.  *)
(*                                                                         *)
(* Time is counted in ticks.  A due timer pops before time goes on, and    *)
(* the goroutine of fire gets the mutex at most MaxLag ticks after that.   *)
(* Events are those the loop acts on (Create, Write, Rename), at the time  *)
(* it receives them.                                                       *)
(***************************************************************************)
EXTENDS Integers, FiniteSets

CONSTANTS
    Paths,      \* files being watched
    Timers,     \* bound: timers and their goroutines that exist at a time
    Debounce,   \* Watcher.debounce, in ticks
    MaxLag,     \* bound: ticks from the pop of a timer to fire holding mu
    MaxGen,     \* bound: generations of one pending entry
    None        \* no entry

ASSUME WatcherAssumption ==
    /\ Debounce \in Nat \ {0}
    /\ MaxLag \in Nat
    /\ MaxGen \in Nat
    /\ None \notin [timer : Timers, gen : 0 .. MaxGen]
    /\ None \notin Paths

VARIABLES
    timers,     \* the map of run: path -> pending, or None
    timer,      \* the time.Timers and the goroutines they start
    stop,       \* Stop: not called, stopCh closed, fw closed as well
    loop,       \* the loop of run: running, or done
    quiet,      \* ticks since the last event on a path, up to Horizon
    dirty       \* history: paths with an event no handler has started after

vars == <<timers, timer, stop, loop, quiet, dirty>>

\* No property looks further back than this.
Horizon == Debounce + MaxLag + 1

Free == [at |-> "free", path |-> None, gen |-> 0, wait |-> 0]

Init ==
    /\ timers = [p \in Paths |-> None]
    /\ timer = [t \in Timers |-> Free]
    /\ stop = "open"
    /\ loop = "run"
    /\ quiet = [p \in Paths |-> Horizon]
    /\ dirty = {}

At(where) == {t \in Timers : timer[t].at = where}

-----------------------------------------------------------------------------
(* The branches of the loop's select. *)

\* An entry's generation when an event arrives.
NextGen(p) == IF timers[p] = None THEN 0 ELSE timers[p].gen + 1

\* Mutants: the generation is captured before the entry's is incremented, and
\* one too far.
CapturedGen_Before(p) == IF timers[p] = None THEN 0 ELSE timers[p].gen

CapturedGen_After(p) == NextGen(p) + 1

\* The generation that the new timer hands to fire.
CapturedGen(p) == NextGen(p)

\* Mutant: the old timer is left running.
Stopped_Not(ts) == timer

\* p.timer.Stop(): no effect on a timer that has popped.
Stopped(ts) ==
    [t \in Timers |-> IF t \in ts /\ timer[t].at = "armed" THEN Free ELSE timer[t]]

Pending(ps) == {timers[p].timer : p \in {q \in ps : timers[q] # None}}

Event(p, t) ==
    /\ loop = "run"
    /\ stop # "closed"
    /\ NextGen(p) <= MaxGen
    /\ timer[t].at = "free"
    /\ timers' = [timers EXCEPT ![p] = [timer |-> t, gen |-> NextGen(p)]]
    /\ timer' = [Stopped(Pending({p})) EXCEPT ![t] =
                    [at |-> "armed", path |-> p, gen |-> CapturedGen(p),
                     wait |-> Debounce]]
    /\ quiet' = [quiet EXCEPT ![p] = 0]
    /\ dirty' = dirty \cup {p}
    /\ UNCHANGED <<stop, loop>>

\* stopCh is closed: the timers of all entries are stopped.
LoopStop ==
    /\ loop = "run"
    /\ stop # "open"
    /\ timer' = Stopped(Pending(Paths))
    /\ loop' = "done"
    /\ UNCHANGED <<timers, stop, quiet, dirty>>

\* Events or Errors is closed, and select takes that branch: return at once.
LoopClosed ==
    /\ loop = "run"
    /\ stop = "closed"
    /\ loop' = "done"
    /\ UNCHANGED <<timers, timer, stop, quiet, dirty>>

-----------------------------------------------------------------------------
(* A timer and its goroutine. *)

Pop(t) ==
    /\ timer[t].at = "armed"
    /\ timer[t].wait = 0
    /\ timer' = [timer EXCEPT ![t] = [timer[t] EXCEPT !.at = "popped"]]
    /\ UNCHANGED <<timers, stop, loop, quiet, dirty>>

\* Mutant: fire only looks whether the path has an entry.
UpToDate_AnyEntry(t) == timers[timer[t].path] # None

\* The test of fire: no newer event has superseded this generation.
UpToDate(t) ==
    /\ timers[timer[t].path] # None
    /\ timers[timer[t].path].gen = timer[t].gen

Fire(t) ==
    /\ timer[t].at = "popped"
    /\ UpToDate(t)
    /\ timers' = [timers EXCEPT ![timer[t].path] = None]
    /\ timer' = [timer EXCEPT ![t] = [at |-> "handler", path |-> timer[t].path,
                                      gen |-> timer[t].gen, wait |-> 0]]
    /\ dirty' = dirty \ {timer[t].path}
    /\ UNCHANGED <<stop, loop, quiet>>

Discard(t) ==
    /\ timer[t].at = "popped"
    /\ ~UpToDate(t)
    /\ timer' = [timer EXCEPT ![t] = Free]
    /\ UNCHANGED <<timers, stop, loop, quiet, dirty>>

HandlerReturns(t) ==
    /\ timer[t].at = "handler"
    /\ timer' = [timer EXCEPT ![t] = Free]
    /\ UNCHANGED <<timers, stop, loop, quiet, dirty>>

-----------------------------------------------------------------------------
(* Stop, called once, by the owner of the watcher; and time. *)

CloseStopCh ==
    /\ stop = "open"
    /\ stop' = "closing"
    /\ UNCHANGED <<timers, timer, loop, quiet, dirty>>

CloseFsnotify ==
    /\ stop = "closing"
    /\ stop' = "closed"
    /\ UNCHANGED <<timers, timer, loop, quiet, dirty>>

Aged(t) ==
    IF timer[t].at = "armed"
    THEN [timer[t] EXCEPT !.wait = timer[t].wait - 1]
    ELSE IF timer[t].at = "popped"
         THEN [timer[t] EXCEPT !.wait = timer[t].wait + 1]
         ELSE timer[t]

Tick ==
    /\ \A t \in At("armed") : timer[t].wait > 0
    /\ \A t \in At("popped") : timer[t].wait < MaxLag
    /\ timer' = [t \in Timers |-> Aged(t)]
    /\ quiet' = [p \in Paths |-> IF quiet[p] < Horizon THEN quiet[p] + 1 ELSE Horizon]
    /\ UNCHANGED <<timers, stop, loop, dirty>>

Next ==
    \/ \E p \in Paths, t \in Timers : Event(p, t)
    \/ LoopStop
    \/ LoopClosed
    \/ \E t \in Timers : Pop(t) \/ Fire(t) \/ Discard(t) \/ HandlerReturns(t)
    \/ CloseStopCh
    \/ CloseFsnotify
    \/ Tick

Spec == Init /\ [][Next]_vars

-----------------------------------------------------------------------------
TypeOK ==
    /\ timers \in [Paths -> [timer : Timers, gen : 0 .. MaxGen] \cup {None}]
    /\ timer \in [Timers -> [at : {"free", "armed", "popped", "handler"},
                             path : Paths \cup {None},
                             gen : 0 .. MaxGen,
                             wait : 0 .. Debounce + MaxLag]]
    /\ stop \in {"open", "closing", "closed"}
    /\ loop \in {"run", "done"}
    /\ quiet \in [Paths -> 0 .. Horizon]
    /\ dirty \subseteq Paths

\* The loop can always reach a timer it has to stop or renew: an armed timer
\* is the one its path's entry names, with the entry's generation.  A second
\* timer on a path would fire in the middle of a burst, and survive Stop.
ArmedIsCurrent ==
    \A t \in At("armed") :
        timers[timer[t].path] = [timer |-> t, gen |-> timer[t].gen]

\* "rapid saves ... collapse into a single backup trigger per file": a handler
\* starts for a path only when the path has had no event for the debounce
\* time.
Debounced ==
    [][\A t \in Timers : Fire(t) => quiet[timer[t].path] >= Debounce]_vars

\* No change is forgotten: while the loop runs, a handler starts for a changed
\* path at most Debounce + MaxLag after the last event on it, whatever timers
\* were stopped, renewed or discarded on the way.
ChangesHandled ==
    loop = "run" => \A p \in dirty : quiet[p] <= Debounce + MaxLag
=============================================================================
