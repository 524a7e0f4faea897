--------------------------- MODULE WatcherProofs ---------------------------
(***************************************************************************)
(* The watcher debounces and forgets nothing, for any paths, debounce time *)
(* and number of timers, provided the goroutine of a timer is never held   *)
(* up for the debounce time: then a timer that popped is gone before its   *)
(* path's entry can have been removed and made anew with generation 0.     *)
(***************************************************************************)
EXTENDS Watcher, TLAPS

\* Every step of the next-state relation, one disjunct per action.
LEMMA NextCases ==
    ASSUME [Next]_vars
    PROVE  \/ \E p \in Paths, t \in Timers : Event(p, t)
           \/ LoopStop
           \/ LoopClosed
           \/ \E t \in Timers : Pop(t)
           \/ \E t \in Timers : Fire(t)
           \/ \E t \in Timers : Discard(t)
           \/ \E t \in Timers : HandlerReturns(t)
           \/ CloseStopCh
           \/ CloseFsnotify
           \/ Tick
           \/ UNCHANGED vars
BY DEF Next

\* Every variable keeps its type.
THEOREM TypeCorrect == Spec => []TypeOK
<1> USE WatcherAssumption DEF Horizon
<1>1. Init => TypeOK
  BY DEF Init, TypeOK, Free
<1>2. TypeOK /\ [Next]_vars => TypeOK'
  <2> SUFFICES ASSUME TypeOK, [Next]_vars PROVE TypeOK'
    OBVIOUS
  <2>1. ASSUME NEW ts PROVE
        Stopped(ts) \in [Timers -> [at : {"free", "armed", "popped", "handler"},
                                    path : Paths \cup {None},
                                    gen : 0 .. MaxGen,
                                    wait : 0 .. Debounce + MaxLag]]
    BY DEF TypeOK, Stopped, Free
  <2>2. ASSUME NEW p \in Paths, NEW t \in Timers, Event(p, t) PROVE TypeOK'
    <3>1. NextGen(p) \in 0 .. MaxGen
      BY <2>2 DEF TypeOK, NextGen, Event
    <3> QED
      BY <2>1, <2>2, <3>1 DEF TypeOK, Event, CapturedGen
  <2>3. CASE LoopStop
    BY <2>1, <2>3 DEF TypeOK, LoopStop
  <2>4. CASE LoopClosed
    BY <2>4 DEF TypeOK, LoopClosed
  <2>5. ASSUME NEW t \in Timers, Pop(t) PROVE TypeOK'
    BY <2>5 DEF TypeOK, Pop
  <2>6. ASSUME NEW t \in Timers, Fire(t) PROVE TypeOK'
    <3>1. timer[t].path \in Paths \cup {None} /\ timer[t].gen \in 0 .. MaxGen
      BY DEF TypeOK
    <3>2. timers' \in [Paths -> [timer : Timers, gen : 0 .. MaxGen] \cup {None}]
      BY <2>6 DEF TypeOK, Fire
    <3> QED
      BY <2>6, <3>1, <3>2 DEF TypeOK, Fire
  <2>7. ASSUME NEW t \in Timers, Discard(t) PROVE TypeOK'
    BY <2>7 DEF TypeOK, Discard, Free
  <2>8. ASSUME NEW t \in Timers, HandlerReturns(t) PROVE TypeOK'
    BY <2>8 DEF TypeOK, HandlerReturns, Free
  <2>9. CASE CloseStopCh \/ CloseFsnotify
    BY <2>9 DEF TypeOK, CloseStopCh, CloseFsnotify
  <2>10. CASE Tick
    <3>1. \A t \in Timers : Aged(t) \in [at : {"free", "armed", "popped", "handler"},
                                         path : Paths \cup {None},
                                         gen : 0 .. MaxGen,
                                         wait : 0 .. Debounce + MaxLag]
      BY <2>10 DEF TypeOK, Tick, Aged, At
    <3> QED
      BY <2>10, <3>1 DEF TypeOK, Tick
  <2>11. CASE UNCHANGED vars
    BY <2>11 DEF TypeOK, vars
  <2> QED
    BY <2>2, <2>3, <2>4, <2>5, <2>6, <2>7, <2>8, <2>9, <2>10, <2>11, NextCases
<1> QED
  BY <1>1, <1>2, PTL DEF Spec

-----------------------------------------------------------------------------
(* The inductive invariant. *)

\* Timers that count or have popped belong to a path.
OnPath == \A t \in Timers : timer[t].at \in {"armed", "popped"} => timer[t].path \in Paths

\* While the loop runs, the timer an entry names is alive.
EntryAlive ==
    \A p \in Paths : loop = "run" /\ timers[p] # None =>
        LET t == timers[p].timer
        IN  timer[t].at \in {"armed", "popped"} /\ timer[t].path = p
                                               /\ timer[t].gen = timers[p].gen

\* An armed timer counts down from the last event on its path.
ArmedClock ==
    \A t \in Timers : timer[t].at = "armed" =>
        quiet[timer[t].path] + timer[t].wait = Debounce

\* A timer that has popped is the entry's own, or an event has overtaken it:
\* then the entry has a later generation, and the entry's timer was armed
\* after the pop.
Own(t) ==
    LET p == timer[t].path
    IN  /\ timers[p] = [timer |-> t, gen |-> timer[t].gen]
        /\ quiet[p] = Debounce + timer[t].wait

Overtaken(t) ==
    LET e == timers[timer[t].path]
    IN  /\ e.gen > timer[t].gen
        /\ \/ /\ timer[e.timer].at = "armed"
              /\ timer[e.timer].path = timer[t].path
              /\ timer[e.timer].wait + timer[t].wait >= Debounce
           \/ loop = "done" /\ timer[e.timer].at = "free"

PoppedClock ==
    \A t \in Timers : timer[t].at = "popped" =>
        /\ timers[timer[t].path] # None
        /\ timer[t].wait <= MaxLag
        /\ Own(t) \/ Overtaken(t)

OnePopped ==
    \A t, u \in Timers :
        /\ timer[t].at = "popped" /\ timer[u].at = "popped"
        /\ timer[t].path = timer[u].path
        => t = u

DirtyPending == \A p \in dirty : timers[p] # None

ClockInv ==
    /\ OnPath
    /\ ArmedIsCurrent
    /\ EntryAlive
    /\ ArmedClock
    /\ PoppedClock
    /\ OnePopped
    /\ DirtyPending

\* The timers of the entries of ps include every armed timer of these paths.
LEMMA ArmedPending ==
    ASSUME TypeOK, ClockInv, NEW t \in Timers, timer[t].at = "armed",
           NEW ps \in SUBSET Paths, timer[t].path \in ps
    PROVE  t \in Pending(ps)
<1>1. timers[timer[t].path] = [timer |-> t, gen |-> timer[t].gen]
  BY DEF ClockInv, ArmedIsCurrent, At
<1>2. timers[timer[t].path] # None /\ timers[timer[t].path].timer = t
  BY <1>1, WatcherAssumption DEF TypeOK
<1> QED
  BY <1>2 DEF Pending

\* A popped timer with the generation of its path's entry is the entry's.
LEMMA PoppedOwn ==
    ASSUME TypeOK, ClockInv, NEW t \in Timers, timer[t].at = "popped", UpToDate(t)
    PROVE  Own(t)
<1>1. timer[t].path \in Paths /\ timers[timer[t].path] # None /\ (Own(t) \/ Overtaken(t))
  BY DEF ClockInv, OnPath, PoppedClock
<1>2. timers[timer[t].path].gen \in Int /\ timer[t].gen \in Int
  BY <1>1, WatcherAssumption DEF TypeOK
<1> QED
  BY <1>1, <1>2 DEF UpToDate, Overtaken

\* One step keeps ClockInv when fire is never held up for the debounce time.
LEMMA ClockStep ==
    ASSUME TypeOK, ClockInv, [Next]_vars, MaxLag < Debounce
    PROVE  ClockInv'
<1> USE WatcherAssumption
<1> USE DEF TypeOK
<1>1. ASSUME NEW p \in Paths, NEW v \in Timers, Event(p, v)
      PROVE  ClockInv'
  \* The armed timer of p, if any, is the entry's and is stopped.
  <2>1. /\ NextGen(p) \in 0 .. MaxGen
        /\ timers' = [timers EXCEPT ![p] = [timer |-> v, gen |-> NextGen(p)]]
        /\ quiet' = [quiet EXCEPT ![p] = 0]
        /\ dirty' = dirty \cup {p}
        /\ loop = "run" /\ loop' = "run" /\ timer[v].at = "free"
    BY <1>1 DEF Event, NextGen
  <2>2. timer'[v] = [at |-> "armed", path |-> p, gen |-> NextGen(p), wait |-> Debounce]
    BY <1>1 DEF Event, CapturedGen, Stopped
  <2>3. \A t \in Timers \ {v} :
            timer'[t] = IF t \in Pending({p}) /\ timer[t].at = "armed" THEN Free ELSE timer[t]
    BY <1>1 DEF Event, Stopped
  <2>4. \A t \in Timers \ {v} : timer'[t].at = "armed" =>
            timer'[t] = timer[t] /\ timer[t].path # p
    BY <2>3, ArmedPending DEF Free
  <2>5. \A t \in Timers \ {v} : timer[t].at # "armed" \/ timer[t].path # p => timer'[t] = timer[t]
    <3>1. ASSUME NEW t \in Timers, t \in Pending({p}) PROVE timer[t].path = p
      <4>1. timers[p] # None /\ timers[p].timer = t
        BY <3>1 DEF Pending
      <4> QED
        BY <4>1, <2>1 DEF ClockInv, EntryAlive
    <3> QED
      BY <2>3, <3>1
  <2>6. \A t \in Timers : timer'[t].at = "popped" => timer'[t] = timer[t] /\ t # v
    BY <2>2, <2>3 DEF Free
  <2>7. OnPath'
    BY <2>2, <2>4, <2>6 DEF OnPath, ClockInv
  <2>8. ArmedIsCurrent'
    BY <2>1, <2>2, <2>4 DEF ArmedIsCurrent, At, ClockInv, OnPath
  <2>9. EntryAlive'
    BY <2>1, <2>2, <2>5 DEF EntryAlive, ClockInv
  <2>10. ArmedClock'
    BY <2>1, <2>2, <2>4 DEF ArmedClock, ClockInv, OnPath
  <2>11. PoppedClock'
    <3> SUFFICES ASSUME NEW t \in Timers, timer'[t].at = "popped"
                 PROVE  /\ timers'[timer'[t].path] # None
                        /\ timer'[t].wait <= MaxLag
                        /\ Own(t)' \/ Overtaken(t)'
      BY DEF PoppedClock
    <3>1. timer'[t] = timer[t] /\ t # v /\ timer[t].path \in Paths
      BY <2>6 DEF ClockInv, OnPath
    <3>2. timers[timer[t].path] # None /\ timer[t].wait <= MaxLag /\ (Own(t) \/ Overtaken(t))
      BY <3>1 DEF ClockInv, PoppedClock
    <3>3. CASE timer[t].path = p
      <4>1. NextGen(p) > timer[t].gen
        BY <3>2, <3>3 DEF NextGen, Own, Overtaken
      <4>2. Overtaken(t)'
        BY <4>1, <3>1, <3>3, <2>1, <2>2 DEF Overtaken
      <4> QED
        BY <4>2, <3>1, <3>2, <3>3, <2>1
    <3>4. CASE timer[t].path # p
      <4> DEFINE q == timer[t].path
      <4>1. timers'[q] = timers[q] /\ quiet'[q] = quiet[q]
        BY <3>1, <3>4, <2>1
      <4>2. Own(t) => Own(t)'
        BY <4>1, <3>1 DEF Own
      <4>3. Overtaken(t) => Overtaken(t)'
        <5> SUFFICES ASSUME Overtaken(t) PROVE Overtaken(t)'
          OBVIOUS
        <5>1. timers[q].timer \in Timers \ {v} /\ timer[timers[q].timer].path = q
          BY <3>1, <3>2, <2>1 DEF ClockInv, EntryAlive
        <5>2. timer'[timers[q].timer] = timer[timers[q].timer]
          BY <5>1, <2>5, <3>4
        <5> QED
          BY <5>2, <4>1, <3>1, <2>1 DEF Overtaken
      <4> QED
        BY <4>1, <4>2, <4>3, <3>1, <3>2
    <3> QED
      BY <3>3, <3>4
  <2>12. OnePopped'
    BY <2>6 DEF OnePopped, ClockInv
  <2>13. DirtyPending'
    BY <2>1 DEF DirtyPending, ClockInv
  <2> QED
    BY <2>7, <2>8, <2>9, <2>10, <2>11, <2>12, <2>13 DEF ClockInv
<1>2. CASE LoopStop
  \* Every armed timer is an entry's, so all of them are stopped.
  <2>1. timers' = timers /\ quiet' = quiet /\ dirty' = dirty /\ loop' = "done"
    BY <1>2 DEF LoopStop
  <2>2. \A t \in Timers : timer[t].at = "armed" => t \in Pending(Paths)
    BY ArmedPending DEF ClockInv, OnPath
  <2>3. \A t \in Timers : timer'[t] = IF timer[t].at = "armed" THEN Free ELSE timer[t]
    BY <1>2, <2>2 DEF LoopStop, Stopped
  <2>4. PoppedClock'
    <3> SUFFICES ASSUME NEW t \in Timers, timer'[t].at = "popped"
                 PROVE  /\ timers'[timer'[t].path] # None
                        /\ timer'[t].wait <= MaxLag
                        /\ Own(t)' \/ Overtaken(t)'
      BY DEF PoppedClock
    <3>1. timer'[t] = timer[t] /\ timer[t].path \in Paths
      BY <2>3 DEF ClockInv, OnPath, Free
    <3>2. timers[timer[t].path] # None /\ timer[t].wait <= MaxLag /\ (Own(t) \/ Overtaken(t))
      BY <3>1 DEF ClockInv, PoppedClock
    <3>3. Own(t) => Own(t)'
      BY <3>1, <2>1 DEF Own
    <3>4. timers[timer[t].path].timer \in Timers
      BY <3>1, <3>2
    <3>5. Overtaken(t) => Overtaken(t)'
      BY <3>1, <3>4, <2>1, <2>3 DEF Overtaken, Free
    <3> QED
      BY <3>1, <3>2, <3>3, <3>5, <2>1
  <2> QED
    BY <2>1, <2>3, <2>4
    DEF ClockInv, OnPath, ArmedIsCurrent, At, EntryAlive, ArmedClock, OnePopped,
        DirtyPending, Free
<1>3. CASE LoopClosed \/ CloseStopCh \/ CloseFsnotify \/ UNCHANGED vars
  BY <1>3
  DEF LoopClosed, CloseStopCh, CloseFsnotify, vars, ClockInv, OnPath,
      ArmedIsCurrent, At, EntryAlive, ArmedClock, PoppedClock, Own, Overtaken,
      OnePopped, DirtyPending
<1>4. ASSUME NEW v \in Timers, Pop(v)
      PROVE  ClockInv'
  <2>1. /\ timer[v].at = "armed" /\ timer[v].wait = 0 /\ timer[v].path \in Paths
        /\ timer' = [timer EXCEPT ![v] = [timer[v] EXCEPT !.at = "popped"]]
        /\ UNCHANGED <<timers, loop, quiet, dirty>>
    BY <1>4 DEF Pop, ClockInv, OnPath
  <2>2. /\ timer'[v].at = "popped" /\ timer'[v].wait = 0
        /\ timer'[v].path = timer[v].path /\ timer'[v].gen = timer[v].gen
        /\ \A t \in Timers \ {v} : timer'[t] = timer[t]
    BY <2>1
  <2>3. /\ timers[timer[v].path] = [timer |-> v, gen |-> timer[v].gen]
        /\ quiet[timer[v].path] = Debounce
    BY <2>1 DEF ClockInv, ArmedIsCurrent, At, ArmedClock
  \* A timer that popped before would have been held up for Debounce.
  <2>4. \A t \in Timers : timer[t].at = "popped" => timer[t].path # timer[v].path
    <3> SUFFICES ASSUME NEW t \in Timers, timer[t].at = "popped",
                        timer[t].path = timer[v].path
                 PROVE  FALSE
      OBVIOUS
    <3>1. timer[t].wait \in Int /\ timer[t].wait <= MaxLag /\ (Own(t) \/ Overtaken(t))
      BY DEF ClockInv, PoppedClock
    <3>2. timers[timer[v].path].timer = v
      BY <2>3
    <3>3. CASE Own(t)
      BY <3>2, <3>3, <2>1 DEF Own
    <3>4. CASE Overtaken(t)
      BY <3>1, <3>2, <3>4, <2>1 DEF Overtaken
    <3> QED
      BY <3>1, <3>3, <3>4
  <2>5. OnPath' /\ ArmedIsCurrent' /\ ArmedClock' /\ DirtyPending'
    BY <2>1, <2>2 DEF ClockInv, OnPath, ArmedIsCurrent, At, ArmedClock, DirtyPending
  <2>6. EntryAlive'
    BY <2>1, <2>2 DEF ClockInv, EntryAlive
  <2>7. PoppedClock'
    <3> SUFFICES ASSUME NEW t \in Timers, timer'[t].at = "popped"
                 PROVE  /\ timers'[timer'[t].path] # None
                        /\ timer'[t].wait <= MaxLag
                        /\ Own(t)' \/ Overtaken(t)'
      BY DEF PoppedClock
    <3>1. CASE t = v
      BY <3>1, <2>1, <2>2, <2>3 DEF Own
    <3>2. CASE t # v
      <4>1. timer'[t] = timer[t] /\ timer[t].path \in Paths
        BY <3>2, <2>2 DEF ClockInv, OnPath
      <4>2. timers[timer[t].path] # None /\ timer[t].wait <= MaxLag /\ (Own(t) \/ Overtaken(t))
        BY <4>1 DEF ClockInv, PoppedClock
      <4>3. Own(t) => Own(t)'
        BY <4>1, <2>1 DEF Own
      <4>4. ASSUME Overtaken(t) PROVE Overtaken(t)'
        <5>1. timers[timer[t].path].timer \in Timers
          BY <4>1, <4>2
        <5>2. timers[timer[t].path].timer # v
          BY <3>2, <4>1, <4>4, <2>1, <2>2, <2>4 DEF Overtaken
        <5> QED
          BY <5>1, <5>2, <4>1, <4>4, <2>1, <2>2 DEF Overtaken
      <4> QED
        BY <4>1, <4>2, <4>3, <4>4, <2>1
    <3> QED
      BY <3>1, <3>2
  <2>8. OnePopped'
    BY <2>2, <2>4 DEF ClockInv, OnePopped
  <2> QED
    BY <2>5, <2>6, <2>7, <2>8 DEF ClockInv
<1>5. ASSUME NEW v \in Timers, Fire(v)
      PROVE  ClockInv'
  <2>1. /\ timer[v].at = "popped" /\ timer[v].path \in Paths
        /\ timers' = [timers EXCEPT ![timer[v].path] = None]
        /\ dirty' = dirty \ {timer[v].path}
        /\ UNCHANGED <<loop, quiet>>
    BY <1>5 DEF Fire, ClockInv, OnPath
  <2>2. timer'[v].at = "handler" /\ \A t \in Timers \ {v} : timer'[t] = timer[t]
    BY <1>5 DEF Fire
  \* The entry is this timer's own: no other timer of the path is left.
  <2>3. timers[timer[v].path] = [timer |-> v, gen |-> timer[v].gen]
    BY <1>5, PoppedOwn DEF Fire, Own
  <2>4. \A t \in Timers \ {v} :
            timer[t].at \in {"armed", "popped"} => timer[t].path # timer[v].path
    <3>1. timers[timer[v].path].timer = v
      BY <2>3
    <3>2. ASSUME NEW t \in Timers, timer[t].at = "armed"
          PROVE  timers[timer[t].path].timer = t
      <4>1. timers[timer[t].path] = [timer |-> t, gen |-> timer[t].gen]
        BY <3>2 DEF ClockInv, ArmedIsCurrent, At
      <4> QED
        BY <4>1
    <3> QED
      BY <2>1, <3>1, <3>2 DEF ClockInv, OnePopped
  <2>5. \A p \in Paths \ {timer[v].path} : loop = "run" /\ timers[p] # None => timers[p].timer # v
    BY <2>1 DEF ClockInv, EntryAlive
  <2>6. OnPath' /\ ArmedIsCurrent' /\ ArmedClock' /\ DirtyPending' /\ OnePopped'
    BY <2>1, <2>2, <2>4
    DEF ClockInv, OnPath, ArmedIsCurrent, At, ArmedClock, DirtyPending, OnePopped
  <2>7. EntryAlive'
    BY <2>1, <2>2, <2>5 DEF ClockInv, EntryAlive
  <2>8. PoppedClock'
    <3> SUFFICES ASSUME NEW t \in Timers, timer'[t].at = "popped"
                 PROVE  /\ timers'[timer'[t].path] # None
                        /\ timer'[t].wait <= MaxLag
                        /\ Own(t)' \/ Overtaken(t)'
      BY DEF PoppedClock
    <3>1. t # v /\ timer'[t] = timer[t] /\ timer[t].path \in Paths \ {timer[v].path}
      BY <2>2, <2>4 DEF ClockInv, OnPath
    <3>2. timers[timer[t].path] # None /\ timer[t].wait <= MaxLag /\ (Own(t) \/ Overtaken(t))
      BY <3>1 DEF ClockInv, PoppedClock
    <3>3. timers'[timer[t].path] = timers[timer[t].path]
      BY <3>1, <2>1
    <3>4. Own(t) => Own(t)'
      BY <3>1, <3>3, <2>1 DEF Own
    <3>5. ASSUME Overtaken(t) PROVE Overtaken(t)'
      <4>1. timers[timer[t].path].timer \in Timers \ {v}
        BY <3>1, <3>2, <3>5, <2>1 DEF Overtaken
      <4> QED
        BY <4>1, <3>1, <3>3, <3>5, <2>1, <2>2 DEF Overtaken
    <3> QED
      BY <3>1, <3>2, <3>3, <3>4, <3>5
  <2> QED
    BY <2>6, <2>7, <2>8 DEF ClockInv
<1>6. ASSUME NEW v \in Timers, Discard(v) \/ HandlerReturns(v)
      PROVE  ClockInv'
  <2>1. /\ timer'[v] = Free /\ \A t \in Timers \ {v} : timer'[t] = timer[t]
        /\ UNCHANGED <<timers, loop, quiet, dirty>>
    BY <1>6 DEF Discard, HandlerReturns
  <2>2. timer[v].at \in {"popped", "handler"}
    BY <1>6 DEF Discard, HandlerReturns
  \* No entry of a running loop names the goroutine that ends here.
  <2>3. \A p \in Paths : loop = "run" /\ timers[p] # None => timers[p].timer # v
    BY <1>6 DEF Discard, HandlerReturns, UpToDate, ClockInv, EntryAlive
  <2>4. OnPath' /\ ArmedIsCurrent' /\ ArmedClock' /\ DirtyPending' /\ OnePopped'
    BY <2>1
    DEF ClockInv, OnPath, ArmedIsCurrent, At, ArmedClock, DirtyPending, OnePopped, Free
  <2>5. EntryAlive'
    BY <2>1, <2>3 DEF ClockInv, EntryAlive
  <2>6. PoppedClock'
    <3> SUFFICES ASSUME NEW t \in Timers, timer'[t].at = "popped"
                 PROVE  /\ timers'[timer'[t].path] # None
                        /\ timer'[t].wait <= MaxLag
                        /\ Own(t)' \/ Overtaken(t)'
      BY DEF PoppedClock
    <3>1. t # v /\ timer'[t] = timer[t] /\ timer[t].path \in Paths
      BY <2>1 DEF ClockInv, OnPath, Free
    <3>2. timers[timer[t].path] # None /\ timer[t].wait <= MaxLag /\ (Own(t) \/ Overtaken(t))
      BY <3>1 DEF ClockInv, PoppedClock
    <3>3. Own(t) => Own(t)'
      BY <3>1, <2>1 DEF Own
    <3>4. ASSUME Overtaken(t) PROVE Overtaken(t)'
      <4>1. timers[timer[t].path].timer \in Timers \ {v}
        BY <3>1, <3>2, <3>4, <2>2 DEF Overtaken
      <4> QED
        BY <4>1, <3>1, <3>4, <2>1 DEF Overtaken
    <3> QED
      BY <3>1, <3>2, <3>3, <3>4, <2>1
  <2> QED
    BY <2>4, <2>5, <2>6 DEF ClockInv
<1>7. CASE Tick
  <2>1. /\ \A t \in Timers : timer[t].at = "armed" => timer[t].wait > 0
        /\ \A t \in Timers : timer[t].at = "popped" => timer[t].wait < MaxLag
        /\ UNCHANGED <<timers, loop, dirty>>
    BY <1>7 DEF Tick, At
  <2>2. \A t \in Timers :
            /\ timer'[t].at = timer[t].at
            /\ timer'[t].path = timer[t].path
            /\ timer'[t].gen = timer[t].gen
            /\ timer[t].at = "armed" => timer'[t].wait = timer[t].wait - 1
            /\ timer[t].at = "popped" => timer'[t].wait = timer[t].wait + 1
    BY <1>7 DEF Tick, Aged
  <2>3. \A p \in Paths : quiet[p] < Horizon => quiet'[p] = quiet[p] + 1
    BY <1>7 DEF Tick
  <2>4. OnPath' /\ ArmedIsCurrent' /\ DirtyPending' /\ OnePopped'
    BY <2>1, <2>2 DEF ClockInv, OnPath, ArmedIsCurrent, At, DirtyPending, OnePopped
  <2>5. EntryAlive'
    BY <2>1, <2>2 DEF ClockInv, EntryAlive
  <2>6. ArmedClock'
    BY <2>1, <2>2, <2>3 DEF ClockInv, ArmedClock, OnPath, Horizon
  <2>7. PoppedClock'
    <3> SUFFICES ASSUME NEW t \in Timers, timer'[t].at = "popped"
                 PROVE  /\ timers'[timer'[t].path] # None
                        /\ timer'[t].wait <= MaxLag
                        /\ Own(t)' \/ Overtaken(t)'
      BY DEF PoppedClock
    <3>1. timer[t].at = "popped" /\ timer[t].path \in Paths
      BY <2>2 DEF ClockInv, OnPath
    <3>2. timers[timer[t].path] # None /\ timer[t].wait < MaxLag /\ (Own(t) \/ Overtaken(t))
      BY <3>1, <2>1 DEF ClockInv, PoppedClock
    <3>3. Own(t) => Own(t)'
      <4> SUFFICES ASSUME Own(t) PROVE Own(t)'
        OBVIOUS
      <4>1. timer'[t].path = timer[t].path /\ timer'[t].gen = timer[t].gen
        BY <2>2
      <4>2. quiet[timer[t].path] = Debounce + timer[t].wait /\ timer[t].wait \in Nat
        BY DEF Own
      <4>3. quiet'[timer[t].path] = Debounce + timer'[t].wait
        <5>1. quiet[timer[t].path] < Horizon
          BY <4>2, <3>2 DEF Horizon
        <5>2. quiet'[timer[t].path] = quiet[timer[t].path] + 1
          BY <5>1, <3>1, <2>3
        <5>3. timer'[t].wait = timer[t].wait + 1
          BY <3>1, <2>2
        <5> QED
          BY <5>2, <5>3, <4>2
      <4> QED
        BY <4>1, <4>3, <2>1 DEF Own
    <3>4. ASSUME Overtaken(t) PROVE Overtaken(t)'
      <4>1. timers[timer[t].path].timer \in Timers
        BY <3>1, <3>2
      <4> QED
        BY <4>1, <3>1, <3>4, <2>1, <2>2 DEF Overtaken
    <3> QED
      BY <3>1, <3>2, <3>3, <3>4, <2>1, <2>2
  <2> QED
    BY <2>4, <2>5, <2>6, <2>7 DEF ClockInv
<1> QED
  BY <1>1, <1>2, <1>3, <1>4, <1>5, <1>6, <1>7, NextCases

\* ClockInv holds throughout.
LEMMA ClockHolds ==
    ASSUME MaxLag < Debounce
    PROVE  Spec => []ClockInv
<1>1. Init => ClockInv
  BY DEF Init, Free, ClockInv, OnPath, ArmedIsCurrent, At, EntryAlive, ArmedClock,
         PoppedClock, OnePopped, DirtyPending
<1>2. TypeOK /\ ClockInv /\ [Next]_vars => ClockInv'
  BY ClockStep
<1> QED
  BY <1>1, <1>2, TypeCorrect, PTL DEF Spec

\* The loop never loses hold of an armed timer, so that a further event or
\* Stop can always cancel it.
THEOREM NoStrayTimer ==
    ASSUME MaxLag < Debounce
    PROVE  Spec => []ArmedIsCurrent
<1>1. ClockInv => ArmedIsCurrent
  BY DEF ClockInv
<1> QED
  BY <1>1, ClockHolds, PTL

\* A handler starts only for a path that has been quiet for the debounce time.
THEOREM HandlersAreDebounced ==
    ASSUME MaxLag < Debounce
    PROVE  Spec => Debounced
<1>1. TypeOK /\ ClockInv /\ [Next]_vars =>
        [\A t \in Timers : Fire(t) => quiet[timer[t].path] >= Debounce]_vars
  <2> SUFFICES ASSUME TypeOK, ClockInv, NEW t \in Timers, Fire(t)
               PROVE  quiet[timer[t].path] >= Debounce
    OBVIOUS
  <2>1. quiet[timer[t].path] = Debounce + timer[t].wait
    BY PoppedOwn DEF Fire, Own
  <2> QED
    BY <2>1, WatcherAssumption DEF TypeOK
<1> QED
  BY <1>1, ClockHolds, TypeCorrect, PTL DEF Spec, Debounced

\* While the loop runs, a changed path is handled within Debounce + MaxLag of
\* the last event on it.
THEOREM NoChangeForgotten ==
    ASSUME MaxLag < Debounce
    PROVE  Spec => []ChangesHandled
<1>1. TypeOK /\ ClockInv => ChangesHandled
  <2> SUFFICES ASSUME TypeOK, ClockInv, loop = "run", NEW p \in dirty
               PROVE  quiet[p] <= Debounce + MaxLag
    BY DEF ChangesHandled
  <2> DEFINE t == timers[p].timer
  <2>1. /\ p \in Paths /\ t \in Timers
        /\ timer[t].at \in {"armed", "popped"} /\ timer[t].path = p
        /\ timer[t].gen = timers[p].gen
    BY DEF TypeOK, ClockInv, DirtyPending, EntryAlive
  <2>2. CASE timer[t].at = "armed"
    BY <2>1, <2>2, WatcherAssumption DEF TypeOK, ClockInv, ArmedClock
  <2>3. CASE timer[t].at = "popped"
    <3>1. UpToDate(t)
      BY <2>1 DEF UpToDate, ClockInv, DirtyPending
    <3>2. quiet[p] = Debounce + timer[t].wait
      BY <2>1, <2>3, <3>1, PoppedOwn DEF Own
    <3>3. timer[t].wait \in Int /\ timer[t].wait <= MaxLag
      BY <2>1, <2>3, WatcherAssumption DEF TypeOK, ClockInv, PoppedClock
    <3> QED
      BY <3>2, <3>3, WatcherAssumption
  <2> QED
    BY <2>1, <2>2, <2>3
<1> QED
  BY <1>1, ClockHolds, TypeCorrect, PTL
=============================================================================
