----------------------------- MODULE EventLoop -----------------------------
(***************************************************************************)
(* One Lua runtime: the goroutine that called Startup and runs the main    *)
(* script, the goroutine process() that dispatches events, and the Go      *)
(* channel EventQueue between them (runtime.go, runtime_event*.go,         *)
(* module_event.go).                                                       *)
(*                                                                         *)
(* An event is an element of Events; a constant of the cfg stands for one  *)
(* Go object and is used again once nothing in the runtime refers to it.   *)
(* Both goroutines run Lua: "main" the script, "loop" the callbacks.       *)
(***************************************************************************)
EXTENDS Integers, Sequences, FiniteSets, Functions

CONSTANTS Timers,       \* localTimerEvent objects: event.delay and event.loop
          Loops,        \* those of them made by event.loop
          Exits,        \* localExitEvent objects: runtime.exit
          Messages,     \* events other goroutines post, such as pubSubEvent
          HalfSeconds,  \* the sec argument of each timer, in half seconds
          SecondUnits,  \* units of elapse in one second
          MaxElapse,    \* bound on the time between two ticks
          TickUnits,    \* steps of the 66 ms timer of the select
          Capacity,     \* of the channel EventQueue: 128 in the code
          Priority,     \* Event.Priority(): 1 for every event of the package
          StableLimit,  \* sort.Sort keeps ties in order up to 12 elements
          None          \* no event

Events == Timers \cup Exits \cup Messages

ASSUME EventKinds == /\ Loops \subseteq Timers
                     /\ Timers \cap Exits = {}
                     /\ Timers \cap Messages = {}
                     /\ Exits \cap Messages = {}
                     /\ None \notin Events
ASSUME EventParameters == /\ HalfSeconds \in [Timers -> Nat]
                          /\ Priority \in [Events -> Int]
ASSUME LoopParameters == /\ Capacity \in Nat \ {0}
                         /\ SecondUnits \in Nat \ {0}
                         /\ MaxElapse \in Nat \ {0}
                         /\ TickUnits \in Nat
                         /\ StableLimit \in Nat

VARIABLES EventQueue,      \* the channel: sent, not yet received
          eventQueue,      \* received, to be dispatched
          eventSwapQueue,  \* dispatched in this tick, to stay
          current,         \* e, the event popped from eventQueue
          pc,              \* where process() is
          timer,           \* steps waited in the present select
          elapse,          \* elpase of the present tick
          ctxDone,         \* r.ctx is cancelled
          main,            \* where Startup is
          result,          \* a value other than nil is on top of the VM stack
          calling,         \* the event each goroutine is sending to the channel
          delay,           \* TimerEvent.Delay
          active,          \* TimerEvent.value
          state,           \* StateEvent.value
          evaluated,       \* what r.evaluate has been called with
          stopped          \* history: timers whose stop() must take effect

queues == <<EventQueue, eventQueue, eventSwapQueue>>
process == <<current, pc, timer, elapse>>
startup == <<main, result>>
timers == <<delay, active, stopped>>
vars == <<queues, process, startup, calling, timers, state, ctxDone, evaluated>>

Goroutines == {"main", "loop"}
Stages == {"initialize", "progress", "finalize", "complete"}

-----------------------------------------------------------------------------
\* time.Second * time.Duration(sec): the conversion drops the fraction.
Seconds(t) == SecondUnits * (HalfSeconds[t] \div 2)

\* Fault: loop() leaves Period at zero, as delay() does.
PeriodZero(t) == 0

Period(t) == IF t \in Loops THEN Seconds(t) ELSE 0

\* Fault: TimerEvent inherits EventType.Valid, which is always true.
ValidAlways(e) == TRUE

Valid(e) == IF e \in Timers THEN active[e] ELSE state[e] # "complete"

\* e.Delay -= elapse; if e.Delay > 0 { return nil }
Due(t) == delay[t] <= elapse

\* Faults: a channel of one place more, and of one place less.
HasRoomBeyond == Len(EventQueue) <= Capacity
HasRoomShort == Len(EventQueue) < Capacity - 1

HasRoom == Len(EventQueue) < Capacity

\* The switch of StateEvent.Update.
Advance(s) == CASE s = "initialize" -> "progress"
                [] s = "progress"   -> "finalize"
                [] OTHER            -> "complete"

\* Up to StableLimit elements sort.Sort inserts, which does not move ties.
KeepsTies(s) == Len(s) <= StableLimit

\* What sort.Sort may return.
Sorted(s) ==
  {[i \in 1..Len(s) |-> s[f[i]]] : f \in
    {f \in Bijection(1..Len(s), 1..Len(s)) :
       \A i, j \in 1..Len(s) : i < j =>
          \/ Priority[s[f[i]]] < Priority[s[f[j]]]
          \/ /\ Priority[s[f[i]]] = Priority[s[f[j]]]
             /\ KeepsTies(s) => f[i] < f[j]}}

\* Everything the runtime refers to.
Queued == Range(EventQueue) \cup Range(eventQueue) \cup Range(eventSwapQueue)
Held == Queued \cup {current} \cup {calling[g] : g \in Goroutines}

RunsLua(g) == /\ calling[g] = None
              /\ IF g = "main" THEN main = "script" ELSE pc = "callback"

-----------------------------------------------------------------------------
Init == /\ EventQueue = << >>
        /\ eventQueue = << >>
        /\ eventSwapQueue = << >>
        /\ current = None
        /\ pc = "off"
        /\ timer = 0
        /\ elapse = 0
        /\ ctxDone = FALSE
        /\ main = "new"
        /\ result = FALSE
        /\ calling = [g \in Goroutines |-> None]
        /\ delay = [t \in Timers |-> 0]
        /\ active = [t \in Timers |-> FALSE]
        /\ state = [e \in Exits \cup Messages |-> "complete"]
        /\ evaluated = {}
        /\ stopped = {}

-----------------------------------------------------------------------------
(* The goroutine of Startup, and the host program.                         *)

\* wg.Add, go r.process(), SetContext and the call of require.
Startup == /\ main = "new"
           /\ main' = "script"
           /\ pc' = "select"
           /\ UNCHANGED <<queues, current, timer, elapse, result, calling,
                          timers, state, ctxDone, evaluated>>

\* GPCall returns with the script's value, nil or not, on the stack.
MainReturn == /\ RunsLua("main")
              /\ main' \in {"value", "nil"}
              /\ result' = (main' = "value")
              /\ UNCHANGED <<queues, process, calling, timers, state, ctxDone,
                             evaluated>>

\* The rest of Startup reads the top of the stack it shares with the loop.
MainEvaluate == /\ main \in {"value", "nil"}
                /\ main' = "done"
                /\ evaluated' = evaluated \cup (IF result THEN {"result"} ELSE {})
                /\ UNCHANGED <<queues, process, result, calling, timers, state,
                               ctxDone>>

MainError == /\ RunsLua("main")
             /\ main' = "done"
             /\ evaluated' = evaluated \cup {"scriptError"}
             /\ ctxDone' = TRUE
             /\ UNCHANGED <<queues, process, result, calling, timers, state>>

\* Runtime.Shutdown, or the parent context of WithContext ends.
Shutdown == /\ ~ctxDone
            /\ ctxDone' = TRUE
            /\ UNCHANGED <<queues, process, startup, calling, timers, state,
                           evaluated>>

\* Another goroutine posts an event: it waits while the channel is full.
Post(m) == /\ m \notin Held
           /\ main # "new"
           /\ HasRoom
           /\ EventQueue' = Append(EventQueue, m)
           /\ state' = [state EXCEPT ![m] = "initialize"]
           /\ UNCHANGED <<eventQueue, eventSwapQueue, process, startup, calling,
                          timers, ctxDone, evaluated>>

-----------------------------------------------------------------------------
(* What Lua calls, from the script or from a callback.                     *)

\* Up to the channel send that both event.delay and event.loop make.
NewTimer(g, t, first) == /\ RunsLua(g)
                         /\ t \notin Held
                         /\ delay' = [delay EXCEPT ![t] = first]
                         /\ active' = [active EXCEPT ![t] = TRUE]
                         /\ stopped' = stopped \ {t}
                         /\ calling' = [calling EXCEPT ![g] = t]
                         /\ UNCHANGED <<queues, process, startup, state, ctxDone,
                                        evaluated>>

Delay(g, t) == t \notin Loops /\ NewTimer(g, t, Seconds(t))

Loop(g, t) == t \in Loops /\ NewTimer(g, t, 0)

Exit(g, x) == /\ RunsLua(g)
              /\ x \notin Held
              /\ state' = [state EXCEPT ![x] = "initialize"]
              /\ calling' = [calling EXCEPT ![g] = x]
              /\ UNCHANGED <<queues, process, startup, timers, ctxDone, evaluated>>

\* r.EventQueue <- e: Lua goes on once the channel has taken the event.
Send(g) == /\ calling[g] # None
           /\ HasRoom
           /\ EventQueue' = Append(EventQueue, calling[g])
           /\ calling' = [calling EXCEPT ![g] = None]
           /\ UNCHANGED <<eventQueue, eventSwapQueue, process, startup, timers,
                          state, ctxDone, evaluated>>

\* timer:stop(). An Update past its Valid test does not see it any more; a
\* callback that stops its own timer has begun already.
Stop(g, t) == /\ RunsLua(g)
              /\ active[t]
              /\ t \notin {calling[h] : h \in Goroutines}
              /\ active' = [active EXCEPT ![t] = FALSE]
              /\ stopped' = IF pc = "update" /\ current = t THEN stopped
                            ELSE stopped \cup {t}
              /\ UNCHANGED <<queues, process, startup, calling, delay, state,
                             ctxDone, evaluated>>

-----------------------------------------------------------------------------
(* The goroutine process(). Each turn of its select makes a new 66 ms timer. *)

LoopWait == /\ pc = "select"
            /\ timer < TickUnits
            /\ timer' = timer + 1
            /\ UNCHANGED <<queues, current, pc, elapse, startup, calling, timers,
                           state, ctxDone, evaluated>>

\* Fault: the received event replaces those that wait.
LoopReceiveReplaces ==
  /\ pc = "select"
  /\ EventQueue # << >>
  /\ eventQueue' = <<Head(EventQueue)>>
  /\ EventQueue' = Tail(EventQueue)
  /\ timer' = 0
  /\ UNCHANGED <<eventSwapQueue, current, pc, elapse, startup, calling, timers,
                 state, ctxDone, evaluated>>

LoopReceive == /\ pc = "select"
               /\ EventQueue # << >>
               /\ eventQueue' = Append(eventQueue, Head(EventQueue))
               /\ EventQueue' = Tail(EventQueue)
               /\ timer' = 0
               /\ UNCHANGED <<eventSwapQueue, current, pc, elapse, startup,
                              calling, timers, state, ctxDone, evaluated>>

\* The one-second timer: chosen when the goroutine was late for both timers.
LoopReport == /\ pc = "select"
              /\ timer = TickUnits
              /\ timer' = 0
              /\ UNCHANGED <<queues, current, pc, elapse, startup, calling,
                             timers, state, ctxDone, evaluated>>

\* Fault: the context is looked at only when there is nothing to dispatch.
LoopDoneIdle ==
  /\ pc = "select"
  /\ ctxDone
  /\ eventQueue = << >>
  /\ pc' = "closed"
  /\ UNCHANGED <<queues, current, timer, elapse, startup, calling, timers,
                 state, ctxDone, evaluated>>

LoopDone == /\ pc = "select"
            /\ ctxDone
            /\ pc' = "closed"
            /\ UNCHANGED <<queues, current, timer, elapse, startup, calling,
                           timers, state, ctxDone, evaluated>>

\* Sort, empty the VM stack, take the time.
LoopTick == /\ pc = "select"
            /\ timer = TickUnits
            /\ eventQueue' \in Sorted(eventQueue)
            /\ elapse' \in 1..MaxElapse
            /\ pc' = "drain"
            /\ timer' = 0
            /\ result' = FALSE
            /\ UNCHANGED <<EventQueue, eventSwapQueue, current, main, calling,
                           timers, state, ctxDone, evaluated>>

\* Fault: the event is read and not removed.
LoopPopPeeks ==
  /\ pc = "drain"
  /\ eventQueue # << >>
  /\ IF Valid(Head(eventQueue))
     THEN current' = Head(eventQueue) /\ pc' = "update"
     ELSE UNCHANGED <<current, pc>>
  /\ UNCHANGED <<queues, timer, elapse, startup, calling, timers, state, ctxDone,
                 evaluated>>

\* Pop the next event; one that is not Valid is dropped.
LoopPop == /\ pc = "drain"
           /\ eventQueue # << >>
           /\ eventQueue' = Tail(eventQueue)
           /\ IF Valid(Head(eventQueue))
              THEN current' = Head(eventQueue) /\ pc' = "update"
              ELSE UNCHANGED <<current, pc>>
           /\ UNCHANGED <<EventQueue, eventSwapQueue, timer, elapse, startup,
                          calling, timers, state, ctxDone, evaluated>>

\* Fault: the event is put before those that stay already.
FinishInFront(continue) == /\ eventSwapQueue' = IF continue
                                                THEN <<current>> \o eventSwapQueue
                                                ELSE eventSwapQueue
                           /\ current' = None
                           /\ pc' = "drain"

\* Update returned nil: keep the event if Continue says so, and pop the next.
Finish(continue) == /\ eventSwapQueue' = IF continue
                                         THEN Append(eventSwapQueue, current)
                                         ELSE eventSwapQueue
                    /\ current' = None
                    /\ pc' = "drain"

\* localExitEvent.Update
UpdateExit == /\ pc = "update"
              /\ current \in Exits
              /\ state' = [state EXCEPT ![current] = Advance(@)]
              /\ ctxDone' = TRUE
              /\ Finish(state'[current] # "complete")
              /\ UNCHANGED <<EventQueue, eventQueue, timer, elapse, startup,
                             calling, timers, evaluated>>

\* localTimerEvent.Update: not yet time.
UpdateWait == /\ pc = "update"
              /\ current \in Timers
              /\ ~Due(current)
              /\ delay' = [delay EXCEPT ![current] = @ - elapse]
              /\ Finish(active[current])
              /\ UNCHANGED <<EventQueue, eventQueue, timer, elapse, startup,
                             calling, active, stopped, state, ctxDone, evaluated>>

\* Update up to the PCall of the Lua function.
UpdateCall == /\ pc = "update"
              /\ \/ /\ current \in Timers
                    /\ Due(current)
                    /\ delay' = [delay EXCEPT ![current] = @ - elapse]
                 \/ current \in Messages /\ UNCHANGED delay
              /\ pc' = "callback"
              /\ UNCHANGED <<queues, current, timer, elapse, startup, calling,
                             active, stopped, state, ctxDone, evaluated>>

\* The function returns: again is true when it returned Lua's true.
ReturnTimer(again) ==
  /\ current \in Timers
  /\ IF again
     THEN /\ delay' = [delay EXCEPT ![current] = Period(current)]
          /\ UNCHANGED active
     ELSE /\ active' = [active EXCEPT ![current] = FALSE]
          /\ UNCHANGED delay
  /\ Finish(active'[current] /\ delay'[current] > 0)
  /\ UNCHANGED state

ReturnMessage == /\ current \in Messages
                 /\ state' = [state EXCEPT ![current] = "complete"]
                 /\ Finish(FALSE)
                 /\ UNCHANGED <<delay, active>>

LoopReturn == /\ RunsLua("loop")
              /\ \/ \E again \in BOOLEAN : ReturnTimer(again)
                 \/ ReturnMessage
              /\ UNCHANGED <<EventQueue, eventQueue, timer, elapse, startup,
                             calling, stopped, ctxDone, evaluated>>

\* The function raises an error: process() reports it, leaves its loop, and
\* does not cancel the context.
LoopError == /\ RunsLua("loop")
             /\ state' = [e \in DOMAIN state |->
                            IF e = current THEN "complete" ELSE state[e]]
             /\ evaluated' = evaluated \cup {"eventError"}
             /\ current' = None
             /\ pc' = "closed"
             /\ UNCHANGED <<queues, timer, elapse, startup, calling, timers,
                            ctxDone>>

LoopSwap == /\ pc = "drain"
            /\ eventQueue = << >>
            /\ eventQueue' = eventSwapQueue
            /\ eventSwapQueue' = << >>
            /\ pc' = "select"
            /\ elapse' = 0
            /\ UNCHANGED <<EventQueue, current, timer, startup, calling, timers,
                           state, ctxDone, evaluated>>

-----------------------------------------------------------------------------
Lua(g) == \/ \E t \in Timers : Delay(g, t) \/ Loop(g, t) \/ Stop(g, t)
          \/ \E x \in Exits : Exit(g, x)
          \/ Send(g)

Host == Startup \/ MainReturn \/ MainEvaluate \/ MainError \/ Shutdown

Process == \/ LoopWait \/ LoopReceive \/ LoopReport \/ LoopDone \/ LoopTick
           \/ LoopPop \/ UpdateExit \/ UpdateWait \/ UpdateCall
           \/ LoopReturn \/ LoopError \/ LoopSwap

Next == Host \/ Process \/ (\E g \in Goroutines : Lua(g))
             \/ (\E m \in Messages : Post(m))

Spec == Init /\ [][Next]_vars

(* select chooses at random among the cases it finds ready, so one that is  *)
(* found ready again and again is taken: SF(LoopTick) says that of the      *)
(* expired 66 ms timer, not that it expires. A goroutine that can run runs; *)
(* gopher-lua tests the context before each instruction.                    *)
Fairness == /\ WF_vars(LoopWait)
            /\ SF_vars(LoopReceive)
            /\ SF_vars(LoopTick)
            /\ SF_vars(LoopDone)
            /\ WF_vars(LoopPop)
            /\ WF_vars(UpdateExit \/ UpdateWait \/ UpdateCall)
            /\ WF_vars(LoopSwap)
            /\ WF_vars(Send("loop"))
            /\ SF_vars(Send("main"))
            /\ WF_vars(ctxDone /\ (LoopReturn \/ LoopError))

\* The scripts' own part, which no code enforces: callbacks do not run for ever.
CallbacksReturn == WF_vars(LoopReturn \/ LoopError)

FairSpec == Spec /\ Fairness
=============================================================================
