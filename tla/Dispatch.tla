------------------------------ MODULE Dispatch ------------------------------
(***************************************************************************)
(* The goroutines of a runtime as a module sees them that posts events of  *)
(* its own: the script, process(), the channel between them (runtime.go).  *)
(* It is EventLoop without timers and the time a tick waits for. Its       *)
(* actions speak of the variables declared here; the module that extends   *)
(* it says what happens to its own.                                        *)
(***************************************************************************)
EXTENDS Integers, Sequences, FiniteSets, Functions

CONSTANTS Capacity,     \* of the channel EventQueue: 128 in the code
          StableLimit,  \* sort.Sort keeps ties in order up to 12 elements
          None          \* no event, no call

ASSUME DispatchParameters == Capacity \in Nat \ {0} /\ StableLimit \in Nat

VARIABLES EventQueue,      \* the channel
          eventQueue,      \* received, to be dispatched
          eventSwapQueue,  \* dispatched in this tick, to stay
          current,         \* the event popped from eventQueue
          loop,            \* where process() is
          main,            \* where the script is
          calling,         \* the call each goroutine waits in
          ctxDone,         \* the runtime's context is cancelled
          mixed            \* history: a tick found more than StableLimit events

dispatch == <<EventQueue, eventQueue, eventSwapQueue, current, loop, main, calling,
              ctxDone, mixed>>

Goroutines == {"main", "loop"}

-----------------------------------------------------------------------------
RunsLua(g) == /\ calling[g] = None
              /\ IF g = "main" THEN main = "script" ELSE loop = "callback"

\* Fault: a channel of one place more.
HasRoomBeyond == Len(EventQueue) <= Capacity

HasRoom == Len(EventQueue) < Capacity

Queued == Range(EventQueue) \cup Range(eventQueue) \cup Range(eventSwapQueue)

DispatchInit == /\ EventQueue = << >>
                /\ eventQueue = << >>
                /\ eventSwapQueue = << >>
                /\ current = None
                /\ loop = "select"
                /\ main = "script"
                /\ calling = [g \in Goroutines |-> None]
                /\ ctxDone = FALSE
                /\ mixed = FALSE

-----------------------------------------------------------------------------
\* Lua begins a call that waits, and such a call returns.
Call(g, what) ==
  /\ RunsLua(g)
  /\ calling' = [calling EXCEPT ![g] = what]
  /\ UNCHANGED <<EventQueue, eventQueue, eventSwapQueue, current, loop, main, ctxDone, mixed>>

Return(g) ==
  /\ calling[g] # None
  /\ calling' = [calling EXCEPT ![g] = None]
  /\ UNCHANGED <<EventQueue, eventQueue, eventSwapQueue, current, loop, main, ctxDone, mixed>>

\* The call returns when the channel has taken the event.
SendAndReturn(g, event) ==
  /\ calling[g] # None
  /\ HasRoom
  /\ EventQueue' = Append(EventQueue, event)
  /\ calling' = [calling EXCEPT ![g] = None]
  /\ UNCHANGED <<eventQueue, eventSwapQueue, current, loop, main, ctxDone, mixed>>

\* Another goroutine sends an event.
Post(event) ==
  /\ HasRoom
  /\ EventQueue' = Append(EventQueue, event)
  /\ UNCHANGED <<eventQueue, eventSwapQueue, current, loop, main, calling, ctxDone, mixed>>

MainReturn ==
  /\ RunsLua("main")
  /\ main' = "done"
  /\ UNCHANGED <<EventQueue, eventQueue, eventSwapQueue, current, loop, calling, ctxDone, mixed>>

\* Shutdown, or the parent context ends.
Shutdown ==
  /\ ~ctxDone
  /\ ctxDone' = TRUE
  /\ UNCHANGED <<EventQueue, eventQueue, eventSwapQueue, current, loop, main, calling, mixed>>

-----------------------------------------------------------------------------
\* Fault: the event is put before those that wait.
LoopReceiveInFront ==
  /\ loop = "select"
  /\ EventQueue # << >>
  /\ eventQueue' = <<Head(EventQueue)>> \o eventQueue
  /\ EventQueue' = Tail(EventQueue)
  /\ UNCHANGED <<eventSwapQueue, current, loop, main, calling, ctxDone, mixed>>

LoopReceive ==
  /\ loop = "select"
  /\ EventQueue # << >>
  /\ eventQueue' = Append(eventQueue, Head(EventQueue))
  /\ EventQueue' = Tail(EventQueue)
  /\ UNCHANGED <<eventSwapQueue, current, loop, main, calling, ctxDone, mixed>>

\* sort.Sort of events of one priority, which all events here have: up to
\* StableLimit elements it inserts, and moves none.
Sorted(s) == IF Len(s) <= StableLimit THEN {s}
             ELSE {[i \in DOMAIN s |-> s[f[i]]] : f \in Bijection(DOMAIN s, DOMAIN s)}

LoopTick ==
  /\ loop = "select"
  /\ eventQueue # << >>
  /\ eventQueue' \in Sorted(eventQueue)
  /\ mixed' = (mixed \/ Len(eventQueue) > StableLimit)
  /\ loop' = "drain"
  /\ UNCHANGED <<EventQueue, eventSwapQueue, current, main, calling, ctxDone>>

\* The first event: dropped, or on to the place to.
LoopPop(valid, to) ==
  /\ loop = "drain"
  /\ eventQueue # << >>
  /\ eventQueue' = Tail(eventQueue)
  /\ IF valid THEN current' = Head(eventQueue) /\ loop' = to
              ELSE UNCHANGED <<current, loop>>
  /\ UNCHANGED <<EventQueue, eventSwapQueue, main, calling, ctxDone, mixed>>

\* Update goes from one of its places to another.
Goto(from, to) ==
  /\ loop = from
  /\ loop' = to
  /\ UNCHANGED <<EventQueue, eventQueue, eventSwapQueue, current, main, calling, ctxDone, mixed>>

\* Fault: Continue is not asked.
FinishAlways(from, continue) ==
  /\ loop = from
  /\ loop' = "drain"
  /\ current' = None
  /\ eventSwapQueue' = Append(eventSwapQueue, current)
  /\ UNCHANGED <<EventQueue, eventQueue, main, calling, ctxDone, mixed>>

\* Update returned nil, and Continue decides.
Finish(from, continue) ==
  /\ loop = from
  /\ loop' = "drain"
  /\ current' = None
  /\ eventSwapQueue' = IF continue THEN Append(eventSwapQueue, current)
                       ELSE eventSwapQueue
  /\ UNCHANGED <<EventQueue, eventQueue, main, calling, ctxDone, mixed>>

\* The Lua function raised an error.
LoopError ==
  /\ RunsLua("loop")
  /\ loop' = "closed"
  /\ current' = None
  /\ UNCHANGED <<EventQueue, eventQueue, eventSwapQueue, main, calling, ctxDone, mixed>>

LoopSwap ==
  /\ loop = "drain"
  /\ eventQueue = << >>
  /\ eventQueue' = eventSwapQueue
  /\ eventSwapQueue' = << >>
  /\ loop' = "select"
  /\ UNCHANGED <<EventQueue, current, main, calling, ctxDone, mixed>>

LoopDone ==
  /\ loop = "select"
  /\ ctxDone
  /\ loop' = "closed"
  /\ UNCHANGED <<EventQueue, eventQueue, eventSwapQueue, current, main, calling, ctxDone, mixed>>

\* The steps in which nothing but the runtime takes part.
LoopSteps == LoopReceive \/ LoopTick \/ LoopSwap \/ LoopDone
HostSteps == MainReturn \/ Shutdown

DispatchTypeOK(events, places) ==
  /\ EventQueue \in Seq(events) /\ Len(EventQueue) <= Capacity
  /\ eventQueue \in Seq(events)
  /\ eventSwapQueue \in Seq(events)
  /\ current \in events \cup {None}
  /\ loop \in {"select", "drain", "update", "callback", "closed"} \cup places
  /\ main \in {"script", "done"}
  /\ {ctxDone, mixed} \subseteq BOOLEAN
=============================================================================
