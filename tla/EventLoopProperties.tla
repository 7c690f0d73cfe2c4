------------------------ MODULE EventLoopProperties ------------------------
(***************************************************************************)
(* What the event loop of a runtime promises.                              *)
(***************************************************************************)
EXTENDS EventLoop

\* The types of the state; the channel never holds more than its capacity.
TypeOK ==
  /\ EventQueue \in Seq(Events) /\ Len(EventQueue) <= Capacity
  /\ eventQueue \in Seq(Events)
  /\ eventSwapQueue \in Seq(Events)
  /\ current \in Events \cup {None}
  /\ pc \in {"off", "select", "drain", "update", "callback", "closed"}
  /\ timer \in 0..TickUnits
  /\ elapse \in 0..MaxElapse
  /\ ctxDone \in BOOLEAN
  /\ main \in {"new", "script", "value", "nil", "done"}
  /\ result \in BOOLEAN
  /\ calling \in [Goroutines -> Events \cup {None}]
  /\ delay \in [Timers -> Int]
  /\ active \in [Timers -> BOOLEAN]
  /\ state \in [Exits \cup Messages -> Stages]
  /\ evaluated \subseteq {"result", "scriptError", "eventError"}
  /\ stopped \subseteq Timers

-----------------------------------------------------------------------------
(* Every event of the loop, oldest first.                                  *)
Line == eventSwapQueue \o (IF current = None THEN << >> ELSE <<current>>)
          \o eventQueue \o EventQueue

\* An event is in one place only: in one queue and once, or being updated, or
\* being sent by one goroutine. In particular the append of process() never
\* meets an event that is queued already.
HeldOnce ==
  /\ \A q \in {EventQueue, eventQueue, eventSwapQueue} : IsInjective(q)
  /\ Range(EventQueue) \cap Range(eventQueue) = {}
  /\ Range(EventQueue) \cap Range(eventSwapQueue) = {}
  /\ Range(eventQueue) \cap Range(eventSwapQueue) = {}
  /\ current \notin Queued
  /\ \A g \in Goroutines : calling[g] # None => calling[g] \notin Queued \cup {current}
  /\ calling["main"] = calling["loop"] => calling["loop"] = None

\* A loop timer that has not been stopped and whose callbacks all returned
\* true is always waiting somewhere for its next tick: neither the append to
\* the swap queue nor the exchange of the queues loses it. It is claimed of
\* periods of a second and more: a shorter one is zero (see Seconds), and
\* Continue drops the timer after its first call.
SecondLoopsStayScheduled ==
  \A t \in Loops : pc # "closed" /\ Seconds(t) > 0 /\ active[t] => t \in Held

\* No callback of a timer begins after its stop() returned, unless process()
\* was already past the Valid test of that event when stop() was called.
StopIsFinal ==
  [][pc' = "callback" /\ pc # "callback" => current \notin stopped]_vars

\* The order of arrival is the order of dispatch among events of one
\* priority, through every receive, tick, append and exchange of queues: so
\* long as a tick finds no more events than its sort keeps in order.
FirstComeFirstServed ==
  [][Len(eventQueue) <= StableLimit =>
       \A i, j \in 1..Len(Line) :
         /\ i < j
         /\ Priority[Line[i]] = Priority[Line[j]]
         /\ {Line[i], Line[j]} \subseteq Range(Line')
         => \E k, l \in 1..Len(Line') :
              k < l /\ Line'[k] = Line[i] /\ Line'[l] = Line[j]]_vars

\* A callback never waits for ever to send an event to the channel that only
\* its own goroutine empties: so long as the runtime, with this event and
\* the one whose callback it is, refers to no more than Capacity + 1.
NotSelfBlocked ==
  calling["loop"] # None /\ Cardinality(Held \ {None}) <= Capacity + 1 => HasRoom

-----------------------------------------------------------------------------
\* A callback waits to send to the channel that only its own goroutine empties,
\* and the channel is full: no context is looked at there, and nothing in the
\* runtime runs any more. NotSelfBlocked says when it cannot come to this.
SelfBlocked == calling["loop"] # None /\ ~HasRoom

\* After Shutdown, or any other end of the context, a started loop closes,
\* even if a callback would run for ever, unless it is SelfBlocked.
ShutdownCloses == ctxDone /\ pc # "off" ~> pc = "closed" \/ SelfBlocked

(* The others are claimed of scripts whose callbacks return, and where      *)
(* events leave the 66 ms timer the time to expire. The second is a premise *)
(* where Events is infinite: finitely many cannot come again before a tick. *)
PostsPause == []<>(pc = "select" => timer = TickUnits)

\* A runtime.exit() that was accepted ends the loop, so that wg.Wait returns
\* (module_event_test.go:64 and :73), unless the loop is SelfBlocked.
ExitCloses ==
  CallbacksReturn /\ PostsPause =>
    \A x \in Exits : x \in Queued /\ pc # "off" ~> pc = "closed" \/ SelfBlocked

\* A posted event is dispatched, or the loop ends, or is SelfBlocked.
MessagesRun ==
  CallbacksReturn /\ PostsPause =>
    \A m \in Messages : m \in Queued ~> m = current \/ pc = "closed" \/ SelfBlocked
=============================================================================
