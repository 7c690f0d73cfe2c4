-------------------------- MODULE EventLoop_proofs --------------------------
(***************************************************************************)
(* Invariants of the event loop, for every set of events, every capacity,  *)
(* every priority and every bound.                                         *)
(***************************************************************************)
EXTENDS EventLoopProperties, EventLoopImplements, DataLemmas

-----------------------------------------------------------------------------
(* What the operations on queues do to the events they hold.               *)

\* sort.Sort permutes the queue, stable or not.
LEMMA SortedElements ==
  ASSUME NEW S, NEW s \in Seq(S), NEW r \in Sorted(s)
  PROVE  /\ r \in Seq(S)
         /\ Range(r) = Range(s)
         /\ IsInjective(s) => IsInjective(r)
<1>1. PICK f \in Bijection(1..Len(s), 1..Len(s)) : r = [i \in 1..Len(s) |-> s[f[i]]]
  BY Zenon DEF Sorted
<1> QED BY <1>1, PermutedElements

-----------------------------------------------------------------------------
(* Types.                                                                  *)

LEMMA EventSets == /\ Timers \subseteq Events
                   /\ Exits \subseteq Events
                   /\ Messages \subseteq Events
                   /\ Loops \subseteq Timers
                   /\ None \notin Events
BY EventKinds DEF Events

LEMMA SecondsType == \A t \in Timers : Seconds(t) \in Nat /\ Period(t) \in Nat
BY EventParameters, LoopParameters DEF Seconds, Period

LEMMA InitType == Init => TypeOK
<1> SUFFICES ASSUME Init PROVE TypeOK
  OBVIOUS
<1>1. << >> \in Seq(Events) /\ Len(<< >>) = 0
  BY EmptySeq
<1>2. calling \in [Goroutines -> Events \cup {None}]
  BY DEF Init
<1>3. /\ delay \in [Timers -> Int]
      /\ active \in [Timers -> BOOLEAN]
      /\ state \in [Exits \cup Messages -> Stages]
  BY DEF Init, Stages
<1>4. Len(EventQueue) <= Capacity /\ timer \in 0..TickUnits /\ elapse \in 0..MaxElapse
  BY <1>1, LoopParameters DEF Init
<1> QED BY <1>1, <1>2, <1>3, <1>4 DEF Init, TypeOK

\* The host and the goroutine of Startup.
LEMMA HostType == TypeOK /\ Host => TypeOK'
BY DEF TypeOK, Host, Startup, MainReturn, MainEvaluate, MainError, Shutdown,
       RunsLua, queues, process, startup, timers

\* Another goroutine's send.
LEMMA PostType == ASSUME TypeOK, NEW m \in Messages, Post(m) PROVE TypeOK'
<1>1. m \in Events
  BY EventSets
<1>2. /\ EventQueue' = Append(EventQueue, m)
      /\ Append(EventQueue, m) \in Seq(Events)
      /\ Len(Append(EventQueue, m)) = Len(EventQueue) + 1
      /\ Len(EventQueue) \in Nat
  BY <1>1, AppendProperties, LenProperties DEF TypeOK, Post
<1>3. EventQueue' \in Seq(Events) /\ Len(EventQueue') <= Capacity
  BY <1>2, LoopParameters DEF Post, HasRoom
<1> QED BY <1>3 DEF TypeOK, Post, Stages, process, startup, timers

\* What Lua calls.
LEMMA LuaType == ASSUME TypeOK, NEW g \in Goroutines, Lua(g) PROVE TypeOK'
<1>1. ASSUME NEW t \in Timers, Delay(g, t) \/ Loop(g, t)
      PROVE  TypeOK'
  <2>1. PICK first \in Int : NewTimer(g, t, first)
    BY <1>1, SecondsType DEF Delay, Loop
  <2>2. t \in Events
    BY EventSets
  <2> QED BY <2>1, <2>2 DEF TypeOK, NewTimer, queues, process, startup
<1>2. ASSUME NEW t \in Timers, Stop(g, t)
      PROVE  TypeOK'
  BY <1>2 DEF TypeOK, Stop, queues, process, startup
<1>3. ASSUME NEW x \in Exits, Exit(g, x)
      PROVE  TypeOK'
  BY <1>3, EventSets DEF TypeOK, Exit, Stages, queues, process, startup, timers
<1>4. CASE Send(g)
  <2>1. calling[g] \in Events
    BY <1>4 DEF Send, TypeOK
  <2>2. /\ Append(EventQueue, calling[g]) \in Seq(Events)
        /\ Len(Append(EventQueue, calling[g])) = Len(EventQueue) + 1
        /\ Len(EventQueue) \in Nat
    BY <2>1, AppendProperties, LenProperties DEF TypeOK
  <2>3. EventQueue' \in Seq(Events) /\ Len(EventQueue') <= Capacity
    BY <1>4, <2>2, LoopParameters DEF Send, HasRoom
  <2> QED BY <1>4, <2>3 DEF TypeOK, Send, process, startup, timers
<1> QED BY <1>1, <1>2, <1>3, <1>4 DEF Lua

LEMMA FinishType ==
  ASSUME TypeOK, current \in Events, NEW keep \in BOOLEAN, Finish(keep)
  PROVE  /\ eventSwapQueue' \in Seq(Events)
         /\ current' \in Events \cup {None}
         /\ pc' = "drain"
BY AppendProperties DEF TypeOK, Finish

\* The steps of process().
LEMMA ProcessType == TypeOK /\ Process => TypeOK'
<1> SUFFICES ASSUME TypeOK, Process PROVE TypeOK'
  OBVIOUS
<1>1. CASE LoopWait
  BY <1>1, LoopParameters DEF TypeOK, LoopWait, queues, startup, timers
<1>2. CASE LoopReceive
  <2>1. /\ Head(EventQueue) \in Events
        /\ Tail(EventQueue) \in Seq(Events)
        /\ Len(Tail(EventQueue)) = Len(EventQueue) - 1
        /\ Len(EventQueue) \in Nat
    BY <1>2, TailElements, LenProperties DEF TypeOK, LoopReceive
  <2>2. Append(eventQueue, Head(EventQueue)) \in Seq(Events)
    BY <2>1, AppendProperties DEF TypeOK
  <2>3. EventQueue' \in Seq(Events) /\ Len(EventQueue') <= Capacity
    BY <1>2, <2>1, LoopParameters DEF TypeOK, LoopReceive
  <2> QED BY <1>2, <2>2, <2>3, LoopParameters
          DEF TypeOK, LoopReceive, startup, timers
<1>3. CASE LoopReport
  BY <1>3, LoopParameters DEF TypeOK, LoopReport, queues, startup, timers
<1>4. CASE LoopDone
  BY <1>4 DEF TypeOK, LoopDone, queues, startup, timers
<1>5. CASE LoopTick
  <2>1. eventQueue' \in Seq(Events)
    BY <1>5, SortedElements DEF TypeOK, LoopTick
  <2>2. timer' \in 0..TickUnits /\ elapse' \in 0..MaxElapse
    BY <1>5, LoopParameters DEF LoopTick
  <2> QED BY <1>5, <2>1, <2>2 DEF TypeOK, LoopTick, timers
<1>6. CASE LoopPop
  <2>1. Head(eventQueue) \in Events /\ Tail(eventQueue) \in Seq(Events)
    BY <1>6, TailElements DEF TypeOK, LoopPop
  <2> QED BY <1>6, <2>1 DEF TypeOK, LoopPop, startup, timers
<1>7. CASE UpdateExit
  <2>1. state' \in [Exits \cup Messages -> Stages]
    BY <1>7 DEF TypeOK, UpdateExit, Advance, Stages
  <2>2. eventSwapQueue' \in Seq(Events) /\ current' \in Events \cup {None} /\ pc' = "drain"
    BY <1>7, EventSets, FinishType DEF UpdateExit
  <2> QED BY <1>7, <2>1, <2>2 DEF TypeOK, UpdateExit, startup, timers
<1>8. CASE UpdateWait
  <2>1. delay' \in [Timers -> Int]
    BY <1>8, LoopParameters DEF TypeOK, UpdateWait
  <2>2. eventSwapQueue' \in Seq(Events) /\ current' \in Events \cup {None} /\ pc' = "drain"
    BY <1>8, EventSets, FinishType DEF UpdateWait, TypeOK
  <2> QED BY <1>8, <2>1, <2>2 DEF TypeOK, UpdateWait, startup, timers
<1>9. CASE UpdateCall
  <2>1. delay' \in [Timers -> Int]
    BY <1>9, LoopParameters DEF TypeOK, UpdateCall
  <2> QED BY <1>9, <2>1 DEF TypeOK, UpdateCall, queues, startup, timers
<1>10. CASE LoopReturn
  <2>1. ASSUME NEW again \in BOOLEAN, ReturnTimer(again)
        PROVE  /\ delay' \in [Timers -> Int]
               /\ active' \in [Timers -> BOOLEAN]
               /\ state' \in [Exits \cup Messages -> Stages]
               /\ eventSwapQueue' \in Seq(Events)
               /\ current' \in Events \cup {None}
               /\ pc' = "drain"
    <3>1. delay' \in [Timers -> Int] /\ active' \in [Timers -> BOOLEAN]
      <4>1. Period(current) \in Int
        BY <2>1, SecondsType DEF ReturnTimer
      <4>2. CASE again
        BY <2>1, <4>1, <4>2 DEF TypeOK, ReturnTimer
      <4>3. CASE ~again
        BY <2>1, <4>3 DEF TypeOK, ReturnTimer
      <4> QED BY <4>2, <4>3
    <3>2. (active'[current] /\ delay'[current] > 0) \in BOOLEAN
      OBVIOUS
    <3> QED BY <2>1, <3>1, <3>2, EventSets, FinishType DEF TypeOK, ReturnTimer
  <2>2. ASSUME ReturnMessage
        PROVE  /\ delay' \in [Timers -> Int]
               /\ active' \in [Timers -> BOOLEAN]
               /\ state' \in [Exits \cup Messages -> Stages]
               /\ eventSwapQueue' \in Seq(Events)
               /\ current' \in Events \cup {None}
               /\ pc' = "drain"
    BY <2>2, EventSets, FinishType DEF TypeOK, ReturnMessage, Stages
  <2> QED BY <1>10, <2>1, <2>2 DEF TypeOK, LoopReturn, startup
<1>11. CASE LoopError
  BY <1>11 DEF TypeOK, LoopError, Stages, queues, startup, timers
<1>12. CASE LoopSwap
  BY <1>12, EmptySeq, LoopParameters DEF TypeOK, LoopSwap, startup, timers
<1> QED BY <1>1, <1>2, <1>3, <1>4, <1>5, <1>6, <1>7, <1>8, <1>9, <1>10, <1>11,
           <1>12 DEF Process

\* The state keeps its types, and the channel its capacity, whatever scripts,
\* other goroutines and the host do.
THEOREM TypeCorrect == Spec => []TypeOK
<1>1. Init => TypeOK
  BY InitType
<1>2. TypeOK /\ [Next]_vars => TypeOK'
  <2>1. ASSUME TypeOK, UNCHANGED vars PROVE TypeOK'
    BY <2>1 DEF TypeOK, vars, queues, process, startup, timers
  <2> QED BY <2>1, HostType, ProcessType, LuaType, PostType DEF Next
<1> QED BY <1>1, <1>2, PTL DEF Spec

-----------------------------------------------------------------------------
(* Every event is held in one place.                                       *)

\* Where process() has an event in its hands, and where a callback sends.
Control == /\ current # None <=> pc \in {"update", "callback"}
           /\ calling["loop"] # None => pc = "callback"
           /\ main = "new" <=> pc = "off"

IInv == TypeOK /\ Control /\ HeldOnce

LEMMA InitControl == Init => Control /\ HeldOnce
<1> SUFFICES ASSUME Init PROVE Control /\ HeldOnce
  OBVIOUS
<1>1. IsInjective(<< >>) /\ Range(<< >>) = {}
  BY DEF IsInjective, Range
<1>2. \A g \in Goroutines : calling[g] = None
  BY DEF Init
<1>3. "loop" \in Goroutines /\ "main" \in Goroutines
  BY DEF Goroutines
<1> QED BY <1>1, <1>2, <1>3 DEF Init, Control, HeldOnce, Queued

LEMMA ControlStep == TypeOK /\ Control /\ [Next]_vars => Control'
<1> SUFFICES ASSUME TypeOK, Control, [Next]_vars PROVE Control'
  OBVIOUS
<1>0. "loop" \in Goroutines /\ "main" \in Goroutines /\ None \notin Events
  BY EventSets DEF Goroutines
<1>1. CASE Host
  BY <1>1 DEF Control, Host, Startup, MainReturn, MainEvaluate, MainError, Shutdown,
     RunsLua, queues, process, startup, timers
<1>2. ASSUME NEW m \in Messages, Post(m) PROVE Control'
  BY <1>2 DEF Control, Post, process, startup
<1>3. ASSUME NEW g \in Goroutines, Lua(g) PROVE Control'
  <2>1. ASSUME NEW t \in Timers, NEW first, NewTimer(g, t, first) PROVE Control'
    BY <2>1, <1>0 DEF TypeOK, Control, NewTimer, RunsLua, Goroutines, process, startup
  <2>2. ASSUME NEW t \in Timers, Stop(g, t) PROVE Control'
    BY <2>2 DEF Control, Stop, process, startup
  <2>3. ASSUME NEW x \in Exits, Exit(g, x) PROVE Control'
    BY <2>3, <1>0 DEF TypeOK, Control, Exit, RunsLua, Goroutines, process, startup
  <2>4. CASE Send(g)
    BY <2>4, <1>0 DEF TypeOK, Control, Send, process, startup
  <2> QED BY <1>3, <2>1, <2>2, <2>3, <2>4 DEF Lua, Delay, Loop
<1>4. CASE LoopWait \/ LoopReceive \/ LoopReport \/ LoopDone \/ LoopTick \/ LoopSwap
  BY <1>4 DEF Control, LoopWait, LoopReceive, LoopReport, LoopDone, LoopTick,
              LoopSwap, startup
<1>5. CASE LoopPop
  <2>1. Head(eventQueue) # None
    BY <1>5, <1>0, TailElements DEF TypeOK, LoopPop
  <2> QED BY <1>5, <2>1 DEF Control, LoopPop, startup
<1>6. CASE UpdateExit \/ UpdateWait
  BY <1>6 DEF Control, UpdateExit, UpdateWait, Finish, startup
<1>7. CASE UpdateCall
  BY <1>7 DEF Control, UpdateCall, startup
<1>8. CASE LoopReturn
  <2>1. current' = None /\ pc' = "drain"
    BY <1>8 DEF LoopReturn, ReturnTimer, ReturnMessage, Finish
  <2> QED BY <1>8, <2>1 DEF Control, LoopReturn, RunsLua, startup
<1>9. CASE LoopError
  BY <1>9 DEF Control, LoopError, RunsLua, startup
<1>10. CASE UNCHANGED vars
  BY <1>10 DEF Control, vars, process, startup
<1> QED BY <1>1, <1>2, <1>3, <1>4, <1>5, <1>6, <1>7, <1>8, <1>9, <1>10
        DEF Next, Process

\* Moving the current event to the swap queue, or dropping it.
LEMMA FinishHeldOnce ==
  ASSUME TypeOK, HeldOnce, current \in Events, NEW keep \in BOOLEAN, Finish(keep),
         UNCHANGED <<EventQueue, eventQueue, calling>>
  PROVE  HeldOnce'
<1>1. /\ Range(Append(eventSwapQueue, current)) = Range(eventSwapQueue) \cup {current}
      /\ IsInjective(Append(eventSwapQueue, current))
  BY AppendElements DEF TypeOK, HeldOnce, Queued
<1>2. None \notin Events /\ Range(EventQueue) \subseteq Events
      /\ Range(eventQueue) \subseteq Events /\ Range(eventSwapQueue) \subseteq Events
  BY EventSets, RangeOfSeq DEF TypeOK
<1>3. CASE keep
  <2>1. eventSwapQueue' = Append(eventSwapQueue, current) /\ current' = None
    BY <1>3 DEF Finish
  <2> QED BY <1>1, <1>2, <2>1 DEF HeldOnce, Queued
<1>4. CASE ~keep
  <2>1. eventSwapQueue' = eventSwapQueue /\ current' = None
    BY <1>4 DEF Finish
  <2> QED BY <1>2, <2>1 DEF HeldOnce, Queued
<1> QED BY <1>3, <1>4

LEMMA HeldOnceStep == IInv /\ [Next]_vars => HeldOnce'
<1> SUFFICES ASSUME TypeOK, Control, HeldOnce, [Next]_vars PROVE HeldOnce'
  BY DEF IInv
<1>0. "loop" \in Goroutines /\ "main" \in Goroutines /\ None \notin Events
      /\ \A g \in Goroutines : g = "main" \/ g = "loop"
  BY EventSets DEF Goroutines
<1>1. /\ Range(EventQueue) \subseteq Events
      /\ Range(eventQueue) \subseteq Events
      /\ Range(eventSwapQueue) \subseteq Events
  BY RangeOfSeq DEF TypeOK
<1>2. ASSUME UNCHANGED <<queues, current, calling>> PROVE HeldOnce'
  BY <1>2 DEF HeldOnce, Queued, queues
<1>3. CASE Host
  BY <1>2, <1>3 DEF Host, Startup, MainReturn, MainEvaluate, MainError, Shutdown, process
<1>4. ASSUME NEW e \in Events, e \notin Queued \cup {current},
             \A g \in Goroutines : calling'[g] # e,
             \A g \in Goroutines : calling'[g] \in {calling[g], None},
             EventQueue' = Append(EventQueue, e),
             UNCHANGED <<eventQueue, eventSwapQueue, current>>
      PROVE  HeldOnce'
  <2>1. Range(EventQueue') = Range(EventQueue) \cup {e} /\ IsInjective(EventQueue')
    BY <1>4, AppendElements DEF TypeOK, HeldOnce, Queued
  <2>2. calling'["main"] = calling'["loop"] => calling'["loop"] = None
    BY <1>0, <1>4 DEF HeldOnce
  <2>3. \A g \in Goroutines : calling'[g] # None => calling'[g] = calling[g]
    BY <1>4
  <2> QED BY <1>0, <1>1, <1>4, <2>1, <2>2, <2>3 DEF HeldOnce, Queued
<1>5. ASSUME NEW m \in Messages, Post(m) PROVE HeldOnce'
  <2>1. /\ m \in Events
        /\ m \notin Queued \cup {current}
        /\ EventQueue' = Append(EventQueue, m)
        /\ \A g \in Goroutines : calling[g] # m
        /\ UNCHANGED <<eventQueue, eventSwapQueue, current, calling>>
    BY <1>5, EventSets DEF Post, Held, process
  <2> QED BY <1>4, <2>1
<1>6. ASSUME NEW g \in Goroutines, Lua(g) PROVE HeldOnce'
  <2>1. ASSUME NEW e \in Events, RunsLua(g), e \notin Held,
               calling' = [calling EXCEPT ![g] = e],
               UNCHANGED <<queues, current>>
        PROVE  HeldOnce'
    <3>1. /\ calling'[g] = e
          /\ \A h \in Goroutines \ {g} : calling'[h] = calling[h] /\ calling[h] # e
          /\ e \notin Queued \cup {current}
      BY <2>1 DEF TypeOK, Held
    <3>2. \A h \in Goroutines : calling'[h] # None => calling'[h] \notin Queued \cup {current}
      BY <3>1 DEF HeldOnce
    <3>3. calling'["main"] = calling'["loop"] => calling'["loop"] = None
      BY <1>0, <3>1
    <3> QED BY <2>1, <3>2, <3>3 DEF HeldOnce, Queued, queues
  <2>2. ASSUME NEW t \in Timers, NEW first, NewTimer(g, t, first) PROVE HeldOnce'
    BY <2>1, <2>2, EventSets DEF NewTimer, process
  <2>3. ASSUME NEW t \in Timers, Stop(g, t) PROVE HeldOnce'
    BY <1>2, <2>3 DEF Stop, process
  <2>4. ASSUME NEW x \in Exits, Exit(g, x) PROVE HeldOnce'
    BY <2>1, <2>4, EventSets DEF Exit, process
  <2>5. CASE Send(g)
    <3> DEFINE e == calling[g]
    <3>1. /\ e \in Events
          /\ e \notin Queued \cup {current}
          /\ EventQueue' = Append(EventQueue, e)
          /\ calling' = [calling EXCEPT ![g] = None]
          /\ UNCHANGED <<eventQueue, eventSwapQueue, current>>
      BY <2>5 DEF Send, TypeOK, HeldOnce, process
    <3>2. \A h \in Goroutines : calling'[h] \in {calling[h], None}
      BY <3>1 DEF TypeOK
    <3>3. \A h \in Goroutines : calling'[h] # e
      BY <1>0, <2>5, <3>1 DEF TypeOK, HeldOnce, Send
    <3> HIDE DEF e
    <3> QED BY <1>4, <3>1, <3>2, <3>3
  <2> QED BY <1>6, <2>2, <2>3, <2>4, <2>5 DEF Lua, Delay, Loop
<1>7. CASE LoopWait \/ LoopReport \/ LoopDone \/ UpdateCall
  BY <1>2, <1>7 DEF LoopWait, LoopReport, LoopDone, UpdateCall, queues
<1>8. CASE LoopReceive
  <2> DEFINE e == Head(EventQueue)
  <2>1. /\ e \in Events
        /\ Range(EventQueue) = {e} \cup Range(Tail(EventQueue))
        /\ IsInjective(Tail(EventQueue)) /\ e \notin Range(Tail(EventQueue))
    BY <1>8, TailElements DEF TypeOK, HeldOnce, LoopReceive
  <2>2. /\ Range(Append(eventQueue, e)) = Range(eventQueue) \cup {e}
        /\ IsInjective(Append(eventQueue, e))
    BY <2>1, AppendElements DEF TypeOK, HeldOnce
  <2>3. /\ EventQueue' = Tail(EventQueue)
        /\ eventQueue' = Append(eventQueue, e)
        /\ UNCHANGED <<eventSwapQueue, current, calling>>
    BY <1>8 DEF LoopReceive
  <2> HIDE DEF e
  <2>4. Queued' = Queued
    BY <2>1, <2>2, <2>3 DEF Queued
  <2> QED BY <2>1, <2>2, <2>3, <2>4 DEF HeldOnce
<1>9. CASE LoopTick
  <2>1. Range(eventQueue') = Range(eventQueue) /\ IsInjective(eventQueue')
    BY <1>9, SortedElements DEF TypeOK, HeldOnce, LoopTick
  <2>2. UNCHANGED <<EventQueue, eventSwapQueue, current, calling>>
    BY <1>9 DEF LoopTick
  <2> QED BY <2>1, <2>2 DEF HeldOnce, Queued
<1>10. CASE LoopPop
  <2> DEFINE e == Head(eventQueue)
  <2>1. /\ e \in Events
        /\ Range(eventQueue) = {e} \cup Range(Tail(eventQueue))
        /\ IsInjective(Tail(eventQueue)) /\ e \notin Range(Tail(eventQueue))
    BY <1>10, TailElements DEF TypeOK, HeldOnce, LoopPop
  <2>2. /\ eventQueue' = Tail(eventQueue)
        /\ current' = e \/ current' = current
        /\ UNCHANGED <<EventQueue, eventSwapQueue, calling>>
    BY <1>10 DEF LoopPop
  <2> HIDE DEF e
  <2>3. Queued = Queued' \cup {e} /\ e \notin Queued'
    BY <2>1, <2>2 DEF Queued, HeldOnce
  <2>4. current' \notin Queued'
    BY <2>2, <2>3 DEF HeldOnce
  <2>5. \A g \in Goroutines : calling[g] # None => calling[g] \notin Queued' \cup {current'}
    BY <2>2, <2>3 DEF HeldOnce
  <2> QED BY <2>1, <2>2, <2>4, <2>5 DEF HeldOnce
<1>11. CASE UpdateExit
  BY <1>11, EventSets, FinishHeldOnce DEF UpdateExit
<1>12. CASE UpdateWait
  BY <1>12, EventSets, FinishHeldOnce DEF UpdateWait, TypeOK
<1>13. CASE LoopReturn
  <2>1. UNCHANGED <<EventQueue, eventQueue, calling>>
    BY <1>13 DEF LoopReturn
  <2>2. ASSUME NEW again \in BOOLEAN, ReturnTimer(again) PROVE HeldOnce'
    <3>1. (active'[current] /\ delay'[current] > 0) \in BOOLEAN
      OBVIOUS
    <3> QED BY <2>1, <2>2, <3>1, EventSets, FinishHeldOnce DEF ReturnTimer
  <2>3. ASSUME ReturnMessage PROVE HeldOnce'
    BY <2>1, <2>3, EventSets, FinishHeldOnce DEF ReturnMessage
  <2> QED BY <1>13, <2>2, <2>3 DEF LoopReturn
<1>14. CASE LoopError
  <2>1. current' = None /\ UNCHANGED <<EventQueue, eventQueue, eventSwapQueue, calling>>
    BY <1>14 DEF LoopError, queues
  <2> QED BY <1>0, <1>1, <2>1 DEF HeldOnce, Queued
<1>15. CASE LoopSwap
  <2>1. /\ eventQueue = << >> /\ eventQueue' = eventSwapQueue /\ eventSwapQueue' = << >>
        /\ UNCHANGED <<EventQueue, current, calling>>
    BY <1>15 DEF LoopSwap
  <2>2. IsInjective(<< >>) /\ Range(<< >>) = {}
    BY DEF IsInjective, Range
  <2> QED BY <2>1, <2>2 DEF HeldOnce, Queued
<1>16. CASE UNCHANGED vars
  BY <1>2, <1>16 DEF vars, process
<1> QED BY <1>3, <1>5, <1>6, <1>7, <1>8, <1>9, <1>10, <1>11, <1>12, <1>13, <1>14,
           <1>15, <1>16 DEF Next, Process

THEOREM IInvInvariant == Spec => []IInv
<1>1. Init => IInv
  BY InitType, InitControl DEF IInv
<1>2. IInv /\ [Next]_vars => IInv'
  <2>1. TypeOK /\ [Next]_vars => TypeOK'
    <3>1. ASSUME TypeOK, UNCHANGED vars PROVE TypeOK'
      BY <3>1 DEF TypeOK, vars, queues, process, startup, timers
    <3> QED BY <3>1, HostType, ProcessType, LuaType, PostType DEF Next
  <2> QED BY <2>1, ControlStep, HeldOnceStep DEF IInv
<1> QED BY <1>1, <1>2, PTL DEF Spec

\* No event is ever in two places at once: the queues, their exchange and the
\* sends of several goroutines neither duplicate an event nor queue one again.
THEOREM EventsHeldOnce == Spec => []HeldOnce
BY IInvInvariant, PTL DEF IInv

-----------------------------------------------------------------------------
(* Stopped timers.                                                         *)

\* stop() has cleared the flag of a stopped timer, and process() is not
\* about to call one.
StopInv == /\ \A t \in stopped : ~active[t]
           /\ pc = "update" => current \notin stopped

LEMMA StopInvStep == TypeOK /\ StopInv /\ [Next]_vars => StopInv'
<1> SUFFICES ASSUME TypeOK, StopInv, [Next]_vars PROVE StopInv'
  OBVIOUS
<1>1. stopped \subseteq Timers /\ active \in [Timers -> BOOLEAN]
  BY DEF TypeOK
<1>2. CASE Host
  BY <1>2 DEF StopInv, Host, Startup, MainReturn, MainEvaluate, MainError, Shutdown,
     process, timers
<1>3. ASSUME NEW m \in Messages, Post(m) PROVE StopInv'
  BY <1>3 DEF StopInv, Post, process, timers
<1>4. ASSUME NEW g \in Goroutines, Lua(g) PROVE StopInv'
  <2>1. ASSUME NEW t \in Timers, NEW first, NewTimer(g, t, first) PROVE StopInv'
    <3>1. stopped' = stopped \ {t} /\ active' = [active EXCEPT ![t] = TRUE]
          /\ UNCHANGED <<pc, current>>
      BY <2>1 DEF NewTimer, process
    <3> QED BY <1>1, <3>1 DEF StopInv
  <2>2. ASSUME NEW t \in Timers, Stop(g, t) PROVE StopInv'
    <3>1. /\ active' = [active EXCEPT ![t] = FALSE]
          /\ stopped' = IF pc = "update" /\ current = t THEN stopped ELSE stopped \cup {t}
          /\ UNCHANGED <<pc, current>>
      BY <2>2 DEF Stop, process
    <3> QED BY <1>1, <3>1 DEF StopInv
  <2>3. ASSUME NEW x \in Exits, Exit(g, x) PROVE StopInv'
    BY <2>3 DEF StopInv, Exit, process, timers
  <2>4. CASE Send(g)
    BY <2>4 DEF StopInv, Send, process, timers
  <2> QED BY <1>4, <2>1, <2>2, <2>3, <2>4 DEF Lua, Delay, Loop
<1>5. CASE LoopWait \/ LoopReceive \/ LoopReport \/ LoopDone \/ LoopTick \/ LoopSwap
  BY <1>5 DEF StopInv, LoopWait, LoopReceive, LoopReport, LoopDone, LoopTick,
              LoopSwap, timers
<1>6. CASE LoopPop
  BY <1>1, <1>6 DEF StopInv, LoopPop, Valid, timers
<1>7. CASE UpdateExit \/ UpdateWait \/ UpdateCall
  BY <1>7 DEF StopInv, UpdateExit, UpdateWait, UpdateCall, Finish, timers
<1>8. CASE LoopReturn
  <2>1. stopped' = stopped /\ pc' = "drain"
    BY <1>8 DEF LoopReturn, ReturnTimer, ReturnMessage, Finish
  <2>2. \A t \in Timers : active'[t] => active[t]
    BY <1>1, <1>8 DEF LoopReturn, ReturnTimer, ReturnMessage
  <2> QED BY <1>1, <2>1, <2>2 DEF StopInv
<1>9. CASE LoopError
  BY <1>9 DEF StopInv, LoopError, timers
<1>10. CASE UNCHANGED vars
  BY <1>10 DEF StopInv, vars, process, timers
<1> QED BY <1>2, <1>3, <1>4, <1>5, <1>6, <1>7, <1>8, <1>9, <1>10 DEF Next, Process

\* stop() is final, from the script and from callbacks, whatever runs
\* between the Valid test and the call.
THEOREM StopFinal == Spec => StopIsFinal
<1>1. Init => StopInv
  BY DEF Init, StopInv
<1>2. TypeOK /\ StopInv /\ [Next]_vars => StopInv'
  BY StopInvStep
<1>3. StopInv /\ [Next]_vars
        => [pc' = "callback" /\ pc # "callback" => current \notin stopped]_vars
  <2> SUFFICES ASSUME StopInv, Next, pc' = "callback", pc # "callback"
               PROVE  current \notin stopped
    OBVIOUS
  <2>1. UpdateCall
    BY DEF Next, Host, Startup, MainReturn, MainEvaluate, MainError, Shutdown, Post,
       Lua, Delay, Loop, NewTimer, Stop, Exit, Send, Process, LoopWait, LoopReceive,
       LoopReport, LoopDone, LoopTick, LoopPop, UpdateExit, UpdateWait, LoopReturn,
       ReturnTimer, ReturnMessage, Finish, LoopError, LoopSwap, process
  <2> QED BY <2>1 DEF UpdateCall, StopInv
<1> QED BY <1>1, <1>2, <1>3, TypeCorrect, PTL DEF Spec, StopIsFinal

-----------------------------------------------------------------------------
(* Loop timers.                                                            *)

LEMMA LoopsStep ==
  IInv /\ SecondLoopsStayScheduled /\ [Next]_vars => SecondLoopsStayScheduled'
<1> SUFFICES ASSUME TypeOK, Control, HeldOnce, SecondLoopsStayScheduled, [Next]_vars,
                    NEW t \in Loops, pc' # "closed", Seconds(t) > 0, active'[t]
             PROVE  t \in Held'
  BY DEF IInv, SecondLoopsStayScheduled, Seconds
<1>0. t \in Timers /\ t \in Events /\ t # None /\ t \notin Exits /\ t \notin Messages
  BY EventSets, EventKinds
<1>1. pc # "closed" /\ active[t] => t \in Held
  BY DEF SecondLoopsStayScheduled
<1>2. CASE Host
  <2>1. pc # "closed" /\ active[t]
    BY <1>2 DEF Host, Startup, MainReturn, MainEvaluate, MainError, Shutdown, process,
       timers, Control
  <2>2. Held' = Held
    BY <1>2 DEF Host, Startup, MainReturn, MainEvaluate, MainError, Shutdown, process,
       queues, Held, Queued
  <2> QED BY <1>1, <2>1, <2>2
<1>3. ASSUME NEW m \in Messages, Post(m) PROVE t \in Held'
  <2>1. pc # "closed" /\ active[t]
    BY <1>3 DEF Post, process, timers
  <2>2. Range(EventQueue') = Range(EventQueue) \cup {m}
    BY <1>3, EventSets, AppendElements DEF Post, TypeOK
  <2>3. Held \subseteq Held'
    BY <1>3, <2>2 DEF Post, process, Held, Queued
  <2> QED BY <1>1, <2>1, <2>3
<1>4. ASSUME NEW g \in Goroutines, Lua(g) PROVE t \in Held'
  <2>0. pc # "closed"
    BY <1>4 DEF Lua, Delay, Loop, NewTimer, Stop, Exit, Send, process
  <2>1. ASSUME NEW e \in Events, RunsLua(g), calling' = [calling EXCEPT ![g] = e],
               active[t] \/ t = e, UNCHANGED <<queues, current>>
        PROVE  t \in Held'
    <3>1. calling'[g] = e /\ \A h \in Goroutines \ {g} : calling'[h] = calling[h]
      BY <2>1 DEF TypeOK
    <3>2. calling[g] = None
      BY <2>1 DEF RunsLua
    <3>3. Held \ {None} \subseteq Held' /\ e \in Held'
      BY <2>1, <3>1, <3>2 DEF Held, Queued, queues
    <3> QED BY <1>0, <1>1, <2>0, <2>1, <3>3
  <2>2. ASSUME NEW u \in Timers, NEW first, NewTimer(g, u, first) PROVE t \in Held'
    <3>1. active[t] \/ t = u
      BY <1>0, <2>2 DEF TypeOK, NewTimer
    <3> QED BY <2>1, <2>2, <3>1, EventSets DEF NewTimer, process
  <2>3. ASSUME NEW u \in Timers, Stop(g, u) PROVE t \in Held'
    <3>1. active[t]
      BY <1>0, <2>3 DEF TypeOK, Stop
    <3>2. Held' = Held
      BY <2>3 DEF Stop, Held, Queued, queues, process
    <3> QED BY <1>1, <2>0, <3>1, <3>2
  <2>4. ASSUME NEW x \in Exits, Exit(g, x) PROVE t \in Held'
    BY <2>1, <2>4, EventSets DEF Exit, process, timers
  <2>5. CASE Send(g)
    <3>1. active[t]
      BY <2>5 DEF Send, timers
    <3>2. Range(EventQueue') = Range(EventQueue) \cup {calling[g]}
      BY <2>5, AppendElements DEF Send, TypeOK
    <3>3. \A h \in Goroutines : calling[h] = calling'[h] \/ calling[h] \in Range(EventQueue')
      BY <2>5, <3>2 DEF Send, TypeOK
    <3>4. Held \subseteq Held'
      BY <2>5, <3>2, <3>3 DEF Send, Held, Queued, process
    <3> QED BY <1>1, <2>0, <3>1, <3>4
  <2> QED BY <1>4, <2>2, <2>3, <2>4, <2>5 DEF Lua, Delay, Loop
<1>5. CASE LoopWait \/ LoopReport \/ LoopDone \/ UpdateCall
  <2>1. pc # "closed" /\ active[t]
    BY <1>5 DEF LoopWait, LoopReport, LoopDone, UpdateCall, timers
  <2>2. Held' = Held
    BY <1>5 DEF LoopWait, LoopReport, LoopDone, UpdateCall, Held, Queued, queues
  <2> QED BY <1>1, <2>1, <2>2
<1>6. CASE LoopReceive
  <2>1. /\ Range(EventQueue) = {Head(EventQueue)} \cup Range(Tail(EventQueue))
        /\ Head(EventQueue) \in Events
    BY <1>6, TailElements DEF TypeOK, LoopReceive
  <2>2. Range(eventQueue') = Range(eventQueue) \cup {Head(EventQueue)}
    BY <1>6, <2>1, AppendElements DEF TypeOK, LoopReceive
  <2>3. Held' = Held
    BY <1>6, <2>1, <2>2 DEF LoopReceive, Held, Queued
  <2> QED BY <1>1, <1>6, <2>3 DEF LoopReceive, timers
<1>7. CASE LoopTick
  <2>1. Range(eventQueue') = Range(eventQueue)
    BY <1>7, SortedElements DEF TypeOK, LoopTick
  <2>2. Held' = Held
    BY <1>7, <2>1 DEF LoopTick, Held, Queued
  <2> QED BY <1>1, <1>7, <2>2 DEF LoopTick, timers
<1>8. CASE LoopPop
  <2>1. Range(eventQueue) = {Head(eventQueue)} \cup Range(Tail(eventQueue))
    BY <1>8, TailElements DEF TypeOK, LoopPop
  <2>2. active[t] /\ t \in Held /\ t # current
    BY <1>0, <1>1, <1>8 DEF LoopPop, timers, Control
  <2>3. t = Head(eventQueue) => t \in Held'
    BY <1>0, <1>8, <2>2 DEF LoopPop, Valid, Held
  <2>4. t # Head(eventQueue) => t \in Held'
    BY <1>8, <2>1, <2>2 DEF LoopPop, Held, Queued
  <2> QED BY <2>3, <2>4
<1>9. ASSUME NEW keep \in BOOLEAN, Finish(keep), current \in Events,
             UNCHANGED <<EventQueue, eventQueue, calling>>,
             t \in Held, t # current \/ keep
      PROVE  t \in Held'
  <2>1. t # current => t \in Held'
    <3>1. Range(eventSwapQueue) \subseteq Range(eventSwapQueue')
      BY <1>9, AppendElements DEF Finish, TypeOK
    <3> QED BY <1>9, <3>1 DEF Held, Queued
  <2>2. keep /\ t = current => t \in Held'
    <3> SUFFICES ASSUME keep PROVE current \in Held'
      OBVIOUS
    <3>1. Range(eventSwapQueue') = Range(eventSwapQueue) \cup {current}
      BY <1>9, AppendElements DEF Finish, TypeOK
    <3> QED BY <3>1 DEF Held, Queued
  <2> QED BY <1>9, <2>1, <2>2
<1>10. CASE UpdateExit
  <2>1. pc # "closed" /\ active[t] /\ t # current
    BY <1>0, <1>10 DEF UpdateExit, timers
  <2> QED BY <1>1, <1>9, <1>10, <2>1, EventSets DEF UpdateExit
<1>11. CASE UpdateWait
  <2>1. pc # "closed" /\ active[t]
    BY <1>11 DEF UpdateWait
  <2>2. active[current] \in BOOLEAN /\ (t # current \/ active[current])
    BY <1>11, <2>1 DEF UpdateWait, TypeOK
  <2> QED BY <1>1, <1>9, <1>11, <2>1, <2>2, EventSets DEF UpdateWait
<1>12. CASE LoopReturn
  <2>1. pc # "closed" /\ UNCHANGED <<EventQueue, eventQueue, calling>>
    BY <1>12 DEF LoopReturn, RunsLua
  <2>2. ASSUME NEW again \in BOOLEAN, ReturnTimer(again) PROVE t \in Held'
    <3>1. active[t]
      BY <1>0, <2>2 DEF ReturnTimer, TypeOK
    <3>2. t = current => active'[current] /\ delay'[current] > 0
      <4> SUFFICES ASSUME t = current PROVE delay'[t] > 0
        OBVIOUS
      <4>1. again
        BY <1>0, <2>2 DEF ReturnTimer, TypeOK
      <4>2. delay'[t] = Period(t)
        BY <1>0, <2>2, <4>1 DEF ReturnTimer, TypeOK
      <4> QED BY <4>2 DEF Period
    <3>3. (active'[current] /\ delay'[current] > 0) \in BOOLEAN
      OBVIOUS
    <3> QED BY <1>1, <1>9, <2>1, <2>2, <3>1, <3>2, <3>3, EventSets DEF ReturnTimer
  <2>3. ASSUME ReturnMessage PROVE t \in Held'
    <3>1. active[t] /\ t # current
      BY <1>0, <2>3 DEF ReturnMessage
    <3> QED BY <1>1, <1>9, <2>1, <2>3, <3>1, EventSets DEF ReturnMessage
  <2> QED BY <1>12, <2>2, <2>3 DEF LoopReturn
<1>13. CASE LoopError
  BY <1>13 DEF LoopError
<1>14. CASE LoopSwap
  <2>1. Range(<< >>) = {}
    BY DEF Range
  <2>2. Held' = Held
    BY <1>14, <2>1 DEF LoopSwap, Held, Queued
  <2> QED BY <1>1, <1>14, <2>2 DEF LoopSwap, timers
<1>15. CASE UNCHANGED vars
  <2>1. Held' = Held
    BY <1>15 DEF vars, process, queues, Held, Queued
  <2> QED BY <1>1, <1>15, <2>1 DEF vars, process, timers
<1> QED BY <1>2, <1>3, <1>4, <1>5, <1>6, <1>7, <1>8, <1>10, <1>11, <1>12, <1>13,
           <1>14, <1>15 DEF Next, Process

\* A loop timer of a second or more that nothing stopped is never lost.
THEOREM SecondLoopsScheduled == Spec => []SecondLoopsStayScheduled
<1>1. Init => SecondLoopsStayScheduled
  BY EventSets DEF Init, SecondLoopsStayScheduled
<1> QED BY <1>1, LoopsStep, IInvInvariant, PTL DEF Spec

-----------------------------------------------------------------------------
(* Sends of callbacks.                                                     *)

\* The runtime refers to finitely many events.
LEMMA HeldIsFinite == TypeOK => IsFiniteSet(Held)
<1> SUFFICES ASSUME TypeOK PROVE IsFiniteSet(Held)
  OBVIOUS
<1>1. IsFiniteSet(Queued)
  <2>1. /\ IsFiniteSet(Range(EventQueue))
        /\ IsFiniteSet(Range(eventQueue))
        /\ IsFiniteSet(Range(eventSwapQueue))
    BY QueueCardinality DEF TypeOK
  <2> QED BY <2>1, FS_Union DEF Queued
<1>2. Held = (Queued \cup {current}) \cup {calling["main"], calling["loop"]}
  BY DEF Held, Goroutines
<1>3. IsFiniteSet({calling["main"]}) /\ IsFiniteSet({calling["loop"]})
      /\ IsFiniteSet({current})
  BY FS_Singleton
<1>4. {calling["main"], calling["loop"]} = {calling["main"]} \cup {calling["loop"]}
  OBVIOUS
<1> QED BY <1>1, <1>2, <1>3, <1>4, FS_Union

\* process() never waits on its own channel while the runtime refers to at
\* most Capacity + 1 events: the one it updates and the one it sends are not
\* in the channel.
THEOREM NeverSelfBlocked == Spec => []NotSelfBlocked
<1>1. IInv => NotSelfBlocked
  <2> SUFFICES ASSUME TypeOK, Control, HeldOnce, calling["loop"] # None,
                      Cardinality(Held \ {None}) <= Capacity + 1
               PROVE  HasRoom
    BY DEF IInv, NotSelfBlocked
  <2> DEFINE n == Len(EventQueue)
             R == Range(EventQueue)
  <2>1. n \in Nat /\ R \subseteq Events
    BY LenProperties, RangeOfSeq DEF TypeOK
  <2>2. IsFiniteSet(R) /\ Cardinality(R) = n
    BY QueueCardinality DEF HeldOnce, TypeOK
  <2>3. /\ calling["loop"] \in Events /\ current \in Events
        /\ calling["loop"] \notin R \cup {current} /\ current \notin R
    BY DEF TypeOK, Control, HeldOnce, Queued, Goroutines
  <2>4. /\ IsFiniteSet(R \cup {current})
        /\ Cardinality(R \cup {current}) = n + 1
    BY <2>2, <2>3, FS_AddElement
  <2> DEFINE Busy == R \cup {current}
  <2>5. Cardinality(Busy \cup {calling["loop"]}) = n + 2
    <3>1. IsFiniteSet(Busy) /\ Cardinality(Busy) = n + 1 /\ calling["loop"] \notin Busy
      BY <2>3, <2>4
    <3> HIDE DEF Busy
    <3>2. Cardinality(Busy \cup {calling["loop"]}) = Cardinality(Busy) + 1
      BY <3>1, FS_AddElement
    <3> QED BY <2>1, <3>1, <3>2
  <2>6. Busy \cup {calling["loop"]} \subseteq Held \ {None}
    BY <2>1, <2>3, EventKinds DEF Held, Queued, Goroutines
  <2>7. IsFiniteSet(Held \ {None})
    BY HeldIsFinite, FS_Subset
  <2> DEFINE All == Held \ {None}
  <2>8. n + 2 <= Cardinality(All) /\ Cardinality(All) \in Nat
    <3>1. Cardinality(Busy \cup {calling["loop"]}) <= Cardinality(All)
      <4> HIDE DEF Busy, All
      <4> QED BY <2>6, <2>7, FS_Subset DEF All
    <3> QED BY <2>5, <2>7, <3>1, FS_CardinalityType
  <2> QED BY <2>1, <2>8, LoopParameters DEF HasRoom
<1> QED BY <1>1, IInvInvariant, PTL

\* A callback that waits to send to the full channel waits for ever, for any
\* capacity and any events: process() alone receives from the channel, and it
\* is in that callback (runtime.go:177). That is the one end, other than
\* closing, that the liveness properties leave a runtime.
THEOREM SelfBlockedForEver == Spec => [][SelfBlocked => SelfBlocked']_vars
<1>1. IInv /\ [Next]_vars => (SelfBlocked => SelfBlocked')
  <2> SUFFICES ASSUME TypeOK, Control, [Next]_vars, calling["loop"] # None, ~HasRoom
               PROVE  calling'["loop"] = calling["loop"] /\ EventQueue' = EventQueue
    BY DEF IInv, SelfBlocked, HasRoom
  <2>1. pc = "callback" /\ ~RunsLua("loop") /\ "loop" \in Goroutines
    BY DEF Control, RunsLua, Goroutines
  <2>2. CASE Host
    BY <2>2 DEF Host, Startup, MainReturn, MainEvaluate, MainError, Shutdown, queues
  <2>3. CASE Process
    BY <2>1, <2>3 DEF Process, LoopWait, LoopReceive, LoopReport, LoopDone, LoopTick, LoopPop,
       UpdateExit, UpdateWait, UpdateCall, LoopReturn, LoopError, LoopSwap
  <2>4. ASSUME NEW g \in Goroutines, Lua(g)
        PROVE  calling'["loop"] = calling["loop"] /\ EventQueue' = EventQueue
    <3>1. g # "loop" \/ \E t \in Timers : Stop(g, t)
      BY <2>1, <2>4 DEF Lua, Delay, Loop, NewTimer, Exit, Send
    <3>2. ASSUME NEW e, calling' = [calling EXCEPT ![g] = e], g # "loop"
          PROVE  calling'["loop"] = calling["loop"]
      BY <2>1, <3>2 DEF TypeOK
    <3>3. CASE \E t \in Timers : Stop(g, t)
      BY <3>3 DEF Stop, queues
    <3>4. ASSUME NEW t \in Timers, Delay(g, t) \/ Loop(g, t), g # "loop"
          PROVE  calling'["loop"] = calling["loop"] /\ EventQueue' = EventQueue
      BY <3>2, <3>4 DEF Delay, Loop, NewTimer, queues
    <3>5. ASSUME NEW x \in Exits, Exit(g, x), g # "loop"
          PROVE  calling'["loop"] = calling["loop"] /\ EventQueue' = EventQueue
      BY <3>2, <3>5 DEF Exit, queues
    <3>6. ~Send(g)
      BY DEF Send
    <3> QED BY <2>4, <3>1, <3>3, <3>4, <3>5, <3>6 DEF Lua
  <2>5. ASSUME NEW m \in Messages, Post(m) PROVE FALSE
    BY <2>5 DEF Post
  <2>6. CASE UNCHANGED vars
    BY <2>6 DEF vars, queues
  <2> QED BY <2>2, <2>3, <2>4, <2>5, <2>6 DEF Next
<1> QED BY <1>1, IInvInvariant, PTL DEF Spec

-----------------------------------------------------------------------------
(* The life cycle of events.                                               *)

\* What the life cycle is about: events that wait or run.
Alive == Queued \cup ({current} \ {None})

\* Nothing changes for the life cycle when the same events wait and run, and
\* the same of them are valid.
LEMMA Stutters ==
  ASSUME Queued' = Queued, current' = current, pc' = "closed" <=> pc = "closed",
         \A e \in Alive : Valid(e)' <=> Valid(e)
  PROVE  UNCHANGED Lifecycle!vars
<1>1. [e \in Events |-> Stage(e)]' = [e \in Events |-> Stage(e)]
  BY DEF Stage
<1>2. {e \in Alive : ~Valid(e)}' = {e \in Alive : ~Valid(e)}
  BY DEF Alive
<1> QED BY <1>1, <1>2 DEF Lifecycle!vars, Alive

\* The channel takes an event that is valid.
LEMMA Accepts ==
  ASSUME NEW e \in Events, e \notin Queued, e # current,
         Queued' = Queued \cup {e}, current' = current, pc' = pc,
         Valid(e)', \A f \in Alive : Valid(f)' <=> Valid(f)
  PROVE  Lifecycle!Accept(e)
<1>1. Stage(e) = "idle" /\ Stage(e)' = "pending"
  BY DEF Stage
<1>2. \A f \in Events \ {e} : Stage(f)' = Stage(f)
  BY DEF Stage
<1>3. [f \in Events |-> Stage(f)]' = [[f \in Events |-> Stage(f)] EXCEPT ![e] = "pending"]
  BY <1>1, <1>2
<1>4. {f \in Alive : ~Valid(f)}' = {f \in Alive : ~Valid(f)}
  <2>1. Alive' = Alive \cup {e}
    BY DEF Alive
  <2> QED BY <2>1
<1> QED BY <1>1, <1>3, <1>4 DEF Lifecycle!Accept, Alive

\* stop() of a timer that waits or runs.
LEMMA Cancels ==
  ASSUME NEW e \in Events \cap Alive, Queued' = Queued, current' = current, pc' = pc,
         ~Valid(e)', \A f \in Alive \ {e} : Valid(f)' <=> Valid(f)
  PROVE  Lifecycle!Cancel(e)
<1>1. Stage(e) # "idle"
  BY DEF Stage, Alive
<1>2. [f \in Events |-> Stage(f)]' = [f \in Events |-> Stage(f)]
  BY DEF Stage
<1>3. {f \in Alive : ~Valid(f)}' = {f \in Alive : ~Valid(f)} \cup {e}
  <2>1. Alive' = Alive
    BY DEF Alive
  <2> QED BY <2>1
<1> QED BY <1>1, <1>2, <1>3 DEF Lifecycle!Cancel, Alive

\* process() pops a valid event, and none runs.
LEMMA Begins ==
  ASSUME NEW e \in Queued \cap Events, Queued' = Queued \ {e}, current = None,
         None \notin Events, current' = e, pc # "closed", pc' # "closed",
         Valid(e), \A f \in Alive : Valid(f)' <=> Valid(f)
  PROVE  Lifecycle!Begin(e)
<1>1. Stage(e) = "pending" /\ Stage(e)' = "running"
  BY DEF Stage
<1>2. \A f \in Events : Stage(f) # "running"
  BY DEF Stage
<1>3. \A f \in Events \ {e} : Stage(f)' = Stage(f)
  BY DEF Stage
<1>4. [f \in Events |-> Stage(f)]' = [[f \in Events |-> Stage(f)] EXCEPT ![e] = "running"]
  BY <1>1, <1>3
<1>5. {f \in Alive : ~Valid(f)}' = {f \in Alive : ~Valid(f)}
  <2>1. Alive' = Alive
    BY DEF Alive
  <2> QED BY <2>1
<1> QED BY <1>1, <1>2, <1>4, <1>5 DEF Lifecycle!Begin, Alive

\* process() pops an event that is not valid.
LEMMA Discards ==
  ASSUME NEW e \in Queued \cap Events, Queued' = Queued \ {e}, current = None,
         None \notin Events, current' = None, pc # "closed", pc' # "closed",
         ~Valid(e), \A f \in Alive : Valid(f)' <=> Valid(f)
  PROVE  Lifecycle!Discard(e)
<1>1. Stage(e) = "pending" /\ Stage(e)' = "idle"
  BY DEF Stage
<1>2. \A f \in Events \ {e} : Stage(f)' = Stage(f)
  BY DEF Stage
<1>3. [f \in Events |-> Stage(f)]' = [[f \in Events |-> Stage(f)] EXCEPT ![e] = "idle"]
  BY <1>1, <1>2
<1>4. {f \in Alive : ~Valid(f)}' = {f \in Alive : ~Valid(f)} \ {e}
  <2>1. Alive' = Alive \ {e}
    BY DEF Alive
  <2> QED BY <2>1
<1> QED BY <1>1, <1>3, <1>4 DEF Lifecycle!Discard, Alive

\* Update returned: Finish keeps a valid event, or drops it.
LEMMA Finishes ==
  ASSUME TypeOK, HeldOnce, NEW e \in Events, e = current, pc # "closed",
         NEW keep \in BOOLEAN, Finish(keep), UNCHANGED <<EventQueue, eventQueue>>,
         keep => Valid(e) /\ Valid(e)', \A f \in Queued : Valid(f)' <=> Valid(f)
  PROVE  Lifecycle!Requeue(e) \/ Lifecycle!Retire(e)
<1>2. /\ e \notin Queued /\ None \notin Events /\ Queued \subseteq Events
      /\ current' = None /\ pc' # "closed"
  BY EventSets, RangeOfSeq DEF HeldOnce, Finish, TypeOK, Queued
<1>3. Queued' = IF keep THEN Queued \cup {e} ELSE Queued
  <2>1. Range(Append(eventSwapQueue, e)) = Range(eventSwapQueue) \cup {e}
    BY AppendElements DEF TypeOK
  <2> QED BY <2>1 DEF Finish, Queued
<1>4. Stage(e) = "running" /\ Stage(e)' = IF keep THEN "pending" ELSE "idle"
  BY <1>2, <1>3 DEF Stage
<1>5. \A f \in Events \ {e} : Stage(f)' = Stage(f)
  BY <1>2, <1>3 DEF Stage
<1>6. [f \in Events |-> Stage(f)]'
        = [[f \in Events |-> Stage(f)] EXCEPT ![e] = IF keep THEN "pending" ELSE "idle"]
  BY <1>4, <1>5
<1>7. Alive = Queued \cup {e} /\ Alive' = Queued'
  BY <1>2 DEF Alive
<1>8. CASE keep
  <2>1. Valid(e) /\ Valid(e)'
    BY <1>8
  <2>2. {f \in Alive : ~Valid(f)}' = {f \in Alive : ~Valid(f)}
    BY <1>2, <1>3, <1>7, <1>8, <2>1
  <2>3. Lifecycle!Requeue(e)
    BY <1>2, <1>4, <1>6, <1>8, <2>1, <2>2 DEF Lifecycle!Requeue, Alive
  <2> QED BY <2>3
<1>9. CASE ~keep
  <2>1. {f \in Alive : ~Valid(f)}' = {f \in Alive : ~Valid(f)} \ {e}
    BY <1>2, <1>3, <1>7, <1>9
  <2>2. Lifecycle!Retire(e)
    BY <1>2, <1>4, <1>6, <1>9, <2>1 DEF Lifecycle!Retire, Alive
  <2> QED BY <2>2
<1> QED BY <1>8, <1>9

\* process() leaves its loop, with the event that failed if one runs.
LEMMA Closes ==
  ASSUME Queued' = Queued, current' = None, None \notin Events,
         current \in Events \cup {None}, current \notin Queued, Queued \subseteq Events,
         pc # "closed", pc' = "closed", \A f \in Queued : Valid(f)' <=> Valid(f)
  PROVE  Lifecycle!Close
<1>1. \A e \in Events : Stage(e)' = IF Stage(e) = "running" THEN "idle" ELSE Stage(e)
  BY DEF Stage
<1>2. [e \in Events |-> Stage(e)]'
        = [e \in Events |-> IF [f \in Events |-> Stage(f)][e] = "running"
                            THEN "idle" ELSE [f \in Events |-> Stage(f)][e]]
  BY <1>1
<1>3. {e \in Events : [f \in Events |-> Stage(f)][e] = "running"} = {current} \ {None}
  BY DEF Stage
<1>4. {e \in Alive : ~Valid(e)}' = {e \in Alive : ~Valid(e)} \ ({current} \ {None})
  <2>1. Alive' = Queued
    BY DEF Alive
  <2> QED BY <2>1 DEF Alive
<1> QED BY <1>2, <1>3, <1>4 DEF Lifecycle!Close, Alive

\* An event is valid from its making to its acceptance: stop() is not called
\* on a timer that event.delay or event.loop has yet to return.
Armed == \A g \in Goroutines : calling[g] # None => Valid(calling[g])

\* What a step may do to the validity of events: events that nothing holds,
\* the one being updated and a stopped timer apart, it leaves it alone.
LEMMA ValidityKept ==
  ASSUME TypeOK, UNCHANGED <<active, state>>
  PROVE  \A e \in Events : Valid(e)' <=> Valid(e)
BY DEF Valid

\* A new timer, a new exit event and a new message are valid, and the others
\* as valid as before.
LEMMA NewIsValid ==
  ASSUME TypeOK, NEW e \in Events,
         \/ /\ e \in Timers
            /\ active' = [active EXCEPT ![e] = TRUE]
            /\ UNCHANGED state
         \/ /\ e \in Exits \cup Messages
            /\ state' = [state EXCEPT ![e] = "initialize"]
            /\ UNCHANGED active
  PROVE  Valid(e)' /\ \A f \in Events \ {e} : Valid(f)' <=> Valid(f)
<1>1. CASE e \in Timers /\ active' = [active EXCEPT ![e] = TRUE] /\ UNCHANGED state
  <2>1. active'[e] = TRUE /\ \A f \in Timers \ {e} : active'[f] = active[f]
    BY <1>1 DEF TypeOK
  <2> QED BY <1>1, <2>1 DEF Valid
<1>2. CASE /\ e \in Exits \cup Messages /\ state' = [state EXCEPT ![e] = "initialize"]
           /\ UNCHANGED active
  <2>1. e \notin Timers
    BY <1>2, EventKinds
  <2>2. /\ state'[e] = "initialize"
        /\ \A f \in (Exits \cup Messages) \ {e} : state'[f] = state[f]
    BY <1>2 DEF TypeOK
  <2> QED BY <1>2, <2>1, <2>2 DEF Valid, Events
<1> QED BY <1>1, <1>2

\* Update changes the validity of its own event only, and keeps an event
\* only while it is valid.
LEMMA UpdateValidity ==
  ASSUME TypeOK, NEW e \in Events, e = current,
         UpdateExit \/ UpdateWait \/ LoopReturn
  PROVE  /\ \A f \in Events \ {e} : Valid(f)' <=> Valid(f)
         /\ pc # "closed"
         /\ UNCHANGED <<EventQueue, eventQueue, calling>>
         /\ \E keep \in BOOLEAN : Finish(keep) /\ (keep => Valid(e) /\ Valid(e)')
<1>0. e \in Exits \cup Messages => e \notin Timers
  BY EventKinds
<1>1. CASE UpdateExit
  <2>1. /\ e \in Exits /\ pc = "update"
        /\ state' = [state EXCEPT ![e] = Advance(@)]
        /\ Finish(state'[e] # "complete")
        /\ UNCHANGED <<EventQueue, eventQueue, calling, active>>
    BY <1>1 DEF UpdateExit, timers
  <2>2. /\ state'[e] = Advance(state[e])
        /\ \A f \in (Exits \cup Messages) \ {e} : state'[f] = state[f]
    BY <2>1 DEF TypeOK
  <2>3. state'[e] # "complete" => state[e] # "complete"
    BY <2>2 DEF Advance
  <2>4. \A f \in Events \ {e} : Valid(f)' <=> Valid(f)
    BY <2>1, <2>2 DEF Valid, Events
  <2>5. state'[e] # "complete" => Valid(e) /\ Valid(e)'
    BY <1>0, <2>1, <2>3 DEF Valid
  <2>6. (state'[e] # "complete") \in BOOLEAN
    OBVIOUS
  <2> QED BY <2>1, <2>4, <2>5, <2>6
<1>2. CASE UpdateWait
  <2>1. /\ e \in Timers /\ pc = "update" /\ Finish(active[e]) /\ active[e] \in BOOLEAN
        /\ UNCHANGED <<EventQueue, eventQueue, calling, active, state>>
    BY <1>2 DEF UpdateWait, TypeOK
  <2>2. \A f \in Events : Valid(f)' <=> Valid(f)
    BY <2>1, ValidityKept
  <2>3. active[e] => Valid(e) /\ Valid(e)'
    BY <2>1, <2>2 DEF Valid
  <2> QED BY <2>1, <2>2, <2>3
<1>3. CASE LoopReturn
  <2>1. pc = "callback" /\ UNCHANGED <<EventQueue, eventQueue, calling>>
    BY <1>3 DEF LoopReturn, RunsLua
  <2>2. ASSUME NEW again \in BOOLEAN, ReturnTimer(again)
        PROVE  /\ \A f \in Events \ {e} : Valid(f)' <=> Valid(f)
               /\ \E keep \in BOOLEAN : Finish(keep) /\ (keep => Valid(e) /\ Valid(e)')
    <3>1. /\ e \in Timers /\ UNCHANGED state
          /\ Finish(active'[e] /\ delay'[e] > 0)
          /\ active' = IF again THEN active ELSE [active EXCEPT ![e] = FALSE]
      BY <2>2 DEF ReturnTimer
    <3>2. /\ \A f \in Timers \ {e} : active'[f] = active[f]
          /\ active'[e] => active[e]
      BY <3>1 DEF TypeOK
    <3>3. \A f \in Events \ {e} : Valid(f)' <=> Valid(f)
      BY <3>1, <3>2 DEF Valid
    <3>4. active'[e] /\ delay'[e] > 0 => Valid(e) /\ Valid(e)'
      BY <3>1, <3>2 DEF Valid
    <3>5. (active'[e] /\ delay'[e] > 0) \in BOOLEAN
      OBVIOUS
    <3> QED BY <3>1, <3>3, <3>4, <3>5
  <2>3. ASSUME ReturnMessage
        PROVE  /\ \A f \in Events \ {e} : Valid(f)' <=> Valid(f)
               /\ \E keep \in BOOLEAN : Finish(keep) /\ (keep => Valid(e) /\ Valid(e)')
    <3>1. /\ e \in Messages /\ state' = [state EXCEPT ![e] = "complete"]
          /\ Finish(FALSE) /\ UNCHANGED active
      BY <2>3 DEF ReturnMessage
    <3>2. \A f \in (Exits \cup Messages) \ {e} : state'[f] = state[f]
      BY <3>1 DEF TypeOK
    <3>3. \A f \in Events \ {e} : Valid(f)' <=> Valid(f)
      BY <3>1, <3>2 DEF Valid, Events
    <3> QED BY <3>1, <3>3
  <2> QED BY <1>3, <2>1, <2>2, <2>3 DEF LoopReturn
<1> QED BY <1>1, <1>2, <1>3

\* A callback that fails leaves the validity of the other events alone.
LEMMA ErrorValidity ==
  ASSUME TypeOK, LoopError
  PROVE  \A f \in Events \ {current} : Valid(f)' <=> Valid(f)
<1>1. /\ state' = [e \in DOMAIN state |-> IF e = current THEN "complete" ELSE state[e]]
      /\ UNCHANGED active
  BY DEF LoopError, timers
<1>2. \A f \in (Exits \cup Messages) \ {current} : state'[f] = state[f]
  BY <1>1 DEF TypeOK
<1> QED BY <1>1, <1>2 DEF Valid, Events

\* The steps that leave the validity of every event alone.
Plain == \/ Host \/ LoopWait \/ LoopReceive \/ LoopReport \/ LoopDone \/ LoopTick
         \/ LoopPop \/ UpdateCall \/ LoopSwap \/ UNCHANGED vars

LEMMA PlainValidity ==
  ASSUME TypeOK, Plain
  PROVE  UNCHANGED <<calling, active, state>> /\ \A e \in Events : Valid(e)' <=> Valid(e)
<1>1. UNCHANGED <<calling, active, state>>
  BY DEF Plain, Host, Startup, MainReturn, MainEvaluate, MainError, Shutdown, LoopWait,
     LoopReceive, LoopReport, LoopDone, LoopTick, LoopPop, UpdateCall, LoopSwap, vars, timers
<1> QED BY <1>1, ValidityKept

LEMMA ArmedStep == IInv /\ Armed /\ [Next]_vars => Armed'
<1> SUFFICES ASSUME TypeOK, Control, HeldOnce, Armed, [Next]_vars PROVE Armed'
  BY DEF IInv
<1>0. calling \in [Goroutines -> Events \cup {None}] /\ None \notin Events
  BY EventSets DEF TypeOK
<1>1. CASE Plain
  BY <1>0, <1>1, PlainValidity DEF Armed
<1>2. ASSUME NEW m \in Messages, Post(m) PROVE Armed'
  <2>1. /\ m \in Events /\ \A g \in Goroutines : calling[g] # m
        /\ state' = [state EXCEPT ![m] = "initialize"]
        /\ UNCHANGED <<calling, active>>
    BY <1>2, EventSets DEF Post, Held, timers
  <2>2. \A f \in Events \ {m} : Valid(f)' <=> Valid(f)
    BY <2>1, NewIsValid
  <2> QED BY <1>0, <2>1, <2>2 DEF Armed
<1>3. ASSUME NEW g \in Goroutines, Lua(g) PROVE Armed'
  <2>1. ASSUME NEW e \in Events, calling' = [calling EXCEPT ![g] = e], Valid(e)',
               \A f \in Events \ {e} : Valid(f)' <=> Valid(f)
        PROVE  Armed'
    <3>1. calling'[g] = e /\ \A h \in Goroutines \ {g} : calling'[h] = calling[h]
      BY <1>0, <2>1
    <3>2. ASSUME NEW h \in Goroutines, calling'[h] # None PROVE Valid(calling[h])'
      <4>1. PICK f \in Events : f = calling'[h]
        BY <1>0, <2>1, <3>1, <3>2
      <4>2. f # e => f = calling[h] /\ Valid(f)
        BY <3>1, <3>2, <4>1 DEF Armed
      <4>3. Valid(f)'
        BY <2>1, <4>2
      <4> QED BY <4>1, <4>3 DEF Valid
    <3> QED BY <3>2 DEF Armed
  <2>2. ASSUME NEW t \in Timers, NEW first, NewTimer(g, t, first) PROVE Armed'
    <3>1. /\ t \in Events /\ calling' = [calling EXCEPT ![g] = t]
          /\ active' = [active EXCEPT ![t] = TRUE] /\ UNCHANGED state
      BY <2>2, EventSets DEF NewTimer
    <3> QED BY <2>1, <3>1, NewIsValid
  <2>3. ASSUME NEW t \in Timers, Stop(g, t) PROVE Armed'
    <3>1. /\ active' = [active EXCEPT ![t] = FALSE] /\ UNCHANGED <<calling, state>>
          /\ \A h \in Goroutines : calling[h] # t
      BY <2>3 DEF Stop
    <3>2. \A f \in Events \ {t} : Valid(f)' <=> Valid(f)
      <4>1. \A f \in Timers \ {t} : active'[f] = active[f]
        BY <3>1 DEF TypeOK
      <4> QED BY <3>1, <4>1 DEF Valid
    <3> QED BY <1>0, <3>1, <3>2 DEF Armed
  <2>4. ASSUME NEW x \in Exits, Exit(g, x) PROVE Armed'
    <3>1. /\ x \in Events /\ calling' = [calling EXCEPT ![g] = x]
          /\ state' = [state EXCEPT ![x] = "initialize"] /\ UNCHANGED active
      BY <2>4, EventSets DEF Exit, timers
    <3> QED BY <2>1, <3>1, NewIsValid
  <2>5. CASE Send(g)
    <3>1. /\ calling' = [calling EXCEPT ![g] = None] /\ UNCHANGED <<active, state>>
      BY <2>5 DEF Send, timers
    <3>2. \A h \in Goroutines : calling'[h] # None => calling'[h] = calling[h]
      BY <1>0, <3>1
    <3> QED BY <1>0, <3>1, <3>2, ValidityKept DEF Armed
  <2> QED BY <1>3, <2>2, <2>3, <2>4, <2>5 DEF Lua, Delay, Loop
<1>4. CASE UpdateExit \/ UpdateWait \/ LoopReturn
  <2>1. PICK e \in Events : e = current
    BY <1>4, EventSets DEF UpdateExit, UpdateWait, LoopReturn, ReturnTimer, ReturnMessage
  <2>2. UNCHANGED calling /\ \A f \in Events \ {e} : Valid(f)' <=> Valid(f)
    BY <1>4, <2>1, UpdateValidity
  <2>3. \A g \in Goroutines : calling[g] # None => calling[g] # e
    BY <2>1 DEF HeldOnce
  <2> QED BY <1>0, <2>2, <2>3 DEF Armed
<1>5. CASE LoopError
  <2>1. UNCHANGED calling /\ \A f \in Events \ {current} : Valid(f)' <=> Valid(f)
    BY <1>5, ErrorValidity DEF LoopError
  <2>2. \A g \in Goroutines : calling[g] # None => calling[g] # current
    BY DEF HeldOnce
  <2> QED BY <1>0, <2>1, <2>2 DEF Armed
<1> QED BY <1>1, <1>2, <1>3, <1>4, <1>5 DEF Next, Process, Plain
\* The queues exchange events without losing one or making one more.
LEMMA QueuedKept ==
  ASSUME TypeOK, Host \/ LoopWait \/ LoopReceive \/ LoopReport \/ LoopTick \/ UpdateCall
                 \/ LoopSwap \/ LoopDone \/ LoopError \/ UNCHANGED vars
  PROVE  Queued' = Queued
<1>1. CASE Host \/ LoopWait \/ LoopReport \/ UpdateCall \/ LoopDone \/ LoopError
           \/ UNCHANGED vars
  BY <1>1 DEF Host, Startup, MainReturn, MainEvaluate, MainError, Shutdown, LoopWait,
     LoopReport, UpdateCall, LoopDone, LoopError, vars, queues, Queued
<1>2. CASE LoopReceive
  <2>1. /\ Head(EventQueue) \in Events
        /\ Range(EventQueue) = {Head(EventQueue)} \cup Range(Tail(EventQueue))
    BY <1>2, TailElements DEF TypeOK, LoopReceive
  <2>2. Range(Append(eventQueue, Head(EventQueue))) = Range(eventQueue) \cup {Head(EventQueue)}
    BY <2>1, AppendElements DEF TypeOK
  <2> QED BY <1>2, <2>1, <2>2 DEF LoopReceive, Queued
<1>3. CASE LoopTick
  <2>1. Range(eventQueue') = Range(eventQueue)
    BY <1>3, SortedElements DEF TypeOK, LoopTick
  <2> QED BY <1>3, <2>1 DEF LoopTick, Queued
<1>4. CASE LoopSwap
  <2>1. Range(<< >>) = {}
    BY DEF Range
  <2> QED BY <1>4, <2>1 DEF LoopSwap, Queued
<1> QED BY <1>1, <1>2, <1>3, <1>4

LEMMA LifecycleStep == IInv /\ Armed /\ [Next]_vars => [Lifecycle!Next]_(Lifecycle!vars)
<1> SUFFICES ASSUME TypeOK, Control, HeldOnce, Armed, [Next]_vars
             PROVE  Lifecycle!Next \/ UNCHANGED Lifecycle!vars
  BY DEF IInv
<1>0. None \notin Events /\ Queued \subseteq Events /\ Alive \subseteq Events
      /\ current \in Events \cup {None} /\ Alive \subseteq Held
  BY EventSets, RangeOfSeq DEF TypeOK, Queued, Alive, Held
<1>1. CASE Host \/ LoopWait \/ LoopReceive \/ LoopReport \/ LoopTick \/ UpdateCall
           \/ LoopSwap \/ UNCHANGED vars
  <2>1. Queued' = Queued
    BY <1>1, QueuedKept
  <2>2. \A e \in Alive : Valid(e)' <=> Valid(e)
    BY <1>0, <1>1, PlainValidity DEF Plain
  <2>3. current' = current /\ (pc' = "closed" <=> pc = "closed")
    BY <1>1 DEF Host, Startup, MainReturn, MainEvaluate, MainError, Shutdown, LoopWait,
       LoopReceive, LoopReport, LoopTick, UpdateCall, LoopSwap, vars, process, Control
  <2> QED BY <2>1, <2>2, <2>3, Stutters
<1>2. ASSUME NEW m \in Messages, Post(m) PROVE Lifecycle!Next
  <2>1. /\ m \in Events /\ m \notin Held /\ EventQueue' = Append(EventQueue, m)
        /\ state' = [state EXCEPT ![m] = "initialize"]
        /\ UNCHANGED <<eventQueue, eventSwapQueue, current, pc, active>>
    BY <1>2, EventSets DEF Post, timers, process
  <2>2. Range(EventQueue') = Range(EventQueue) \cup {m}
    BY <2>1, AppendElements DEF TypeOK
  <2>3. Queued' = Queued \cup {m} /\ m \notin Queued /\ m # current
    BY <2>1, <2>2 DEF Queued, Held
  <2>4. Valid(m)' /\ \A f \in Events \ {m} : Valid(f)' <=> Valid(f)
    BY <2>1, NewIsValid
  <2>5. \A f \in Alive : Valid(f)' <=> Valid(f)
    BY <1>0, <2>1, <2>4
  <2>6. Lifecycle!Accept(m)
    BY <2>1, <2>3, <2>4, <2>5, Accepts
  <2> QED BY <2>1, <2>6 DEF Lifecycle!Next
<1>3. ASSUME NEW g \in Goroutines, Lua(g)
      PROVE  Lifecycle!Next \/ UNCHANGED Lifecycle!vars
  <2>1. ASSUME NEW e \in Events, e \notin Held, UNCHANGED <<queues, current, pc>>,
               \A f \in Events \ {e} : Valid(f)' <=> Valid(f)
        PROVE  UNCHANGED Lifecycle!vars
    <3>1. Queued' = Queued
      BY <2>1 DEF queues, Queued
    <3>2. \A f \in Alive : Valid(f)' <=> Valid(f)
      BY <1>0, <2>1
    <3> QED BY <2>1, <3>1, <3>2, Stutters
  <2>2. ASSUME NEW t \in Timers, NEW first, NewTimer(g, t, first)
        PROVE  UNCHANGED Lifecycle!vars
    <3>1. /\ t \in Events /\ t \notin Held /\ UNCHANGED <<queues, current, pc>>
          /\ active' = [active EXCEPT ![t] = TRUE] /\ UNCHANGED state
      BY <2>2, EventSets DEF NewTimer, process
    <3>2. \A f \in Events \ {t} : Valid(f)' <=> Valid(f)
      BY <3>1, NewIsValid
    <3> QED BY <2>1, <3>1, <3>2
  <2>3. ASSUME NEW x \in Exits, Exit(g, x) PROVE UNCHANGED Lifecycle!vars
    <3>1. /\ x \in Events /\ x \notin Held /\ UNCHANGED <<queues, current, pc>>
          /\ state' = [state EXCEPT ![x] = "initialize"] /\ UNCHANGED active
      BY <2>3, EventSets DEF Exit, process, timers
    <3>2. \A f \in Events \ {x} : Valid(f)' <=> Valid(f)
      BY <3>1, NewIsValid
    <3> QED BY <2>1, <3>1, <3>2
  <2>4. ASSUME NEW t \in Timers, Stop(g, t)
        PROVE  Lifecycle!Next \/ UNCHANGED Lifecycle!vars
    <3>1. /\ t \in Events /\ UNCHANGED <<queues, current, pc, state>>
          /\ active' = [active EXCEPT ![t] = FALSE]
      BY <2>4, EventSets DEF Stop, process
    <3>2. ~Valid(t)' /\ \A f \in Events \ {t} : Valid(f)' <=> Valid(f)
      <4>1. active'[t] = FALSE /\ \A f \in Timers \ {t} : active'[f] = active[f]
        BY <3>1 DEF TypeOK
      <4> QED BY <3>1, <4>1 DEF Valid
    <3>3. Queued' = Queued
      BY <3>1 DEF queues, Queued
    <3>4. CASE t \in Alive
      <4>1. \A f \in Alive \ {t} : Valid(f)' <=> Valid(f)
        BY <1>0, <3>2
      <4>2. Lifecycle!Cancel(t)
        BY <3>1, <3>2, <3>3, <3>4, <4>1, Cancels
      <4> QED BY <3>1, <4>2 DEF Lifecycle!Next
    <3>5. CASE t \notin Alive
      <4>1. \A f \in Alive : Valid(f)' <=> Valid(f)
        BY <1>0, <3>2, <3>5
      <4> QED BY <3>1, <3>3, <4>1, Stutters
    <3> QED BY <3>4, <3>5
  <2>5. CASE Send(g)
    <3>1. PICK e \in Events : e = calling[g]
      BY <2>5 DEF Send, TypeOK
    <3>2. /\ e \notin Queued /\ e # current /\ Valid(e)
          /\ EventQueue' = Append(EventQueue, e)
          /\ UNCHANGED <<eventQueue, eventSwapQueue, current, pc, active, state>>
      BY <1>0, <2>5, <3>1 DEF Send, HeldOnce, Armed, process, timers
    <3>3. Range(EventQueue') = Range(EventQueue) \cup {e}
      BY <3>2, AppendElements DEF TypeOK
    <3>4. Queued' = Queued \cup {e}
      BY <3>2, <3>3 DEF Queued
    <3>5. \A f \in Events : Valid(f)' <=> Valid(f)
      BY <3>2, ValidityKept
    <3>6. Lifecycle!Accept(e)
      BY <1>0, <3>2, <3>4, <3>5, Accepts
    <3> QED BY <3>6 DEF Lifecycle!Next
  <2> QED BY <1>3, <2>2, <2>3, <2>4, <2>5 DEF Lua, Delay, Loop
<1>4. CASE LoopPop
  <2>1. PICK e \in Events : e = Head(eventQueue)
    BY <1>4, TailElements DEF LoopPop, TypeOK
  <2>2. /\ Range(eventQueue) = {e} \cup Range(Tail(eventQueue))
        /\ e \notin Range(Tail(eventQueue))
    BY <1>4, <2>1, TailElements DEF LoopPop, TypeOK, HeldOnce
  <2>3. /\ eventQueue' = Tail(eventQueue) /\ UNCHANGED <<EventQueue, eventSwapQueue>>
        /\ pc = "drain" /\ current = None
    BY <1>4 DEF LoopPop, Control
  <2>4. e \in Queued /\ Queued' = Queued \ {e}
    BY <2>2, <2>3 DEF Queued, HeldOnce
  <2>5. \A f \in Alive : Valid(f)' <=> Valid(f)
    BY <1>0, <1>4, PlainValidity DEF Plain
  <2>6. CASE Valid(e)
    <3>1. current' = e /\ pc' = "update"
      BY <1>4, <2>1, <2>6 DEF LoopPop
    <3>2. Lifecycle!Begin(e)
      BY <1>0, <2>3, <2>4, <2>5, <2>6, <3>1, Begins
    <3> QED BY <3>2 DEF Lifecycle!Next
  <2>7. CASE ~Valid(e)
    <3>1. current' = None /\ pc' = "drain"
      BY <1>4, <2>1, <2>3, <2>7 DEF LoopPop
    <3>2. Lifecycle!Discard(e)
      BY <1>0, <2>3, <2>4, <2>5, <2>7, <3>1, Discards
    <3> QED BY <3>2 DEF Lifecycle!Next
  <2> QED BY <2>6, <2>7
<1>5. CASE UpdateExit \/ UpdateWait \/ LoopReturn
  <2>1. PICK e \in Events : e = current
    BY <1>5, EventSets DEF UpdateExit, UpdateWait, LoopReturn, ReturnTimer, ReturnMessage
  <2>2. /\ \A f \in Events \ {e} : Valid(f)' <=> Valid(f)
        /\ pc # "closed" /\ UNCHANGED <<EventQueue, eventQueue>>
    BY <1>5, <2>1, UpdateValidity
  <2>3. PICK keep \in BOOLEAN : Finish(keep) /\ (keep => Valid(e) /\ Valid(e)')
    BY <1>5, <2>1, UpdateValidity
  <2>4. \A f \in Queued : Valid(f)' <=> Valid(f)
    BY <1>0, <2>1, <2>2 DEF HeldOnce
  <2>5. Lifecycle!Requeue(e) \/ Lifecycle!Retire(e)
    BY <2>1, <2>2, <2>3, <2>4, Finishes
  <2> QED BY <2>5 DEF Lifecycle!Next
<1>6. CASE LoopDone \/ LoopError
  <2>1. Queued' = Queued
    BY <1>6, QueuedKept
  <2>2. current' = None /\ pc # "closed" /\ pc' = "closed" /\ current \notin Queued
    BY <1>6 DEF LoopDone, LoopError, RunsLua, Control, HeldOnce
  <2>3. \A f \in Events \ {current} : Valid(f)' <=> Valid(f)
    BY <1>6, PlainValidity, ErrorValidity DEF Plain
  <2>4. \A f \in Queued : Valid(f)' <=> Valid(f)
    BY <1>0, <2>2, <2>3
  <2>5. Lifecycle!Close
    BY <1>0, <2>1, <2>2, <2>4, Closes
  <2> QED BY <2>5 DEF Lifecycle!Next
<1> QED BY <1>1, <1>2, <1>3, <1>4, <1>5, <1>6 DEF Next, Process

\* The queues, their exchange, the updates of events and the sends of several
\* goroutines implement the life cycle of events.
THEOREM LifecycleImplemented == Spec => ImplementsLifecycle
<1>1. Init => Lifecycle!Init
  <2> SUFFICES ASSUME Init PROVE Lifecycle!Init
    OBVIOUS
  <2>1. Queued = {} /\ current = None /\ pc # "closed"
    BY EmptyElements DEF Init, Queued
  <2>2. \A e \in Events : Stage(e) = "idle"
    BY <2>1, EventSets DEF Stage
  <2>3. [e \in Events |-> Stage(e)] = [e \in Events |-> "idle"]
    BY <2>2
  <2> QED BY <2>1, <2>3 DEF Lifecycle!Init
<1>2. Init => Armed
  BY DEF Init, Armed
<1>3. IInv /\ Armed /\ [Next]_vars => Armed'
  BY ArmedStep
<1>4. IInv /\ Armed /\ [Next]_vars => [Lifecycle!Next]_(Lifecycle!vars)
  BY LifecycleStep
<1> QED BY <1>1, <1>2, <1>3, <1>4, IInvInvariant, PTL DEF Spec, ImplementsLifecycle, Lifecycle!Spec
-----------------------------------------------------------------------------
(* The order of dispatch.                                                  *)

\* x stands before y in the queue s.
Before(s, x, y) == \E k, l \in 1..Len(s) : k < l /\ s[k] = x /\ s[l] = y

LEMMA BeforeConcat ==
  ASSUME NEW S, NEW s \in Seq(S), NEW t \in Seq(S), NEW x, NEW y
  PROVE  /\ s \o t \in Seq(S)
         /\ Range(s \o t) = Range(s) \cup Range(t)
         /\ Before(s \o t, x, y)
              <=> \/ Before(s, x, y)
                  \/ x \in Range(s) /\ y \in Range(t)
                  \/ Before(t, x, y)
<1> DEFINE m == Len(s)
           n == Len(t)
           u == s \o t
<1>1. /\ m \in Nat /\ n \in Nat /\ DOMAIN s = 1..m /\ DOMAIN t = 1..n
      /\ u \in Seq(S) /\ Len(u) = m + n /\ DOMAIN u = 1..(m + n)
      /\ \A i \in 1..(m + n) : u[i] = IF i <= m THEN s[i] ELSE t[i - m]
  BY ConcatProperties, LenProperties
<1>2. \A i \in 1..m : i \in 1..(m + n) /\ u[i] = s[i]
  BY <1>1
<1>3. \A i \in 1..n : m + i \in 1..(m + n) /\ u[m + i] = t[i]
  BY <1>1
<1>4. \A i \in 1..(m + n) : i \in 1..m \/ (i - m \in 1..n /\ i = m + (i - m) /\ ~(i <= m))
  BY <1>1
<1> HIDE DEF m, n, u
<1>5. Range(u) = Range(s) \cup Range(t)
  BY RangeConcatenation DEF u
<1>6. ASSUME NEW k \in 1..(m + n), NEW l \in 1..(m + n), k < l, u[k] = x, u[l] = y
      PROVE  Before(s, x, y) \/ (x \in Range(s) /\ y \in Range(t)) \/ Before(t, x, y)
  <2>1. CASE k \in 1..m /\ l \in 1..m
    BY <1>2, <1>6, <2>1 DEF Before, m
  <2>2. CASE k \in 1..m /\ l - m \in 1..n /\ l = m + (l - m)
    BY <1>1, <1>2, <1>3, <1>6, <2>2 DEF Range
  <2>3. CASE /\ k - m \in 1..n /\ k = m + (k - m)
             /\ l - m \in 1..n /\ l = m + (l - m)
    <3>1. k - m < l - m /\ t[k - m] = x /\ t[l - m] = y
      BY <1>1, <1>3, <1>6, <2>3
    <3> QED BY <2>3, <3>1 DEF Before, n
  <2>4. ~(~(k <= m) /\ l \in 1..m)
    BY <1>1, <1>6
  <2> QED BY <1>4, <2>1, <2>2, <2>3, <2>4
<1>7. Before(s, x, y) => Before(u, x, y)
  BY <1>1, <1>2 DEF Before, m
<1>8. x \in Range(s) /\ y \in Range(t) => Before(u, x, y)
  <2> SUFFICES ASSUME NEW i \in 1..m, NEW j \in 1..n, s[i] = x, t[j] = y
               PROVE  Before(u, x, y)
    BY <1>1 DEF Range
  <2>1. i < m + j
    BY <1>1
  <2> QED BY <1>1, <1>2, <1>3, <2>1 DEF Before
<1>9. Before(t, x, y) => Before(u, x, y)
  <2> SUFFICES ASSUME NEW i \in 1..n, NEW j \in 1..n, i < j, t[i] = x, t[j] = y
               PROVE  Before(u, x, y)
    BY DEF Before, n
  <2>1. m + i < m + j
    BY <1>1
  <2> QED BY <1>1, <1>3, <2>1 DEF Before
<1>10. Before(u, x, y) => \/ Before(s, x, y)
                          \/ x \in Range(s) /\ y \in Range(t)
                          \/ Before(t, x, y)
  BY <1>1, <1>6 DEF Before
<1> QED BY <1>1, <1>5, <1>7, <1>8, <1>9, <1>10 DEF u

\* A queue of one event.
LEMMA BeforeOne ==
  ASSUME NEW S, NEW e \in S, NEW x, NEW y
  PROVE  <<e>> \in Seq(S) /\ Range(<<e>>) = {e} /\ ~Before(<<e>>, x, y)
BY DEF Range, Before

LEMMA BeforeNone ==
  ASSUME NEW x, NEW y
  PROVE  ~Before(<< >>, x, y)
BY DEF Before

\* sort.Sort keeps the order of events of one priority, up to as many as it
\* sorts by insertion.
LEMMA SortedKeepsOrder ==
  ASSUME NEW s \in Seq(Events), NEW r \in Sorted(s), Len(s) <= StableLimit,
         NEW x, NEW y, Priority[x] = Priority[y], Before(s, x, y)
  PROVE  Before(r, x, y)
<1> DEFINE n == Len(s)
<1>1. n \in Nat /\ DOMAIN s = 1..n /\ KeepsTies(s) /\ \A i \in 1..n : s[i] \in Events
  BY LenProperties, ElementOfSeq DEF KeepsTies
<1>2. PICK f \in Bijection(1..n, 1..n) :
        /\ r = [i \in 1..n |-> s[f[i]]]
        /\ \A i, j \in 1..n : i < j =>
             \/ Priority[s[f[i]]] < Priority[s[f[j]]]
             \/ /\ Priority[s[f[i]]] = Priority[s[f[j]]]
                /\ KeepsTies(s) => f[i] < f[j]
  BY Zenon DEF Sorted
<1>3. PICK k \in 1..n, l \in 1..n : k < l /\ s[k] = x /\ s[l] = y
  BY DEF Before
<1>4. r \in Seq(Events) /\ Len(r) = n
  <2>1. f \in [1..n -> 1..n]
    BY <1>2 DEF Bijection, Injection
  <2>2. r \in [1..n -> Events]
    BY <1>1, <1>2, <2>1
  <2> QED BY <1>1, <2>2, SeqDef, LenProperties
<1> HIDE DEF n
<1>5. PICK i \in 1..n, j \in 1..n : f[i] = k /\ f[j] = l
  BY <1>2, <1>3 DEF Bijection, Surjection
<1>6. ~(j < i)
  <2> SUFFICES ASSUME j < i PROVE FALSE
    OBVIOUS
  <2>1. Priority[y] < Priority[x] \/ l < k
    BY <1>1, <1>2, <1>3, <1>5
  <2>2. Priority[x] \in Int
    BY <1>1, <1>3, EventParameters
  <2> QED BY <1>1, <1>3, <2>1, <2>2
<1>7. i < j
  BY <1>1, <1>3, <1>5, <1>6
<1> QED BY <1>2, <1>3, <1>4, <1>5, <1>7 DEF Before
\* Append puts the new event behind all others; Tail takes away the first.
LEMMA BeforeAppend ==
  ASSUME NEW S, NEW s \in Seq(S), NEW e \in S, NEW x, NEW y
  PROVE  Before(Append(s, e), x, y) <=> Before(s, x, y) \/ (x \in Range(s) /\ y = e)
<1>1. Append(s, e) = s \o <<e>>
  BY AppendIsConcat
<1>2. <<e>> \in Seq(S) /\ Range(<<e>>) = {e} /\ ~Before(<<e>>, x, y)
  BY BeforeOne
<1>3. Before(s \o <<e>>, x, y)
        <=> \/ Before(s, x, y)
            \/ x \in Range(s) /\ y \in Range(<<e>>)
            \/ Before(<<e>>, x, y)
  BY <1>2, BeforeConcat
<1> QED BY <1>1, <1>2, <1>3

LEMMA BeforeTail ==
  ASSUME NEW S, NEW s \in Seq(S), s # << >>, NEW x, NEW y
  PROVE  Before(s, x, y) <=> (x = Head(s) /\ y \in Range(Tail(s))) \/ Before(Tail(s), x, y)
<1>1. PICK h \in S, t \in Seq(S) : h = Head(s) /\ t = Tail(s)
  BY HeadTailProperties
<1>2. s = <<h>> \o t
  BY <1>1, HeadAndTail
<1>3. <<h>> \in Seq(S) /\ Range(<<h>>) = {h} /\ ~Before(<<h>>, x, y)
  BY BeforeOne
<1>4. Before(<<h>> \o t, x, y)
        <=> \/ Before(<<h>>, x, y)
            \/ x \in Range(<<h>>) /\ y \in Range(t)
            \/ Before(t, x, y)
  BY <1>3, BeforeConcat
<1> QED BY <1>1, <1>2, <1>3, <1>4

\* Who stands before whom in a line of four queues.
LEMMA BeforeLine ==
  ASSUME NEW S, NEW a \in Seq(S), NEW h \in Seq(S), NEW c \in Seq(S), NEW d \in Seq(S),
         NEW x, NEW y
  PROVE  /\ a \o h \o c \o d \in Seq(S)
         /\ Range(a \o h \o c \o d) = Range(a) \cup Range(h) \cup Range(c) \cup Range(d)
         /\ Before(a \o h \o c \o d, x, y)
              <=> \/ Before(a, x, y) \/ Before(h, x, y) \/ Before(c, x, y) \/ Before(d, x, y)
                  \/ x \in Range(a) /\ y \in Range(h) \cup Range(c) \cup Range(d)
                  \/ x \in Range(h) /\ y \in Range(c) \cup Range(d)
                  \/ x \in Range(c) /\ y \in Range(d)
<1>1. PICK ah \in Seq(S) : ah = a \o h
  BY ConcatProperties
<1>2. PICK ahc \in Seq(S) : ahc = ah \o c
  BY ConcatProperties
<1>3. /\ Range(ah) = Range(a) \cup Range(h)
      /\ Before(ah, x, y) <=> \/ Before(a, x, y)
                              \/ x \in Range(a) /\ y \in Range(h)
                              \/ Before(h, x, y)
  <2>1. Range(a \o h) = Range(a) \cup Range(h)
    BY BeforeConcat
  <2>2. Before(a \o h, x, y) <=> \/ Before(a, x, y)
                                 \/ x \in Range(a) /\ y \in Range(h)
                                 \/ Before(h, x, y)
    BY BeforeConcat
  <2> QED BY <1>1, <2>1, <2>2
<1>4. /\ Range(ahc) = Range(ah) \cup Range(c)
      /\ Before(ahc, x, y) <=> \/ Before(ah, x, y)
                               \/ x \in Range(ah) /\ y \in Range(c)
                               \/ Before(c, x, y)
  BY <1>2, BeforeConcat
<1>5. /\ ahc \o d \in Seq(S)
      /\ Range(ahc \o d) = Range(ahc) \cup Range(d)
      /\ Before(ahc \o d, x, y) <=> \/ Before(ahc, x, y)
                                    \/ x \in Range(ahc) /\ y \in Range(d)
                                    \/ Before(d, x, y)
  BY BeforeConcat
<1> QED BY <1>1, <1>2, <1>3, <1>4, <1>5

\* The event process() has popped, as a queue of one or none.
Hand(e) == IF e = None THEN << >> ELSE <<e>>

LEMMA HandIs ==
  ASSUME NEW e \in Events \cup {None}
  PROVE  Hand(e) \in Seq(Events) /\ Range(Hand(e)) = {e} \ {None}
<1>1. CASE e = None
  BY <1>1, EmptyElements DEF Hand
<1>2. CASE e # None
  <2>1. <<e>> \in Seq(Events) /\ Range(<<e>>) = {e}
    BY <1>2 DEF Range
  <2> QED BY <1>2, <2>1 DEF Hand
<1> QED BY <1>1, <1>2

LEMMA LineOrder ==
  ASSUME NEW a \in Seq(Events), NEW e \in Events \cup {None}, NEW c \in Seq(Events),
         NEW d \in Seq(Events), NEW x, NEW y
  PROVE  Before(a \o Hand(e) \o c \o d, x, y)
           <=> \/ Before(a, x, y) \/ Before(c, x, y) \/ Before(d, x, y)
               \/ x \in Range(a) /\ y \in ({e} \ {None}) \cup Range(c) \cup Range(d)
               \/ x \in {e} \ {None} /\ y \in Range(c) \cup Range(d)
               \/ x \in Range(c) /\ y \in Range(d)
<1>1. Hand(e) \in Seq(Events) /\ Range(Hand(e)) = {e} \ {None}
  BY HandIs
<1>2. PICK h \in Seq(Events) : h = Hand(e)
  BY <1>1
<1>3. ~Before(h, x, y)
  BY <1>2, BeforeOne, BeforeNone DEF Hand
<1> QED BY <1>1, <1>2, <1>3, BeforeLine

\* A line of four queues has the events of the four.
LEMMA LineElements ==
  ASSUME NEW a \in Seq(Events), NEW e \in Events \cup {None}, NEW c \in Seq(Events),
         NEW d \in Seq(Events)
  PROVE  Range(a \o Hand(e) \o c \o d)
           = Range(a) \cup ({e} \ {None}) \cup Range(c) \cup Range(d)
<1>1. Hand(e) \in Seq(Events) /\ Range(Hand(e)) = {e} \ {None}
  BY HandIs
<1>2. PICK h \in Seq(Events) : h = Hand(e)
  BY <1>1
<1>3. PICK ah \in Seq(Events) : ah = a \o h
  BY ConcatProperties
<1>4. PICK ahc \in Seq(Events) : ahc = ah \o c
  BY ConcatProperties
<1>5. /\ Range(ah) = Range(a) \cup Range(h)
      /\ Range(ahc) = Range(ah) \cup Range(c)
      /\ Range(ahc \o d) = Range(ahc) \cup Range(d)
  <2>1. Range(a \o h) = Range(a) \cup Range(h)
    BY RangeConcatenation
  <2>2. Range(ah \o c) = Range(ah) \cup Range(c)
    BY RangeConcatenation
  <2>3. Range(ahc \o d) = Range(ahc) \cup Range(d)
    BY RangeConcatenation
  <2> QED BY <1>3, <1>4, <2>1, <2>2, <2>3
<1> QED BY <1>1, <1>2, <1>3, <1>4, <1>5

\* One step of the runtime: the queues hand x and y on as they stand.
LEMMA InTurn ==
  ASSUME TypeOK, TypeOK', Control, HeldOnce, [Next]_vars, Len(eventQueue) <= StableLimit,
         NEW x, NEW y, Before(Line, x, y), Priority[x] = Priority[y],
         x \in Range(Line'), y \in Range(Line')
  PROVE  Before(Line', x, y)
<1> DEFINE Ahead(a, e, c, d) ==
             \/ Before(a, x, y) \/ Before(c, x, y) \/ Before(d, x, y)
             \/ x \in Range(a) /\ y \in ({e} \ {None}) \cup Range(c) \cup Range(d)
             \/ x \in {e} \ {None} /\ y \in Range(c) \cup Range(d)
             \/ x \in Range(c) /\ y \in Range(d)
<1>1. /\ eventSwapQueue \in Seq(Events) /\ eventQueue \in Seq(Events)
      /\ EventQueue \in Seq(Events) /\ current \in Events \cup {None}
      /\ eventSwapQueue' \in Seq(Events) /\ eventQueue' \in Seq(Events)
      /\ EventQueue' \in Seq(Events) /\ current' \in Events \cup {None}
      /\ None \notin Events
  BY EventSets DEF TypeOK
<1>2. /\ Line = eventSwapQueue \o Hand(current) \o eventQueue \o EventQueue
      /\ Line' = eventSwapQueue' \o Hand(current') \o eventQueue' \o EventQueue'
  BY DEF Line, Hand
<1>3. Ahead(eventSwapQueue, current, eventQueue, EventQueue)
  BY <1>1, <1>2, LineOrder
<1>4. {x, y} \subseteq Range(eventSwapQueue') \cup ({current'} \ {None})
                         \cup Range(eventQueue') \cup Range(EventQueue')
  <2>1. Range(eventSwapQueue' \o Hand(current') \o eventQueue' \o EventQueue')
          = Range(eventSwapQueue') \cup ({current'} \ {None})
              \cup Range(eventQueue') \cup Range(EventQueue')
    <3> HIDE DEF Ahead
    <3> QED BY <1>1, LineElements
  <2>2. x \in Range(Line') /\ y \in Range(Line')
    OBVIOUS
  <2> HIDE DEF Ahead
  <2> QED BY <1>2, <2>1, <2>2
<1> SUFFICES Ahead(eventSwapQueue', current', eventQueue', EventQueue')
  BY <1>1, <1>2, LineOrder
<1>5. ASSUME UNCHANGED <<queues, current>>
      PROVE  Ahead(eventSwapQueue', current', eventQueue', EventQueue')
  BY <1>3, <1>5 DEF queues
<1>6. ASSUME NEW e \in Events, EventQueue' = Append(EventQueue, e),
             UNCHANGED <<eventQueue, eventSwapQueue, current>>
      PROVE  Ahead(eventSwapQueue', current', eventQueue', EventQueue')
  <2>1. Range(EventQueue') = Range(EventQueue) \cup {e}
    BY <1>1, <1>6, AppendElements
  <2>2. Before(EventQueue', x, y) <=> Before(EventQueue, x, y) \/ (x \in Range(EventQueue) /\ y = e)
    BY <1>1, <1>6, BeforeAppend
  <2> QED BY <1>3, <1>6, <2>1, <2>2
<1>7. ASSUME NEW keep \in BOOLEAN, Finish(keep), current \in Events,
             UNCHANGED <<EventQueue, eventQueue>>
      PROVE  Ahead(eventSwapQueue', current', eventQueue', EventQueue')
  <2>1. current' = None /\ current \notin Queued
    BY <1>7 DEF Finish, HeldOnce
  <2>2. CASE keep
    <3>1. eventSwapQueue' = Append(eventSwapQueue, current)
      BY <1>7, <2>2 DEF Finish
    <3>2. Range(eventSwapQueue') = Range(eventSwapQueue) \cup {current}
      BY <1>1, <1>7, <3>1, AppendElements
    <3>3. Before(eventSwapQueue', x, y)
            <=> Before(eventSwapQueue, x, y) \/ (x \in Range(eventSwapQueue) /\ y = current)
      BY <1>1, <1>7, <3>1, BeforeAppend
    <3> QED BY <1>3, <1>7, <2>1, <3>2, <3>3
  <2>3. CASE ~keep
    <3>1. eventSwapQueue' = eventSwapQueue
      BY <1>7, <2>3 DEF Finish
    <3> QED BY <1>3, <1>4, <1>7, <2>1, <3>1 DEF Queued
  <2> QED BY <2>2, <2>3
<1>8. CASE Host \/ LoopWait \/ LoopReport \/ LoopDone \/ UpdateCall \/ UNCHANGED vars
  <2>1. UNCHANGED <<queues, current>>
    BY <1>8 DEF Host, Startup, MainReturn, MainEvaluate, MainError, Shutdown, LoopWait,
       LoopReport, LoopDone, UpdateCall, vars, process
  <2> QED BY <1>5, <2>1
<1>9. ASSUME NEW m \in Messages, Post(m)
      PROVE  Ahead(eventSwapQueue', current', eventQueue', EventQueue')
  BY <1>6, <1>9, EventSets DEF Post, process
<1>10. ASSUME NEW g \in Goroutines, Lua(g)
       PROVE  Ahead(eventSwapQueue', current', eventQueue', EventQueue')
  <2>1. CASE Send(g)
    <3>1. /\ calling[g] \in Events /\ EventQueue' = Append(EventQueue, calling[g])
          /\ UNCHANGED <<eventQueue, eventSwapQueue, current>>
      BY <2>1 DEF Send, TypeOK, process
    <3> QED BY <1>6, <3>1
  <2>2. CASE ~Send(g)
    <3>1. UNCHANGED <<queues, current>>
      BY <1>10, <2>2 DEF Lua, Delay, Loop, NewTimer, Stop, Exit, process
    <3> QED BY <1>5, <3>1
  <2> QED BY <2>1, <2>2
<1>11. CASE LoopReceive
  <2>1. PICK e \in Events, t \in Seq(Events) : e = Head(EventQueue) /\ t = Tail(EventQueue)
    BY <1>1, <1>11, TailElements DEF LoopReceive
  <2>2. Range(EventQueue) = {e} \cup Range(t)
    BY <1>1, <1>11, <2>1, TailElements DEF LoopReceive
  <2>3. Before(EventQueue, x, y) <=> (x = e /\ y \in Range(t)) \/ Before(t, x, y)
    BY <1>1, <1>11, <2>1, BeforeTail DEF LoopReceive
  <2>4. Range(Append(eventQueue, e)) = Range(eventQueue) \cup {e}
    BY <1>1, AppendElements
  <2>5. Before(Append(eventQueue, e), x, y)
          <=> Before(eventQueue, x, y) \/ (x \in Range(eventQueue) /\ y = e)
    BY <1>1, BeforeAppend
  <2>6. /\ eventQueue' = Append(eventQueue, e) /\ EventQueue' = t
        /\ UNCHANGED <<eventSwapQueue, current>>
    BY <1>11, <2>1 DEF LoopReceive
  <2> QED BY <1>3, <2>2, <2>3, <2>4, <2>5, <2>6
<1>12. CASE LoopTick
  <2>1. /\ eventQueue' \in Sorted(eventQueue)
        /\ UNCHANGED <<EventQueue, eventSwapQueue, current>>
    BY <1>12 DEF LoopTick
  <2>2. Range(eventQueue') = Range(eventQueue)
    BY <1>1, <2>1, SortedElements
  <2>3. Before(eventQueue, x, y) => Before(eventQueue', x, y)
    BY <1>1, <2>1, SortedKeepsOrder
  <2> QED BY <1>3, <2>1, <2>2, <2>3
<1>13. CASE LoopPop
  <2>1. PICK e \in Events, t \in Seq(Events) : e = Head(eventQueue) /\ t = Tail(eventQueue)
    BY <1>1, <1>13, TailElements DEF LoopPop
  <2>2. Range(eventQueue) = {e} \cup Range(t) /\ e \notin Range(t)
    BY <1>1, <1>13, <2>1, TailElements DEF LoopPop, HeldOnce
  <2>3. Before(eventQueue, x, y) <=> (x = e /\ y \in Range(t)) \/ Before(t, x, y)
    BY <1>1, <1>13, <2>1, BeforeTail DEF LoopPop
  <2>4. /\ eventQueue' = t /\ UNCHANGED <<EventQueue, eventSwapQueue>>
        /\ current = None /\ current' \in {e, None}
    BY <1>13, <2>1 DEF LoopPop, Control
  <2>5. e \notin Range(eventSwapQueue) /\ e \notin Range(EventQueue)
    BY <2>2 DEF HeldOnce
  <2>6. CASE current' = e
    BY <1>1, <1>3, <2>2, <2>3, <2>4, <2>6
  <2>7. CASE current' = None
    <3>1. x # e /\ y # e
      BY <1>4, <2>2, <2>4, <2>5, <2>7
    <3> QED BY <1>3, <2>2, <2>3, <2>4, <2>7, <3>1
  <2> QED BY <2>4, <2>6, <2>7
<1>14. CASE UpdateExit
  BY <1>7, <1>14, EventSets DEF UpdateExit
<1>15. CASE UpdateWait
  <2>1. active[current] \in BOOLEAN
    BY <1>15 DEF UpdateWait, TypeOK
  <2> QED BY <1>7, <1>15, <2>1, EventSets DEF UpdateWait
<1>16. CASE LoopReturn
  <2>1. UNCHANGED <<EventQueue, eventQueue>> /\ current \in Events
    BY <1>16, EventSets DEF LoopReturn, ReturnTimer, ReturnMessage
  <2>2. \E keep \in BOOLEAN : Finish(keep)
    <3>1. (active'[current] /\ delay'[current] > 0) \in BOOLEAN
      OBVIOUS
    <3> QED BY <1>16, <3>1 DEF LoopReturn, ReturnTimer, ReturnMessage
  <2> QED BY <1>7, <2>1, <2>2
<1>17. CASE LoopError
  <2>1. current' = None /\ UNCHANGED queues /\ current \notin Queued
    BY <1>17 DEF LoopError, HeldOnce
  <2> QED BY <1>3, <1>4, <2>1 DEF queues, Queued
<1>18. CASE LoopSwap
  <2>1. /\ current = None /\ current' = None /\ eventQueue = << >> /\ eventSwapQueue' = << >>
        /\ eventQueue' = eventSwapQueue /\ EventQueue' = EventQueue
    BY <1>18 DEF LoopSwap, Control
  <2>2. Range(<< >>) = {} /\ ~Before(<< >>, x, y)
    BY EmptyElements, BeforeNone
  <2> QED BY <1>3, <2>1, <2>2
<1> HIDE DEF Ahead
<1> QED BY <1>8, <1>9, <1>10, <1>11, <1>12, <1>13, <1>14, <1>15, <1>16, <1>17, <1>18
        DEF Next, Process

\* Events of one priority are dispatched in the order of their arrival, while
\* a tick finds no more of them than its sort leaves in order.
THEOREM ServedInTurn == Spec => FirstComeFirstServed
<1>1. ASSUME IInv, IInv', [Next]_vars, Len(eventQueue) <= StableLimit,
             NEW i \in 1..Len(Line), NEW j \in 1..Len(Line), i < j,
             Priority[Line[i]] = Priority[Line[j]],
             {Line[i], Line[j]} \subseteq Range(Line')
      PROVE  \E k, l \in 1..Len(Line') : k < l /\ Line'[k] = Line[i] /\ Line'[l] = Line[j]
  <2>1. Before(Line, Line[i], Line[j])
    BY <1>1 DEF Before
  <2>2. Before(Line', Line[i], Line[j])
    BY <1>1, <2>1, InTurn DEF IInv
  <2> QED BY <2>2 DEF Before
<1>2. IInv /\ IInv' /\ [Next]_vars =>
        [Len(eventQueue) <= StableLimit =>
           \A i, j \in 1..Len(Line) :
             /\ i < j
             /\ Priority[Line[i]] = Priority[Line[j]]
             /\ {Line[i], Line[j]} \subseteq Range(Line')
             => \E k, l \in 1..Len(Line') :
                  k < l /\ Line'[k] = Line[i] /\ Line'[l] = Line[j]]_vars
  BY <1>1
<1> QED BY <1>2, IInvInvariant, PTL DEF Spec, FirstComeFirstServed
=============================================================================
