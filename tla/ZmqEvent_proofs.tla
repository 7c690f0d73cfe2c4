--------------------------- MODULE ZmqEvent_proofs ---------------------------
(***************************************************************************)
(* Invariants of the ZeroMQ events, for every set of events and of         *)
(* malformed packets, every size of the channels and every number of       *)
(* packets.                                                                *)
(***************************************************************************)
EXTENDS ZmqEventImplements, DataLemmas

-----------------------------------------------------------------------------
(* Types. The parts of TypeOK: the runtime, the client library, an event.  *)

LoopTypeOK ==
  /\ DispatchTypeOK(LoopEvents, {"start", "packets", "continue"})
  /\ calling \in [Goroutines -> {None} \cup LoopEvents \cup {Sending(e) : e \in Events}]

SocketTypeOK ==
  /\ RecvChan \in [Events -> Seq(1..MaxPackets)]
  /\ \A e \in Events : Len(RecvChan[e]) <= RecvRoom
  /\ open \subseteq Events
  /\ arrived \in [Events -> 0..MaxPackets]
  /\ SendChan \in [Events -> 0..SendRoom]
  /\ stopped \subseteq Events

EventTypeOK ==
  /\ state \in [Events -> {"new", "initialize", "progress", "complete"}]
  /\ queue \in [Events -> Seq(1..MaxPackets)]
  /\ worker \in [Events -> {"off", "receiving", "queueing", "done"}]
  /\ hand \in [Events -> 0..MaxPackets]
  /\ \A e \in Events : hand[e] # 0 <=> worker[e] = "queueing"
  /\ called \in [Events -> 0..MaxPackets]

LEMMA TypeParts == TypeOK <=> LoopTypeOK /\ SocketTypeOK /\ EventTypeOK
BY DEF TypeOK, LoopTypeOK, SocketTypeOK, EventTypeOK

\* Where Update is, it has an event, and in the Update of this module one of
\* its own.
Updates == {"update", "start", "packets", "callback", "continue"}
Control == /\ loop \in Updates <=> current # None
           /\ loop \in {"start", "packets", "continue"} => current \in Events

LEMMA InitType == Init => TypeOK /\ Control
<1> SUFFICES ASSUME Init PROVE TypeOK /\ Control
  OBVIOUS
<1>1. << >> \in Seq(LoopEvents) /\ << >> \in Seq(1..MaxPackets) /\ Len(<< >>) = 0
  BY EmptyElements
<1>2. LoopTypeOK
  <2>1. Len(<< >>) <= Capacity
    BY <1>1, DispatchParameters
  <2> QED BY <1>1, <2>1 DEF Init, DispatchInit, LoopTypeOK, DispatchTypeOK
<1>3. SocketTypeOK
  <2>1. 0 \in 0..MaxPackets /\ 0 \in 0..SendRoom /\ Len(<< >>) <= RecvRoom
    BY <1>1, ZmqParameters
  <2> QED BY <1>1, <2>1 DEF Init, SocketTypeOK
<1>4. EventTypeOK
  <2>1. 0 \in 0..MaxPackets
    BY ZmqParameters
  <2> QED BY <1>1, <2>1 DEF Init, EventTypeOK
<1>5. Control
  BY DEF Init, DispatchInit, Control, Updates
<1> QED BY <1>2, <1>3, <1>4, <1>5, TypeParts

\* The sort of a tick moves events, and neither adds nor forgets one.
LEMMA SortedElements ==
  ASSUME NEW S, NEW s \in Seq(S), NEW r \in Sorted(s)
  PROVE  r \in Seq(S) /\ Range(r) = Range(s) /\ (IsInjective(s) => IsInjective(r))
<1>1. CASE Len(s) <= StableLimit
  BY <1>1 DEF Sorted
<1>2. CASE ~(Len(s) <= StableLimit)
  <2>1. DOMAIN s = 1..Len(s)
    BY LenProperties
  <2>2. PICK f \in Bijection(1..Len(s), 1..Len(s)) : r = [i \in 1..Len(s) |-> s[f[i]]]
    BY <1>2, <2>1, Zenon DEF Sorted
  <2> QED BY <2>2, PermutedElements
<1> QED BY <1>1, <1>2

\* The runtime.
LEMMA LoopTypeLua ==
  ASSUME LoopTypeOK, Control, NEW g \in Goroutines, Lua(g)
  PROVE  LoopTypeOK' /\ Control'
<1>1. ASSUME NEW what \in LoopEvents \cup {Sending(e) : e \in Events}, Call(g, what)
      PROVE  LoopTypeOK' /\ Control'
  BY <1>1 DEF Call, LoopTypeOK, DispatchTypeOK, Control
<1>2. ASSUME Return(g) PROVE LoopTypeOK' /\ Control'
  BY <1>2 DEF Return, LoopTypeOK, DispatchTypeOK, Control
<1>3. ASSUME NEW e \in Events,
             Create(g, e) \/ SendPacket(g, e) \/ Reply(g, e) \/ Sent(g, e)
      PROVE  LoopTypeOK' /\ Control'
  BY <1>1, <1>2, <1>3 DEF Create, SendPacket, Reply, Sent, LoopEvents
<1>4. ASSUME NEW e \in Events, Stop(g, e) PROVE LoopTypeOK' /\ Control'
  BY <1>4 DEF Stop, dispatch, LoopTypeOK, DispatchTypeOK, Control
<1>5. CASE Send(g)
  <2>1. /\ calling[g] \in LoopEvents
        /\ EventQueue \in Seq(LoopEvents)
        /\ Len(EventQueue) < Capacity
        /\ EventQueue' = Append(EventQueue, calling[g])
    BY <1>5 DEF Send, SendAndReturn, HasRoom, LoopTypeOK, DispatchTypeOK
  <2>2. EventQueue' \in Seq(LoopEvents) /\ Len(EventQueue') <= Capacity
    BY <2>1, AppendElements, LenProperties, DispatchParameters
  <2> QED BY <1>5, <2>2 DEF Send, SendAndReturn, LoopTypeOK, DispatchTypeOK, Control
<1>6. ASSUME NEW o \in Others, CreateOther(g, o) PROVE LoopTypeOK' /\ Control'
  BY <1>1, <1>6 DEF CreateOther, LoopEvents
<1> QED BY <1>3, <1>4, <1>5, <1>6 DEF Lua

LEMMA LoopTypeOther ==
  ASSUME LoopTypeOK, Control, NEW o \in Others, PostOther(o)
  PROVE  LoopTypeOK' /\ Control'
<1>1. /\ EventQueue \in Seq(LoopEvents) /\ o \in LoopEvents
      /\ Len(EventQueue) < Capacity
      /\ EventQueue' = Append(EventQueue, o)
  BY DEF PostOther, Post, HasRoom, LoopTypeOK, DispatchTypeOK, LoopEvents
<1>2. EventQueue' \in Seq(LoopEvents) /\ Len(EventQueue') <= Capacity
  BY <1>1, AppendElements, LenProperties, DispatchParameters
<1> QED BY <1>2 DEF PostOther, Post, LoopTypeOK, DispatchTypeOK, Control

LEMMA LoopTypeLoop ==
  ASSUME LoopTypeOK, Control, LoopSteps \/ HostSteps
  PROVE  LoopTypeOK' /\ Control'
<1>1. CASE LoopReceive
  <2>1. /\ EventQueue \in Seq(LoopEvents) /\ EventQueue # << >>
        /\ eventQueue \in Seq(LoopEvents)
        /\ Len(EventQueue) <= Capacity
        /\ EventQueue' = Tail(EventQueue)
        /\ eventQueue' = Append(eventQueue, Head(EventQueue))
    BY <1>1 DEF LoopReceive, LoopTypeOK, DispatchTypeOK
  <2>2. /\ EventQueue' \in Seq(LoopEvents) /\ Len(EventQueue') <= Capacity
        /\ Head(EventQueue) \in LoopEvents
    BY <2>1, TailElements, LenProperties, DispatchParameters
  <2>3. eventQueue' \in Seq(LoopEvents)
    BY <2>1, <2>2, AppendElements
  <2> QED BY <1>1, <2>2, <2>3 DEF LoopReceive, LoopTypeOK, DispatchTypeOK, Control
<1>2. CASE LoopTick
  <2>1. eventQueue' \in Seq(LoopEvents)
    BY <1>2, SortedElements DEF LoopTick, LoopTypeOK, DispatchTypeOK
  <2> QED BY <1>2, <2>1 DEF LoopTick, LoopTypeOK, DispatchTypeOK, Control, Updates
<1>3. CASE LoopSwap
  BY <1>3, EmptyElements DEF LoopSwap, LoopTypeOK, DispatchTypeOK, Control, Updates
<1>4. CASE LoopDone
  BY <1>4 DEF LoopDone, LoopTypeOK, DispatchTypeOK, Control, Updates
<1>5. CASE HostSteps
  BY <1>5 DEF HostSteps, MainReturn, Shutdown, LoopTypeOK, DispatchTypeOK, Control
<1> QED BY <1>1, <1>2, <1>3, <1>4, <1>5 DEF LoopSteps

LEMMA LoopTypeUpdate ==
  ASSUME LoopTypeOK, Control, Pop \/ Update \/ UpdateReturn
  PROVE  LoopTypeOK' /\ Control'
<1>1. CASE Pop
  <2>1. /\ eventQueue \in Seq(LoopEvents) /\ eventQueue # << >>
        /\ eventQueue' = Tail(eventQueue)
    BY <1>1 DEF Pop, LoopPop, LoopTypeOK, DispatchTypeOK
  <2>2. Head(eventQueue) \in LoopEvents /\ eventQueue' \in Seq(LoopEvents)
    BY <2>1, TailElements
  <2> QED BY <1>1, <2>2, ZmqParameters
          DEF Pop, LoopPop, LoopTypeOK, DispatchTypeOK, Control, Updates
<1>2. CASE UpdateLoad
  <2>1. loop' \in {"start", "packets", "continue"} /\ loop = "update"
    BY <1>2 DEF UpdateLoad, Goto
  <2> QED BY <1>2, <2>1 DEF UpdateLoad, Goto, LoopTypeOK, DispatchTypeOK, Control, Updates
<1>3. CASE UpdateOther \/ UpdateStart \/ UpdateCall \/ UpdateEnd
  BY <1>3 DEF UpdateOther, UpdateStart, UpdateCall, UpdateEnd, Goto, LoopTypeOK, DispatchTypeOK,
              Control, Updates
<1>4. ASSUME NEW from \in Updates, NEW keep \in BOOLEAN, Finish(from, keep)
      PROVE  LoopTypeOK' /\ Control'
  <2>1. current \in LoopEvents /\ eventSwapQueue \in Seq(LoopEvents)
    BY <1>4 DEF Finish, LoopTypeOK, DispatchTypeOK, Control
  <2>2. eventSwapQueue' \in Seq(LoopEvents)
    BY <1>4, <2>1, AppendElements DEF Finish
  <2> QED BY <1>4, <2>2 DEF Finish, LoopTypeOK, DispatchTypeOK, Control, Updates
<1>5. CASE Continue
  <2>1. (state[current] # "complete") \in BOOLEAN
    OBVIOUS
  <2> QED BY <1>4, <1>5, <2>1 DEF Continue, Updates
<1>6. CASE UpdateReturn
  <2>1. CASE current \in Events /\ Goto("callback", "packets")
    BY <2>1 DEF Goto, LoopTypeOK, DispatchTypeOK, Control, Updates
  <2>2. CASE \E again \in BOOLEAN : Finish("callback", again)
    BY <1>4, <2>2 DEF Updates
  <2>3. CASE LoopError
    BY <2>3 DEF LoopError, RunsLua, LoopTypeOK, DispatchTypeOK, Control, Updates
  <2> QED BY <1>6, <2>1, <2>2, <2>3 DEF UpdateReturn
<1> QED BY <1>1, <1>2, <1>3, <1>5, <1>6 DEF Update

\* The client library, and what the runtime takes from it.
LEMMA SocketTypeLua ==
  ASSUME SocketTypeOK, NEW g \in Goroutines, Lua(g)
  PROVE  SocketTypeOK'
<1>1. ASSUME NEW e \in Events, Create(g, e) PROVE SocketTypeOK'
  BY <1>1 DEF Create, SocketTypeOK
<1>2. ASSUME NEW e \in Events, Stop(g, e) PROVE SocketTypeOK'
  BY <1>2 DEF Stop, socket, SocketTypeOK
<1>3. ASSUME UNCHANGED own PROVE SocketTypeOK'
  BY <1>3 DEF own, socket, SocketTypeOK
<1>4. ASSUME NEW e \in Events, Sent(g, e) PROVE SocketTypeOK'
  <2>1. /\ SendChan[e] \in 0..SendRoom /\ SendChan[e] < SendRoom
        /\ SendChan' = [SendChan EXCEPT ![e] = @ + 1]
        /\ UNCHANGED <<RecvChan, open, arrived, stopped>>
    BY <1>4 DEF Sent, SocketTypeOK
  <2>2. SendChan[e] + 1 \in 0..SendRoom
    BY <2>1, ZmqParameters
  <2> QED BY <2>1, <2>2 DEF SocketTypeOK
<1> QED BY <1>1, <1>2, <1>3, <1>4 DEF Lua, SendPacket, Reply, Send, CreateOther

LEMMA SocketTypeEvents ==
  ASSUME SocketTypeOK, NEW e \in Events,
         Arrive(e) \/ Transmit(e) \/ CloseRecv(e) \/ Receiver(e)
  PROVE  SocketTypeOK'
<1>1. CASE Arrive(e)
  <2>1. /\ RecvChan[e] \in Seq(1..MaxPackets) /\ Len(RecvChan[e]) < RecvRoom
        /\ arrived[e] \in 0..MaxPackets /\ arrived[e] < MaxPackets
        /\ arrived' = [arrived EXCEPT ![e] = @ + 1]
        /\ arrived'[e] = arrived[e] + 1
        /\ RecvChan' = [RecvChan EXCEPT ![e] = Append(@, arrived'[e])]
        /\ UNCHANGED <<open, SendChan, stopped>>
    BY <1>1 DEF Arrive, SocketTypeOK
  <2>2. arrived[e] + 1 \in 0..MaxPackets /\ arrived[e] + 1 \in 1..MaxPackets
    BY <2>1, ZmqParameters
  <2>3. /\ Append(RecvChan[e], arrived'[e]) \in Seq(1..MaxPackets)
        /\ Len(Append(RecvChan[e], arrived'[e])) <= RecvRoom
    BY <2>1, <2>2, AppendElements, LenProperties, ZmqParameters
  <2> QED BY <2>1, <2>2, <2>3 DEF SocketTypeOK
<1>2. CASE Transmit(e)
  <2>1. /\ SendChan[e] \in 0..SendRoom /\ SendChan[e] > 0
        /\ SendChan' = [SendChan EXCEPT ![e] = @ - 1]
        /\ UNCHANGED <<RecvChan, open, arrived, stopped>>
    BY <1>2 DEF Transmit, SocketTypeOK
  <2>2. SendChan[e] - 1 \in 0..SendRoom
    BY <2>1, ZmqParameters
  <2> QED BY <2>1, <2>2 DEF SocketTypeOK
<1>3. CASE CloseRecv(e)
  BY <1>3 DEF CloseRecv, SocketTypeOK
<1>4. CASE Take(e)
  <2>1. /\ RecvChan[e] \in Seq(1..MaxPackets) /\ RecvChan[e] # << >>
        /\ Len(RecvChan[e]) <= RecvRoom
        /\ RecvChan' = [RecvChan EXCEPT ![e] = Tail(@)]
        /\ UNCHANGED <<open, arrived, SendChan, stopped>>
    BY <1>4 DEF Take, SocketTypeOK
  <2>2. /\ Tail(RecvChan[e]) \in Seq(1..MaxPackets)
        /\ Len(Tail(RecvChan[e])) = Len(RecvChan[e]) - 1
        /\ Len(RecvChan[e]) \in Nat
    BY <2>1, TailElements, LenProperties
  <2>3. Len(Tail(RecvChan[e])) <= RecvRoom
    BY <2>1, <2>2, ZmqParameters
  <2> QED BY <2>1, <2>2, <2>3 DEF SocketTypeOK
<1>5. CASE Enqueue(e) \/ Received(e)
  BY <1>5 DEF Enqueue, Received, socket, SocketTypeOK
<1> QED BY <1>1, <1>2, <1>3, <1>4, <1>5 DEF Receiver

LEMMA SocketTypeLoop ==
  ASSUME SocketTypeOK,
         Pop \/ Update \/ UpdateReturn \/ ((LoopSteps \/ HostSteps) /\ UNCHANGED own)
  PROVE  SocketTypeOK'
BY DEF Pop, Update, UpdateOther, UpdateLoad, UpdateStart, UpdateCall, UpdateEnd, Continue,
       UpdateReturn, own, socket, SocketTypeOK

\* The events.
LEMMA EventTypeLua ==
  ASSUME EventTypeOK, NEW g \in Goroutines, Lua(g)
  PROVE  EventTypeOK'
BY DEF Lua, Create, Stop, SendPacket, Reply, Sent, Send, CreateOther, own, receiver, event,
       EventTypeOK

LEMMA EventTypeEvents ==
  ASSUME EventTypeOK, SocketTypeOK, NEW e \in Events,
         Arrive(e) \/ Transmit(e) \/ CloseRecv(e) \/ Receiver(e)
  PROVE  EventTypeOK'
<1>1. CASE Arrive(e) \/ Transmit(e) \/ CloseRecv(e)
  BY <1>1 DEF Arrive, Transmit, CloseRecv, receiver, event, EventTypeOK
<1>2. CASE Take(e)
  <2>1. /\ worker[e] = "receiving"
        /\ RecvChan[e] \in Seq(1..MaxPackets) /\ RecvChan[e] # << >>
        /\ Decode(e, Head(RecvChan[e]))
        /\ UNCHANGED event
    BY <1>2 DEF Take, SocketTypeOK
  <2>2. Head(RecvChan[e]) \in 1..MaxPackets
    BY <2>1, TailElements
  <2>3. Head(RecvChan[e]) \in 0..MaxPackets /\ Head(RecvChan[e]) # 0
    BY <2>2, ZmqParameters
  <2> QED BY <2>1, <2>3 DEF Decode, EventTypeOK, event
<1>3. CASE Enqueue(e)
  <2>1. /\ worker[e] = "queueing" /\ hand[e] \in 0..MaxPackets /\ hand[e] # 0
        /\ queue[e] \in Seq(1..MaxPackets)
        /\ queue' = [queue EXCEPT ![e] = Append(queue[e], hand[e])]
        /\ hand' = [hand EXCEPT ![e] = 0]
        /\ worker' = [worker EXCEPT ![e] = "receiving"]
        /\ UNCHANGED <<state, called>>
    BY <1>3 DEF Enqueue, Appended, EventTypeOK
  <2>2. hand[e] \in 1..MaxPackets /\ 0 \in 0..MaxPackets
    BY <2>1, ZmqParameters
  <2>3. Append(queue[e], hand[e]) \in Seq(1..MaxPackets)
    BY <2>1, <2>2, AppendElements
  <2> QED BY <2>1, <2>2, <2>3 DEF EventTypeOK
<1>4. CASE Received(e)
  BY <1>4 DEF Received, RangeEnded, EventTypeOK
<1> QED BY <1>1, <1>2, <1>3, <1>4 DEF Receiver

\* First, where the goroutine of Update starts, it has not run before.
FirstOff == loop = "start" => worker[current] = "off"

LEMMA EventTypeUpdate ==
  ASSUME EventTypeOK, FirstOff, LoopTypeOK, Control, Update
  PROVE  EventTypeOK'
<1>1. CASE UpdateOther \/ UpdateLoad \/ UpdateEnd \/ Continue
  BY <1>1 DEF UpdateOther, UpdateLoad, UpdateEnd, Continue, own, receiver, event, EventTypeOK
<1>2. CASE UpdateStart
  <2>1. /\ worker[current] = "off" /\ current \in Events
        /\ state' = [state EXCEPT ![current] = "progress"]
        /\ queue' = [queue EXCEPT ![current] = << >>]
        /\ worker' = [worker EXCEPT ![current] = "receiving"]
        /\ UNCHANGED <<hand, called>>
    BY <1>2 DEF UpdateStart, Goto, FirstOff, Control, Updates, LoopTypeOK, DispatchTypeOK
  <2>2. << >> \in Seq(1..MaxPackets)
    BY EmptyElements
  <2> QED BY <2>1, <2>2 DEF EventTypeOK
<1>3. CASE UpdateCall
  <2>1. /\ current \in Events
        /\ queue[current] \in Seq(1..MaxPackets) /\ queue[current] # << >>
        /\ called' = [called EXCEPT ![current] = Head(queue[current])]
        /\ queue' = [queue EXCEPT ![current] = Tail(@)]
        /\ UNCHANGED <<receiver, state>>
    BY <1>3 DEF UpdateCall, Goto, Control, Updates, LoopTypeOK, DispatchTypeOK, EventTypeOK
  <2>2. Head(queue[current]) \in 1..MaxPackets /\ Tail(queue[current]) \in Seq(1..MaxPackets)
    BY <2>1, TailElements
  <2>3. Head(queue[current]) \in 0..MaxPackets
    BY <2>2, ZmqParameters
  <2> QED BY <2>1, <2>2, <2>3 DEF EventTypeOK, receiver
<1> QED BY <1>1, <1>2, <1>3 DEF Update

LEMMA EventTypeLoop ==
  ASSUME EventTypeOK, Pop \/ UpdateReturn \/ ((LoopSteps \/ HostSteps) /\ UNCHANGED own)
  PROVE  EventTypeOK'
BY DEF Pop, UpdateReturn, own, receiver, event, EventTypeOK

\* Before its first Update an event has no goroutine and no packets.
FirstUpdate ==
  /\ FirstOff
  /\ \A e \in Events : /\ state[e] \in {"new", "initialize"} => worker[e] = "off"
                       /\ worker[e] = "off" => queue[e] = << >>

LEMMA FirstUpdateStep == TypeOK /\ Control /\ FirstUpdate /\ [Next]_vars => FirstUpdate'
<1> SUFFICES ASSUME LoopTypeOK, EventTypeOK, Control, FirstUpdate, [Next]_vars
             PROVE  FirstUpdate'
  BY TypeParts
<1> USE DEF FirstUpdate, FirstOff
<1>1. ASSUME UNCHANGED <<loop, current, receiver, event>> PROVE FirstUpdate'
  BY <1>1 DEF receiver, event
<1>2. ASSUME UNCHANGED <<receiver, event>>, loop' # "start" PROVE FirstUpdate'
  BY <1>2 DEF receiver, event
<1>3. loop = "start" => current \in Events
  BY DEF Control, Updates, LoopTypeOK, DispatchTypeOK
<1>4. ASSUME NEW g \in Goroutines, Lua(g) PROVE FirstUpdate'
  <2>1. UNCHANGED <<loop, current, queue, worker>>
    BY <1>4 DEF Lua, Create, Stop, SendPacket, Reply, Sent, Send, CreateOther, Call, Return,
                SendAndReturn, own, dispatch, receiver, event
  <2>2. \A e \in Events : state'[e] \in {"new", "initialize"}
                            => state[e] \in {"new", "initialize"}
    BY <1>4 DEF Lua, Create, Stop, SendPacket, Reply, Sent, Send, CreateOther, own, event,
                EventTypeOK
  <2> QED BY <2>1, <2>2
<1>5. ASSUME NEW e \in Events, Arrive(e) \/ Transmit(e) \/ CloseRecv(e)
      PROVE  FirstUpdate'
  BY <1>1, <1>5 DEF Arrive, Transmit, CloseRecv, dispatch
<1>6. ASSUME NEW e \in Events, Receiver(e) PROVE FirstUpdate'
  <2>1. /\ worker[e] \in {"receiving", "queueing"} /\ worker'[e] # "off"
        /\ UNCHANGED <<loop, current>>
        /\ \A d \in Events \ {e} : worker'[d] = worker[d] /\ queue'[d] = queue[d]
        /\ \A d \in Events : state'[d] \in {"new", "initialize"} => state'[d] = state[d]
    BY <1>6 DEF Receiver, Take, Decode, Enqueue, Received, RangeEnded, dispatch, event,
                EventTypeOK
  <2> QED BY <1>3, <2>1
<1>7. CASE Pop
  BY <1>2, <1>7 DEF Pop, LoopPop, own
<1>8. CASE UpdateLoad
  <2>1. /\ loop = "update" /\ UNCHANGED <<current, receiver, event>>
        /\ loop' = "start" => state[current] = "initialize"
    BY <1>8 DEF UpdateLoad, Goto, own
  <2>2. current \in Events
    BY <1>8 DEF UpdateLoad
  <2> QED BY <2>1, <2>2 DEF receiver, event
<1>9. CASE UpdateStart
  <2>1. /\ current \in Events /\ loop' = "continue"
        /\ state'[current] = "progress" /\ worker'[current] = "receiving"
        /\ \A e \in Events \ {current} :
             state'[e] = state[e] /\ worker'[e] = worker[e] /\ queue'[e] = queue[e]
    BY <1>3, <1>9 DEF UpdateStart, Goto, EventTypeOK
  <2> QED BY <2>1
<1>10. CASE UpdateCall
  <2>1. /\ current \in Events /\ loop' = "callback" /\ queue[current] # << >>
        /\ \A e \in Events \ {current} : queue'[e] = queue[e]
        /\ UNCHANGED <<state, worker>>
    BY <1>10 DEF UpdateCall, Goto, receiver, EventTypeOK, Control, Updates, LoopTypeOK,
                 DispatchTypeOK
  <2> QED BY <2>1
<1>11. CASE UpdateOther \/ UpdateEnd \/ Continue \/ UpdateReturn
  BY <1>2, <1>11 DEF UpdateOther, UpdateEnd, Continue, UpdateReturn, Goto, Finish, LoopError, own
<1>12. CASE LoopSteps /\ UNCHANGED own
  BY <1>1, <1>2, <1>12 DEF LoopSteps, LoopReceive, LoopTick, LoopSwap, LoopDone, own
<1>13. CASE HostSteps /\ UNCHANGED own
  BY <1>1, <1>13 DEF HostSteps, MainReturn, Shutdown, own
<1>14. CASE UNCHANGED vars
  BY <1>1, <1>14 DEF vars, own, dispatch
<1>15. ASSUME NEW o \in Others, PostOther(o) PROVE FirstUpdate'
  BY <1>1, <1>15 DEF PostOther, Post, own
<1> QED BY <1>4, <1>5, <1>6, <1>7, <1>8, <1>9, <1>10, <1>11, <1>12, <1>13, <1>14, <1>15
        DEF Next, Update

LEMMA TypeStep == TypeOK /\ Control /\ FirstUpdate /\ [Next]_vars => TypeOK' /\ Control'
<1> SUFFICES ASSUME LoopTypeOK, SocketTypeOK, EventTypeOK, Control, FirstUpdate, [Next]_vars
             PROVE  LoopTypeOK' /\ Control' /\ SocketTypeOK' /\ EventTypeOK'
  BY TypeParts DEF TypeOK, LoopTypeOK, SocketTypeOK, EventTypeOK
<1>1. ASSUME NEW g \in Goroutines, Lua(g)
      PROVE  LoopTypeOK' /\ Control' /\ SocketTypeOK' /\ EventTypeOK'
  BY <1>1, LoopTypeLua, SocketTypeLua, EventTypeLua
<1>2. ASSUME NEW e \in Events, Arrive(e) \/ Transmit(e) \/ CloseRecv(e) \/ Receiver(e)
      PROVE  LoopTypeOK' /\ Control' /\ SocketTypeOK' /\ EventTypeOK'
  <2>1. UNCHANGED dispatch
    BY <1>2 DEF Arrive, Transmit, CloseRecv, Receiver, Take, Enqueue, Received
  <2>2. LoopTypeOK' /\ Control'
    BY <2>1 DEF dispatch, LoopTypeOK, DispatchTypeOK, Control
  <2> QED BY <1>2, <2>2, SocketTypeEvents, EventTypeEvents
<1>3. CASE Pop \/ Update \/ UpdateReturn
  BY <1>3, LoopTypeUpdate, SocketTypeLoop, EventTypeUpdate, EventTypeLoop DEF FirstUpdate
<1>4. CASE (LoopSteps \/ HostSteps) /\ UNCHANGED own
  BY <1>4, LoopTypeLoop, SocketTypeLoop, EventTypeLoop
<1>5. CASE UNCHANGED vars
  BY <1>5 DEF vars, dispatch, own, socket, receiver, event,
              LoopTypeOK, DispatchTypeOK, Control, SocketTypeOK, EventTypeOK
<1>6. ASSUME NEW o \in Others, PostOther(o)
      PROVE  LoopTypeOK' /\ Control' /\ SocketTypeOK' /\ EventTypeOK'
  <2>1. SocketTypeOK' /\ EventTypeOK'
    BY <1>6 DEF PostOther, own, socket, receiver, event, SocketTypeOK, EventTypeOK
  <2> QED BY <1>6, <2>1, LoopTypeOther
<1> QED BY <1>1, <1>2, <1>3, <1>4, <1>5, <1>6 DEF Next

THEOREM TypeCorrect == Spec => [](TypeOK /\ Control /\ FirstUpdate)
<1>1. Init => FirstUpdate
  BY DEF Init, DispatchInit, FirstUpdate, FirstOff
<1> QED BY <1>1, InitType, TypeStep, FirstUpdateStep, PTL DEF Spec

-----------------------------------------------------------------------------
(* The packets of an event, by the place they are in.                      *)

\* Everything in line for e: queued, in the hand of the goroutine, received.
InLine(e) == Range(queue[e]) \cup ({hand[e]} \ {0}) \cup Range(RecvChan[e])

\* Nothing that comes later in line arrived earlier.
LineOrdered(e) ==
  /\ Increasing(queue[e]) /\ Increasing(RecvChan[e])
  /\ \A x \in Range(queue[e]) : \A y \in Range(RecvChan[e]) : x < y
  /\ hand[e] # 0 => /\ \A x \in Range(queue[e]) : x < hand[e]
                    /\ \A y \in Range(RecvChan[e]) : hand[e] < y

\* In line is what has arrived and the function has not been called with.
LineComplete(e) ==
  /\ called[e] <= arrived[e]
  /\ \A n \in InLine(e) : called[e] < n /\ n <= arrived[e]
  /\ \A n \in (1..arrived[e]) \ Malformed : called[e] < n => n \in InLine(e)

PacketsInv == \A e \in Events : LineOrdered(e) /\ LineComplete(e)

\* The numbers in line.
LEMMA LineNumbers ==
  ASSUME TypeOK, NEW e \in Events
  PROVE  /\ queue[e] \in Seq(1..MaxPackets) /\ queue[e] \in Seq(Int)
         /\ RecvChan[e] \in Seq(1..MaxPackets) /\ RecvChan[e] \in Seq(Int)
         /\ Range(queue[e]) \subseteq 1..MaxPackets
         /\ Range(RecvChan[e]) \subseteq 1..MaxPackets
         /\ hand[e] \in 0..MaxPackets /\ called[e] \in 0..MaxPackets
         /\ arrived[e] \in 0..MaxPackets
         /\ Range(queue[e]) \subseteq Int /\ Range(RecvChan[e]) \subseteq Int
         /\ hand[e] \in Int /\ called[e] \in Int /\ arrived[e] \in Int
<1>1. /\ queue[e] \in Seq(1..MaxPackets) /\ RecvChan[e] \in Seq(1..MaxPackets)
      /\ hand[e] \in 0..MaxPackets /\ called[e] \in 0..MaxPackets
      /\ arrived[e] \in 0..MaxPackets
  BY DEF TypeOK
<1>2. 1..MaxPackets \subseteq Int /\ 0..MaxPackets \subseteq Int
  BY ZmqParameters
<1>3. \A s \in Seq(1..MaxPackets) : s \in Seq(Int) /\ Range(s) \subseteq 1..MaxPackets
  BY <1>2, SeqMonotonic, RangeOfSeq
<1> QED BY <1>1, <1>2, <1>3

LEMMA PacketsSame ==
  ASSUME NEW e \in Events, LineOrdered(e), LineComplete(e),
         queue'[e] = queue[e], hand'[e] = hand[e], RecvChan'[e] = RecvChan[e],
         called'[e] = called[e], arrived'[e] = arrived[e]
  PROVE  LineOrdered(e)' /\ LineComplete(e)'
BY DEF LineOrdered, LineComplete, InLine

\* A packet arrives behind all others.
LEMMA PacketsArrived ==
  ASSUME TypeOK, NEW e \in Events, LineOrdered(e), LineComplete(e), Arrive(e)
  PROVE  LineOrdered(e)' /\ LineComplete(e)'
<1>1. /\ arrived'[e] = arrived[e] + 1
      /\ RecvChan'[e] = Append(RecvChan[e], arrived[e] + 1)
      /\ UNCHANGED <<queue, hand, called>>
  BY DEF Arrive, receiver, event, TypeOK
<1>2. /\ RecvChan[e] \in Seq(Int) /\ arrived[e] + 1 \in Int
      /\ arrived[e] \in 0..MaxPackets /\ called[e] \in Int
  BY LineNumbers
<1>3. /\ Range(RecvChan'[e]) = Range(RecvChan[e]) \cup {arrived[e] + 1}
      /\ InLine(e)' = InLine(e) \cup {arrived[e] + 1}
  BY <1>1, <1>2, AppendElements DEF InLine
<1>4. \A n \in InLine(e) : n \in Int /\ n < arrived[e] + 1
  <2>1. InLine(e) \subseteq Int
    BY LineNumbers DEF InLine
  <2> QED BY <1>2, <2>1 DEF LineComplete
<1>5. Increasing(RecvChan'[e])
  BY <1>1, <1>2, <1>4, AppendIncreasing DEF LineOrdered, InLine
<1>6. LineOrdered(e)'
  BY <1>1, <1>3, <1>4, <1>5 DEF LineOrdered, InLine
<1>7. \A n \in (1..(arrived[e] + 1)) \ Malformed : called[e] < n => n \in InLine(e)'
  <2> SUFFICES ASSUME NEW n \in (1..(arrived[e] + 1)) \ Malformed, called[e] < n
               PROVE  n \in InLine(e)'
    OBVIOUS
  <2>1. n \in 1..arrived[e] \/ n = arrived[e] + 1
    BY <1>2
  <2> QED BY <1>3, <2>1 DEF LineComplete
<1>8. called[e] < arrived[e] + 1 /\ called[e] <= arrived[e] + 1
  BY <1>2 DEF LineComplete
<1>9. \A n \in InLine(e)' : called[e] < n /\ n <= arrived[e] + 1
  BY <1>2, <1>3, <1>4, <1>8 DEF LineComplete
<1> QED BY <1>1, <1>6, <1>7, <1>8, <1>9 DEF LineComplete

\* The goroutine takes a packet into its hand, or drops one that is malformed.
LEMMA PacketsTaken ==
  ASSUME TypeOK, NEW e \in Events, LineOrdered(e), LineComplete(e), Take(e)
  PROVE  LineOrdered(e)' /\ LineComplete(e)'
<1> DEFINE n == Head(RecvChan[e])
<1>1. /\ RecvChan[e] \in Seq(1..MaxPackets) /\ RecvChan[e] \in Seq(Int)
      /\ RecvChan[e] # << >>
      /\ RecvChan'[e] = Tail(RecvChan[e])
      /\ hand[e] = 0
      /\ IF n \in Malformed THEN hand'[e] = 0 ELSE hand'[e] = n
      /\ UNCHANGED <<queue, called, arrived>>
  BY LineNumbers DEF Take, Decode, event, TypeOK
<1>2. /\ n \in 1..MaxPackets
      /\ Range(RecvChan[e]) = {n} \cup Range(RecvChan'[e])
      /\ Increasing(RecvChan'[e])
      /\ \A y \in Range(RecvChan'[e]) : n < y
  <2>1. n \in 1..MaxPackets /\ Range(RecvChan[e]) = {n} \cup Range(RecvChan'[e])
    BY <1>1, TailElements
  <2>2. Increasing(RecvChan[e])
    BY DEF LineOrdered
  <2> HIDE DEF n
  <2>3. Increasing(RecvChan'[e]) /\ \A y \in Range(RecvChan'[e]) : n < y
    BY <1>1, <2>2, TailIncreasing DEF n
  <2> QED BY <2>1, <2>3
<1> HIDE DEF n
<1>3. n # 0
  BY <1>2, ZmqParameters
<1>4. LineOrdered(e)'
  BY <1>1, <1>2 DEF LineOrdered
<1>5. InLine(e)' \subseteq InLine(e) /\ InLine(e) \ Malformed \subseteq InLine(e)'
  BY <1>1, <1>2, <1>3 DEF InLine
<1>6. LineComplete(e)'
  BY <1>1, <1>5 DEF LineComplete
<1> QED BY <1>4, <1>6

\* From the hand into the queue.
LEMMA PacketsQueued ==
  ASSUME TypeOK, NEW e \in Events, LineOrdered(e), LineComplete(e), Enqueue(e)
  PROVE  LineOrdered(e)' /\ LineComplete(e)'
<1>1. /\ hand[e] # 0 /\ hand'[e] = 0
      /\ queue'[e] = Append(queue[e], hand[e])
      /\ UNCHANGED <<RecvChan, called, arrived>>
  BY DEF Enqueue, Appended, socket, TypeOK
<1>2. queue[e] \in Seq(Int) /\ hand[e] \in Int
  BY LineNumbers
<1>3. Range(queue'[e]) = Range(queue[e]) \cup {hand[e]}
  BY <1>1, <1>2, AppendElements
<1>4. Increasing(queue'[e])
  BY <1>1, <1>2, AppendIncreasing DEF LineOrdered
<1>5. LineOrdered(e)'
  BY <1>1, <1>3, <1>4 DEF LineOrdered
<1>6. InLine(e)' = InLine(e)
  BY <1>1, <1>3 DEF InLine
<1> QED BY <1>1, <1>5, <1>6 DEF LineComplete

\* The function is called with the first packet of the line.
LEMMA PacketsCalled ==
  ASSUME TypeOK, Control, UpdateCall, LineOrdered(current), LineComplete(current)
  PROVE  LineOrdered(current)' /\ LineComplete(current)'
<1>0. PICK e \in Events : e = current /\ e = current'
  BY DEF UpdateCall, Goto, Control, Updates, TypeOK, DispatchTypeOK
<1> DEFINE n == Head(queue[e])
<1>1. /\ queue[e] \in Seq(Int) /\ queue[e] # << >>
      /\ called'[e] = n
      /\ queue'[e] = Tail(queue[e])
      /\ UNCHANGED <<hand, RecvChan, arrived>>
  BY <1>0, LineNumbers DEF UpdateCall, socket, receiver, TypeOK
<1>2. /\ n \in Int /\ n \in Range(queue[e])
      /\ Range(queue[e]) = {n} \cup Range(queue'[e])
      /\ Increasing(queue'[e])
      /\ \A y \in Range(queue'[e]) : n < y
  BY <1>0, <1>1, TailElements, TailIncreasing DEF LineOrdered
<1> HIDE DEF n
<1>3. LineOrdered(e)'
  BY <1>0, <1>1, <1>2 DEF LineOrdered
<1>4. /\ InLine(e) = {n} \cup InLine(e)'
      /\ \A y \in InLine(e)' : n < y
      /\ n <= arrived[e] /\ called[e] < n
  <2>1. LineOrdered(e) /\ LineComplete(e)
    BY <1>0
  <2>2. InLine(e) = {n} \cup InLine(e)'
    BY <1>1, <1>2 DEF InLine
  <2>3. \A y \in InLine(e)' : n < y
    BY <1>1, <1>2, <2>1 DEF InLine, LineOrdered
  <2> QED BY <2>1, <2>2, <2>3 DEF LineComplete
<1>5. \A k \in (1..arrived[e]) \ Malformed : n < k => k \in InLine(e)'
  <2> SUFFICES ASSUME NEW k \in (1..arrived[e]) \ Malformed, n < k
               PROVE  k \in InLine(e)'
    OBVIOUS
  <2>1. arrived[e] \in Int /\ called[e] \in Int
    BY LineNumbers
  <2>2. called[e] < k /\ k # n
    BY <1>2, <1>4, <2>1
  <2> QED BY <1>0, <1>4, <2>2 DEF LineComplete
<1>6. LineComplete(e)'
  BY <1>0, <1>1, <1>4, <1>5 DEF LineComplete
<1> QED BY <1>0, <1>3, <1>6

\* The first Update replaces the queue when nothing is in it.
LEMMA PacketsStart ==
  ASSUME TypeOK, Control, FirstUpdate, UpdateStart, NEW e \in Events,
         LineOrdered(e), LineComplete(e)
  PROVE  LineOrdered(e)' /\ LineComplete(e)'
<1>1. /\ current \in Events
      /\ queue[current] = << >>
      /\ queue' = [queue EXCEPT ![current] = << >>]
      /\ UNCHANGED <<hand, RecvChan, called, arrived>>
  BY DEF UpdateStart, Goto, FirstUpdate, FirstOff, Control, Updates, TypeOK,
         DispatchTypeOK, socket
<1>2. queue'[e] = queue[e]
  BY <1>1 DEF TypeOK
<1> QED BY <1>1, <1>2, PacketsSame

LEMMA PacketsStep ==
  TypeOK /\ Control /\ FirstUpdate /\ PacketsInv /\ [Next]_vars => PacketsInv'
<1> SUFFICES ASSUME TypeOK, Control, FirstUpdate, PacketsInv, [Next]_vars,
                    NEW e \in Events
             PROVE  LineOrdered(e)' /\ LineComplete(e)'
  BY DEF PacketsInv
<1>0. LineOrdered(e) /\ LineComplete(e)
  BY DEF PacketsInv
<1>1. ASSUME queue'[e] = queue[e], hand'[e] = hand[e], RecvChan'[e] = RecvChan[e],
             called'[e] = called[e], arrived'[e] = arrived[e]
      PROVE  LineOrdered(e)' /\ LineComplete(e)'
  BY <1>0, <1>1, PacketsSame
<1>2. ASSUME NEW g \in Goroutines, Lua(g) PROVE LineOrdered(e)' /\ LineComplete(e)'
  BY <1>1, <1>2 DEF Lua, Create, Stop, SendPacket, Reply, Sent, Send, CreateOther, own,
                    socket, receiver, event
<1>3. ASSUME NEW d \in Events, Arrive(d) \/ Take(d) \/ Enqueue(d), d # e
      PROVE  LineOrdered(e)' /\ LineComplete(e)'
  BY <1>1, <1>3 DEF Arrive, Take, Decode, Enqueue, socket, receiver, event, TypeOK
<1>4. CASE Arrive(e)
  BY <1>0, <1>4, PacketsArrived
<1>5. CASE Take(e)
  BY <1>0, <1>5, PacketsTaken
<1>6. CASE Enqueue(e)
  BY <1>0, <1>6, PacketsQueued
<1>7. ASSUME NEW d \in Events, Transmit(d) \/ CloseRecv(d) \/ Received(d)
      PROVE  LineOrdered(e)' /\ LineComplete(e)'
  BY <1>1, <1>7 DEF Transmit, CloseRecv, Received, socket, receiver, event
<1>8. CASE Pop \/ UpdateOther \/ UpdateLoad \/ UpdateEnd \/ Continue \/ UpdateReturn
  BY <1>1, <1>8 DEF Pop, UpdateOther, UpdateLoad, UpdateEnd, Continue, UpdateReturn, own, socket,
                    receiver, event
<1>9. CASE UpdateStart
  BY <1>0, <1>9, PacketsStart
<1>10. CASE UpdateCall
  <2>1. CASE current = e
    <3>1. LineOrdered(current) /\ LineComplete(current) /\ current' = e
      BY <1>0, <1>10, <2>1 DEF UpdateCall, Goto
    <3>2. LineOrdered(current)' /\ LineComplete(current)'
      BY <1>10, <3>1, PacketsCalled
    <3> QED BY <3>1, <3>2 DEF LineOrdered, LineComplete, InLine
  <2>2. CASE current # e
    BY <1>1, <1>10, <2>2 DEF UpdateCall, socket, receiver, TypeOK
  <2> QED BY <2>1, <2>2
<1>11. CASE UNCHANGED own
  BY <1>1, <1>11 DEF own, socket, receiver, event
<1>12. CASE UNCHANGED vars
  BY <1>11, <1>12 DEF vars
<1> QED BY <1>2, <1>3, <1>4, <1>5, <1>6, <1>7, <1>8, <1>9, <1>10, <1>11, <1>12
        DEF Next, Update, Receiver, PostOther

LEMMA PacketsInit == Init => PacketsInv
<1> SUFFICES ASSUME Init, NEW e \in Events PROVE LineOrdered(e) /\ LineComplete(e)
  BY DEF PacketsInv
<1>1. queue[e] = << >> /\ RecvChan[e] = << >> /\ hand[e] = 0 /\ called[e] = 0 /\ arrived[e] = 0
  BY DEF Init
<1>2. Increasing(<< >>) /\ Range(<< >>) = {}
  BY EmptyElements DEF Increasing
<1> QED BY <1>1, <1>2 DEF LineOrdered, LineComplete, InLine

\* One queue after the other, the parts are the line.
LEMMA LineOfParts ==
  ASSUME TypeOK, NEW e \in Events, LineOrdered(e)
  PROVE  /\ Increasing(Line(e))
         /\ Range(Line(e)) = InLine(e)
<1> DEFINE h == IF hand[e] = 0 THEN << >> ELSE <<hand[e]>>
<1>1. queue[e] \in Seq(Int) /\ RecvChan[e] \in Seq(Int) /\ hand[e] \in Int
  BY LineNumbers
<1>2. h \in Seq(Int) /\ Range(h) = {hand[e]} \ {0} /\ Increasing(h)
  BY <1>1, EmptyElements DEF Range, Increasing
<1> HIDE DEF h
<1>3. /\ queue[e] \o h \in Seq(Int)
      /\ Range(queue[e] \o h) = Range(queue[e]) \cup ({hand[e]} \ {0})
  BY <1>1, <1>2, ConcatProperties, RangeConcatenation
<1>4. Increasing(queue[e] \o h)
  BY <1>1, <1>2, ConcatIncreasing DEF LineOrdered
<1>5. Range((queue[e] \o h) \o RecvChan[e])
        = (Range(queue[e]) \cup ({hand[e]} \ {0})) \cup Range(RecvChan[e])
  <2> DEFINE q == queue[e] \o h
  <2>1. q \in Seq(Int)
    BY <1>3
  <2> HIDE DEF q
  <2>2. Range(q \o RecvChan[e]) = Range(q) \cup Range(RecvChan[e])
    BY <1>1, <2>1, RangeConcatenation
  <2> QED BY <1>3, <2>2 DEF q
<1>6. Increasing((queue[e] \o h) \o RecvChan[e])
  BY <1>1, <1>3, <1>4, ConcatIncreasing DEF LineOrdered
<1> QED BY <1>5, <1>6 DEF Line, InLine, h

\* No packet of an event is lost, repeated or overtaken between the client
\* library and the function (module_zmq.go:159).
THEOREM PacketsCalledInOrder == Spec => []PacketsInOrder
<1>1. TypeOK /\ PacketsInv => PacketsInOrder
  <2> SUFFICES ASSUME TypeOK, PacketsInv, NEW e \in Events
               PROVE  /\ \A i, j \in 1..Len(Line(e)) : i < j => Line(e)[i] < Line(e)[j]
                      /\ \A n \in (1..arrived[e]) \ Malformed :
                           n > called[e] <=> n \in Range(Line(e))
    BY DEF PacketsInOrder
  <2>1. LineOrdered(e) /\ LineComplete(e)
    BY DEF PacketsInv
  <2>2. Increasing(Line(e)) /\ Range(Line(e)) = InLine(e)
    BY <2>1, LineOfParts
  <2>3. arrived[e] \in Int /\ called[e] \in Int
    BY LineNumbers
  <2> QED BY <2>1, <2>2, <2>3 DEF LineComplete, Increasing
<1> QED BY <1>1, PacketsInit, PacketsStep, TypeCorrect, PTL DEF Spec
-----------------------------------------------------------------------------
(* What is for ever.                                                       *)

\* Where process() waits in a call, it is in a callback; and a stopped event
\* has been made.
Waits == /\ calling["loop"] # None => loop = "callback"
         /\ \A e \in stopped : state[e] # "new"

\* While the loop waits, its call changes only when it returns.
LEMMA LoopWaiting ==
  ASSUME TypeOK, Waits, [Next]_vars, calling["loop"] # None
  PROVE  /\ loop' = loop /\ eventQueue' = eventQueue /\ eventSwapQueue' = eventSwapQueue
         /\ current' = current
         /\ \/ calling'["loop"] = calling["loop"]
            \/ Send("loop") \/ \E e \in Events : Sent("loop", e)
<1>1. loop = "callback" /\ ~RunsLua("loop") /\ "loop" \in Goroutines
  BY DEF Waits, RunsLua, Goroutines
<1>2. ASSUME NEW g \in Goroutines, Lua(g)
      PROVE  /\ loop' = loop /\ eventQueue' = eventQueue /\ eventSwapQueue' = eventSwapQueue
             /\ current' = current
             /\ \/ calling'["loop"] = calling["loop"]
                \/ Send("loop") \/ \E e \in Events : Sent("loop", e)
  <2>1. CASE \E e \in Events : Stop(g, e)
    BY <2>1 DEF Stop, dispatch
  <2>2. ASSUME NEW what, Call(g, what)
        PROVE  /\ loop' = loop /\ eventQueue' = eventQueue /\ eventSwapQueue' = eventSwapQueue
               /\ current' = current /\ calling'["loop"] = calling["loop"]
    <3>1. g # "loop" /\ calling' = [calling EXCEPT ![g] = what]
          /\ UNCHANGED <<loop, eventQueue, eventSwapQueue, current>>
      BY <1>1, <2>2 DEF Call
    <3> QED BY <1>1, <3>1 DEF TypeOK
  <2>3. CASE Send(g) \/ \E e \in Events : Sent(g, e)
    <3>1. /\ calling' = [calling EXCEPT ![g] = None]
          /\ UNCHANGED <<loop, eventQueue, eventSwapQueue, current>>
      BY <2>3 DEF Send, SendAndReturn, Sent, Return
    <3>2. CASE g # "loop"
      BY <1>1, <3>1, <3>2 DEF TypeOK
    <3>3. CASE g = "loop"
      BY <2>3, <3>1, <3>3
    <3> QED BY <3>2, <3>3
  <2> QED BY <1>2, <2>1, <2>2, <2>3 DEF Lua, Create, CreateOther, SendPacket, Reply
<1>3. ASSUME UNCHANGED dispatch
      PROVE  UNCHANGED <<loop, eventQueue, eventSwapQueue, current, calling>>
  BY <1>3 DEF dispatch
<1>4. ASSUME NEW e \in Events, Arrive(e) \/ Transmit(e) \/ CloseRecv(e) \/ Receiver(e)
      PROVE  UNCHANGED dispatch
  BY <1>4 DEF Arrive, Transmit, CloseRecv, Receiver, Take, Enqueue, Received
<1>5. CASE (\E o \in Others : PostOther(o)) \/ (HostSteps /\ UNCHANGED own)
  BY <1>5 DEF PostOther, Post, HostSteps, MainReturn, Shutdown
<1>6. ~Pop /\ ~Update /\ ~UpdateReturn /\ ~LoopSteps
  BY <1>1 DEF Pop, LoopPop, Update, UpdateOther, UpdateLoad, UpdateStart, UpdateCall,
              UpdateEnd, Continue, UpdateReturn, Goto, Finish, LoopSteps, LoopReceive,
              LoopTick, LoopSwap, LoopDone
<1>7. CASE UNCHANGED vars
  BY <1>3, <1>7 DEF vars
<1> QED BY <1>2, <1>3, <1>4, <1>5, <1>6, <1>7 DEF Next

\* The events of stop() and the ways of their state.
LEMMA StoppedKept ==
  ASSUME TypeOK, Waits, [Next]_vars
  PROVE  /\ stopped \subseteq stopped'
         /\ \A e \in stopped' : state'[e] # "new"
         /\ \A e \in Events : state[e] = "complete" /\ e # current => state'[e] = "complete"
<1>0. stopped \subseteq Events /\ \A e \in stopped : state[e] # "new"
  BY DEF TypeOK, Waits
<1>1. ASSUME UNCHANGED <<state, stopped>>
      PROVE  /\ stopped \subseteq stopped'
             /\ \A e \in stopped' : state'[e] # "new"
             /\ \A e \in Events : state[e] = "complete" /\ e # current => state'[e] = "complete"
  BY <1>0, <1>1
<1>2. ASSUME NEW g \in Goroutines, NEW d \in Events, Create(g, d)
      PROVE  /\ stopped \subseteq stopped'
             /\ \A e \in stopped' : state'[e] # "new"
             /\ \A e \in Events : state[e] = "complete" /\ e # current => state'[e] = "complete"
  <2>1. /\ state[d] = "new" /\ state' = [state EXCEPT ![d] = "initialize"]
        /\ UNCHANGED stopped
    BY <1>2 DEF Create
  <2> QED BY <1>0, <2>1 DEF TypeOK
<1>3. ASSUME NEW g \in Goroutines, NEW d \in Events, Stop(g, d) \/ Received(d)
      PROVE  /\ stopped \subseteq stopped'
             /\ \A e \in stopped' : state'[e] # "new"
             /\ \A e \in Events : state[e] = "complete" /\ e # current => state'[e] = "complete"
  <2>1. /\ state' = [state EXCEPT ![d] = "complete"]
        /\ stopped' \in {stopped, stopped \cup {d}}
    BY <1>3 DEF Stop, Received, RangeEnded
  <2> QED BY <1>0, <2>1 DEF TypeOK
<1>4. CASE UpdateStart
  <2>1. state' = [state EXCEPT ![current] = "progress"] /\ UNCHANGED stopped
    BY <1>4 DEF UpdateStart
  <2> QED BY <1>0, <2>1 DEF TypeOK
<1>5. ASSUME UNCHANGED own PROVE UNCHANGED <<state, stopped>>
  BY <1>5 DEF own, event
<1>6. ASSUME NEW e \in Events, Arrive(e) \/ Transmit(e) \/ CloseRecv(e) \/ Take(e) \/ Enqueue(e)
      PROVE  UNCHANGED <<state, stopped>>
  BY <1>6 DEF Arrive, Transmit, CloseRecv, Take, Enqueue, event
<1>7. ASSUME NEW g \in Goroutines, NEW e \in Events, Sent(g, e)
      PROVE  UNCHANGED <<state, stopped>>
  BY <1>7 DEF Sent, event
<1>8. CASE UpdateCall
  BY <1>1, <1>8 DEF UpdateCall
<1>9. ASSUME NEW g \in Goroutines, Lua(g)
      PROVE  /\ stopped \subseteq stopped'
             /\ \A e \in stopped' : state'[e] # "new"
             /\ \A e \in Events : state[e] = "complete" /\ e # current => state'[e] = "complete"
  <2>1. CASE \E e \in Events : Create(g, e) \/ Stop(g, e)
    BY <1>2, <1>3, <2>1
  <2>2. CASE \E e \in Events : Sent(g, e)
    BY <1>1, <1>7, <2>2
  <2>3. CASE UNCHANGED own
    BY <1>1, <1>5, <2>3
  <2> QED BY <1>9, <2>1, <2>2, <2>3 DEF Lua, SendPacket, Reply, CreateOther, Send
<1>10. ASSUME NEW d \in Events, Arrive(d) \/ Transmit(d) \/ CloseRecv(d) \/ Receiver(d)
       PROVE  /\ stopped \subseteq stopped'
              /\ \A e \in stopped' : state'[e] # "new"
              /\ \A e \in Events : state[e] = "complete" /\ e # current => state'[e] = "complete"
  <2>1. CASE Received(d)
    <3>1. \E g \in Goroutines : Stop(g, d) \/ Received(d)
      BY <2>1 DEF Goroutines
    <3> QED BY <1>3, <3>1
  <2>2. CASE ~Received(d)
    BY <1>1, <1>6, <1>10, <2>2 DEF Receiver
  <2> QED BY <2>1, <2>2
<1>11. CASE \/ \E o \in Others : PostOther(o)
            \/ Pop \/ UpdateOther \/ UpdateLoad \/ UpdateEnd \/ Continue \/ UpdateReturn
            \/ (LoopSteps \/ HostSteps) /\ UNCHANGED own
            \/ UNCHANGED vars
  <2>1. UNCHANGED own
    BY <1>11 DEF PostOther, Pop, UpdateOther, UpdateLoad, UpdateEnd, Continue, UpdateReturn, vars
  <2> QED BY <1>1, <1>5, <2>1
<1> QED BY <1>4, <1>8, <1>9, <1>10, <1>11 DEF Next, Update

LEMMA WaitsInvariant == Spec => []Waits
<1>1. Init => Waits
  BY DEF Init, DispatchInit, Waits, Goroutines
<1>2. TypeOK /\ Waits /\ [Next]_vars => Waits'
  <2> SUFFICES ASSUME TypeOK, Waits, [Next]_vars
               PROVE  calling'["loop"] # None => loop' = "callback"
    BY StoppedKept DEF Waits
  <2>1. CASE calling["loop"] # None
    BY <2>1, LoopWaiting DEF Waits
  <2>2. CASE calling["loop"] = None
    <3>1. ASSUME NEW g \in Goroutines, NEW what, Call(g, what)
          PROVE  calling'["loop"] # None => loop' = "callback"
      BY <2>2, <3>1 DEF Call, RunsLua, TypeOK, Goroutines
    <3>2. ASSUME NEW g \in Goroutines, Send(g) \/ \E e \in Events : Sent(g, e)
          PROVE  calling'["loop"] = None
      <4>1. calling' = [calling EXCEPT ![g] = None]
        BY <3>2 DEF Send, SendAndReturn, Sent, Return
      <4> QED BY <2>2, <4>1 DEF TypeOK, Goroutines
    <3>3. ASSUME NEW g \in Goroutines, NEW e \in Events, Stop(g, e)
          PROVE  UNCHANGED calling
      BY <3>3 DEF Stop, dispatch
    <3>4. ASSUME NEW e \in Events, Arrive(e) \/ Transmit(e) \/ CloseRecv(e) \/ Receiver(e)
          PROVE  UNCHANGED calling
      BY <3>4 DEF Arrive, Transmit, CloseRecv, Receiver, Take, Enqueue, Received, dispatch
    <3>5. CASE \/ \E o \in Others : PostOther(o)
               \/ Pop \/ Update \/ UpdateReturn
               \/ (LoopSteps \/ HostSteps) /\ UNCHANGED own
      BY <2>2, <3>5
         DEF PostOther, Post, Pop, LoopPop, Update, UpdateOther, UpdateLoad, UpdateStart,
             UpdateCall, UpdateEnd, Continue, UpdateReturn, Goto, Finish, LoopError, LoopSteps,
             LoopReceive, LoopTick, LoopSwap, LoopDone, HostSteps, MainReturn, Shutdown
    <3>6. CASE UNCHANGED vars
      BY <2>2, <3>6 DEF vars, dispatch
    <3>7. ASSUME NEW g \in Goroutines, Lua(g)
          PROVE  calling'["loop"] # None => loop' = "callback"
      BY <2>2, <3>1, <3>2, <3>3, <3>7 DEF Lua, Create, CreateOther, SendPacket, Reply
    <3> QED BY <2>2, <3>4, <3>5, <3>6, <3>7 DEF Next
  <2> QED BY <2>1, <2>2
<1> QED BY <1>1, <1>2, TypeCorrect, PTL DEF Spec

\* A callback that waits for room in the full channel of events, or in the full
\* SendChan of an event whose channeler is destroyed, waits for ever, for any
\* events and any sizes of the channels (module_zmq.go:228): the one end, other
\* than closing, that StopCompletes and PacketsArrive leave the loop.
THEOREM StuckForEver == Spec => [][Stuck => Stuck']_vars
<1>1. ASSUME TypeOK, Waits, [Next]_vars, SelfBlocked PROVE SelfBlocked'
  <2>1. calling["loop"] \in LoopEvents /\ calling["loop"] # None /\ ~HasRoom
        /\ loop = "callback"
    BY <1>1, ZmqParameters DEF SelfBlocked, Waits
  <2>2. ~Send("loop") /\ \A e \in Events : ~Sent("loop", e)
    BY <2>1, ZmqParameters DEF Send, SendAndReturn, Sent, Sending
  <2>3. calling'["loop"] = calling["loop"]
    BY <1>1, <2>1, <2>2, LoopWaiting
  <2>4. EventQueue' = EventQueue
    <3>1. ASSUME NEW g \in Goroutines, Lua(g) PROVE EventQueue' = EventQueue
      BY <2>1, <3>1 DEF Lua, Create, Stop, SendPacket, Reply, Sent, CreateOther, Send, Call,
                        Return, SendAndReturn, dispatch
    <3>2. ASSUME NEW e \in Events, Arrive(e) \/ Transmit(e) \/ CloseRecv(e) \/ Receiver(e)
          PROVE  EventQueue' = EventQueue
      BY <3>2 DEF Arrive, Transmit, CloseRecv, Receiver, Take, Enqueue, Received, dispatch
    <3>3. \A o \in Others : ~PostOther(o)
      BY <2>1 DEF PostOther, Post
    <3>4. CASE Pop \/ Update \/ UpdateReturn \/ ((LoopSteps \/ HostSteps) /\ UNCHANGED own)
      BY <2>1, <3>4
         DEF Pop, LoopPop, Update, UpdateOther, UpdateLoad, UpdateStart, UpdateCall, UpdateEnd,
             Continue, UpdateReturn, Goto, Finish, LoopError, LoopSteps, LoopReceive, LoopTick,
             LoopSwap, LoopDone, HostSteps, MainReturn, Shutdown
    <3>5. CASE UNCHANGED vars
      BY <3>5 DEF vars, dispatch
    <3> QED BY <1>1, <3>1, <3>2, <3>3, <3>4, <3>5 DEF Next
  <2> QED BY <2>1, <2>3, <2>4 DEF SelfBlocked, HasRoom
<1>2. ASSUME TypeOK, Waits, [Next]_vars, Abandoned PROVE Abandoned'
  <2>1. PICK e \in stopped : /\ calling["loop"] = Sending(e)
                             /\ SendChan[e] = SendRoom /\ e \notin open
    BY <1>2 DEF Abandoned
  <2>2. e \in Events /\ state[e] # "new" /\ calling["loop"] # None
    BY <1>2, <2>1, ZmqParameters DEF TypeOK, Waits, Sending
  <2>3. ~Send("loop") /\ \A d \in Events : ~Sent("loop", d)
    <3>1. ~Send("loop")
      BY <2>1, <2>2, ZmqParameters DEF Send, Sending
    <3>2. ASSUME NEW d \in Events, Sent("loop", d) PROVE FALSE
      BY <2>1, <3>2, ZmqParameters DEF Sent, Sending
    <3> QED BY <3>1, <3>2
  <2>4. calling'["loop"] = calling["loop"] /\ e \in stopped'
    BY <1>2, <2>2, <2>3, LoopWaiting, StoppedKept
  <2>5. e \notin open'
    <3>1. ASSUME NEW d \in Events, open' = open \cup {d}, state[d] = "new" PROVE e \notin open'
      BY <2>1, <2>2, <3>1
    <3> QED BY <1>2, <2>1, <3>1
            DEF Next, Lua, Create, Stop, SendPacket, Reply, Sent, CreateOther, Send, Arrive,
                Transmit, CloseRecv, Receiver, Take, Enqueue, Received, PostOther, Pop, Update,
                UpdateOther, UpdateLoad, UpdateStart, UpdateCall, UpdateEnd, Continue,
                UpdateReturn, vars, own, socket
  <2>6. SendChan'[e] = SendChan[e]
    <3>1. ASSUME NEW d \in Events, Transmit(d) \/ \E g \in Goroutines : Sent(g, d)
          PROVE  SendChan'[e] = SendChan[e]
      <4>1. d # e
        BY <2>1, <3>1, ZmqParameters DEF Transmit, Sent
      <4>2. \E n : SendChan' = [SendChan EXCEPT ![d] = n]
        BY <3>1 DEF Transmit, Sent
      <4> QED BY <1>2, <2>2, <4>1, <4>2 DEF TypeOK
    <3> QED BY <1>2, <3>1
            DEF Next, Lua, Create, Stop, SendPacket, Reply, CreateOther, Send, Arrive,
                CloseRecv, Receiver, Take, Enqueue, Received, PostOther, Pop, Update,
                UpdateOther, UpdateLoad, UpdateStart, UpdateCall, UpdateEnd, Continue,
                UpdateReturn, vars, own, socket
  <2> QED BY <2>1, <2>4, <2>5, <2>6 DEF Abandoned
<1> QED BY <1>1, <1>2, TypeCorrect, WaitsInvariant, PTL DEF Spec, Stuck

-----------------------------------------------------------------------------
(* The life cycle of events.                                               *)

\* An event is in one place: in the call that made it, in one of the queues,
\* or in Update.
HeldOnce ==
  /\ \A q \in {EventQueue, eventQueue, eventSwapQueue} : IsInjective(q)
  /\ Range(EventQueue) \cap Range(eventQueue) = {}
  /\ Range(EventQueue) \cap Range(eventSwapQueue) = {}
  /\ Range(eventQueue) \cap Range(eventSwapQueue) = {}
  /\ current \notin Queued
  /\ \A g \in Goroutines : calling[g] \in LoopEvents => calling[g] \notin Queued \cup {current}
  /\ \A g, h \in Goroutines : g # h /\ calling[g] \in LoopEvents => calling[g] # calling[h]

\* An event that was not made is nowhere, and one that is being made is new to
\* everybody but the call that makes it.
Fresh ==
  /\ \A e \in Events : state[e] = "new" => /\ e \notin Queued \cup {current}
                                          /\ \A g \in Goroutines : calling[g] # e
  /\ \A g \in Goroutines : calling[g] \in Events => state[calling[g]] = "initialize"

LEMMA HeldOnceInit == Init => HeldOnce /\ Fresh
<1> SUFFICES ASSUME Init PROVE HeldOnce /\ Fresh
  OBVIOUS
<1>1. /\ EventQueue = << >> /\ eventQueue = << >> /\ eventSwapQueue = << >> /\ current = None
      /\ \A g \in Goroutines : calling[g] = None
  BY DEF Init, DispatchInit
<1>2. Range(<< >>) = {} /\ IsInjective(<< >>)
  BY DEF Range, IsInjective
<1>3. None \notin Events /\ None \notin LoopEvents
  BY ZmqParameters DEF LoopEvents
<1> QED BY <1>1, <1>2, <1>3 DEF HeldOnce, Fresh, Queued

LEMMA ElementsAreEvents ==
  ASSUME TypeOK
  PROVE  /\ Range(EventQueue) \subseteq LoopEvents /\ Range(eventQueue) \subseteq LoopEvents
         /\ Range(eventSwapQueue) \subseteq LoopEvents /\ Queued \subseteq LoopEvents
         /\ current \in LoopEvents \cup {None} /\ None \notin LoopEvents
         /\ None \notin Events /\ Events \subseteq LoopEvents
<1>1. /\ EventQueue \in Seq(LoopEvents) /\ eventQueue \in Seq(LoopEvents)
      /\ eventSwapQueue \in Seq(LoopEvents) /\ current \in LoopEvents \cup {None}
  BY DEF TypeOK, DispatchTypeOK
<1>2. None \notin LoopEvents /\ Events \subseteq LoopEvents
  BY ZmqParameters DEF LoopEvents
<1> QED BY <1>1, <1>2, RangeOfSeq DEF Queued

\* process() moves events, and forgets none.
LEMMA QueuedKept == ASSUME TypeOK, LoopSteps PROVE Queued' = Queued
<1>1. CASE LoopReceive
  <2>1. /\ EventQueue \in Seq(LoopEvents) /\ EventQueue # << >>
        /\ eventQueue \in Seq(LoopEvents)
    BY <1>1 DEF LoopReceive, TypeOK, DispatchTypeOK
  <2>2. /\ Range(EventQueue) = {Head(EventQueue)} \cup Range(Tail(EventQueue))
        /\ Range(Append(eventQueue, Head(EventQueue)))
             = Range(eventQueue) \cup {Head(EventQueue)}
    BY <2>1, TailElements, AppendElements
  <2> QED BY <1>1, <2>2 DEF LoopReceive, Queued
<1>2. CASE LoopTick
  <2>1. Range(eventQueue') = Range(eventQueue)
    BY <1>2, SortedElements DEF LoopTick, TypeOK, DispatchTypeOK
  <2> QED BY <1>2, <2>1 DEF LoopTick, Queued
<1>3. CASE LoopDone
  BY <1>3 DEF LoopDone, Queued
<1>4. CASE LoopSwap
  BY <1>4, EmptyElements DEF LoopSwap, Queued
<1> QED BY <1>1, <1>2, <1>3, <1>4 DEF LoopSteps

\* A new event comes from nowhere, and goes into a call of its own.
LEMMA HeldOnceCreate ==
  ASSUME TypeOK, HeldOnce, Fresh, NEW g \in Goroutines, NEW e \in Events, Create(g, e)
  PROVE  HeldOnce' /\ Fresh'
<1>1. /\ calling[g] = None /\ calling' = [calling EXCEPT ![g] = e]
      /\ state[e] = "new" /\ state' = [state EXCEPT ![e] = "initialize"]
      /\ UNCHANGED <<EventQueue, eventQueue, eventSwapQueue, current>>
  BY DEF Create, Call, RunsLua
<1>2. calling'[g] = e /\ \A h \in Goroutines \ {g} : calling'[h] = calling[h]
  BY <1>1 DEF TypeOK
<1>3. e \notin Queued \cup {current} /\ \A h \in Goroutines : calling[h] # e
  BY <1>1 DEF Fresh
<1>4. state'[e] = "initialize" /\ \A d \in Events \ {e} : state'[d] = state[d]
  BY <1>1 DEF TypeOK
<1>5. \A h \in Goroutines :
        calling'[h] \in LoopEvents => calling'[h] \notin Queued \cup {current}
  BY <1>2, <1>3 DEF HeldOnce
<1>6. \A h, k \in Goroutines : h # k /\ calling'[h] \in LoopEvents => calling'[h] # calling'[k]
  BY <1>2, <1>3 DEF HeldOnce
<1>7. HeldOnce'
  BY <1>1, <1>5, <1>6 DEF HeldOnce, Queued
<1>8. Fresh'
  BY <1>1, <1>2, <1>3, <1>4 DEF Fresh, Queued
<1> QED BY <1>7, <1>8

\* The channel takes the event of a call, which is over.
LEMMA HeldOnceSend ==
  ASSUME TypeOK, HeldOnce, Fresh, NEW g \in Goroutines, Send(g)
  PROVE  /\ HeldOnce' /\ Fresh'
         /\ calling[g] \in LoopEvents
         /\ calling[g] \in Events => state[calling[g]] = "initialize"
         /\ calling[g] \notin Queued \cup {current}
         /\ Queued' = Queued \cup {calling[g]}
<1> DEFINE e == calling[g]
<1>1. /\ e \in LoopEvents /\ EventQueue' = Append(EventQueue, e)
      /\ calling' = [calling EXCEPT ![g] = None]
      /\ UNCHANGED <<eventQueue, eventSwapQueue, current, state>>
  BY DEF Send, SendAndReturn, own, event
<1>2. e \notin Queued \cup {current} /\ (e \in Events => state[e] = "initialize")
  BY <1>1 DEF HeldOnce, Fresh
<1>3. EventQueue \in Seq(LoopEvents) /\ IsInjective(EventQueue) /\ e \notin Range(EventQueue)
  BY <1>2 DEF TypeOK, DispatchTypeOK, HeldOnce, Queued
<1>4. Range(EventQueue') = Range(EventQueue) \cup {e} /\ IsInjective(EventQueue')
  BY <1>1, <1>3, AppendElements
<1>5. /\ calling'[g] = None /\ None \notin LoopEvents /\ None \notin Events
      /\ \A h \in Goroutines \ {g} : calling'[h] = calling[h] /\ calling[h] # e
  BY <1>1, ElementsAreEvents DEF TypeOK, HeldOnce
<1> HIDE DEF e
<1>6. Queued' = Queued \cup {e}
  BY <1>1, <1>4 DEF Queued
<1>7. \A h \in Goroutines :
        calling'[h] \in LoopEvents => calling'[h] \notin Queued' \cup {current'}
  BY <1>1, <1>5, <1>6 DEF HeldOnce
<1>8. \A h, k \in Goroutines : h # k /\ calling'[h] \in LoopEvents => calling'[h] # calling'[k]
  BY <1>5 DEF HeldOnce
<1>9. HeldOnce'
  BY <1>1, <1>2, <1>4, <1>6, <1>7, <1>8 DEF HeldOnce, Queued
<1>10. Fresh'
  BY <1>1, <1>2, <1>5, <1>6 DEF Fresh
<1> QED BY <1>1, <1>2, <1>6, <1>9, <1>10 DEF e

\* An event of another module that was nowhere goes into a call, or into the
\* channel.
LEMMA HeldOnceOther ==
  ASSUME TypeOK, HeldOnce, Fresh, NEW o \in Others,
         PostOther(o) \/ \E g \in Goroutines : CreateOther(g, o)
  PROVE  /\ HeldOnce' /\ Fresh' /\ UNCHANGED <<state, current, loop>>
         /\ \A e \in Events : e \in Queued' <=> e \in Queued
<1>1. /\ o \notin Queued \cup {current} /\ o \in LoopEvents /\ o \notin Events
      /\ \A g \in Goroutines : calling[g] # o
      /\ UNCHANGED <<eventQueue, eventSwapQueue, current, loop, state>>
  BY ZmqParameters
     DEF PostOther, Post, CreateOther, Call, Held, LoopEvents, own, event
<1>2. CASE PostOther(o)
  <2>1. /\ EventQueue \in Seq(LoopEvents) /\ IsInjective(EventQueue)
        /\ EventQueue' = Append(EventQueue, o) /\ o \notin Range(EventQueue)
        /\ UNCHANGED calling
    BY <1>1, <1>2 DEF PostOther, Post, TypeOK, DispatchTypeOK, HeldOnce, Queued
  <2>2. Range(EventQueue') = Range(EventQueue) \cup {o} /\ IsInjective(EventQueue')
    BY <1>1, <2>1, AppendElements
  <2>3. Queued' = Queued \cup {o}
    BY <1>1, <2>2 DEF Queued
  <2>4. \A h \in Goroutines :
          calling'[h] \in LoopEvents => calling'[h] \notin Queued' \cup {current'}
    BY <1>1, <2>1, <2>3 DEF HeldOnce
  <2>5. HeldOnce'
    BY <1>1, <2>1, <2>2, <2>3, <2>4 DEF HeldOnce, Queued
  <2>6. Fresh'
    BY <1>1, <2>1, <2>3 DEF Fresh
  <2> QED BY <1>1, <2>3, <2>5, <2>6
<1>3. ASSUME NEW g \in Goroutines, CreateOther(g, o)
      PROVE  HeldOnce' /\ Fresh' /\ UNCHANGED Queued
  <2>1. calling' = [calling EXCEPT ![g] = o] /\ UNCHANGED EventQueue
    BY <1>3 DEF CreateOther, Call
  <2>2. /\ UNCHANGED Queued
        /\ calling'[g] = o /\ \A h \in Goroutines \ {g} : calling'[h] = calling[h]
    BY <1>1, <2>1 DEF TypeOK, Queued
  <2>3. \A h \in Goroutines :
          calling'[h] \in LoopEvents => calling'[h] \notin Queued \cup {current}
    BY <1>1, <2>2 DEF HeldOnce
  <2>4. \A h, k \in Goroutines :
          h # k /\ calling'[h] \in LoopEvents => calling'[h] # calling'[k]
    BY <1>1, <2>2 DEF HeldOnce
  <2>5. HeldOnce'
    BY <1>1, <2>1, <2>2, <2>3, <2>4 DEF HeldOnce
  <2>6. Fresh'
    BY <1>1, <2>2 DEF Fresh
  <2> QED BY <2>2, <2>5, <2>6
<1> QED BY <1>1, <1>2, <1>3

\* process() moves events from queue to queue.
LEMMA HeldOnceLoop == ASSUME TypeOK, HeldOnce, LoopSteps PROVE HeldOnce'
<1>0. UNCHANGED <<current, calling>>
  BY DEF LoopSteps, LoopReceive, LoopTick, LoopSwap, LoopDone
<1>1. CASE LoopReceive
  <2> DEFINE e == Head(EventQueue)
  <2>1. /\ EventQueue \in Seq(LoopEvents) /\ EventQueue # << >> /\ eventQueue \in Seq(LoopEvents)
        /\ IsInjective(EventQueue) /\ IsInjective(eventQueue)
        /\ EventQueue' = Tail(EventQueue) /\ eventQueue' = Append(eventQueue, e)
        /\ UNCHANGED eventSwapQueue
    BY <1>1 DEF LoopReceive, TypeOK, DispatchTypeOK, HeldOnce
  <2>2. /\ e \in LoopEvents /\ Range(EventQueue) = {e} \cup Range(EventQueue')
        /\ IsInjective(EventQueue') /\ e \notin Range(EventQueue')
    BY <2>1, TailElements
  <2>3. e \notin Range(eventQueue)
    BY <2>2 DEF HeldOnce
  <2> HIDE DEF e
  <2>4. Range(eventQueue') = Range(eventQueue) \cup {e} /\ IsInjective(eventQueue')
    BY <2>1, <2>2, <2>3, AppendElements
  <2>5. Queued' = Queued
    BY <2>1, <2>2, <2>4 DEF Queued
  <2> QED BY <1>0, <2>1, <2>2, <2>4, <2>5 DEF HeldOnce
<1>2. CASE LoopTick
  <2>1. eventQueue \in Seq(LoopEvents) /\ IsInjective(eventQueue)
        /\ eventQueue' \in Sorted(eventQueue) /\ UNCHANGED <<EventQueue, eventSwapQueue>>
    BY <1>2 DEF LoopTick, TypeOK, DispatchTypeOK, HeldOnce
  <2>2. Range(eventQueue') = Range(eventQueue) /\ IsInjective(eventQueue')
    BY <2>1, SortedElements
  <2> QED BY <1>0, <2>1, <2>2 DEF HeldOnce, Queued
<1>3. CASE LoopDone
  BY <1>0, <1>3 DEF LoopDone, HeldOnce, Queued
<1>4. CASE LoopSwap
  <2>1. /\ eventQueue = << >> /\ eventQueue' = eventSwapQueue /\ eventSwapQueue' = << >>
        /\ UNCHANGED EventQueue
    BY <1>4 DEF LoopSwap
  <2>2. Range(<< >>) = {} /\ IsInjective(<< >>)
    BY DEF Range, IsInjective
  <2>3. Queued' = Queued
    BY <2>1, <2>2 DEF Queued
  <2> QED BY <1>0, <2>1, <2>2, <2>3 DEF HeldOnce
<1> QED BY <1>1, <1>2, <1>3, <1>4 DEF LoopSteps

\* process() takes the first event, and drops it when it is complete.
LEMMA PopEffect ==
  ASSUME TypeOK, Control, HeldOnce, Pop
  PROVE  /\ HeldOnce'
         /\ UNCHANGED <<state, calling>> /\ current = None /\ loop = "drain"
         /\ loop' \in {"update", "drain"}
         /\ \E e \in LoopEvents : /\ e \in Queued /\ Queued' = Queued \ {e}
                                  /\ current' = IF Valid(e) THEN e ELSE None
<1> DEFINE e == Head(eventQueue)
<1>1. /\ eventQueue \in Seq(LoopEvents) /\ eventQueue # << >> /\ IsInjective(eventQueue)
      /\ eventQueue' = Tail(eventQueue) /\ current = None /\ loop = "drain"
      /\ current' = (IF Valid(e) THEN e ELSE None)
      /\ loop' \in {"update", "drain"}
      /\ UNCHANGED <<EventQueue, eventSwapQueue, state, calling>>
  BY DEF Pop, LoopPop, TypeOK, DispatchTypeOK, Control, Updates, HeldOnce, own, event
<1>2. /\ e \in LoopEvents /\ Range(eventQueue) = {e} \cup Range(eventQueue')
      /\ IsInjective(eventQueue') /\ e \notin Range(eventQueue')
  BY <1>1, TailElements
<1> HIDE DEF e
<1>3. e \in Queued /\ Queued' = Queued \ {e}
  BY <1>1, <1>2 DEF Queued, HeldOnce
<1>4. None \notin LoopEvents /\ Queued \subseteq LoopEvents
  BY ElementsAreEvents
<1>5. \A g \in Goroutines : calling'[g] \in LoopEvents
                              => calling'[g] \notin Queued' \cup {current'}
  BY <1>1, <1>2, <1>3, <1>4 DEF HeldOnce
<1>6. current' \notin Queued'
  BY <1>1, <1>3, <1>4
<1>7. HeldOnce'
  BY <1>1, <1>2, <1>5, <1>6 DEF HeldOnce
<1> QED BY <1>1, <1>2, <1>3, <1>7

\* Update returns: the event goes to the swap queue or nowhere.
LEMMA FinishEffect ==
  ASSUME TypeOK, HeldOnce, current \in LoopEvents, NEW from, NEW keep \in BOOLEAN,
         Finish(from, keep)
  PROVE  /\ HeldOnce' /\ current' = None /\ loop' = "drain" /\ UNCHANGED calling
         /\ Queued' = IF keep THEN Queued \cup {current} ELSE Queued
<1>1. /\ eventSwapQueue \in Seq(LoopEvents) /\ IsInjective(eventSwapQueue)
      /\ current \notin Range(eventSwapQueue)
  BY DEF TypeOK, DispatchTypeOK, HeldOnce, Queued
<1>2. /\ Range(Append(eventSwapQueue, current)) = Range(eventSwapQueue) \cup {current}
      /\ IsInjective(Append(eventSwapQueue, current))
  BY <1>1, AppendElements
<1>3. /\ current' = None /\ loop' = "drain"
      /\ eventSwapQueue' = IF keep THEN Append(eventSwapQueue, current) ELSE eventSwapQueue
      /\ UNCHANGED <<EventQueue, eventQueue, calling>>
  BY DEF Finish
<1>4. Queued' = IF keep THEN Queued \cup {current} ELSE Queued
  BY <1>2, <1>3 DEF Queued
<1>5. None \notin LoopEvents /\ None \notin Queued'
  BY <1>4, ElementsAreEvents
<1>6. \A g \in Goroutines : calling'[g] \in LoopEvents
                              => calling'[g] \notin Queued' \cup {current'}
  BY <1>3, <1>4, <1>5 DEF HeldOnce
<1>7. IsInjective(eventSwapQueue')
  BY <1>1, <1>2, <1>3
<1>8. /\ Range(EventQueue') \cap Range(eventSwapQueue') = {}
      /\ Range(eventQueue') \cap Range(eventSwapQueue') = {}
  BY <1>2, <1>3 DEF HeldOnce, Queued
<1>9. HeldOnce'
  BY <1>3, <1>5, <1>6, <1>7, <1>8 DEF HeldOnce
<1> QED BY <1>3, <1>4, <1>9

\* The event of a failing function is in no queue any more.
LEMMA ErrorEffect ==
  ASSUME TypeOK, HeldOnce, LoopError
  PROVE  /\ HeldOnce' /\ Queued' = Queued /\ current' = None
         /\ loop = "callback" /\ loop' = "closed" /\ UNCHANGED calling
<1>1. /\ current' = None /\ loop = "callback" /\ loop' = "closed"
      /\ UNCHANGED <<EventQueue, eventQueue, eventSwapQueue, calling>>
  BY DEF LoopError, RunsLua
<1>2. Queued' = Queued /\ None \notin Queued /\ None \notin LoopEvents
  BY <1>1, ElementsAreEvents DEF Queued
<1> QED BY <1>1, <1>2 DEF HeldOnce

\* Where Update is, there is an event.
LEMMA UpdateCurrent ==
  ASSUME TypeOK, Control, Update \/ UpdateReturn
  PROVE  /\ current \in LoopEvents /\ loop \in Updates
         /\ UpdateStart \/ Continue => current \in Events
<1>1. loop \in Updates
  BY DEF Update, UpdateOther, UpdateLoad, UpdateStart, UpdateCall, UpdateEnd, Continue,
         UpdateReturn, RunsLua, Finish, Goto, Updates
<1>2. current \in LoopEvents
  BY <1>1 DEF Control, TypeOK, DispatchTypeOK
<1>3. UpdateStart \/ Continue => current \in Events
  BY DEF UpdateStart, Continue, Goto, Finish, Control
<1> QED BY <1>1, <1>2, <1>3

\* A step keeps an event fresh that makes no event, moves none into a queue that
\* was in none, and leaves the events in calls alone.
LEMMA FreshKept ==
  ASSUME Fresh,
         \A e \in Events : state'[e] = "new" => state[e] = "new",
         \A e \in Events : e \in Queued' \cup {current'} => e \in Queued \cup {current},
         \A g \in Goroutines : calling'[g] \in Events
                                 => calling'[g] = calling[g] /\ state'[calling[g]] = "initialize"
  PROVE  Fresh'
BY DEF Fresh

\* The first Update and the two ways of completing an event change its state.
LEMMA StateEffect ==
  ASSUME TypeOK, Control, FirstUpdate, HeldOnce, Fresh, NEW e \in Events,
         \/ \E g \in Goroutines : Stop(g, e)
         \/ Received(e)
         \/ UpdateStart /\ e = current
  PROVE  /\ \A d \in Events : state'[d] = "new" => state[d] = "new"
         /\ \A g \in Goroutines : calling[g] # e
         /\ \A d \in Events \ {e} : state'[d] = state[d]
         /\ UNCHANGED <<EventQueue, eventQueue, eventSwapQueue, current, calling>>
<1>1. CASE \E g \in Goroutines : Stop(g, e)
  <2>1. /\ state' = [state EXCEPT ![e] = "complete"] /\ e \notin Range(calling)
        /\ UNCHANGED dispatch
    BY <1>1 DEF Stop, Bound
  <2>2. \A g \in Goroutines : calling[g] # e
    BY <2>1 DEF TypeOK, Range
  <2> QED BY <2>1, <2>2 DEF TypeOK, dispatch
<1>2. CASE Received(e)
  <2>1. /\ state' = [state EXCEPT ![e] = "complete"] /\ worker[e] = "receiving"
        /\ UNCHANGED dispatch
    BY <1>2 DEF Received, RangeEnded
  <2>2. \A g \in Goroutines : calling[g] # e
    BY <2>1 DEF FirstUpdate, Fresh
  <2> QED BY <2>1, <2>2 DEF TypeOK, dispatch
<1>3. CASE UpdateStart /\ e = current
  <2>1. /\ state' = [state EXCEPT ![e] = "progress"]
        /\ UNCHANGED <<EventQueue, eventQueue, eventSwapQueue, current, calling>>
    BY <1>3 DEF UpdateStart, Goto
  <2>2. \A g \in Goroutines : calling[g] # e
    BY <1>3 DEF HeldOnce, LoopEvents
  <2> QED BY <2>1, <2>2 DEF TypeOK
<1> QED BY <1>1, <1>2, <1>3

\* The steps that leave the state of every event and the queues alone.
Calm == \/ \E g \in Goroutines, e \in Events : SendPacket(g, e) \/ Reply(g, e) \/ Sent(g, e)
        \/ \E e \in Events : Arrive(e) \/ Transmit(e) \/ CloseRecv(e) \/ Take(e) \/ Enqueue(e)
        \/ UpdateOther \/ UpdateLoad \/ UpdateCall \/ UpdateEnd
        \/ UpdateReturn /\ Goto("callback", "packets")
        \/ HostSteps /\ UNCHANGED own
        \/ UNCHANGED vars

LEMMA CalmEffect ==
  ASSUME TypeOK, Calm
  PROVE  /\ UNCHANGED <<EventQueue, eventQueue, eventSwapQueue, current, state>>
         /\ \A g \in Goroutines : calling'[g] \in LoopEvents => calling'[g] = calling[g]
<1>1. ASSUME UNCHANGED <<EventQueue, eventQueue, eventSwapQueue, current, calling, state>>
      PROVE  /\ UNCHANGED <<EventQueue, eventQueue, eventSwapQueue, current, state>>
             /\ \A g \in Goroutines : calling'[g] \in LoopEvents => calling'[g] = calling[g]
  BY <1>1
<1>2. ASSUME NEW g \in Goroutines, NEW e \in Events, SendPacket(g, e)
      PROVE  /\ UNCHANGED <<EventQueue, eventQueue, eventSwapQueue, current, state>>
             /\ \A h \in Goroutines : calling'[h] \in LoopEvents => calling'[h] = calling[h]
  <2>1. /\ calling' = [calling EXCEPT ![g] = Sending(e)]
        /\ UNCHANGED <<EventQueue, eventQueue, eventSwapQueue, current, state>>
    BY <1>2 DEF SendPacket, Call, own, event
  <2>2. Sending(e) \notin LoopEvents
    BY ZmqParameters DEF Sending
  <2> QED BY <2>1, <2>2 DEF TypeOK
<1>3. ASSUME NEW g \in Goroutines, NEW e \in Events, Sent(g, e)
      PROVE  /\ UNCHANGED <<EventQueue, eventQueue, eventSwapQueue, current, state>>
             /\ \A h \in Goroutines : calling'[h] \in LoopEvents => calling'[h] = calling[h]
  <2>1. /\ calling' = [calling EXCEPT ![g] = None]
        /\ UNCHANGED <<EventQueue, eventQueue, eventSwapQueue, current, state>>
    BY <1>3 DEF Sent, Return, event
  <2>2. None \notin LoopEvents
    BY ElementsAreEvents
  <2> QED BY <2>1, <2>2 DEF TypeOK
<1>4. ASSUME NEW e \in Events, Arrive(e) \/ Transmit(e) \/ CloseRecv(e) \/ Take(e) \/ Enqueue(e)
      PROVE  UNCHANGED <<EventQueue, eventQueue, eventSwapQueue, current, calling, state>>
  BY <1>4 DEF Arrive, Transmit, CloseRecv, Take, Enqueue, dispatch, event
<1>5. ASSUME UpdateOther \/ UpdateLoad \/ UpdateCall \/ UpdateEnd \/ (UpdateReturn /\ Goto("callback", "packets"))
             \/ (HostSteps /\ UNCHANGED own) \/ UNCHANGED vars
      PROVE  UNCHANGED <<EventQueue, eventQueue, eventSwapQueue, current, calling, state>>
  BY <1>5 DEF UpdateOther, UpdateLoad, UpdateCall, UpdateEnd, UpdateReturn, Goto, HostSteps, MainReturn,
              Shutdown, vars, own, dispatch, event
<1> QED BY <1>1, <1>2, <1>3, <1>4, <1>5 DEF Calm, Reply

\* An event of another module is made, or its Update returns.
OtherStep == \/ \E o \in Others : PostOther(o) \/ \E g \in Goroutines : CreateOther(g, o)
             \/ /\ UpdateReturn /\ current \in Others
                /\ \E again \in BOOLEAN : Finish("callback", again)

\* Every step is calm, or of another module, or one of the nine that are not.
LEMMA Steps ==
  ASSUME [Next]_vars
  PROVE  \/ Calm
         \/ \E g \in Goroutines : Send(g) \/ \E e \in Events : Create(g, e) \/ Stop(g, e)
         \/ \E e \in Events : Received(e)
         \/ Pop \/ UpdateStart \/ Continue
         \/ UpdateReturn /\ LoopError
         \/ LoopSteps /\ UNCHANGED own
         \/ OtherStep
BY DEF Next, Lua, Receiver, Update, UpdateReturn, Calm, OtherStep

\* What the others do leaves the events of this module where they are.
LEMMA OtherEffect ==
  ASSUME TypeOK, Control, HeldOnce, Fresh, OtherStep
  PROVE  /\ HeldOnce' /\ Fresh' /\ UNCHANGED state
         /\ (loop # "start" /\ loop' # "start") \/ UNCHANGED <<loop, current>>
         /\ loop' = "closed" <=> loop = "closed"
         /\ \A e \in Events : /\ e \in Queued' <=> e \in Queued
                              /\ e = current' <=> e = current
<1>1. ASSUME NEW o \in Others, PostOther(o) \/ \E g \in Goroutines : CreateOther(g, o)
      PROVE  /\ HeldOnce' /\ Fresh' /\ UNCHANGED <<state, loop, current>>
             /\ \A e \in Events : e \in Queued' <=> e \in Queued
  BY <1>1, HeldOnceOther
<1>2. ASSUME UpdateReturn, current \in Others, NEW again \in BOOLEAN,
             Finish("callback", again)
      PROVE  /\ HeldOnce' /\ Fresh' /\ UNCHANGED state
             /\ loop = "callback" /\ loop' = "drain"
             /\ \A e \in Events : /\ e \in Queued' <=> e \in Queued
                                  /\ e = current' <=> e = current
  <2>1. /\ current \in LoopEvents /\ current \notin Events
        /\ None \notin Events /\ loop = "callback"
    BY <1>2, ElementsAreEvents, ZmqParameters DEF LoopEvents, Finish
  <2>2. /\ HeldOnce' /\ current' = None /\ loop' = "drain" /\ UNCHANGED calling
        /\ Queued' = IF again THEN Queued \cup {current} ELSE Queued
    BY <1>2, <2>1, FinishEffect
  <2>3. UNCHANGED state
    BY <1>2 DEF UpdateReturn, own, event
  <2>4. \A e \in Events : /\ e \in Queued' <=> e \in Queued
                          /\ e = current' <=> e = current
    BY <2>1, <2>2
  <2>5. Fresh'
    BY <2>2, <2>3, <2>4 DEF Fresh
  <2> QED BY <2>1, <2>2, <2>3, <2>4, <2>5
<1>3. CASE \E o \in Others : PostOther(o) \/ \E g \in Goroutines : CreateOther(g, o)
  BY <1>1, <1>3
<1>4. CASE /\ UpdateReturn /\ current \in Others
           /\ \E again \in BOOLEAN : Finish("callback", again)
  BY <1>2, <1>4
<1> QED BY <1>3, <1>4 DEF OtherStep

LEMMA HeldOnceStep ==
  TypeOK /\ Control /\ FirstUpdate /\ HeldOnce /\ Fresh /\ [Next]_vars => HeldOnce' /\ Fresh'
<1> SUFFICES ASSUME TypeOK, Control, FirstUpdate, HeldOnce, Fresh, [Next]_vars
             PROVE  HeldOnce' /\ Fresh'
  OBVIOUS
<1>1. ASSUME UNCHANGED <<EventQueue, eventQueue, eventSwapQueue, current>>,
             \A g \in Goroutines : calling'[g] \in LoopEvents => calling'[g] = calling[g]
      PROVE  HeldOnce'
  <2>1. \A g, h \in Goroutines : g # h /\ calling'[g] \in LoopEvents => calling'[g] # calling'[h]
    BY <1>1 DEF HeldOnce
  <2> QED BY <1>1, <2>1 DEF HeldOnce, Queued
<1>2. ASSUME UNCHANGED state,
             \A e \in Events : e \in Queued' \cup {current'} => e \in Queued \cup {current},
             \A g \in Goroutines : calling'[g] \in LoopEvents => calling'[g] = calling[g]
      PROVE  Fresh'
  <2>1. \A g \in Goroutines : calling'[g] \in Events
                                => calling'[g] = calling[g] /\ state'[calling[g]] = "initialize"
    BY <1>2 DEF Fresh, LoopEvents
  <2> QED BY <1>2, <2>1, FreshKept
<1>3. CASE Calm
  <2>1. /\ UNCHANGED <<EventQueue, eventQueue, eventSwapQueue, current, state, Queued>>
        /\ \A g \in Goroutines : calling'[g] \in LoopEvents => calling'[g] = calling[g]
    BY <1>3, CalmEffect DEF Queued
  <2> QED BY <1>1, <1>2, <2>1
<1>4. ASSUME NEW e \in Events,
             \/ \E g \in Goroutines : Stop(g, e)
             \/ Received(e)
             \/ UpdateStart /\ e = current
      PROVE  HeldOnce' /\ Fresh'
  <2>1. /\ \A d \in Events : state'[d] = "new" => state[d] = "new"
        /\ \A g \in Goroutines : calling[g] # e
        /\ \A d \in Events \ {e} : state'[d] = state[d]
        /\ UNCHANGED <<EventQueue, eventQueue, eventSwapQueue, current, calling>>
    BY <1>4, StateEffect
  <2>2. UNCHANGED Queued
    BY <2>1 DEF Queued
  <2>3. \A g \in Goroutines : calling'[g] \in Events
                                => calling'[g] = calling[g] /\ state'[calling[g]] = "initialize"
    BY <2>1 DEF Fresh
  <2>4. Fresh'
    BY <2>1, <2>2, <2>3, FreshKept
  <2> QED BY <1>1, <2>1, <2>4
<1>5. CASE Pop
  <2>1. UNCHANGED <<state, calling>> /\ HeldOnce'
    BY <1>5, PopEffect
  <2>2. PICK e \in LoopEvents : /\ e \in Queued /\ Queued' = Queued \ {e}
                                /\ current' = IF Valid(e) THEN e ELSE None
    BY <1>5, PopEffect
  <2>3. None \notin Events
    BY ElementsAreEvents
  <2> QED BY <1>2, <2>1, <2>2, <2>3
<1>6. CASE Continue
  <2>1. /\ current \in LoopEvents /\ UNCHANGED state
        /\ Finish("continue", state[current] # "complete")
        /\ (state[current] # "complete") \in BOOLEAN
    BY <1>6, UpdateCurrent DEF Update, Continue, own, event
  <2>2. /\ HeldOnce' /\ current' = None /\ UNCHANGED calling
        /\ Queued' \subseteq Queued \cup {current}
    BY <2>1, FinishEffect
  <2>3. None \notin Events
    BY ElementsAreEvents
  <2> QED BY <1>2, <2>1, <2>2, <2>3
<1>7. CASE UpdateReturn /\ LoopError
  <2>1. HeldOnce' /\ Queued' = Queued /\ current' = None /\ UNCHANGED <<calling, state>>
    BY <1>7, ErrorEffect DEF UpdateReturn, own, event
  <2>2. None \notin Events
    BY ElementsAreEvents
  <2> QED BY <1>2, <2>1, <2>2
<1>8. CASE LoopSteps /\ UNCHANGED own
  <2>1. HeldOnce' /\ Queued' = Queued /\ UNCHANGED <<calling, current, state>>
    BY <1>8, HeldOnceLoop, QueuedKept
       DEF LoopSteps, LoopReceive, LoopTick, LoopSwap, LoopDone, own, event
  <2> QED BY <1>2, <2>1
<1>9. CASE UpdateStart
  <2>1. current \in Events
    BY <1>9, UpdateCurrent DEF Update
  <2> QED BY <1>4, <1>9, <2>1
<1>10. ASSUME NEW g \in Goroutines, Send(g) PROVE HeldOnce' /\ Fresh'
  BY <1>10, HeldOnceSend
<1>11. ASSUME NEW g \in Goroutines, NEW e \in Events, Create(g, e) PROVE HeldOnce' /\ Fresh'
  BY <1>11, HeldOnceCreate
<1>12. CASE OtherStep
  BY <1>12, OtherEffect
<1> QED BY <1>3, <1>4, <1>5, <1>6, <1>7, <1>8, <1>9, <1>10, <1>11, <1>12, Steps

\* Nothing but the call that makes it puts an event into the loop.
LEMMA HeldKept ==
  ASSUME TypeOK, Control, FirstUpdate, HeldOnce, Fresh, [Next]_vars,
         NEW e \in Events, e \in Held'
  PROVE  e \in Held \/ state[e] = "new"
<1>0. None \notin Events /\ Events \subseteq LoopEvents
  BY ElementsAreEvents
<1>1. ASSUME e \in Queued' \cup {current'} => e \in Held,
             \A g \in Goroutines : calling'[g] = e => calling'[g] = calling[g]
      PROVE  e \in Held
  BY <1>1 DEF Held
<1>2. CASE Calm
  <2>1. /\ UNCHANGED <<Queued, current>>
        /\ \A g \in Goroutines : calling'[g] \in LoopEvents => calling'[g] = calling[g]
    BY <1>2, CalmEffect DEF Queued
  <2> QED BY <1>0, <1>1, <2>1 DEF Held
<1>3. ASSUME NEW g \in Goroutines, Send(g) PROVE e \in Held
  <2>1. Queued' = Queued \cup {calling[g]} /\ UNCHANGED current
    BY <1>3, HeldOnceSend DEF Send, SendAndReturn
  <2>2. calling' = [calling EXCEPT ![g] = None]
    BY <1>3 DEF Send, SendAndReturn
  <2>3. \A h \in Goroutines : calling'[h] = e => calling'[h] = calling[h]
    BY <1>0, <2>2 DEF TypeOK
  <2> QED BY <1>1, <2>1, <2>3 DEF Held
<1>4. ASSUME NEW g \in Goroutines, NEW d \in Events, Create(g, d)
      PROVE  e \in Held \/ state[e] = "new"
  <2>1. /\ calling' = [calling EXCEPT ![g] = d] /\ state[d] = "new"
        /\ UNCHANGED <<Queued, current>>
    BY <1>4 DEF Create, Call, Queued
  <2>2. CASE d # e
    <3>1. \A h \in Goroutines : calling'[h] = e => calling'[h] = calling[h]
      BY <2>1, <2>2 DEF TypeOK
    <3> QED BY <1>1, <2>1, <3>1 DEF Held
  <2> QED BY <2>1, <2>2
<1>5. ASSUME NEW d \in Events,
             \/ \E g \in Goroutines : Stop(g, d)
             \/ Received(d)
             \/ UpdateStart /\ d = current
      PROVE  e \in Held
  <2>1. UNCHANGED <<EventQueue, eventQueue, eventSwapQueue, current, calling>>
    BY <1>5, StateEffect
  <2> QED BY <1>1, <2>1 DEF Held, Queued
<1>6. CASE Pop
  <2>1. UNCHANGED calling
    BY <1>6, PopEffect
  <2>2. \E d \in LoopEvents : /\ d \in Queued /\ Queued' = Queued \ {d}
                              /\ current' = IF Valid(d) THEN d ELSE None
    BY <1>6, PopEffect
  <2> QED BY <1>0, <1>1, <2>1, <2>2 DEF Held
<1>7. CASE Continue
  <2>1. /\ current \in LoopEvents
        /\ Finish("continue", state[current] # "complete")
        /\ (state[current] # "complete") \in BOOLEAN
    BY <1>7, UpdateCurrent DEF Update, Continue
  <2>2. current' = None /\ UNCHANGED calling /\ Queued' \subseteq Queued \cup {current}
    BY <2>1, FinishEffect
  <2> QED BY <1>0, <1>1, <2>2 DEF Held
<1>8. CASE UpdateReturn /\ LoopError
  BY <1>0, <1>1, <1>8, ErrorEffect DEF Held
<1>9. CASE LoopSteps /\ UNCHANGED own
  <2>1. Queued' = Queued /\ UNCHANGED <<calling, current>>
    BY <1>9, QueuedKept DEF LoopSteps, LoopReceive, LoopTick, LoopSwap, LoopDone
  <2> QED BY <1>1, <2>1 DEF Held
<1>10. CASE OtherStep
  <2>1. e \in Queued' \cup {current'} => e \in Held
    BY <1>10, OtherEffect DEF Held
  <2>2. \A g \in Goroutines : calling'[g] = e => calling'[g] = calling[g]
    <3>1. ASSUME NEW g \in Goroutines, NEW o \in Others, calling' = [calling EXCEPT ![g] = o]
          PROVE  \A h \in Goroutines : calling'[h] = e => calling'[h] = calling[h]
      BY <3>1, ZmqParameters DEF TypeOK
    <3> QED BY <1>10, <3>1 DEF OtherStep, PostOther, Post, CreateOther, Call, Finish
  <2> QED BY <1>1, <2>1, <2>2
<1>11. CASE UpdateStart
  <2>1. current \in Events
    BY <1>11, UpdateCurrent DEF Update
  <2> QED BY <1>5, <1>11, <2>1
<1> QED BY <1>2, <1>3, <1>4, <1>5, <1>6, <1>7, <1>8, <1>9, <1>10, <1>11, Steps

Out(e) == state[e] = "complete" /\ e \notin Held
StaysOut == \A e \in stopped : Out(e) => Out(e)'

\* A stopped event that is complete and out of the loop stays both: neither the
\* goroutine that receives its packets nor any callback brings it back
\* (module_zmq.go:207). StopCompletes says that it gets there.
THEOREM StoppedForGood == Spec => [][StaysOut]_vars
<1>1. TypeOK /\ Control /\ FirstUpdate /\ HeldOnce /\ Fresh /\ Waits /\ [Next]_vars
        => StaysOut
  <2> SUFFICES ASSUME TypeOK, Control, FirstUpdate, HeldOnce, Fresh, Waits, [Next]_vars,
                      NEW e \in stopped, state[e] = "complete", e \notin Held
               PROVE  state'[e] = "complete" /\ e \notin Held'
    BY DEF StaysOut, Out
  <2>1. e \in Events /\ e # current
    BY DEF TypeOK, Held
  <2>2. state'[e] = "complete"
    BY <2>1, StoppedKept
  <2>3. state[e] # "new"
    OBVIOUS
  <2> QED BY <2>1, <2>2, <2>3, HeldKept
<1> QED BY <1>1, TypeCorrect, HeldOnceInit, HeldOnceStep, WaitsInvariant, PTL DEF Spec

\* What the life cycle is about: events that wait or run.
Alive == Events \cap (Queued \cup {current})

\* Nothing changes for the life cycle when the same events wait and run, and
\* the same of them are cancelled.
LEMMA Stutters ==
  ASSUME \A e \in Events : /\ e \in Queued' <=> e \in Queued
                           /\ e = current' <=> e = current,
         loop' = "closed" <=> loop = "closed",
         \A e \in Alive : Cancelled(e)' <=> Cancelled(e)
  PROVE  UNCHANGED Lifecycle!vars
<1>1. [e \in Events |-> Stage(e)]' = [e \in Events |-> Stage(e)]
  BY DEF Stage
<1>2. {e \in Alive : Cancelled(e)}' = {e \in Alive : Cancelled(e)}
  BY DEF Alive
<1> QED BY <1>1, <1>2 DEF Lifecycle!vars, Alive

\* The channel takes an event.
LEMMA Accepts ==
  ASSUME NEW e \in Events, e \notin Queued, e # current,
         Queued' = Queued \cup {e}, current' = current, loop' = loop,
         ~Cancelled(e)', \A d \in Alive : Cancelled(d)' <=> Cancelled(d)
  PROVE  Lifecycle!Accept(e)
<1>1. Stage(e) = "idle" /\ Stage(e)' = "pending"
  BY DEF Stage
<1>2. \A d \in Events \ {e} : Stage(d)' = Stage(d)
  BY DEF Stage
<1>3. [d \in Events |-> Stage(d)]' = [[d \in Events |-> Stage(d)] EXCEPT ![e] = "pending"]
  BY <1>1, <1>2
<1>4. {d \in Alive : Cancelled(d)}' = {d \in Alive : Cancelled(d)}
  <2>1. Alive' = Alive \cup {e}
    BY DEF Alive
  <2> QED BY <2>1
<1> QED BY <1>1, <1>3, <1>4 DEF Lifecycle!Accept, Alive

\* stop() of an event that waits or runs, and the end of its range.
LEMMA Cancels ==
  ASSUME NEW e \in Events, e \in Alive, Queued' = Queued, current' = current, loop' = loop,
         Cancelled(e)', \A d \in Alive \ {e} : Cancelled(d)' <=> Cancelled(d)
  PROVE  Lifecycle!Cancel(e)
<1>1. Stage(e) # "idle"
  BY DEF Stage, Alive
<1>2. [d \in Events |-> Stage(d)]' = [d \in Events |-> Stage(d)]
  BY DEF Stage
<1>3. {d \in Alive : Cancelled(d)}' = {d \in Alive : Cancelled(d)} \cup {e}
  <2>1. Alive' = Alive
    BY DEF Alive
  <2> QED BY <2>1
<1> QED BY <1>1, <1>2, <1>3 DEF Lifecycle!Cancel, Alive

\* process() pops an event: Update begins, or the event is dropped.
LEMMA Pops ==
  ASSUME NEW e \in Events, e \in Queued, Queued' = Queued \ {e}, current = None,
         None \notin Events, current' = IF Cancelled(e) THEN None ELSE e,
         loop # "closed", loop' # "closed", \A d \in Alive : Cancelled(d)' <=> Cancelled(d)
  PROVE  Lifecycle!Begin(e) \/ Lifecycle!Discard(e)
<1>1. Stage(e) = "pending" /\ \A d \in Events : Stage(d) # "running"
  BY DEF Stage
<1>2. \A d \in Events \ {e} : Stage(d)' = Stage(d)
  BY DEF Stage
<1>3. CASE ~Cancelled(e)
  <2>1. Stage(e)' = "running"
    BY <1>3 DEF Stage
  <2>2. [d \in Events |-> Stage(d)]' = [[d \in Events |-> Stage(d)] EXCEPT ![e] = "running"]
    BY <1>2, <2>1
  <2>3. Alive' = Alive
    BY <1>3 DEF Alive
  <2>4. {d \in Alive : Cancelled(d)}' = {d \in Alive : Cancelled(d)}
    BY <2>3
  <2>5. Lifecycle!Begin(e)
    BY <1>1, <1>3, <2>2, <2>4 DEF Lifecycle!Begin, Alive
  <2> QED BY <2>5
<1>4. CASE Cancelled(e)
  <2>1. Stage(e)' = "idle"
    BY <1>4 DEF Stage
  <2>2. [d \in Events |-> Stage(d)]' = [[d \in Events |-> Stage(d)] EXCEPT ![e] = "idle"]
    BY <1>2, <2>1
  <2>3. Alive' = Alive \ {e}
    BY <1>4 DEF Alive
  <2>4. {d \in Alive : Cancelled(d)}' = {d \in Alive : Cancelled(d)} \ {e}
    BY <2>3
  <2>5. Lifecycle!Discard(e)
    BY <1>1, <1>4, <2>2, <2>4 DEF Lifecycle!Discard, Alive
  <2> QED BY <2>5
<1> QED BY <1>3, <1>4

\* Update returned, and the event stays.
LEMMA Requeues ==
  ASSUME NEW e \in Events, e = current, e \notin Queued, None \notin Events,
         Queued' = Queued \cup {e}, current' = None, loop # "closed", loop' # "closed",
         ~Cancelled(e), \A d \in Alive : Cancelled(d)' <=> Cancelled(d)
  PROVE  Lifecycle!Requeue(e)
<1>1. Stage(e) = "running" /\ Stage(e)' = "pending"
  BY DEF Stage
<1>2. \A d \in Events \ {e} : Stage(d)' = Stage(d)
  BY DEF Stage
<1>3. [d \in Events |-> Stage(d)]' = [[d \in Events |-> Stage(d)] EXCEPT ![e] = "pending"]
  BY <1>1, <1>2
<1>4. Alive' = Alive
  BY DEF Alive
<1>5. {d \in Alive : Cancelled(d)}' = {d \in Alive : Cancelled(d)}
  BY <1>4
<1> QED BY <1>1, <1>3, <1>5 DEF Lifecycle!Requeue, Alive

\* Update returned, and the event is done with.
LEMMA Retires ==
  ASSUME NEW e \in Events, e = current, e \notin Queued, None \notin Events,
         Queued' = Queued, current' = None, loop # "closed", loop' # "closed",
         \A d \in Events \cap Queued : Cancelled(d)' <=> Cancelled(d)
  PROVE  Lifecycle!Retire(e)
<1>1. Stage(e) = "running" /\ Stage(e)' = "idle"
  BY DEF Stage
<1>2. \A d \in Events \ {e} : Stage(d)' = Stage(d)
  BY DEF Stage
<1>3. [d \in Events |-> Stage(d)]' = [[d \in Events |-> Stage(d)] EXCEPT ![e] = "idle"]
  BY <1>1, <1>2
<1>4. Alive = (Events \cap Queued) \cup {e} /\ Alive' = Events \cap Queued
  BY DEF Alive
<1>5. {d \in Alive : Cancelled(d)}' = {d \in Alive : Cancelled(d)} \ {e}
  BY <1>4
<1> QED BY <1>1, <1>3, <1>5 DEF Lifecycle!Retire, Alive

\* process() leaves its loop, with the event whose function failed if there is one.
LEMMA Closes ==
  ASSUME Queued' = Queued, current' = None, None \notin Events,
         current \notin Queued, loop # "closed", loop' = "closed",
         \A d \in Events \cap Queued : Cancelled(d)' <=> Cancelled(d)
  PROVE  Lifecycle!Close
<1>1. \A e \in Events : Stage(e)' = IF Stage(e) = "running" THEN "idle" ELSE Stage(e)
  BY DEF Stage
<1>2. [e \in Events |-> Stage(e)]'
        = [e \in Events |-> IF [d \in Events |-> Stage(d)][e] = "running"
                            THEN "idle" ELSE [d \in Events |-> Stage(d)][e]]
  BY <1>1
<1>3. {e \in Events : [d \in Events |-> Stage(d)][e] = "running"} = Events \cap {current}
  BY DEF Stage
<1>4. {e \in Alive : Cancelled(e)}' = {e \in Alive : Cancelled(e)} \ (Events \cap {current})
  <2>1. Alive' = Events \cap Queued
    BY DEF Alive
  <2> QED BY <2>1 DEF Alive
<1> QED BY <1>2, <1>3, <1>4 DEF Lifecycle!Close, Alive

\* A calm step cancels nothing, and leaves nothing cancelled: the first Update
\* overwrites the state of an event only after it has read it as "initialize".
LEMMA CalmCancels ==
  ASSUME TypeOK, Control, Calm
  PROVE  /\ UNCHANGED <<Queued, current>> /\ (loop' = "closed" <=> loop = "closed")
         /\ \A e \in Events : Cancelled(e)' <=> Cancelled(e)
<1>1. UNCHANGED <<Queued, current, state>>
  BY CalmEffect DEF Queued
<1>2. CASE UpdateLoad
  <2>1. /\ loop = "update" /\ loop' \in {"start", "packets", "continue"}
        /\ loop' = "start" => state[current] = "initialize"
    BY <1>2 DEF UpdateLoad, Goto
  <2> QED BY <1>1, <2>1 DEF Cancelled, Overwrites
<1>3. CASE UpdateOther \/ UpdateCall \/ UpdateEnd \/ (UpdateReturn /\ Goto("callback", "packets"))
  <2>1. /\ loop \in {"update", "packets", "callback"}
        /\ loop' \in {"packets", "callback", "continue"}
    BY <1>3 DEF UpdateOther, UpdateCall, UpdateEnd, Goto
  <2> QED BY <1>1, <2>1 DEF Cancelled, Overwrites
<1>4. ASSUME UNCHANGED loop
      PROVE  \A e \in Events : Cancelled(e)' <=> Cancelled(e)
  BY <1>1, <1>4 DEF Cancelled, Overwrites
<1>5. ASSUME NEW g \in Goroutines, NEW e \in Events,
             SendPacket(g, e) \/ Reply(g, e) \/ Sent(g, e)
      PROVE  UNCHANGED loop
  BY <1>5 DEF SendPacket, Reply, Sent, Call, Return
<1>6. ASSUME NEW e \in Events, Arrive(e) \/ Transmit(e) \/ CloseRecv(e) \/ Take(e) \/ Enqueue(e)
      PROVE  UNCHANGED loop
  BY <1>6 DEF Arrive, Transmit, CloseRecv, Take, Enqueue, dispatch
<1>7. ASSUME (HostSteps /\ UNCHANGED own) \/ UNCHANGED vars PROVE UNCHANGED loop
  BY <1>7 DEF HostSteps, MainReturn, Shutdown, vars, dispatch
<1> QED BY <1>1, <1>2, <1>3, <1>4, <1>5, <1>6, <1>7 DEF Calm

LEMMA LifecycleStep ==
  TypeOK /\ Control /\ FirstUpdate /\ HeldOnce /\ Fresh /\ [Next]_vars
    => [Lifecycle!Next]_(Lifecycle!vars)
<1> SUFFICES ASSUME TypeOK, Control, FirstUpdate, HeldOnce, Fresh, [Next]_vars
             PROVE  Lifecycle!Next \/ UNCHANGED Lifecycle!vars
  OBVIOUS
<1>0. None \notin Events /\ Alive \subseteq Events /\ current \notin Queued
  BY ElementsAreEvents DEF Alive, HeldOnce
<1>1. ASSUME UNCHANGED state, loop # "start", loop' # "start"
      PROVE  \A e \in Events : Cancelled(e)' <=> Cancelled(e)
  BY <1>1 DEF Cancelled, Overwrites
<1>2. CASE Calm
  <2>1. /\ Queued' = Queued /\ current' = current /\ (loop' = "closed" <=> loop = "closed")
        /\ \A e \in Alive : Cancelled(e)' <=> Cancelled(e)
    BY <1>0, <1>2, CalmCancels
  <2> QED BY <2>1, Stutters
<1>3. ASSUME NEW g \in Goroutines, NEW e \in Events, Create(g, e)
      PROVE  UNCHANGED Lifecycle!vars
  <2>1. /\ UNCHANGED <<EventQueue, eventQueue, eventSwapQueue, current, loop>>
        /\ state[e] = "new" /\ state' = [state EXCEPT ![e] = "initialize"]
    BY <1>3 DEF Create, Call
  <2>2. state'[e] = "initialize" /\ \A d \in Events \ {e} : state'[d] = state[d]
    BY <2>1 DEF TypeOK
  <2>3. \A d \in Events : Cancelled(d)' <=> Cancelled(d)
    BY <2>1, <2>2 DEF Cancelled, Overwrites
  <2>4. Queued' = Queued
    BY <2>1 DEF Queued
  <2> QED BY <1>0, <2>1, <2>3, <2>4, Stutters
<1>4. ASSUME NEW g \in Goroutines, Send(g)
      PROVE  Lifecycle!Next \/ UNCHANGED Lifecycle!vars
  <2>1. PICK e \in LoopEvents : e = calling[g]
    BY <1>4, HeldOnceSend
  <2>2. /\ e \notin Queued /\ e # current /\ Queued' = Queued \cup {e}
        /\ e \in Events => state[e] = "initialize"
    BY <1>4, <2>1, HeldOnceSend
  <2>3. current' = current /\ loop' = loop /\ state' = state
    BY <1>4 DEF Send, SendAndReturn, own, event
  <2>4. \A d \in Alive : Cancelled(d)' <=> Cancelled(d)
    BY <2>3 DEF Cancelled, Overwrites
  <2>5. CASE e \in Events
    <3>1. ~Cancelled(e)'
      BY <2>2, <2>3, <2>5 DEF Cancelled
    <3>2. Lifecycle!Accept(e)
      BY <2>2, <2>3, <2>4, <2>5, <3>1, Accepts
    <3> QED BY <2>5, <3>2 DEF Lifecycle!Next
  <2>6. CASE e \notin Events
    BY <2>2, <2>3, <2>4, <2>6, Stutters
  <2> QED BY <2>5, <2>6
<1>5. ASSUME NEW e \in Events, (\E g \in Goroutines : Stop(g, e)) \/ Received(e)
      PROVE  Lifecycle!Next \/ UNCHANGED Lifecycle!vars
  <2>1. /\ state'[e] = "complete" /\ \A d \in Events \ {e} : state'[d] = state[d]
        /\ UNCHANGED <<EventQueue, eventQueue, eventSwapQueue, current, loop>>
    <3>1. state' = [state EXCEPT ![e] = "complete"] /\ UNCHANGED dispatch
      BY <1>5 DEF Stop, Received, RangeEnded
    <3> QED BY <3>1 DEF TypeOK, dispatch
  <2>2. Queued' = Queued
    BY <2>1 DEF Queued
  <2>3. \A d \in Events \ {e} : Cancelled(d)' <=> Cancelled(d)
    BY <2>1 DEF Cancelled, Overwrites
  <2>4. CASE e \in Alive /\ ~Overwrites(e)
    <3>1. Cancelled(e)'
      BY <2>1, <2>4 DEF Cancelled, Overwrites
    <3>2. \A d \in Alive \ {e} : Cancelled(d)' <=> Cancelled(d)
      BY <1>0, <2>3
    <3>3. Lifecycle!Cancel(e)
      BY <2>1, <2>2, <2>4, <3>1, <3>2, Cancels
    <3> QED BY <3>3 DEF Lifecycle!Next
  <2>5. CASE e \notin Alive \/ Overwrites(e)
    <3>1. Overwrites(e) => ~Cancelled(e) /\ ~Cancelled(e)'
      BY <2>1 DEF Cancelled, Overwrites
    <3>2. \A d \in Alive : Cancelled(d)' <=> Cancelled(d)
      BY <1>0, <2>3, <2>5, <3>1
    <3> QED BY <2>1, <2>2, <3>2, Stutters
  <2> QED BY <2>4, <2>5
<1>6. CASE Pop
  <2>1. PICK e \in LoopEvents : /\ e \in Queued /\ Queued' = Queued \ {e}
                                /\ current' = IF Valid(e) THEN e ELSE None
    BY <1>6, PopEffect
  <2>2. UNCHANGED state /\ current = None /\ loop = "drain" /\ loop' \in {"update", "drain"}
    BY <1>6, PopEffect
  <2>3. \A d \in Alive : Cancelled(d)' <=> Cancelled(d)
    BY <1>0, <1>1, <2>2
  <2>4. CASE e \in Events
    <3>1. current' = IF Cancelled(e) THEN None ELSE e
      BY <2>1, <2>2, <2>4 DEF Cancelled, Overwrites, Valid
    <3>2. Lifecycle!Begin(e) \/ Lifecycle!Discard(e)
      BY <1>0, <2>1, <2>2, <2>3, <2>4, <3>1, Pops
    <3> QED BY <2>4, <3>2 DEF Lifecycle!Next
  <2>5. CASE e \notin Events
    <3>1. \A d \in Events : /\ d \in Queued' <=> d \in Queued
                            /\ d = current' <=> d = current
      BY <1>0, <2>1, <2>2, <2>5
    <3> QED BY <2>2, <2>3, <3>1, Stutters
  <2> QED BY <2>4, <2>5
<1>7. CASE UpdateStart
  <2>1. /\ current \in Events /\ loop = "start" /\ loop' = "continue" /\ UNCHANGED current
        /\ state' = [state EXCEPT ![current] = "progress"]
        /\ UNCHANGED <<EventQueue, eventQueue, eventSwapQueue>>
    BY <1>7, UpdateCurrent DEF Update, UpdateStart, Goto
  <2>2. state'[current] = "progress" /\ \A d \in Events \ {current} : state'[d] = state[d]
    BY <2>1 DEF TypeOK
  <2>3. Queued' = Queued
    BY <2>1 DEF Queued
  <2>4. \A d \in Events : Cancelled(d)' <=> Cancelled(d)
    BY <2>1, <2>2 DEF Cancelled, Overwrites
  <2> QED BY <1>0, <2>1, <2>3, <2>4, Stutters
<1>8. CASE Continue
  <2>1. /\ current \in Events /\ UNCHANGED state /\ loop = "continue" /\ loop' = "drain"
        /\ current' = None
        /\ Queued' = IF state[current] # "complete" THEN Queued \cup {current} ELSE Queued
    <3>1. current \in Events /\ UNCHANGED state /\ loop = "continue"
          /\ Finish("continue", state[current] # "complete")
          /\ (state[current] # "complete") \in BOOLEAN
      BY <1>8, UpdateCurrent DEF Update, Continue, Finish, own, event
    <3> QED BY <3>1, ElementsAreEvents, FinishEffect
  <2>2. \A d \in Events : Cancelled(d)' <=> Cancelled(d)
    BY <1>1, <2>1
  <2>3. CASE state[current] # "complete"
    <3>1. ~Cancelled(current) /\ \A d \in Alive : Cancelled(d)' <=> Cancelled(d)
      BY <1>0, <2>2, <2>3 DEF Cancelled
    <3>2. Lifecycle!Requeue(current)
      BY <1>0, <2>1, <2>3, <3>1, Requeues
    <3> QED BY <2>1, <3>2 DEF Lifecycle!Next
  <2>4. CASE state[current] = "complete"
    <3>1. \A d \in Events \cap Queued : Cancelled(d)' <=> Cancelled(d)
      BY <2>2
    <3>2. Lifecycle!Retire(current)
      BY <1>0, <2>1, <2>4, <3>1, Retires
    <3> QED BY <2>1, <3>2 DEF Lifecycle!Next
  <2> QED BY <2>3, <2>4
<1>9. ASSUME UNCHANGED state, Queued' = Queued, current' = None, loop # "closed",
             loop # "start", loop' = "closed"
      PROVE  Lifecycle!Next
  <2>1. \A d \in Events \cap Queued : Cancelled(d)' <=> Cancelled(d)
    BY <1>1, <1>9
  <2>2. Lifecycle!Close
    BY <1>0, <1>9, <2>1, Closes
  <2> QED BY <2>2 DEF Lifecycle!Next
<1>10. CASE UpdateReturn /\ LoopError
  BY <1>9, <1>10, ErrorEffect DEF UpdateReturn, own, event
<1>11. CASE LoopSteps /\ UNCHANGED own
  <2>1. Queued' = Queued /\ UNCHANGED state
    BY <1>11, QueuedKept DEF own, event
  <2>2. CASE LoopDone
    <3>1. current' = None /\ loop = "select" /\ loop' = "closed"
      BY <2>2 DEF LoopDone, Control, Updates
    <3> QED BY <1>9, <2>1, <3>1
  <2>3. CASE LoopReceive \/ LoopTick \/ LoopSwap
    <3>1. current' = current /\ loop \in {"select", "drain"} /\ loop' \in {"select", "drain"}
      BY <2>3 DEF LoopReceive, LoopTick, LoopSwap
    <3>2. \A d \in Alive : Cancelled(d)' <=> Cancelled(d)
      BY <1>0, <1>1, <2>1, <3>1
    <3> QED BY <2>1, <3>1, <3>2, Stutters
  <2> QED BY <1>11, <2>2, <2>3 DEF LoopSteps
<1>12. CASE OtherStep
  <2>1. /\ UNCHANGED state
        /\ (loop # "start" /\ loop' # "start") \/ UNCHANGED <<loop, current>>
        /\ loop' = "closed" <=> loop = "closed"
        /\ \A e \in Events : /\ e \in Queued' <=> e \in Queued
                             /\ e = current' <=> e = current
    BY <1>12, OtherEffect
  <2>2. \A e \in Events : Cancelled(e)' <=> Cancelled(e)
    BY <2>1 DEF Cancelled, Overwrites
  <2> QED BY <1>0, <2>1, <2>2, Stutters
<1> QED BY <1>2, <1>3, <1>4, <1>5, <1>6, <1>7, <1>8, <1>10, <1>11, <1>12, Steps

\* ZeroMQ events implement the life cycle of events: with packets, the goroutine
\* that receives them and stop() from two goroutines, the only liberty an
\* event takes with its cancellation is the first Update (module_zmq.go:162).
THEOREM ZmqEventsAreEvents == Spec => ImplementsLifecycle
<1>1. Init => Lifecycle!Init
  <2> SUFFICES ASSUME Init PROVE Lifecycle!Init
    OBVIOUS
  <2>1. Queued = {} /\ current = None /\ None \notin Events /\ loop # "closed"
    BY EmptyElements, ZmqParameters DEF Init, DispatchInit, Queued, LoopEvents
  <2>2. \A e \in Events : Stage(e) = "idle"
    BY <2>1 DEF Stage
  <2>3. [e \in Events |-> Stage(e)] = [e \in Events |-> "idle"]
    BY <2>2
  <2> QED BY <2>1, <2>3 DEF Lifecycle!Init
<1> QED BY <1>1, LifecycleStep, HeldOnceInit, HeldOnceStep, TypeCorrect,
           PTL DEF Spec, ImplementsLifecycle, Lifecycle!Spec
=============================================================================
