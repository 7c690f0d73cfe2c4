--------------------------- MODULE PubSub_proofs ---------------------------
(***************************************************************************)
(* Invariants of the subscriptions, for every set of names, of subscribers *)
(* and of functions, every size of the channels, and every number of       *)
(* messages.                                                               *)
(***************************************************************************)
EXTENDS PubSubImplements, DataLemmas

-----------------------------------------------------------------------------
(* Types. The parts of TypeOK: the runtime, the subscribers.               *)

LoopTypeOK ==
  /\ DispatchTypeOK(PubSubEvents, {})
  /\ calling \in [Goroutines -> Calls \cup {None}]

MapTypeOK ==
  /\ pubsub \in [Names -> Subs \cup {None}]
  /\ name \in [Subs -> Names \cup {None}]
  /\ functions \in [Subs -> Seq(Funcs)]

GoroutineTypeOK ==
  /\ pc \in [Subs -> {"none", "select", "sending", "done", "panicked"}]
  /\ msg \in [Subs -> 0..MaxMessages]
  /\ todo \in [Subs -> Seq(Funcs)]
  /\ posted \in [Subs -> SUBSET Funcs]

ClientTypeOK ==
  /\ channel \in [Subs -> Seq(1..MaxMessages)]
  /\ \A s \in Subs : Len(channel[s]) <= Buffer
  /\ published \in 0..MaxMessages

EndsTypeOK ==
  /\ closed \subseteq cancelled /\ cancelled \subseteq Subs
  /\ unsure \subseteq Subs

LEMMA TypeParts ==
  TypeOK <=> LoopTypeOK /\ MapTypeOK /\ GoroutineTypeOK /\ ClientTypeOK /\ EndsTypeOK
BY DEF TypeOK, LoopTypeOK, MapTypeOK, GoroutineTypeOK, ClientTypeOK, EndsTypeOK

\* A call that waits: Close has cancelled its subscriber, and the others have a
\* function to add.
Adds(g) == Waits(g, "subscribe") \/ Waits(g, "append")

CallsOK == \A g \in Goroutines :
             /\ Waits(g, "close") => calling[g].sub \in cancelled
             /\ Adds(g) => calling[g].fn \in Funcs

\* What a subscriber sends, it has received.
HasMessage == \A s \in Subs : pc[s] = "sending" => msg[s] # 0

\* pubSubEvent.Update never leaves an event for the next tick.
NothingStays == eventSwapQueue = << >>

Types == /\ LoopTypeOK /\ MapTypeOK /\ GoroutineTypeOK /\ ClientTypeOK /\ EndsTypeOK
         /\ CallsOK /\ HasMessage /\ NothingStays

LEMMA NoneDiffers ==
  /\ None \notin Subs /\ None \notin Names /\ None \notin Funcs /\ None \notin Calls
BY PubSubParameters

LEMMA InitType == Init => Types
<1> SUFFICES ASSUME Init PROVE Types
  OBVIOUS
<1>1. /\ << >> \in Seq(PubSubEvents) /\ << >> \in Seq(Funcs) /\ << >> \in Seq(1..MaxMessages)
      /\ Len(<< >>) = 0
  BY EmptyElements
<1>2. LoopTypeOK
  <2>1. Len(<< >>) <= Capacity
    BY <1>1, DispatchParameters
  <2> QED BY <1>1, <2>1 DEF Init, DispatchInit, LoopTypeOK, DispatchTypeOK
<1>3. MapTypeOK
  BY <1>1 DEF Init, MapTypeOK
<1>4. GoroutineTypeOK /\ ClientTypeOK /\ HasMessage
  <2>1. 0 \in 0..MaxMessages /\ Len(<< >>) <= Buffer
    BY <1>1, PubSubParameters
  <2> QED BY <1>1, <2>1 DEF Init, GoroutineTypeOK, ClientTypeOK, HasMessage
<1>5. EndsTypeOK
  BY DEF Init, EndsTypeOK
<1>6. CallsOK
  BY DEF Init, DispatchInit, CallsOK, Waits, Adds
<1>7. NothingStays
  BY DEF Init, DispatchInit, NothingStays
<1> QED BY <1>2, <1>3, <1>4, <1>5, <1>6, <1>7 DEF Types

\* What the steps of the runtime do to its part: a call begins or returns, an
\* event is posted, process() goes on.
LEMMA CallEffect ==
  ASSUME LoopTypeOK, NEW g \in Goroutines, NEW c \in Calls, Call(g, c)
  PROVE  /\ LoopTypeOK' /\ calling[g] = None
         /\ calling'[g] = c /\ \A h \in Goroutines \ {g} : calling'[h] = calling[h]
         /\ UNCHANGED <<EventQueue, eventQueue, eventSwapQueue, current, loop, main, ctxDone>>
BY DEF LoopTypeOK, DispatchTypeOK, Call, RunsLua

LEMMA ReturnEffect ==
  ASSUME LoopTypeOK, NEW g \in Goroutines, Return(g)
  PROVE  /\ LoopTypeOK' /\ calling[g] \in Calls
         /\ calling'[g] = None /\ \A h \in Goroutines \ {g} : calling'[h] = calling[h]
         /\ UNCHANGED <<EventQueue, eventQueue, eventSwapQueue, current, loop, main, ctxDone>>
BY DEF LoopTypeOK, DispatchTypeOK, Return

LEMMA PostEffect ==
  ASSUME LoopTypeOK, NEW e \in PubSubEvents, Post(e)
  PROVE  /\ LoopTypeOK'
         /\ Line' = Append(Line, e)
         /\ UNCHANGED <<eventSwapQueue, calling>>
<1>1. /\ EventQueue \in Seq(PubSubEvents) /\ Len(EventQueue) < Capacity
      /\ eventQueue \in Seq(PubSubEvents)
      /\ EventQueue' = Append(EventQueue, e)
      /\ UNCHANGED <<eventQueue, eventSwapQueue, current, loop, main, calling, ctxDone, mixed>>
  BY DEF LoopTypeOK, DispatchTypeOK, Post, HasRoom
<1>2. EventQueue' \in Seq(PubSubEvents) /\ Len(EventQueue') <= Capacity
  BY <1>1, AppendElements, LenProperties, DispatchParameters
<1>3. eventQueue \o Append(EventQueue, e) = Append(eventQueue \o EventQueue, e)
  BY <1>1, LineAppend
<1> QED BY <1>1, <1>2, <1>3 DEF LoopTypeOK, DispatchTypeOK, Line

\* The sort of a tick moves events, and neither adds nor forgets one; it moves
\* none while there are few.
LEMMA SortedElements ==
  ASSUME NEW S, NEW s \in Seq(S), NEW r \in Sorted(s)
  PROVE  /\ r \in Seq(S) /\ Range(r) = Range(s)
         /\ IsInjective(s) => IsInjective(r)
         /\ Len(s) <= StableLimit => r = s
<1>1. CASE Len(s) <= StableLimit
  BY <1>1 DEF Sorted
<1>2. CASE ~(Len(s) <= StableLimit)
  <2>1. DOMAIN s = 1..Len(s)
    BY LenProperties
  <2>2. PICK f \in Bijection(1..Len(s), 1..Len(s)) : r = [i \in 1..Len(s) |-> s[f[i]]]
    BY <1>2, <2>1, Zenon DEF Sorted
  <2>3. r \in Seq(S) /\ Range(r) = Range(s) /\ (IsInjective(s) => IsInjective(r))
    BY <2>2, PermutedElements
  <2> QED BY <1>2, <2>3
<1> QED BY <1>1, <1>2

\* What the runtime does to the events in line: it takes the first one or none,
\* or mixes them in a tick that finds too many.
Moves == \/ /\ mixed' = mixed
            /\ Line' = Line \/ (Line # << >> /\ Line' = Tail(Line))
         \/ mixed' /\ Line' \in Seq(PubSubEvents) /\ Range(Line') = Range(Line)

LEMMA LoopEffect ==
  ASSUME LoopTypeOK, eventSwapQueue = << >>,
         LoopSteps \/ HostSteps \/ UpdateCall \/ UpdateReturn
  PROVE  LoopTypeOK' /\ eventSwapQueue' = << >> /\ calling' = calling /\ Moves
<1>1. CASE LoopReceive
  <2>1. /\ EventQueue \in Seq(PubSubEvents) /\ EventQueue # << >>
        /\ eventQueue \in Seq(PubSubEvents)
        /\ Len(EventQueue) <= Capacity
        /\ EventQueue' = Tail(EventQueue)
        /\ eventQueue' = Append(eventQueue, Head(EventQueue))
    BY <1>1 DEF LoopReceive, LoopTypeOK, DispatchTypeOK
  <2>2. /\ EventQueue' \in Seq(PubSubEvents) /\ Len(EventQueue') <= Capacity
        /\ Head(EventQueue) \in PubSubEvents
    BY <2>1, TailElements, LenProperties, DispatchParameters
  <2>3. eventQueue' \in Seq(PubSubEvents)
    BY <2>1, <2>2, AppendElements
  <2>4. Append(eventQueue, Head(EventQueue)) \o Tail(EventQueue) = eventQueue \o EventQueue
    BY <2>1, LineMove
  <2> QED BY <1>1, <2>1, <2>2, <2>3, <2>4
          DEF LoopReceive, LoopTypeOK, DispatchTypeOK, Line, Moves
<1>2. CASE LoopDone \/ HostSteps
  BY <1>2 DEF LoopDone, HostSteps, MainReturn, Shutdown, LoopTypeOK, DispatchTypeOK, Line, Moves
<1>3. CASE LoopSwap
  BY <1>3 DEF LoopSwap, LoopTypeOK, DispatchTypeOK, Line, Moves
<1>6. CASE LoopTick
  <2>1. /\ EventQueue \in Seq(PubSubEvents) /\ eventQueue \in Seq(PubSubEvents)
        /\ eventQueue' \in Sorted(eventQueue) /\ EventQueue' = EventQueue
        /\ mixed' = (mixed \/ Len(eventQueue) > StableLimit)
    BY <1>6 DEF LoopTick, LoopTypeOK, DispatchTypeOK
  <2>2. /\ eventQueue' \in Seq(PubSubEvents) /\ Range(eventQueue') = Range(eventQueue)
        /\ Len(eventQueue) <= StableLimit => eventQueue' = eventQueue
    BY <2>1, SortedElements
  <2>3. LoopTypeOK' /\ eventSwapQueue' = << >> /\ calling' = calling
    BY <1>6, <2>1, <2>2 DEF LoopTick, LoopTypeOK, DispatchTypeOK
  <2>4. CASE Len(eventQueue) <= StableLimit
    <3>1. ~(Len(eventQueue) > StableLimit)
      BY <2>1, <2>4, LenProperties, DispatchParameters
    <3>2. mixed' = mixed /\ Line' = Line
      BY <1>6, <2>1, <2>2, <2>4, <3>1 DEF Line, LoopTypeOK, DispatchTypeOK
    <3> QED BY <2>3, <3>2 DEF Moves
  <2>5. CASE ~(Len(eventQueue) <= StableLimit)
    <3>1. mixed'
      <4>1. Len(eventQueue) \in Nat
        BY <2>1, LenProperties
      <4>2. Len(eventQueue) > StableLimit
        BY <2>5, <4>1, DispatchParameters
      <4> QED BY <2>1, <4>2
    <3>2. PICK q \in Seq(PubSubEvents) : q = eventQueue'
      BY <2>2
    <3>3. q \o EventQueue \in Seq(PubSubEvents)
      BY <2>1, ConcatProperties
    <3>4. Range(q \o EventQueue) = Range(q) \cup Range(EventQueue)
      BY <2>1, RangeConcatenation
    <3>5. Range(eventQueue \o EventQueue) = Range(eventQueue) \cup Range(EventQueue)
      BY <2>1, RangeConcatenation
    <3>6. Line' = q \o EventQueue /\ Line = eventQueue \o EventQueue
      BY <2>1, <3>2 DEF Line
    <3>7. Line' \in Seq(PubSubEvents) /\ Range(Line') = Range(Line)
      BY <2>2, <3>2, <3>3, <3>4, <3>5, <3>6
    <3> QED BY <2>3, <3>1, <3>7 DEF Moves
  <2> QED BY <2>4, <2>5
<1>4. CASE UpdateCall
  <2>1. /\ EventQueue \in Seq(PubSubEvents)
        /\ eventQueue \in Seq(PubSubEvents) /\ eventQueue # << >>
        /\ eventQueue' = Tail(eventQueue) /\ EventQueue' = EventQueue
    BY <1>4 DEF UpdateCall, LoopPop, LoopTypeOK, DispatchTypeOK
  <2>2. Head(eventQueue) \in PubSubEvents /\ eventQueue' \in Seq(PubSubEvents)
    BY <2>1, TailElements
  <2>3. /\ eventQueue \o EventQueue # << >>
        /\ Tail(eventQueue) \o EventQueue = Tail(eventQueue \o EventQueue)
    BY <2>1, LineTail
  <2> QED BY <1>4, <2>1, <2>2, <2>3
          DEF UpdateCall, LoopPop, LoopTypeOK, DispatchTypeOK, Line, Moves
<1>5. CASE UpdateReturn
  BY <1>5 DEF UpdateReturn, Finish, LoopError, LoopTypeOK, DispatchTypeOK, Line, Moves
<1> QED BY <1>1, <1>2, <1>3, <1>4, <1>5, <1>6 DEF LoopSteps

\* Nothing but a tick mixes events.
LEMMA OnlyTicksMix ==
  ASSUME \/ \E n \in Names : Publish(n)
         \/ \E g \in Goroutines : Lua(g)
         \/ \E s \in Subs : Subscriber(s)
         \/ UNCHANGED vars
  PROVE  mixed' = mixed
BY DEF Publish, Lua, SubscribeNew, Subscribed, SubscribeMore, AppendFunction, Unsubscribe,
       CloseRedis, Subscriber, Receive, SendEvent, Done, NilMessage, Call, Return, Post, vars,
       dispatch

\* What a call that begins leaves alone: the goroutines of the subscribers, what
\* the client has for them, whether they were given up.
Others == <<goroutine, client, ends>>

\* subscribe begins, with a subscriber and a function that nobody has.
LEMMA SubscribeNewEffect ==
  ASSUME Types, NEW g \in Goroutines, NEW n \in Names, SubscribeNew(g, n)
  PROVE  \E s \in Subs, f \in Fresh :
           /\ name[s] = None /\ f \in Funcs
           /\ calling[g] = None /\ calling'[g] = [call |-> "subscribe", sub |-> s, fn |-> f]
           /\ \A h \in Goroutines \ {g} : calling'[h] = calling[h]
           /\ name' = [name EXCEPT ![s] = n]
           /\ LoopTypeOK' /\ eventSwapQueue' = eventSwapQueue /\ Line' = Line
           /\ UNCHANGED <<pubsub, functions, Others>>
<1>1. PICK s \in Subs : name[s] = None /\ s = CHOOSE t \in Subs : name[t] = None
  BY DEF SubscribeNew
<1>2. PICK f \in Fresh : f = CHOOSE h \in Fresh : TRUE
  BY DEF SubscribeNew
<1> DEFINE c == [call |-> "subscribe", sub |-> s, fn |-> f]
<1>3. f \in Funcs /\ c \in Calls
  BY <1>2 DEF Fresh, Calls
<1>4. Call(g, c) /\ name' = [name EXCEPT ![s] = n] /\ UNCHANGED <<pubsub, functions, Others>>
  BY <1>1, <1>2 DEF SubscribeNew, Others
<1>5. /\ LoopTypeOK' /\ calling[g] = None
      /\ calling'[g] = c /\ \A h \in Goroutines \ {g} : calling'[h] = calling[h]
      /\ UNCHANGED <<EventQueue, eventQueue, eventSwapQueue>>
  <2> HIDE DEF c
  <2> QED BY <1>3, <1>4, CallEffect DEF Types
<1> QED BY <1>1, <1>3, <1>4, <1>5 DEF Line

\* subscribe ends.
LEMMA SubscribedEffect ==
  ASSUME Types, NEW g \in Goroutines, Subscribed(g)
  PROVE  \E s \in Subs, f \in Funcs :
           /\ Waits(g, "subscribe") /\ s = calling[g].sub /\ f = calling[g].fn
           /\ calling'[g] = None /\ \A h \in Goroutines \ {g} : calling'[h] = calling[h]
           /\ functions' = [functions EXCEPT ![s] = <<f>>]
           /\ posted' = [posted EXCEPT ![s] = {f}]
           /\ pc' = [pc EXCEPT ![s] = "select"]
           /\ pubsub' = [pubsub EXCEPT ![name[s]] = s]
           /\ LoopTypeOK' /\ eventSwapQueue' = eventSwapQueue /\ Line' = Line
           /\ UNCHANGED <<name, msg, todo, client, ends>>
<1>1. /\ calling[g] \in Calls /\ LoopTypeOK' /\ eventSwapQueue' = eventSwapQueue
      /\ calling'[g] = None /\ \A h \in Goroutines \ {g} : calling'[h] = calling[h]
      /\ Line' = Line
  BY ReturnEffect DEF Types, Subscribed, Line
<1>2. Waits(g, "subscribe") /\ calling[g].sub \in Subs /\ calling[g].fn \in Funcs
  BY <1>1 DEF Subscribed, Types, CallsOK, Adds, Calls
<1> QED BY <1>1, <1>2 DEF Subscribed

\* subscribe of a name in the map begins.
LEMMA SubscribeMoreEffect ==
  ASSUME Types, NEW g \in Goroutines, NEW n \in Names, SubscribeMore(g, n)
  PROVE  \E f \in Fresh :
           /\ pubsub[n] \in Subs /\ f \in Funcs
           /\ calling[g] = None
           /\ calling'[g] = [call |-> "append", sub |-> pubsub[n], fn |-> f]
           /\ \A h \in Goroutines \ {g} : calling'[h] = calling[h]
           /\ LoopTypeOK' /\ eventSwapQueue' = eventSwapQueue /\ Line' = Line
           /\ UNCHANGED <<registry, Others>>
<1>1. PICK f \in Fresh : f = CHOOSE h \in Fresh : TRUE
  BY DEF SubscribeMore
<1>2. pubsub[n] \in Subs
  BY NoneDiffers DEF SubscribeMore, Types, MapTypeOK
<1> DEFINE c == [call |-> "append", sub |-> pubsub[n], fn |-> f]
<1>3. f \in Funcs /\ c \in Calls
  BY <1>1, <1>2 DEF Fresh, Calls
<1>4. Call(g, c) /\ UNCHANGED <<registry, Others>>
  BY <1>1 DEF SubscribeMore, own, Others
<1>5. /\ LoopTypeOK' /\ calling[g] = None
      /\ calling'[g] = c /\ \A h \in Goroutines \ {g} : calling'[h] = calling[h]
      /\ UNCHANGED <<EventQueue, eventQueue, eventSwapQueue>>
  <2>1. PICK d \in Calls : d = c
    BY <1>3
  <2> HIDE DEF c
  <2>2. /\ LoopTypeOK' /\ calling[g] = None
        /\ calling'[g] = d /\ \A h \in Goroutines \ {g} : calling'[h] = calling[h]
        /\ UNCHANGED <<EventQueue, eventQueue, eventSwapQueue>>
    BY <1>4, <2>1, CallEffect DEF Types
  <2> QED BY <2>1, <2>2
<1> QED BY <1>2, <1>3, <1>4, <1>5 DEF Line

\* Append.
LEMMA AppendEffect ==
  ASSUME Types, NEW g \in Goroutines, AppendFunction(g)
  PROVE  \E s \in Subs, f \in Funcs :
           /\ Waits(g, "append") /\ s = calling[g].sub /\ f = calling[g].fn
           /\ pc[s] # "sending"
           /\ calling'[g] = None /\ \A h \in Goroutines \ {g} : calling'[h] = calling[h]
           /\ functions' = [functions EXCEPT ![s] = Append(functions[s], f)]
           /\ posted' = [posted EXCEPT ![s] = posted[s] \cup {f}]
           /\ LoopTypeOK' /\ eventSwapQueue' = eventSwapQueue /\ Line' = Line
           /\ UNCHANGED <<pubsub, name, pc, msg, todo, client, ends>>
<1>1. /\ calling[g] \in Calls /\ LoopTypeOK' /\ eventSwapQueue' = eventSwapQueue
      /\ calling'[g] = None /\ \A h \in Goroutines \ {g} : calling'[h] = calling[h]
      /\ Line' = Line
  BY ReturnEffect DEF Types, AppendFunction, Line
<1>2. Waits(g, "append") /\ calling[g].sub \in Subs /\ calling[g].fn \in Funcs
  BY <1>1 DEF AppendFunction, Types, CallsOK, Adds, Calls
<1> QED BY <1>1, <1>2 DEF AppendFunction, Locked

\* unsubscribe, up to what may fail.
LEMMA UnsubscribeEffect ==
  ASSUME Types, NEW g \in Goroutines, NEW n \in Names, Unsubscribe(g, n)
  PROVE  /\ pubsub[n] \in Subs
         /\ pubsub' = [pubsub EXCEPT ![n] = None]
         /\ \/ /\ calling[g] = None
               /\ calling'[g] = [call |-> "close", sub |-> pubsub[n], fn |-> None]
               /\ \A h \in Goroutines \ {g} : calling'[h] = calling[h]
               /\ cancelled' = cancelled \cup {pubsub[n]}
               /\ unsure' = unsure
            \/ /\ unsure' = unsure \cup {pubsub[n]}
               /\ cancelled' = cancelled /\ calling' = calling
         /\ LoopTypeOK' /\ eventSwapQueue' = eventSwapQueue /\ Line' = Line
         /\ UNCHANGED <<name, functions, goroutine, client, closed>>
<1>1. PICK s \in Subs : s = pubsub[n]
  BY NoneDiffers DEF Unsubscribe, Types, MapTypeOK
<1> DEFINE c == [call |-> "close", sub |-> s, fn |-> None]
<1>2. c \in Calls
  BY DEF Calls
<1>3. CASE Call(g, c) /\ cancelled' = cancelled \cup {s} /\ UNCHANGED unsure
  <2>1. /\ LoopTypeOK' /\ calling[g] = None
        /\ calling'[g] = c /\ \A h \in Goroutines \ {g} : calling'[h] = calling[h]
        /\ UNCHANGED <<EventQueue, eventQueue, eventSwapQueue>>
    <3> HIDE DEF c
    <3> QED BY <1>2, <1>3, CallEffect DEF Types
  <2> QED BY <1>1, <1>3, <2>1 DEF Unsubscribe, Without, Line
<1>4. CASE unsure' = unsure \cup {s} /\ UNCHANGED <<dispatch, cancelled>>
  BY <1>1, <1>4 DEF Unsubscribe, Without, Line, dispatch, Types, LoopTypeOK, DispatchTypeOK
<1> QED BY <1>1, <1>3, <1>4 DEF Unsubscribe

LEMMA CloseEffect ==
  ASSUME Types, NEW g \in Goroutines, CloseRedis(g)
  PROVE  /\ Waits(g, "close") /\ calling[g].sub \in cancelled
         /\ calling'[g] = None /\ \A h \in Goroutines \ {g} : calling'[h] = calling[h]
         /\ closed' = closed \cup {calling[g].sub}
         /\ LoopTypeOK' /\ eventSwapQueue' = eventSwapQueue /\ Line' = Line
         /\ UNCHANGED <<registry, goroutine, client, cancelled, unsure>>
BY ReturnEffect DEF Types, CloseRedis, CallsOK, Line

\* The goroutine receives.
LEMMA ReceiveEffect ==
  ASSUME Types, NEW s \in Subs, Receive(s)
  PROVE  /\ pc[s] = "select" /\ channel[s] \in Seq(1..MaxMessages) /\ channel[s] # << >>
         /\ Head(channel[s]) \in 1..MaxMessages
         /\ msg' = [msg EXCEPT ![s] = Head(channel[s])]
         /\ channel' = [channel EXCEPT ![s] = Tail(channel[s])]
         /\ todo' = [todo EXCEPT ![s] = functions[s]]
         /\ posted' = [posted EXCEPT ![s] = {}]
         /\ pc' = [pc EXCEPT ![s] = "sending"]
         /\ Line' = Line
         /\ UNCHANGED <<dispatch, registry, published, ends>>
<1>1. channel[s] \in Seq(1..MaxMessages) /\ channel[s] # << >>
  BY DEF Types, ClientTypeOK, Receive
<1>2. Head(channel[s]) \in 1..MaxMessages
  BY <1>1, TailElements
<1> QED BY <1>1, <1>2 DEF Receive, Line, dispatch

\* It sends an event.
LEMMA SendEffect ==
  ASSUME Types, NEW s \in Subs, SendEvent(s)
  PROVE  \E e \in PubSubEvents :
           /\ e.sub = s /\ e.fn = Head(todo[s]) /\ e.msg = msg[s]
           /\ pc[s] = "sending" /\ todo[s] \in Seq(Funcs) /\ todo[s] # << >>
           /\ LoopTypeOK' /\ Line' = Append(Line, e)
           /\ UNCHANGED <<eventSwapQueue, calling>>
           /\ posted' = [posted EXCEPT ![s] = posted[s] \cup {Head(todo[s])}]
           /\ todo' = [todo EXCEPT ![s] = Tail(todo[s])]
           /\ pc' = [pc EXCEPT ![s] = IF Tail(todo[s]) = << >> THEN "select" ELSE "sending"]
           /\ UNCHANGED <<registry, msg, client, ends>>
<1>1. /\ pc[s] = "sending" /\ todo[s] \in Seq(Funcs) /\ todo[s] # << >>
      /\ msg[s] \in 0..MaxMessages /\ msg[s] # 0
  BY DEF Types, GoroutineTypeOK, HasMessage, SendEvent
<1>2. Head(todo[s]) \in Funcs
  BY <1>1, TailElements
<1>3. PICK f \in Funcs, k \in 1..MaxMessages : f = Head(todo[s]) /\ k = msg[s]
  <2>1. msg[s] \in 1..MaxMessages
    BY <1>1, PubSubParameters
  <2> QED BY <1>2, <2>1
<1>4. PICK e \in PubSubEvents : e = [sub |-> s, fn |-> f, msg |-> k]
  BY DEF PubSubEvents
<1>5. Post(e)
  BY <1>3, <1>4 DEF SendEvent
<1>6. LoopTypeOK' /\ Line' = Append(Line, e) /\ UNCHANGED <<eventSwapQueue, calling>>
  BY <1>5, PostEffect DEF Types
<1>7. e.sub = s /\ e.fn = f /\ e.msg = k
  BY <1>4
<1> QED BY <1>1, <1>3, <1>6, <1>7 DEF SendEvent, Rest, Unlock

\* What a call, or the end of one, leaves well typed.
LEMMA TypeCalls ==
  ASSUME Types, NEW g \in Goroutines,
         NEW n \in Names, SubscribeNew(g, n) \/ SubscribeMore(g, n) \/ Unsubscribe(g, n)
  PROVE  Types'
<1> USE DEF Types
<1>1. CASE SubscribeNew(g, n)
  <2>1. PICK s \in Subs, f \in Fresh :
          /\ name[s] = None /\ f \in Funcs
          /\ calling[g] = None /\ calling'[g] = [call |-> "subscribe", sub |-> s, fn |-> f]
          /\ \A h \in Goroutines \ {g} : calling'[h] = calling[h]
          /\ name' = [name EXCEPT ![s] = n]
          /\ LoopTypeOK' /\ eventSwapQueue' = eventSwapQueue /\ Line' = Line
          /\ UNCHANGED <<pubsub, functions, Others>>
    BY <1>1, SubscribeNewEffect
  <2>2. MapTypeOK'
    BY <2>1 DEF MapTypeOK
  <2>3. CallsOK'
    <3>1. UNCHANGED cancelled
      BY <2>1 DEF Others, ends
    <3>2. calling'[g].call = "subscribe" /\ calling'[g].fn \in Funcs
      BY <2>1
    <3> QED BY <2>1, <3>1, <3>2 DEF CallsOK, Waits, Adds
  <2>4. GoroutineTypeOK' /\ ClientTypeOK' /\ EndsTypeOK' /\ HasMessage'
    BY <2>1 DEF Others, goroutine, client, ends, GoroutineTypeOK, ClientTypeOK, EndsTypeOK,
                HasMessage
  <2> QED BY <2>1, <2>2, <2>3, <2>4 DEF NothingStays
<1>2. CASE SubscribeMore(g, n)
  <2>1. PICK f \in Funcs :
          /\ calling'[g] = [call |-> "append", sub |-> pubsub[n], fn |-> f]
          /\ \A h \in Goroutines \ {g} : calling'[h] = calling[h]
          /\ LoopTypeOK' /\ eventSwapQueue' = eventSwapQueue
          /\ UNCHANGED <<registry, Others>>
    BY <1>2, SubscribeMoreEffect
  <2>2. CallsOK'
    <3>1. UNCHANGED cancelled
      BY <2>1 DEF Others, ends
    <3>2. calling'[g].call = "append" /\ calling'[g].fn \in Funcs
      BY <2>1
    <3> QED BY <2>1, <3>1, <3>2 DEF CallsOK, Waits, Adds
  <2>3. MapTypeOK' /\ GoroutineTypeOK' /\ ClientTypeOK' /\ EndsTypeOK' /\ HasMessage'
    BY <2>1 DEF Others, registry, goroutine, client, ends, MapTypeOK, GoroutineTypeOK,
                ClientTypeOK, EndsTypeOK, HasMessage
  <2> QED BY <2>1, <2>2, <2>3 DEF NothingStays
<1>3. CASE Unsubscribe(g, n)
  <2>1. MapTypeOK' /\ EndsTypeOK' /\ LoopTypeOK' /\ NothingStays'
    BY <1>3, UnsubscribeEffect DEF MapTypeOK, EndsTypeOK, NothingStays
  <2>2. GoroutineTypeOK' /\ ClientTypeOK' /\ HasMessage'
    BY <1>3, UnsubscribeEffect DEF goroutine, client, GoroutineTypeOK, ClientTypeOK, HasMessage
  <2>3. CallsOK'
    <3>1. CASE calling' = calling /\ cancelled' = cancelled
      BY <3>1 DEF CallsOK, Waits, Adds
    <3>2. CASE /\ calling'[g] = [call |-> "close", sub |-> pubsub[n], fn |-> None]
               /\ \A h \in Goroutines \ {g} : calling'[h] = calling[h]
               /\ cancelled' = cancelled \cup {pubsub[n]}
      <4>1. calling'[g].call = "close" /\ calling'[g].sub \in cancelled'
        BY <3>2
      <4> QED BY <3>2, <4>1 DEF CallsOK, Waits, Adds
    <3> QED BY <1>3, <3>1, <3>2, UnsubscribeEffect
  <2> QED BY <2>1, <2>2, <2>3
<1> QED BY <1>1, <1>2, <1>3

LEMMA TypeReturns ==
  ASSUME Types, NEW g \in Goroutines, Subscribed(g) \/ AppendFunction(g) \/ CloseRedis(g)
  PROVE  Types'
<1> USE DEF Types
<1>1. ASSUME calling'[g] = None, \A h \in Goroutines \ {g} : calling'[h] = calling[h],
             UNCHANGED cancelled
      PROVE  CallsOK'
  BY <1>1 DEF CallsOK, Waits, Adds
<1>2. CASE Subscribed(g)
  <2>1. PICK s \in Subs, f \in Funcs :
          /\ calling'[g] = None /\ \A h \in Goroutines \ {g} : calling'[h] = calling[h]
          /\ functions' = [functions EXCEPT ![s] = <<f>>]
          /\ posted' = [posted EXCEPT ![s] = {f}]
          /\ pc' = [pc EXCEPT ![s] = "select"]
          /\ pubsub' = [pubsub EXCEPT ![name[s]] = s]
          /\ LoopTypeOK' /\ eventSwapQueue' = eventSwapQueue
          /\ UNCHANGED <<name, msg, todo, client, ends>>
    BY <1>2, SubscribedEffect
  <2>2. MapTypeOK'
    <3>1. <<f>> \in Seq(Funcs)
      OBVIOUS
    <3> QED BY <2>1, <3>1 DEF MapTypeOK
  <2>3. GoroutineTypeOK' /\ ClientTypeOK' /\ EndsTypeOK' /\ HasMessage'
    BY <2>1 DEF client, ends, GoroutineTypeOK, ClientTypeOK, EndsTypeOK, HasMessage
  <2> QED BY <1>1, <2>1, <2>2, <2>3 DEF NothingStays, ends
<1>3. CASE AppendFunction(g)
  <2>1. PICK s \in Subs, f \in Funcs :
          /\ calling'[g] = None /\ \A h \in Goroutines \ {g} : calling'[h] = calling[h]
          /\ functions' = [functions EXCEPT ![s] = Append(functions[s], f)]
          /\ posted' = [posted EXCEPT ![s] = posted[s] \cup {f}]
          /\ LoopTypeOK' /\ eventSwapQueue' = eventSwapQueue
          /\ UNCHANGED <<pubsub, name, pc, msg, todo, client, ends>>
    BY <1>3, AppendEffect
  <2>2. MapTypeOK'
    <3>1. functions[s] \in Seq(Funcs)
      BY DEF MapTypeOK
    <3>2. Append(functions[s], f) \in Seq(Funcs)
      BY <3>1, AppendElements
    <3> QED BY <2>1, <3>2 DEF MapTypeOK
  <2>3. GoroutineTypeOK' /\ ClientTypeOK' /\ EndsTypeOK' /\ HasMessage'
    BY <2>1 DEF client, ends, GoroutineTypeOK, ClientTypeOK, EndsTypeOK, HasMessage
  <2> QED BY <1>1, <2>1, <2>2, <2>3 DEF NothingStays, ends
<1>4. CASE CloseRedis(g)
  <2>1. EndsTypeOK' /\ LoopTypeOK' /\ NothingStays'
    BY <1>4, CloseEffect DEF EndsTypeOK, NothingStays
  <2>2. CallsOK'
    BY <1>1, <1>4, CloseEffect
  <2>3. MapTypeOK' /\ GoroutineTypeOK' /\ ClientTypeOK' /\ HasMessage'
    BY <1>4, CloseEffect DEF registry, goroutine, client, MapTypeOK, GoroutineTypeOK,
                             ClientTypeOK, HasMessage
  <2> QED BY <2>1, <2>2, <2>3
<1> QED BY <1>2, <1>3, <1>4

LEMMA TypeSubscriber ==
  ASSUME Types, NEW s \in Subs, Subscriber(s)
  PROVE  Types'
<1> USE DEF Types
<1>1. CASE Receive(s)
  <2>1. GoroutineTypeOK' /\ HasMessage'
    <3>1. Head(channel[s]) \in 0..MaxMessages /\ Head(channel[s]) # 0
      BY <1>1, ReceiveEffect, PubSubParameters
    <3>2. functions[s] \in Seq(Funcs)
      BY DEF MapTypeOK
    <3>3. msg' \in [Subs -> 0..MaxMessages] /\ HasMessage'
      <4>1. PICK k \in 0..MaxMessages : k = Head(channel[s]) /\ k # 0
        BY <3>1
      <4>2. msg' = [msg EXCEPT ![s] = k] /\ pc' = [pc EXCEPT ![s] = "sending"]
        BY <1>1, <4>1, ReceiveEffect
      <4>3. /\ msg \in [Subs -> 0..MaxMessages]
            /\ pc \in [Subs -> {"none", "select", "sending", "done", "panicked"}]
            /\ HasMessage
        BY DEF GoroutineTypeOK
      <4> HIDE DEF Types
      <4> QED BY <4>1, <4>2, <4>3 DEF HasMessage
    <3> QED BY <1>1, <3>2, <3>3, ReceiveEffect DEF GoroutineTypeOK
  <2>2. ClientTypeOK'
    <3>1. /\ channel[s] \in Seq(1..MaxMessages) /\ channel[s] # << >>
          /\ Len(channel[s]) <= Buffer
      BY <1>1, ReceiveEffect DEF ClientTypeOK
    <3>2. /\ Tail(channel[s]) \in Seq(1..MaxMessages)
          /\ Len(Tail(channel[s])) <= Buffer
      <4>1. PICK t \in Seq(1..MaxMessages) : t = channel[s]
        BY <3>1
      <4>2. Tail(t) \in Seq(1..MaxMessages) /\ Len(Tail(t)) = Len(t) - 1
        BY <3>1, <4>1, TailElements
      <4>3. Len(t) \in Nat /\ Buffer \in Nat
        BY LenProperties, PubSubParameters
      <4> QED BY <3>1, <4>1, <4>2, <4>3
    <3>3. channel' = [channel EXCEPT ![s] = Tail(channel[s])] /\ published' = published
      BY <1>1, ReceiveEffect
    <3> QED BY <3>2, <3>3 DEF ClientTypeOK
  <2>3. LoopTypeOK' /\ MapTypeOK' /\ EndsTypeOK' /\ CallsOK' /\ NothingStays'
    BY <1>1, ReceiveEffect DEF dispatch, registry, ends, LoopTypeOK, DispatchTypeOK, MapTypeOK,
                               EndsTypeOK, CallsOK, Waits, Adds, NothingStays
  <2> QED BY <2>1, <2>2, <2>3
<1>2. CASE SendEvent(s)
  <2>1. /\ todo[s] \in Seq(Funcs) /\ todo[s] # << >>
        /\ LoopTypeOK' /\ UNCHANGED <<eventSwapQueue, calling>>
        /\ posted' = [posted EXCEPT ![s] = posted[s] \cup {Head(todo[s])}]
        /\ todo' = [todo EXCEPT ![s] = Tail(todo[s])]
        /\ pc[s] = "sending"
        /\ pc' = [pc EXCEPT ![s] = IF Tail(todo[s]) = << >> THEN "select" ELSE "sending"]
        /\ UNCHANGED <<registry, msg, client, ends>>
    BY <1>2, SendEffect
  <2>2. Head(todo[s]) \in Funcs /\ Tail(todo[s]) \in Seq(Funcs)
    BY <2>1, TailElements
  <2>3. GoroutineTypeOK' /\ HasMessage'
    BY <2>1, <2>2 DEF GoroutineTypeOK, HasMessage
  <2>4. MapTypeOK' /\ ClientTypeOK' /\ EndsTypeOK' /\ CallsOK' /\ NothingStays'
    BY <2>1 DEF registry, client, ends, MapTypeOK, ClientTypeOK, EndsTypeOK, CallsOK, Waits,
                Adds, NothingStays
  <2> QED BY <2>1, <2>3, <2>4
<1>3. CASE Done(s) \/ NilMessage(s)
  BY <1>3 DEF Done, NilMessage, dispatch, registry, client, ends, LoopTypeOK, DispatchTypeOK,
              MapTypeOK, ClientTypeOK, EndsTypeOK, GoroutineTypeOK, HasMessage, CallsOK, Waits,
              Adds, NothingStays
<1> QED BY <1>1, <1>2, <1>3 DEF Subscriber

\* A message: the client has room for it or drops it.
LEMMA PublishEffect ==
  ASSUME Types, NEW n \in Names, Publish(n)
  PROVE  /\ published \in Nat /\ published' = published + 1 /\ published' \in 1..MaxMessages
         /\ DOMAIN channel' = Subs
         /\ \A s \in Subs :
              /\ channel[s] \in Seq(1..MaxMessages)
              /\ \/ channel'[s] = channel[s]
                 \/ /\ channel'[s] = Append(channel[s], published')
                    /\ Len(channel[s]) < Buffer
         /\ Line' = Line
         /\ UNCHANGED <<dispatch, registry, goroutine, ends>>
<1>1. published \in Nat /\ published' = published + 1 /\ published' \in 1..MaxMessages
  BY PubSubParameters DEF Types, ClientTypeOK, Publish
<1>2. PICK deaf \in SUBSET unsure :
        channel' = [s \in Subs |->
                      IF /\ name[s] = n /\ pc[s] # "none"
                         /\ s \notin cancelled \cup deaf
                         /\ Len(channel[s]) < Buffer
                      THEN Append(channel[s], published') ELSE channel[s]]
  BY DEF Publish
<1>3. \A s \in Subs : channel[s] \in Seq(1..MaxMessages)
  BY DEF Types, ClientTypeOK
<1> QED BY <1>1, <1>2, <1>3 DEF Publish, Line, dispatch

LEMMA TypePublish ==
  ASSUME Types, NEW n \in Names, Publish(n)
  PROVE  Types'
<1>1. ClientTypeOK'
  <2>1. ASSUME NEW s \in Subs
        PROVE  channel'[s] \in Seq(1..MaxMessages) /\ Len(channel'[s]) <= Buffer
    <3>1. CASE channel'[s] = channel[s]
      BY <3>1 DEF Types, ClientTypeOK
    <3>2. CASE channel'[s] = Append(channel[s], published') /\ Len(channel[s]) < Buffer
      <4>1. channel[s] \in Seq(1..MaxMessages) /\ published' \in 1..MaxMessages
        BY PublishEffect
      <4> QED BY <3>2, <4>1, AppendElements, LenProperties, PubSubParameters
    <3> QED BY <3>1, <3>2, PublishEffect
  <2>2. channel' = [s \in Subs |-> channel'[s]]
    BY DEF Publish
  <2>3. published' \in 0..MaxMessages
    BY PublishEffect
  <2> QED BY <2>1, <2>2, <2>3 DEF ClientTypeOK
<1>2. UNCHANGED <<dispatch, registry, goroutine, ends>>
  BY PublishEffect
<1> QED BY <1>1, <1>2
        DEF dispatch, registry, goroutine, ends, Types, LoopTypeOK, DispatchTypeOK, MapTypeOK,
            EndsTypeOK, GoroutineTypeOK, HasMessage, CallsOK, Waits, Adds, NothingStays

\* The runtime's own steps.
LEMMA TypeLoop ==
  ASSUME Types, UNCHANGED own, LoopSteps \/ HostSteps \/ UpdateCall \/ UpdateReturn
  PROVE  Types'
<1>1. LoopTypeOK' /\ NothingStays' /\ calling' = calling
  BY LoopEffect DEF Types, NothingStays
<1> QED BY <1>1
        DEF own, registry, goroutine, client, ends, Types, MapTypeOK, ClientTypeOK,
            EndsTypeOK, GoroutineTypeOK, HasMessage, CallsOK, Waits, Adds

LEMMA TypeStutter == Types /\ UNCHANGED vars => Types'
BY DEF vars, dispatch, own, registry, goroutine, client, ends, Types, LoopTypeOK,
       DispatchTypeOK, MapTypeOK, ClientTypeOK, EndsTypeOK, GoroutineTypeOK, HasMessage,
       CallsOK, Waits, Adds, NothingStays

LEMMA TypeStep == Types /\ [Next]_vars => Types'
<1> SUFFICES ASSUME Types, [Next]_vars PROVE Types'
  OBVIOUS
<1>1. CASE \E n \in Names : Publish(n)
  BY <1>1, TypePublish
<1>2. CASE \E g \in Goroutines : Lua(g)
  BY <1>2, TypeCalls, TypeReturns DEF Lua
<1>3. CASE \E s \in Subs : Subscriber(s)
  BY <1>3, TypeSubscriber
<1>4. CASE UpdateCall \/ UpdateReturn \/ ((LoopSteps \/ HostSteps) /\ UNCHANGED own)
  <2>1. UNCHANGED own
    BY <1>4 DEF UpdateCall, UpdateReturn
  <2> QED BY <1>4, <2>1, TypeLoop
<1>5. CASE UNCHANGED vars
  BY <1>5, TypeStutter
<1> QED BY <1>1, <1>2, <1>3, <1>4, <1>5 DEF Next

\* The variables keep their types; Close has cancelled what it closes, every call
\* that adds a function has one, and process() keeps no event for its next tick
\* (module_redis.go: pubSubEvent.Continue).
THEOREM TypeCorrect == Spec => [](TypeOK /\ CallsOK /\ HasMessage /\ NothingStays)
<1>1. Types => TypeOK /\ CallsOK /\ HasMessage /\ NothingStays
  BY TypeParts DEF Types
<1> QED BY <1>1, InitType, TypeStep, PTL DEF Spec

-----------------------------------------------------------------------------
(* The functions of a subscriber.                                          *)

\* While a message is sent, each function has its event or has yet to get it.
Posting == \A s \in Subs : pc[s] = "sending" =>
                             Range(functions[s]) \subseteq posted[s] \cup Range(todo[s])

PostedInv == Types /\ EachFunctionPosted /\ Posting

LEMMA PostedStep == PostedInv /\ [Next]_vars => PostedInv'
<1> SUFFICES ASSUME PostedInv, [Next]_vars PROVE EachFunctionPosted' /\ Posting'
  BY TypeStep DEF PostedInv
<1> USE DEF PostedInv
\* Steps that leave the functions and the goroutines alone.
<1>1. ASSUME UNCHANGED <<functions, goroutine>> PROVE EachFunctionPosted' /\ Posting'
  BY <1>1 DEF goroutine, EachFunctionPosted, Posting
<1>2. ASSUME NEW g \in Goroutines, Lua(g) PROVE EachFunctionPosted' /\ Posting'
  <2>1. ASSUME NEW n \in Names, SubscribeNew(g, n) PROVE EachFunctionPosted' /\ Posting'
    BY <1>1, <2>1, SubscribeNewEffect DEF Others
  <2>2. ASSUME NEW n \in Names, SubscribeMore(g, n) PROVE EachFunctionPosted' /\ Posting'
    BY <1>1, <2>2, SubscribeMoreEffect DEF Others, registry
  <2>3. ASSUME NEW n \in Names, Unsubscribe(g, n) PROVE EachFunctionPosted' /\ Posting'
    BY <1>1, <2>3, UnsubscribeEffect
  <2>4. CASE CloseRedis(g)
    BY <1>1, <2>4, CloseEffect DEF registry
  <2>5. CASE Subscribed(g)
    <3>1. PICK s \in Subs, f \in Funcs :
            /\ Waits(g, "subscribe") /\ s = calling[g].sub /\ f = calling[g].fn
            /\ calling'[g] = None /\ \A h \in Goroutines \ {g} : calling'[h] = calling[h]
            /\ functions' = [functions EXCEPT ![s] = <<f>>]
            /\ posted' = [posted EXCEPT ![s] = {f}]
            /\ pc' = [pc EXCEPT ![s] = "select"]
            /\ pubsub' = [pubsub EXCEPT ![name[s]] = s]
            /\ LoopTypeOK' /\ eventSwapQueue' = eventSwapQueue /\ Line' = Line
            /\ UNCHANGED <<name, msg, todo, client, ends>>
      BY <2>5, SubscribedEffect
    <3>2. Range(<<f>>) = {f}
      BY DEF Range
    <3>3. /\ functions'[s] = <<f>> /\ posted'[s] = {f} /\ pc'[s] = "select"
          /\ \A t \in Subs \ {s} : /\ functions'[t] = functions[t] /\ posted'[t] = posted[t]
                                   /\ pc'[t] = pc[t]
          /\ todo' = todo
      BY <3>1 DEF Types, MapTypeOK, GoroutineTypeOK
    <3> QED BY <3>2, <3>3 DEF EachFunctionPosted, Posting
  <2>6. CASE AppendFunction(g)
    <3>1. PICK s \in Subs, f \in Funcs :
            /\ Waits(g, "append") /\ s = calling[g].sub /\ f = calling[g].fn
            /\ pc[s] # "sending"
            /\ calling'[g] = None /\ \A h \in Goroutines \ {g} : calling'[h] = calling[h]
            /\ functions' = [functions EXCEPT ![s] = Append(functions[s], f)]
            /\ posted' = [posted EXCEPT ![s] = posted[s] \cup {f}]
            /\ LoopTypeOK' /\ eventSwapQueue' = eventSwapQueue /\ Line' = Line
            /\ UNCHANGED <<pubsub, name, pc, msg, todo, client, ends>>
      BY <2>6, AppendEffect
    <3>2. functions[s] \in Seq(Funcs)
      BY DEF Types, MapTypeOK
    <3>3. Range(Append(functions[s], f)) = Range(functions[s]) \cup {f}
      BY <3>2, AppendElements
    <3>4. /\ Range(functions'[s]) = Range(functions[s]) \cup {f}
          /\ posted'[s] = posted[s] \cup {f}
          /\ \A t \in Subs \ {s} : functions'[t] = functions[t] /\ posted'[t] = posted[t]
          /\ pc' = pc /\ todo' = todo
      BY <3>1, <3>3 DEF Types, MapTypeOK, GoroutineTypeOK
    <3> QED BY <3>1, <3>4 DEF EachFunctionPosted, Posting
  <2> QED BY <1>2, <2>1, <2>2, <2>3, <2>4, <2>5, <2>6 DEF Lua
<1>3. ASSUME NEW s \in Subs, Receive(s) PROVE EachFunctionPosted' /\ Posting'
  <2>1. /\ todo'[s] = functions[s] /\ pc'[s] = "sending" /\ functions' = functions
        /\ \A t \in Subs \ {s} : /\ todo'[t] = todo[t] /\ posted'[t] = posted[t]
                                 /\ pc'[t] = pc[t]
    BY <1>3, ReceiveEffect DEF Types, GoroutineTypeOK, registry
  <2> QED BY <2>1 DEF EachFunctionPosted, Posting
<1>4. ASSUME NEW s \in Subs, SendEvent(s) PROVE EachFunctionPosted' /\ Posting'
  <2>1. /\ todo[s] \in Seq(Funcs) /\ todo[s] # << >>
        /\ pc[s] = "sending" /\ functions' = functions
        /\ posted'[s] = posted[s] \cup {Head(todo[s])}
        /\ todo'[s] = Tail(todo[s])
        /\ pc'[s] = IF Tail(todo[s]) = << >> THEN "select" ELSE "sending"
        /\ \A t \in Subs \ {s} : /\ todo'[t] = todo[t] /\ posted'[t] = posted[t]
                                 /\ pc'[t] = pc[t]
    <3>1. /\ todo[s] \in Seq(Funcs) /\ todo[s] # << >> /\ pc[s] = "sending"
          /\ posted' = [posted EXCEPT ![s] = posted[s] \cup {Head(todo[s])}]
          /\ todo' = [todo EXCEPT ![s] = Tail(todo[s])]
          /\ pc' = [pc EXCEPT ![s] = IF Tail(todo[s]) = << >> THEN "select" ELSE "sending"]
          /\ UNCHANGED registry
      BY <1>4, SendEffect
    <3>2. DOMAIN posted = Subs /\ DOMAIN todo = Subs /\ DOMAIN pc = Subs
      BY DEF Types, GoroutineTypeOK
    <3> HIDE DEF PostedInv
    <3> QED BY <3>1, <3>2 DEF registry
  <2>2. Range(todo[s]) = {Head(todo[s])} \cup Range(Tail(todo[s]))
    BY <2>1, TailElements
  <2>3. Tail(todo[s]) = << >> => Range(Tail(todo[s])) = {}
    BY EmptyElements
  <2>4. Range(functions[s]) \subseteq posted'[s] \cup Range(todo'[s])
    BY <2>1, <2>2 DEF Posting
  <2> QED BY <2>1, <2>3, <2>4 DEF EachFunctionPosted, Posting
<1>5. ASSUME NEW s \in Subs, Done(s) \/ NilMessage(s) PROVE EachFunctionPosted' /\ Posting'
  <2>1. /\ pc'[s] \notin {"select", "sending"}
        /\ \A t \in Subs \ {s} : pc'[t] = pc[t]
        /\ UNCHANGED <<functions, posted, todo>>
    BY <1>5 DEF Done, NilMessage, registry, Types, GoroutineTypeOK
  <2> QED BY <2>1 DEF EachFunctionPosted, Posting
<1>6. CASE \E n \in Names : Publish(n)
  BY <1>1, <1>6 DEF Publish, registry
<1>7. CASE \/ UpdateCall \/ UpdateReturn \/ ((LoopSteps \/ HostSteps) /\ UNCHANGED own)
           \/ UNCHANGED vars
  BY <1>1, <1>7 DEF UpdateCall, UpdateReturn, own, vars, registry
<1> QED BY <1>2, <1>3, <1>4, <1>5, <1>6, <1>7 DEF Next, Subscriber

\* When the goroutine of a subscriber waits for its next message, every function
\* of it, also one that Append added while the last message was sent, has an
\* event of the last one or joined after it (module_redis.go: Startup, Append).
THEOREM EveryFunctionPosted == Spec => []EachFunctionPosted
<1>1. Init => PostedInv
  <2> SUFFICES ASSUME Init PROVE EachFunctionPosted /\ Posting
    BY InitType DEF PostedInv
  <2> QED BY DEF Init, EachFunctionPosted, Posting
<1>2. PostedInv => EachFunctionPosted
  BY DEF PostedInv
<1> QED BY <1>1, <1>2, PostedStep, PTL DEF Spec

-----------------------------------------------------------------------------
(* The map.                                                                *)

\* A subscriber has a name before its goroutine starts, and is not cancelled
\* before that.
Started == \A s \in Subs : /\ pc[s] = "none" => s \notin cancelled
                           /\ name[s] = None => pc[s] = "none"

\* The map has subscribers whose goroutine has started; a subscribe that waits
\* for Redis has one whose goroutine has not, and no other call has it.
Making == /\ \A n \in Names : pubsub[n] # None => pc[pubsub[n]] # "none"
          /\ \A g \in Goroutines : Waits(g, "subscribe") =>
               pc[calling[g].sub] = "none" /\ name[calling[g].sub] # None
          /\ \A g, h \in Goroutines :
               g # h /\ Waits(g, "subscribe") /\ Waits(h, "subscribe") =>
                 calling[g].sub # calling[h].sub

MapInv == Types /\ MapIsLive /\ Started /\ Making

LEMMA MapCalls ==
  ASSUME MapInv, NEW g \in Goroutines, NEW n \in Names,
         SubscribeNew(g, n) \/ SubscribeMore(g, n) \/ Unsubscribe(g, n)
  PROVE  MapIsLive' /\ Started' /\ Making'
<1> USE DEF MapInv
<1>1. CASE SubscribeNew(g, n)
  <2>1. PICK s \in Subs, f \in Fresh :
          /\ name[s] = None /\ f \in Funcs
          /\ calling[g] = None /\ calling'[g] = [call |-> "subscribe", sub |-> s, fn |-> f]
          /\ \A h \in Goroutines \ {g} : calling'[h] = calling[h]
          /\ name' = [name EXCEPT ![s] = n]
          /\ LoopTypeOK' /\ eventSwapQueue' = eventSwapQueue /\ Line' = Line
          /\ UNCHANGED <<pubsub, functions, Others>>
    BY <1>1, SubscribeNewEffect
  <2>2. /\ name'[s] = n /\ n # None /\ pc[s] = "none"
        /\ \A t \in Subs \ {s} : name'[t] = name[t]
        /\ UNCHANGED <<pubsub, pc, cancelled>>
    BY <2>1, NoneDiffers DEF Others, goroutine, ends, Types, MapTypeOK, Started
  <2>3. \A k \in Names : pubsub[k] # None => pubsub[k] \in Subs \ {s}
    BY <2>1, NoneDiffers DEF MapIsLive, Types, MapTypeOK
  <2>4. MapIsLive' /\ Started'
    BY <2>2, <2>3 DEF MapIsLive, Started
  <2>5. Making'
    <3>1. \A h \in Goroutines \ {g} : Waits(h, "subscribe")' =>
            /\ Waits(h, "subscribe") /\ calling'[h] = calling[h]
            /\ calling[h].sub # s
      BY <2>1 DEF Waits, Making
    <3>2. calling'[g].sub = s
      BY <2>1
    <3>3. \A h \in Goroutines \ {g} : Waits(h, "subscribe") => calling[h].sub \in Subs
      BY NoneDiffers DEF Types, LoopTypeOK, Waits, Calls
    <3> QED BY <2>2, <2>3, <3>1, <3>2, <3>3 DEF Making
  <2> QED BY <2>4, <2>5
<1>2. CASE SubscribeMore(g, n)
  <2>1. /\ calling'[g].call = "append"
        /\ \A h \in Goroutines \ {g} : calling'[h] = calling[h]
        /\ UNCHANGED <<registry, Others>>
    <3>1. PICK f \in Fresh :
            /\ pubsub[n] \in Subs /\ f \in Funcs
            /\ calling[g] = None
            /\ calling'[g] = [call |-> "append", sub |-> pubsub[n], fn |-> f]
            /\ \A h \in Goroutines \ {g} : calling'[h] = calling[h]
            /\ LoopTypeOK' /\ eventSwapQueue' = eventSwapQueue /\ Line' = Line
            /\ UNCHANGED <<registry, Others>>
      BY <1>2, SubscribeMoreEffect
    <3> QED BY <3>1
  <2> QED BY <2>1 DEF registry, Others, goroutine, ends, MapIsLive, Started, Making, Waits
<1>3. CASE Unsubscribe(g, n)
  <2>1. PICK s \in Subs : s = pubsub[n]
    BY <1>3, UnsubscribeEffect
  <2>2. /\ pubsub'[n] = None
        /\ \A k \in Names \ {n} : pubsub'[k] = pubsub[k]
        /\ UNCHANGED <<name, pc>>
        /\ cancelled' \subseteq cancelled \cup {s}
    BY <1>3, <2>1, UnsubscribeEffect DEF goroutine, Types, MapTypeOK
  <2>3. /\ pc[s] # "none"
        /\ \A k \in Names \ {n} : pubsub[k] # None => pubsub[k] # s
    BY <2>1, NoneDiffers DEF MapIsLive, Making
  <2>4. MapIsLive' /\ Started'
    BY <2>2, <2>3 DEF MapIsLive, Started
  <2>5. \A h \in Goroutines : Waits(h, "subscribe")' =>
          Waits(h, "subscribe") /\ calling'[h] = calling[h]
    <3>1. CASE calling' = calling
      BY <3>1 DEF Waits
    <3>2. CASE /\ calling'[g] = [call |-> "close", sub |-> pubsub[n], fn |-> None]
               /\ \A h \in Goroutines \ {g} : calling'[h] = calling[h]
      <4>1. calling'[g].call = "close"
        BY <3>2
      <4> QED BY <3>2, <4>1 DEF Waits
    <3> QED BY <1>3, <3>1, <3>2, UnsubscribeEffect
  <2>6. Making'
    BY <2>2, <2>5 DEF Making
  <2> QED BY <2>4, <2>6
<1> QED BY <1>1, <1>2, <1>3

LEMMA MapReturns ==
  ASSUME MapInv, NEW g \in Goroutines, Subscribed(g) \/ AppendFunction(g) \/ CloseRedis(g)
  PROVE  MapIsLive' /\ Started' /\ Making'
<1> USE DEF MapInv
<1>1. CASE Subscribed(g)
  <2>1. PICK s \in Subs, f \in Funcs :
          /\ Waits(g, "subscribe") /\ s = calling[g].sub /\ f = calling[g].fn
          /\ calling'[g] = None /\ \A h \in Goroutines \ {g} : calling'[h] = calling[h]
          /\ functions' = [functions EXCEPT ![s] = <<f>>]
          /\ posted' = [posted EXCEPT ![s] = {f}]
          /\ pc' = [pc EXCEPT ![s] = "select"]
          /\ pubsub' = [pubsub EXCEPT ![name[s]] = s]
          /\ LoopTypeOK' /\ eventSwapQueue' = eventSwapQueue /\ Line' = Line
          /\ UNCHANGED <<name, msg, todo, client, ends>>
    BY <1>1, SubscribedEffect
  <2>2. pc[s] = "none" /\ name[s] \in Names /\ s \notin cancelled
    BY <2>1 DEF Making, Started, Types, MapTypeOK
  <2>3. PICK n \in Names : n = name[s]
    BY <2>2
  <2>4. /\ pubsub'[n] = s /\ \A k \in Names \ {n} : pubsub'[k] = pubsub[k]
        /\ pc'[s] = "select" /\ \A t \in Subs \ {s} : pc'[t] = pc[t]
        /\ UNCHANGED <<name, cancelled>>
    BY <2>1, <2>3 DEF ends, Types, MapTypeOK, GoroutineTypeOK
  <2>5. MapIsLive' /\ Started'
    <3>1. name[s] # None
      BY <2>2, NoneDiffers
    <3> QED BY <2>2, <2>3, <2>4, <3>1 DEF MapIsLive, Started
  <2>6. Making'
    <3>1. \A h \in Goroutines : Waits(h, "subscribe")' =>
            /\ h # g /\ Waits(h, "subscribe") /\ calling'[h] = calling[h]
            /\ calling[h].sub # s
      BY <2>1 DEF Waits, Making
    <3>2. \A h \in Goroutines : Waits(h, "subscribe") => calling[h].sub \in Subs
      BY NoneDiffers DEF Types, LoopTypeOK, Waits, Calls
    <3>3. \A k \in Names : pubsub[k] # None => pubsub[k] \in Subs
      BY DEF Types, MapTypeOK
    <3> QED BY <2>4, <3>1, <3>2, <3>3 DEF Making
  <2> QED BY <2>5, <2>6
<1>2. ASSUME calling'[g] = None, \A h \in Goroutines \ {g} : calling'[h] = calling[h],
             UNCHANGED <<pubsub, name, pc, cancelled>>
      PROVE  MapIsLive' /\ Started' /\ Making'
  BY <1>2 DEF MapIsLive, Started, Making, Waits
<1>3. CASE AppendFunction(g)
  BY <1>2, <1>3, AppendEffect DEF ends
<1>4. CASE CloseRedis(g)
  BY <1>2, <1>4, CloseEffect DEF registry, goroutine
<1> QED BY <1>1, <1>3, <1>4

LEMMA MapStep == MapInv /\ [Next]_vars => MapInv'
<1> SUFFICES ASSUME MapInv, [Next]_vars PROVE MapIsLive' /\ Started' /\ Making'
  BY TypeStep DEF MapInv
<1>1. ASSUME UNCHANGED <<registry, cancelled, calling>>,
             \A s \in Subs : pc'[s] = "none" <=> pc[s] = "none"
      PROVE  MapIsLive' /\ Started' /\ Making'
  <2>1. UNCHANGED <<pubsub, name>>
    BY <1>1 DEF registry
  <2>2. /\ \A n \in Names : pubsub[n] # None => pubsub[n] \in Subs
        /\ \A h \in Goroutines : Waits(h, "subscribe") => calling[h].sub \in Subs
    BY NoneDiffers DEF MapInv, Types, MapTypeOK, LoopTypeOK, Waits, Calls
  <2> QED BY <1>1, <2>1, <2>2 DEF MapInv, MapIsLive, Started, Making, Waits
<1>2. CASE \E g \in Goroutines : Lua(g)
  BY <1>2, MapCalls, MapReturns DEF Lua
<1>3. ASSUME NEW s \in Subs, Subscriber(s)
      PROVE  MapIsLive' /\ Started' /\ Making'
  <2>1. pc \in [Subs -> {"none", "select", "sending", "done", "panicked"}]
    BY DEF MapInv, Types, GoroutineTypeOK
  <2>2. CASE Receive(s) \/ Done(s) \/ NilMessage(s)
    BY <1>1, <2>1, <2>2 DEF Receive, Done, NilMessage, dispatch, ends
  <2>3. CASE SendEvent(s)
    BY <1>1, <2>1, <2>3, SendEffect DEF MapInv, ends
  <2> QED BY <1>3, <2>2, <2>3 DEF Subscriber
<1>4. CASE \E n \in Names : Publish(n)
  BY <1>1, <1>4 DEF Publish, dispatch, goroutine, ends
<1>5. CASE UpdateCall \/ UpdateReturn \/ ((LoopSteps \/ HostSteps) /\ UNCHANGED own)
  <2>1. UNCHANGED own
    BY <1>5 DEF UpdateCall, UpdateReturn
  <2>2. UNCHANGED calling
    BY <1>5, LoopEffect DEF MapInv, Types, NothingStays
  <2> QED BY <1>1, <2>1, <2>2 DEF own, goroutine, ends
<1>6. CASE UNCHANGED vars
  BY <1>1, <1>6 DEF vars, own, dispatch, goroutine, ends
<1> QED BY <1>2, <1>3, <1>4, <1>5, <1>6 DEF Next

\* A name in the map leads to a subscriber of that name that nobody has closed,
\* although subscribe writes the map after it has waited for Redis and does not
\* look at it again (module_redis.go: subscribe, unsubscribe).
THEOREM MapLeadsToLive == Spec => []MapIsLive
<1>1. Init => MapInv
  <2> SUFFICES ASSUME Init PROVE MapIsLive /\ Started /\ Making
    BY InitType DEF MapInv
  <2> QED BY DEF Init, DispatchInit, MapIsLive, Started, Making, Waits
<1>2. MapInv => MapIsLive
  BY DEF MapInv
<1> QED BY <1>1, <1>2, MapStep, PTL DEF Spec

-----------------------------------------------------------------------------
(* The order of messages.                                                  *)

\* A function literal is passed once: nobody has the function of a call that
\* waits to add it, and no subscriber has a function twice.
OwnFunctions == /\ \A g \in Goroutines : Adds(g) =>
                     \A s \in Subs : calling[g].fn \notin Range(functions[s])
                /\ \A g, h \in Goroutines :
                     g # h /\ Adds(g) /\ Adds(h) => calling[g].fn # calling[h].fn

Distinct == \A s \in Subs : IsInjective(functions[s]) /\ IsInjective(todo[s])

FunctionsInv == Types /\ OwnFunctions /\ Distinct

LEMMA FunctionsCalls ==
  ASSUME FunctionsInv, NEW g \in Goroutines,
         NEW n \in Names, SubscribeNew(g, n) \/ SubscribeMore(g, n) \/ Unsubscribe(g, n)
  PROVE  OwnFunctions' /\ Distinct'
<1> USE DEF FunctionsInv
<1>1. ASSUME NEW f \in Fresh, calling'[g] # None, calling'[g].fn = f,
             \A h \in Goroutines \ {g} : calling'[h] = calling[h],
             UNCHANGED <<functions, todo>>
      PROVE  OwnFunctions' /\ Distinct'
  <2>1. /\ \A s \in Subs : f \notin Range(functions[s])
        /\ \A h \in Goroutines : calling[h] # None => f # calling[h].fn
    BY DEF Fresh
  <2>2. \A h \in Goroutines \ {g} : Adds(h)' => Adds(h) /\ calling[h] # None
    BY <1>1 DEF Adds, Waits
  <2>3. OwnFunctions'
    BY <1>1, <2>1, <2>2 DEF OwnFunctions
  <2> QED BY <1>1, <2>3 DEF Distinct
<1>2. CASE SubscribeNew(g, n)
  <2>1. PICK s \in Subs, f \in Fresh :
          /\ name[s] = None /\ f \in Funcs
          /\ calling[g] = None /\ calling'[g] = [call |-> "subscribe", sub |-> s, fn |-> f]
          /\ \A h \in Goroutines \ {g} : calling'[h] = calling[h]
          /\ name' = [name EXCEPT ![s] = n]
          /\ LoopTypeOK' /\ eventSwapQueue' = eventSwapQueue /\ Line' = Line
          /\ UNCHANGED <<pubsub, functions, Others>>
    BY <1>2, SubscribeNewEffect
  <2>2. calling'[g].fn = f /\ calling'[g] # None
    <3>1. [call |-> "subscribe", sub |-> s, fn |-> f] \in Calls
      BY <2>1 DEF Calls
    <3> QED BY <2>1, <3>1, NoneDiffers
  <2> QED BY <1>1, <2>1, <2>2 DEF Others, goroutine
<1>3. CASE SubscribeMore(g, n)
  <2>1. PICK f \in Fresh :
          /\ pubsub[n] \in Subs /\ f \in Funcs
          /\ calling[g] = None
          /\ calling'[g] = [call |-> "append", sub |-> pubsub[n], fn |-> f]
          /\ \A h \in Goroutines \ {g} : calling'[h] = calling[h]
          /\ LoopTypeOK' /\ eventSwapQueue' = eventSwapQueue /\ Line' = Line
          /\ UNCHANGED <<registry, Others>>
    BY <1>3, SubscribeMoreEffect
  <2>2. calling'[g].fn = f /\ calling'[g] # None
    <3>1. [call |-> "append", sub |-> pubsub[n], fn |-> f] \in Calls
      BY <2>1 DEF Calls
    <3> QED BY <2>1, <3>1, NoneDiffers
  <2> QED BY <1>1, <2>1, <2>2 DEF registry, Others, goroutine
<1>4. CASE Unsubscribe(g, n)
  <2>1. \A h \in Goroutines : Adds(h)' => Adds(h) /\ calling'[h] = calling[h]
    <3>1. CASE calling' = calling
      BY <3>1 DEF Adds, Waits
    <3>2. CASE /\ calling'[g] = [call |-> "close", sub |-> pubsub[n], fn |-> None]
               /\ \A h \in Goroutines \ {g} : calling'[h] = calling[h]
      <4>1. calling'[g].call = "close"
        BY <3>2
      <4> QED BY <3>2, <4>1 DEF Adds, Waits
    <3> QED BY <1>4, <3>1, <3>2, UnsubscribeEffect
  <2>2. UNCHANGED <<functions, todo>>
    BY <1>4, UnsubscribeEffect DEF goroutine
  <2> QED BY <2>1, <2>2 DEF OwnFunctions, Distinct
<1> QED BY <1>2, <1>3, <1>4

LEMMA FunctionsReturns ==
  ASSUME FunctionsInv, NEW g \in Goroutines,
         Subscribed(g) \/ AppendFunction(g) \/ CloseRedis(g)
  PROVE  OwnFunctions' /\ Distinct'
<1> USE DEF FunctionsInv
\* The function of the call goes to one subscriber, or to none.
<1>1. ASSUME calling'[g] = None,
             \A h \in Goroutines \ {g} : calling'[h] = calling[h],
             \A s \in Subs : functions'[s] = functions[s]
                               \/ (Adds(g) /\ Range(functions'[s]) \subseteq
                                                Range(functions[s]) \cup {calling[g].fn})
      PROVE  OwnFunctions'
  <2>1. \A h \in Goroutines : Adds(h)' => h # g /\ Adds(h) /\ calling'[h] = calling[h]
    BY <1>1 DEF Adds, Waits
  <2> QED BY <1>1, <2>1 DEF OwnFunctions
<1>2. CASE Subscribed(g)
  <2>1. PICK s \in Subs, f \in Funcs :
          /\ Waits(g, "subscribe") /\ s = calling[g].sub /\ f = calling[g].fn
          /\ calling'[g] = None /\ \A h \in Goroutines \ {g} : calling'[h] = calling[h]
          /\ functions' = [functions EXCEPT ![s] = <<f>>]
          /\ posted' = [posted EXCEPT ![s] = {f}]
          /\ pc' = [pc EXCEPT ![s] = "select"]
          /\ pubsub' = [pubsub EXCEPT ![name[s]] = s]
          /\ LoopTypeOK' /\ eventSwapQueue' = eventSwapQueue /\ Line' = Line
          /\ UNCHANGED <<name, msg, todo, client, ends>>
    BY <1>2, SubscribedEffect
  <2>2. Range(<<f>>) = {f} /\ IsInjective(<<f>>)
    BY DEF Range, IsInjective
  <2>3. /\ functions'[s] = <<f>> /\ \A t \in Subs \ {s} : functions'[t] = functions[t]
        /\ todo' = todo
    BY <2>1 DEF Types, MapTypeOK
  <2>4. OwnFunctions'
    BY <1>1, <2>1, <2>2, <2>3 DEF Adds
  <2> QED BY <2>2, <2>3, <2>4 DEF Distinct
<1>3. CASE AppendFunction(g)
  <2>1. PICK s \in Subs, f \in Funcs :
          /\ Waits(g, "append") /\ s = calling[g].sub /\ f = calling[g].fn
          /\ pc[s] # "sending"
          /\ calling'[g] = None /\ \A h \in Goroutines \ {g} : calling'[h] = calling[h]
          /\ functions' = [functions EXCEPT ![s] = Append(functions[s], f)]
          /\ posted' = [posted EXCEPT ![s] = posted[s] \cup {f}]
          /\ LoopTypeOK' /\ eventSwapQueue' = eventSwapQueue /\ Line' = Line
          /\ UNCHANGED <<pubsub, name, pc, msg, todo, client, ends>>
    BY <1>3, AppendEffect
  <2>2. functions[s] \in Seq(Funcs) /\ IsInjective(functions[s])
    BY DEF Types, MapTypeOK, Distinct
  <2>3. f \notin Range(functions[s])
    BY <2>1 DEF OwnFunctions, Adds
  <2>4. /\ Range(Append(functions[s], f)) = Range(functions[s]) \cup {f}
        /\ IsInjective(Append(functions[s], f))
    BY <2>2, <2>3, AppendElements
  <2>5. /\ functions'[s] = Append(functions[s], f)
        /\ \A t \in Subs \ {s} : functions'[t] = functions[t]
        /\ todo' = todo
    BY <2>1 DEF Types, MapTypeOK
  <2>6. OwnFunctions'
    BY <1>1, <2>1, <2>4, <2>5 DEF Adds
  <2> QED BY <2>4, <2>5, <2>6 DEF Distinct
<1>4. CASE CloseRedis(g)
  <2>1. OwnFunctions'
    BY <1>1, <1>4, CloseEffect DEF registry
  <2> QED BY <1>4, <2>1, CloseEffect DEF registry, goroutine, Distinct
<1> QED BY <1>2, <1>3, <1>4

LEMMA FunctionsStep == FunctionsInv /\ [Next]_vars => FunctionsInv'
<1> SUFFICES ASSUME FunctionsInv, [Next]_vars PROVE OwnFunctions' /\ Distinct'
  BY TypeStep DEF FunctionsInv
<1> USE DEF FunctionsInv
<1>1. ASSUME UNCHANGED <<functions, calling>>, \A s \in Subs : IsInjective(todo'[s])
      PROVE  OwnFunctions' /\ Distinct'
  BY <1>1 DEF OwnFunctions, Adds, Waits, Distinct
<1>2. CASE \E g \in Goroutines : Lua(g)
  BY <1>2, FunctionsCalls, FunctionsReturns DEF Lua
<1>3. ASSUME NEW s \in Subs, Receive(s) PROVE OwnFunctions' /\ Distinct'
  <2>1. /\ todo'[s] = functions[s] /\ \A t \in Subs \ {s} : todo'[t] = todo[t]
        /\ UNCHANGED <<functions, calling>>
    BY <1>3, ReceiveEffect DEF dispatch, registry, Types, GoroutineTypeOK
  <2> QED BY <1>1, <2>1 DEF Distinct
<1>4. ASSUME NEW s \in Subs, SendEvent(s) PROVE OwnFunctions' /\ Distinct'
  <2>1. /\ todo[s] \in Seq(Funcs) /\ todo[s] # << >> /\ IsInjective(todo[s])
        /\ todo' = [todo EXCEPT ![s] = Tail(todo[s])]
        /\ UNCHANGED <<registry, calling>>
    BY <1>4, SendEffect DEF Distinct
  <2>2. IsInjective(Tail(todo[s]))
    BY <2>1, TailElements
  <2>3. todo'[s] = Tail(todo[s]) /\ \A t \in Subs \ {s} : todo'[t] = todo[t]
    BY <2>1 DEF Types, GoroutineTypeOK
  <2> QED BY <1>1, <2>1, <2>2, <2>3 DEF Distinct, registry
<1>5. ASSUME UNCHANGED <<functions, calling, todo>> PROVE OwnFunctions' /\ Distinct'
  BY <1>1, <1>5 DEF Distinct
<1>6. CASE \/ \E n \in Names : Publish(n)
           \/ \E s \in Subs : Done(s) \/ NilMessage(s)
           \/ UNCHANGED vars
  BY <1>5, <1>6 DEF Publish, Done, NilMessage, vars, own, dispatch, registry, goroutine
<1>7. CASE UpdateCall \/ UpdateReturn \/ ((LoopSteps \/ HostSteps) /\ UNCHANGED own)
  <2>1. UNCHANGED <<own, calling>>
    BY <1>7, LoopEffect DEF Types, NothingStays, UpdateCall, UpdateReturn
  <2> QED BY <1>5, <2>1 DEF own, registry, goroutine
<1> QED BY <1>2, <1>3, <1>4, <1>6, <1>7 DEF Next, Subscriber

\* The events of a function, in the order of their messages.
Ordered(q) == \A i, j \in 1..Len(q) :
                i < j /\ q[i].sub = q[j].sub /\ q[i].fn = q[j].fn => q[i].msg < q[j].msg

\* How far the events of a line have come: up to the message that the goroutine
\* has in hand, for the functions it has posted it to.
UpTo(e) == IF e.fn \in Range(todo[e.sub]) THEN e.msg < msg[e.sub] ELSE e.msg <= msg[e.sub]

\* The messages in the client's channel are later than the one in hand.
Later(s) == /\ Increasing(channel[s])
            /\ \A x \in Range(channel[s]) : msg[s] < x /\ x <= published
            /\ msg[s] <= published

OrderInv == /\ FunctionsInv
            /\ ~mixed => Ordered(Line)
            /\ \A e \in Range(Line) : UpTo(e)
            /\ \A s \in Subs : Later(s)

LEMMA LineType == Types => Line \in Seq(PubSubEvents)
BY ConcatProperties DEF Types, LoopTypeOK, DispatchTypeOK, Line

LEMMA OrderedAppend ==
  ASSUME NEW q \in Seq(PubSubEvents), NEW e \in PubSubEvents, Ordered(q),
         \A d \in Range(q) : d.sub = e.sub /\ d.fn = e.fn => d.msg < e.msg
  PROVE  Ordered(Append(q, e))
<1> DEFINE r == Append(q, e)
<1>1. /\ Len(r) = Len(q) + 1 /\ Len(q) \in Nat
      /\ \A i \in 1..Len(q) : r[i] = q[i] /\ q[i] \in Range(q)
      /\ r[Len(q) + 1] = e
  BY AppendProperties, LenProperties DEF Range
<1> HIDE DEF r
<1>2. ASSUME NEW i \in 1..Len(r), NEW j \in 1..Len(r), i < j,
             r[i].sub = r[j].sub, r[i].fn = r[j].fn
      PROVE  r[i].msg < r[j].msg
  <2>1. i \in 1..Len(q)
    BY <1>1, <1>2
  <2>2. CASE j \in 1..Len(q)
    BY <1>1, <1>2, <2>1, <2>2 DEF Ordered
  <2>3. CASE j = Len(q) + 1
    BY <1>1, <1>2, <2>1, <2>3
  <2>4. j \in 1..Len(q) \/ j = Len(q) + 1
    BY <1>1, <1>2
  <2> QED BY <2>2, <2>3, <2>4
<1>3. Ordered(r)
  BY <1>2 DEF Ordered
<1> QED BY <1>3 DEF r

LEMMA OrderedTail ==
  ASSUME NEW q \in Seq(PubSubEvents), q # << >>, Ordered(q)
  PROVE  Ordered(Tail(q)) /\ Range(Tail(q)) \subseteq Range(q)
<1> DEFINE r == Tail(q)
<1>1. /\ Len(r) = Len(q) - 1 /\ Len(q) \in Nat
      /\ \A i \in 1..Len(r) : r[i] = q[i + 1]
  BY HeadTailProperties, LenProperties
<1>2. Range(r) \subseteq Range(q)
  BY TailElements
<1> HIDE DEF r
<1>3. ASSUME NEW i \in 1..Len(r), NEW j \in 1..Len(r), i < j,
             r[i].sub = r[j].sub, r[i].fn = r[j].fn
      PROVE  r[i].msg < r[j].msg
  <2>1. i + 1 \in 1..Len(q) /\ j + 1 \in 1..Len(q) /\ i + 1 < j + 1
    BY <1>1, <1>3
  <2>2. r[i] = q[i + 1] /\ r[j] = q[j + 1]
    BY <1>1
  <2> QED BY <1>3, <2>1, <2>2 DEF Ordered
<1> QED BY <1>2, <1>3 DEF Ordered, r

\* Steps that move neither messages nor events, but those the runtime moves.
LEMMA OrderSame ==
  ASSUME OrderInv, UNCHANGED <<todo, msg, channel, published>>, Moves
  PROVE  /\ (~mixed => Ordered(Line))'
         /\ (\A e \in Range(Line) : UpTo(e))' /\ (\A s \in Subs : Later(s))'
<1>1. /\ Line \in Seq(PubSubEvents) /\ \A e \in Range(Line) : UpTo(e)
      /\ ~mixed => Ordered(Line)
  BY LineType DEF OrderInv, FunctionsInv
<1>2. (~mixed' => Ordered(Line')) /\ Range(Line') \subseteq Range(Line)
  <2>1. CASE mixed' = mixed /\ Line' = Line
    BY <1>1, <2>1
  <2>2. CASE mixed' = mixed /\ Line # << >> /\ Line' = Tail(Line)
    <3>1. Range(Line') \subseteq Range(Line)
      BY <1>1, <2>2, TailElements
    <3> QED BY <1>1, <2>2, <3>1, OrderedTail
  <2>3. CASE mixed' /\ Range(Line') = Range(Line)
    BY <2>3
  <2> QED BY <2>1, <2>2, <2>3 DEF Moves
<1>3. \A e : UpTo(e)' <=> UpTo(e)
  BY DEF UpTo
<1>4. \A s \in Subs : Later(s)'
  BY DEF Later, OrderInv
<1>5. (~mixed => Ordered(Line))'
  BY <1>2 DEF Ordered
<1> QED BY <1>1, <1>2, <1>3, <1>4, <1>5

\* The client's channel is a queue of numbers.
LEMMA MessageNumbers ==
  ASSUME NEW c \in Seq(1..MaxMessages)
  PROVE  /\ c \in Seq(Int) /\ Range(c) \subseteq 1..MaxMessages
         /\ \A k \in 1..MaxMessages : Range(Append(c, k)) = Range(c) \cup {k}
<1> DEFINE N == 1..MaxMessages
<1>1. N \subseteq Int /\ c \in Seq(N)
  OBVIOUS
<1> HIDE DEF N
<1>2. c \in Seq(Int)
  BY <1>1, SeqMonotonic
<1>3. Range(c) \in SUBSET N
  BY <1>1, RangeOfSeq
<1>4. ASSUME NEW k \in N PROVE Range(Append(c, k)) = Range(c) \cup {k}
  BY <1>1, AppendElements
<1> QED BY <1>2, <1>3, <1>4 DEF N

LEMMA OrderPublish ==
  ASSUME OrderInv, NEW n \in Names, Publish(n)
  PROVE  /\ (~mixed => Ordered(Line))'
         /\ (\A e \in Range(Line) : UpTo(e))' /\ (\A s \in Subs : Later(s))'
<1>1. UNCHANGED <<Line, todo, msg>>
  BY PublishEffect DEF OrderInv, FunctionsInv, goroutine
<1>2. (~mixed => Ordered(Line))' /\ (\A e \in Range(Line) : UpTo(e))'
  BY <1>1, OnlyTicksMix DEF OrderInv, Ordered, UpTo
<1>3. PICK k \in 1..MaxMessages : k = published' /\ k = published + 1 /\ published \in Nat
  BY PublishEffect DEF OrderInv, FunctionsInv
<1>4. ASSUME NEW s \in Subs PROVE Later(s)'
  <2>1. PICK c \in Seq(1..MaxMessages) : c = channel[s]
    BY PublishEffect DEF OrderInv, FunctionsInv
  <2>2. Increasing(c) /\ \A x \in Range(c) : msg[s] < x /\ x <= published
    BY <2>1 DEF OrderInv, Later
  <2>3. /\ Range(c) \subseteq 1..MaxMessages /\ msg[s] \in Nat /\ k \in Int
        /\ msg[s] < k /\ msg[s] <= k
    <3>1. msg[s] \in Nat /\ msg[s] <= published
      BY DEF OrderInv, FunctionsInv, Types, GoroutineTypeOK, Later
    <3>2. Range(c) \subseteq 1..MaxMessages
      BY MessageNumbers
    <3>3. k \in Int /\ k = published + 1
      BY <1>3
    <3>4. msg[s] < k /\ msg[s] <= k
      BY <1>3, <3>1, <3>3
    <3> QED BY <3>1, <3>2, <3>3, <3>4
  <2>4. CASE channel'[s] = channel[s]
    <3>1. \A x \in Range(c) : x <= published'
      BY <1>3, <2>2, <2>3
    <3>2. channel'[s] = c /\ msg'[s] = msg[s] /\ msg[s] <= published'
      BY <1>1, <1>3, <2>1, <2>3, <2>4
    <3> QED BY <2>2, <3>1, <3>2 DEF Later
  <2>5. CASE channel'[s] = Append(channel[s], published')
    <3>1. \A x \in Range(c) : x < k /\ msg[s] < x
      BY <1>3, <2>2, <2>3
    <3>2. c \in Seq(Int)
      BY MessageNumbers
    <3>3. Increasing(Append(c, k))
      BY <2>2, <2>3, <3>1, <3>2, AppendIncreasing
    <3>4. Range(Append(c, k)) = Range(c) \cup {k}
      BY MessageNumbers
    <3>5. \A x \in Range(c) \cup {k} : msg[s] < x /\ x <= k
      BY <2>3, <3>1
    <3>6. channel'[s] = Append(c, k) /\ msg'[s] = msg[s] /\ published' = k /\ msg[s] <= k
      BY <1>1, <1>3, <2>1, <2>3, <2>5
    <3> QED BY <3>3, <3>4, <3>5, <3>6 DEF Later
  <2> QED BY <2>4, <2>5, PublishEffect DEF OrderInv, FunctionsInv
<1> QED BY <1>2, <1>4

LEMMA OrderReceive ==
  ASSUME OrderInv, NEW s \in Subs, Receive(s)
  PROVE  /\ (~mixed => Ordered(Line))'
         /\ (\A e \in Range(Line) : UpTo(e))' /\ (\A t \in Subs : Later(t))'
<1>1. PICK c \in Seq(1..MaxMessages), k \in 1..MaxMessages :
        c = channel[s] /\ c # << >> /\ k = Head(c)
  BY ReceiveEffect DEF OrderInv, FunctionsInv
<1>2. /\ Increasing(c) /\ \A x \in Range(c) : msg[s] < x /\ x <= published
      /\ c \in Seq(Int)
  BY <1>1, MessageNumbers DEF OrderInv, Later
<1>3. Range(c) = {k} \cup Range(Tail(c))
  BY <1>1, TailElements
<1>4. Increasing(Tail(c)) /\ \A x \in Range(Tail(c)) : k < x
  BY <1>1, <1>2, TailIncreasing
<1>5. /\ msg'[s] = k /\ channel'[s] = Tail(c)
      /\ \A t \in Subs \ {s} : /\ msg'[t] = msg[t] /\ channel'[t] = channel[t]
                               /\ todo'[t] = todo[t]
      /\ published' = published /\ Line' = Line
      /\ msg[s] \in Nat
  <2>1. /\ msg' = [msg EXCEPT ![s] = k] /\ channel' = [channel EXCEPT ![s] = Tail(c)]
        /\ todo' = [todo EXCEPT ![s] = functions[s]]
        /\ published' = published /\ Line' = Line
    BY <1>1, ReceiveEffect DEF OrderInv, FunctionsInv
  <2>2. msg \in [Subs -> 0..MaxMessages] /\ DOMAIN channel = Subs /\ DOMAIN todo = Subs
    BY DEF OrderInv, FunctionsInv, Types, GoroutineTypeOK, ClientTypeOK
  <2> QED BY <2>1, <2>2
<1>6. ASSUME NEW t \in Subs PROVE Later(t)'
  <2>1. CASE t = s
    BY <1>2, <1>3, <1>4, <1>5, <2>1 DEF Later
  <2>2. CASE t # s
    BY <1>5, <2>2 DEF Later, OrderInv
  <2> QED BY <2>1, <2>2
<1>7. ASSUME NEW e \in Range(Line) PROVE UpTo(e)'
  <2>1. e \in PubSubEvents /\ UpTo(e)
    BY LineType, RangeOfSeq DEF OrderInv, FunctionsInv
  <2>2. e.sub \in Subs /\ e.msg \in Int
    BY <2>1 DEF PubSubEvents
  <2>3. CASE e.sub = s
    <3>1. e.msg <= msg[s]
      BY <1>5, <2>1, <2>2, <2>3 DEF UpTo
    <3>2. msg[s] < k
      BY <1>2, <1>3
    <3>3. e.msg < k /\ e.msg <= k
      BY <1>5, <2>2, <3>1, <3>2
    <3> QED BY <1>5, <2>3, <3>3 DEF UpTo
  <2>4. CASE e.sub # s
    BY <1>5, <2>1, <2>2, <2>4 DEF UpTo
  <2> QED BY <2>3, <2>4
<1>8. (~mixed => Ordered(Line))'
  BY <1>5, OnlyTicksMix DEF OrderInv, Ordered, Subscriber
<1>9. (\A e \in Range(Line) : UpTo(e))'
  BY <1>5, <1>7
<1> QED BY <1>6, <1>8, <1>9

LEMMA OrderSend ==
  ASSUME OrderInv, NEW s \in Subs, SendEvent(s)
  PROVE  /\ (~mixed => Ordered(Line))'
         /\ (\A e \in Range(Line) : UpTo(e))' /\ (\A t \in Subs : Later(t))'
<1>1. PICK e \in PubSubEvents :
        /\ e.sub = s /\ e.fn = Head(todo[s]) /\ e.msg = msg[s]
        /\ pc[s] = "sending" /\ todo[s] \in Seq(Funcs) /\ todo[s] # << >>
        /\ LoopTypeOK' /\ Line' = Append(Line, e)
        /\ UNCHANGED <<eventSwapQueue, calling>>
        /\ posted' = [posted EXCEPT ![s] = posted[s] \cup {Head(todo[s])}]
        /\ todo' = [todo EXCEPT ![s] = Tail(todo[s])]
        /\ pc' = [pc EXCEPT ![s] = IF Tail(todo[s]) = << >> THEN "select" ELSE "sending"]
        /\ UNCHANGED <<registry, msg, client, ends>>
  BY SendEffect DEF OrderInv, FunctionsInv
<1>2. PICK q \in Seq(PubSubEvents), u \in Seq(Funcs) :
        q = Line /\ u = todo[s] /\ u # << >> /\ IsInjective(u)
  BY <1>1, LineType DEF OrderInv, FunctionsInv, Distinct
<1>3. /\ Range(u) = {e.fn} \cup Range(Tail(u))
      /\ e.fn \notin Range(Tail(u))
  BY <1>1, <1>2, TailElements
<1>4. /\ todo'[s] = Tail(u) /\ \A t \in Subs \ {s} : todo'[t] = todo[t]
      /\ UNCHANGED <<msg, channel, published>>
      /\ Line' = Append(q, e)
      /\ msg[s] \in Int
  BY <1>1, <1>2 DEF OrderInv, FunctionsInv, Types, GoroutineTypeOK, client
<1>5. /\ \A d \in Range(q) : UpTo(d)
      /\ Range(q) \subseteq PubSubEvents
      /\ ~mixed' => Ordered(q)
  BY <1>2, RangeOfSeq, OnlyTicksMix DEF OrderInv, Subscriber
<1>6. \A d \in Range(q) : d.sub = e.sub /\ d.fn = e.fn => d.msg < e.msg
  BY <1>1, <1>2, <1>3, <1>5 DEF UpTo
<1>7. (~mixed' => Ordered(Append(q, e))) /\ Range(Append(q, e)) = Range(q) \cup {e}
  <2>1. Ordered(q) => Ordered(Append(q, e))
    BY <1>6, OrderedAppend
  <2>2. Range(Append(q, e)) = Range(q) \cup {e}
    BY AppendElements
  <2> QED BY <1>5, <2>1, <2>2
<1>8. ASSUME NEW d \in Range(q) \cup {e} PROVE UpTo(d)'
  <2>1. CASE d = e
    <3>1. e.msg <= msg[s]
      BY <1>1, <1>4
    <3> QED BY <1>1, <1>3, <1>4, <2>1, <3>1 DEF UpTo
  <2>2. CASE d \in Range(q)
    <3>1. UpTo(d) /\ d.sub \in Subs /\ d.msg \in Int
      BY <1>5, <2>2 DEF PubSubEvents
    <3>2. CASE d.sub = s
      <4>1. d.msg < msg[s] => d.msg <= msg[s]
        BY <1>4, <3>1
      <4> QED BY <1>2, <1>3, <1>4, <3>1, <3>2, <4>1 DEF UpTo
    <3>3. CASE d.sub # s
      BY <1>4, <3>1, <3>3 DEF UpTo
    <3> QED BY <3>2, <3>3
  <2> QED BY <2>1, <2>2
<1>9. (\A t \in Subs : Later(t))'
  BY <1>4 DEF OrderInv, Later
<1>10. (~mixed => Ordered(Line))' /\ (\A d \in Range(Line) : UpTo(d))'
  BY <1>4, <1>7, <1>8 DEF Ordered
<1> QED BY <1>9, <1>10

LEMMA OrderStep == OrderInv /\ [Next]_vars => OrderInv'
<1> DEFINE Goal == /\ (~mixed => Ordered(Line))'
                   /\ (\A e \in Range(Line) : UpTo(e))' /\ (\A s \in Subs : Later(s))'
<1> SUFFICES ASSUME OrderInv, [Next]_vars PROVE Goal
  <2> SUFFICES ASSUME OrderInv, [Next]_vars PROVE OrderInv'
    OBVIOUS
  <2>1. FunctionsInv'
    BY FunctionsStep DEF OrderInv
  <2> QED BY <2>1 DEF OrderInv
<1>0. Types
  BY DEF OrderInv, FunctionsInv
<1>1. ASSUME UNCHANGED <<todo, msg, channel, published, Line>>, UNCHANGED mixed PROVE Goal
  <2>1. Moves
    BY <1>1 DEF Moves
  <2> QED BY <1>1, <2>1, OrderSame
<1>2. CASE \E n \in Names : Publish(n)
  BY <1>2, OrderPublish
<1>3. ASSUME NEW g \in Goroutines, Lua(g) PROVE Goal
  <2>0. UNCHANGED mixed
    BY <1>3, OnlyTicksMix
  <2>1. ASSUME NEW n \in Names, SubscribeNew(g, n) \/ SubscribeMore(g, n) PROVE Goal
    <3>1. UNCHANGED <<Line, Others>>
      BY <1>0, <2>1, SubscribeNewEffect, SubscribeMoreEffect
    <3> QED BY <1>1, <2>0, <3>1 DEF Others, goroutine, client
  <2>2. ASSUME NEW n \in Names, Unsubscribe(g, n) PROVE Goal
    <3>1. UNCHANGED <<Line, goroutine, client>>
      BY <1>0, <2>2, UnsubscribeEffect
    <3> QED BY <1>1, <2>0, <3>1 DEF goroutine, client
  <2>3. CASE CloseRedis(g)
    <3>1. UNCHANGED <<Line, goroutine, client>>
      BY <1>0, <2>3, CloseEffect
    <3> QED BY <1>1, <2>0, <3>1 DEF goroutine, client
  <2>4. CASE Subscribed(g) \/ AppendFunction(g)
    <3>1. UNCHANGED <<Line, todo, msg, client>>
      BY <1>0, <2>4, SubscribedEffect, AppendEffect
    <3> QED BY <1>1, <2>0, <3>1 DEF client
  <2> QED BY <1>3, <2>1, <2>2, <2>3, <2>4 DEF Lua
<1>4. ASSUME NEW s \in Subs, Subscriber(s) PROVE Goal
  <2>0. UNCHANGED mixed
    BY <1>4, OnlyTicksMix
  <2>1. CASE Done(s) \/ NilMessage(s)
    BY <1>1, <2>0, <2>1 DEF Done, NilMessage, dispatch, client, Line
  <2> QED BY <1>4, <2>1, OrderReceive, OrderSend DEF Subscriber
<1>5. CASE UpdateCall \/ UpdateReturn \/ ((LoopSteps \/ HostSteps) /\ UNCHANGED own)
  <2>1. UNCHANGED own
    BY <1>5 DEF UpdateCall, UpdateReturn
  <2>2. Moves
    BY <1>0, <1>5, LoopEffect DEF Types, NothingStays
  <2> QED BY <2>1, <2>2, OrderSame DEF own, goroutine, client
<1>6. CASE UNCHANGED vars
  BY <1>1, <1>6, OnlyTicksMix DEF vars, own, dispatch, goroutine, client, Line
<1> QED BY <1>2, <1>3, <1>4, <1>5, <1>6 DEF Next

LEMMA OrderInit == Init => OrderInv
<1> SUFFICES ASSUME Init PROVE OrderInv
  OBVIOUS
<1>1. Len(<< >>) = 0 /\ Range(<< >>) = {}
  BY EmptyElements
<1>2. Line = << >>
  <2>1. << >> \o << >> = << >>
    BY EmptyElements, ConcatEmptySeq
  <2> QED BY <2>1 DEF Init, DispatchInit, Line
<1>3. Ordered(Line) /\ \A e \in Range(Line) : UpTo(e)
  BY <1>1, <1>2 DEF Ordered
<1>4. \A s \in Subs : Later(s)
  BY <1>1 DEF Init, Later, Increasing
<1>5. OwnFunctions /\ Distinct
  <2>1. IsInjective(<< >>)
    BY DEF IsInjective
  <2> QED BY <2>1 DEF Init, DispatchInit, OwnFunctions, Adds, Waits, Distinct
<1> QED BY <1>3, <1>4, <1>5, InitType DEF OrderInv, FunctionsInv

LEMMA OrderFacts == OrderInv => InOrder
<1> SUFFICES ASSUME OrderInv PROVE InOrder
  OBVIOUS
<1>1. ~mixed =>
        \A i, j \in 1..Len(Line) :
          i < j /\ Line[i].sub = Line[j].sub /\ Line[i].fn = Line[j].fn
            => Line[i].msg < Line[j].msg
  BY DEF OrderInv, Ordered
<1>2. \A s \in Subs, i \in 1..Len(Line) :
        Line[i].sub = s => IF Line[i].fn \in Range(todo[s]) THEN Line[i].msg < msg[s]
                           ELSE Line[i].msg <= msg[s]
  <2>1. \A i \in 1..Len(Line) : Line[i] \in Range(Line)
    BY LineType, LenProperties DEF OrderInv, FunctionsInv, Range
  <2> QED BY <2>1 DEF OrderInv, UpTo
<1>3. ASSUME NEW s \in Subs, NEW i \in 1..Len(channel[s])
      PROVE  channel[s][i] > IF i = 1 THEN msg[s] ELSE channel[s][i - 1]
  <2>1. PICK c \in Seq(1..MaxMessages) : c = channel[s]
    BY DEF OrderInv, FunctionsInv, Types, ClientTypeOK
  <2>2. PICK k \in Nat : k = msg[s]
    BY DEF OrderInv, FunctionsInv, Types, GoroutineTypeOK
  <2>3. Increasing(c) /\ \A x \in Range(c) : k < x
    BY <2>1, <2>2 DEF OrderInv, Later
  <2>4. Len(c) \in Nat /\ i \in 1..Len(c) /\ \A j \in 1..Len(c) : c[j] \in Range(c) /\ c[j] \in Int
    <3>1. c \in Seq(Int)
      BY MessageNumbers
    <3>2. Len(c) \in Nat /\ DOMAIN c = 1..Len(c) /\ \A j \in 1..Len(c) : c[j] \in Int
      BY <3>1, LenProperties, ElementOfSeq
    <3> QED BY <2>1, <3>2 DEF Range
  <2>5. CASE i = 1
    BY <2>1, <2>2, <2>3, <2>4, <2>5
  <2>6. CASE i # 1
    <3>1. i - 1 \in 1..Len(c) /\ i - 1 < i
      BY <2>4, <2>6
    <3>2. c[i - 1] < c[i]
      BY <2>3, <2>4, <3>1 DEF Increasing
    <3> QED BY <2>1, <2>4, <2>6, <3>1, <3>2
  <2> QED BY <2>5, <2>6
<1> QED BY <1>1, <1>2, <1>3 DEF InOrder

\* A function gets the messages of a subscription in the order of their
\* publication and none twice, over the queues of process(), the loop over the
\* functions and the client's channel, for any number of subscriptions and of
\* functions that join while messages arrive (module_redis.go: Startup;
\* runtime.go: process), until a tick finds more events than its sort keeps in
\* order.
THEOREM MessagesInOrder == Spec => []InOrder
BY OrderInit, OrderStep, OrderFacts, PTL DEF Spec

-----------------------------------------------------------------------------
(* The life cycle of events.                                               *)

\* An event is in one place, and process() has one exactly while it calls the
\* function, of a message no later than the one that its subscriber has in hand.
PlacesInv == /\ IsInjective(EventQueue) /\ IsInjective(eventQueue)
             /\ Range(EventQueue) \cap Range(eventQueue) = {}
             /\ current \notin Queued
             /\ current = None <=> loop # "callback"
             /\ current # None => UpTo(current)

LEMMA QueuedType ==
  ASSUME Types
  PROVE  /\ EventQueue \in Seq(PubSubEvents) /\ eventQueue \in Seq(PubSubEvents)
         /\ eventSwapQueue = << >> /\ Queued = Range(EventQueue) \cup Range(eventQueue)
         /\ Queued = Range(Line) /\ Queued \subseteq PubSubEvents
         /\ current \in PubSubEvents \cup {None} /\ None \notin PubSubEvents
<1>1. /\ EventQueue \in Seq(PubSubEvents) /\ eventQueue \in Seq(PubSubEvents)
      /\ eventSwapQueue = << >> /\ current \in PubSubEvents \cup {None}
  BY DEF Types, LoopTypeOK, DispatchTypeOK, NothingStays
<1>2. Range(eventSwapQueue) = {}
  BY <1>1, EmptyElements
<1>3. Range(Line) = Range(eventQueue) \cup Range(EventQueue)
  BY <1>1, RangeConcatenation DEF Line
<1>4. Range(EventQueue) \subseteq PubSubEvents /\ Range(eventQueue) \subseteq PubSubEvents
  BY <1>1, RangeOfSeq
<1> QED BY <1>1, <1>2, <1>3, <1>4, PubSubParameters DEF Queued

\* An event that is in order stays so: the goroutine goes on to later messages,
\* and through its functions.
LEMMA UpToKept ==
  ASSUME OrderInv, NEW s \in Subs, Receive(s) \/ SendEvent(s), NEW e \in PubSubEvents, UpTo(e)
  PROVE  UpTo(e)'
<1>1. e.sub \in Subs /\ e.msg \in Int
  BY DEF PubSubEvents
<1>2. /\ msg \in [Subs -> 0..MaxMessages] /\ DOMAIN todo = Subs /\ Types
  BY DEF OrderInv, FunctionsInv, Types, GoroutineTypeOK
<1>3. e.msg <= msg[e.sub]
  BY <1>1, <1>2, PubSubParameters DEF UpTo
<1>4. CASE Receive(s)
  <2>1. PICK c \in Seq(1..MaxMessages), k \in 1..MaxMessages :
          /\ c = channel[s] /\ c # << >> /\ k = Head(c)
          /\ msg' = [msg EXCEPT ![s] = k] /\ todo' = [todo EXCEPT ![s] = functions[s]]
    <3>1. /\ channel[s] \in Seq(1..MaxMessages) /\ channel[s] # << >>
          /\ Head(channel[s]) \in 1..MaxMessages
          /\ msg' = [msg EXCEPT ![s] = Head(channel[s])]
          /\ todo' = [todo EXCEPT ![s] = functions[s]]
      BY <1>2, <1>4, ReceiveEffect
    <3> QED BY <3>1
  <2>2. k \in Range(c)
    BY <2>1, TailElements
  <2>3. msg[s] < k
    BY <2>1, <2>2 DEF OrderInv, Later
  <2>4. CASE e.sub = s
    <3>1. msg[s] \in Int
      BY <1>2
    <3>2. e.msg < k /\ e.msg <= k
      BY <1>1, <1>3, <2>3, <2>4, <3>1
    <3>3. msg'[e.sub] = k
      BY <1>2, <2>1, <2>4
    <3> QED BY <3>2, <3>3 DEF UpTo
  <2>5. CASE e.sub # s
    <3>1. msg'[e.sub] = msg[e.sub] /\ todo'[e.sub] = todo[e.sub]
      BY <1>1, <1>2, <2>1, <2>5
    <3> QED BY <3>1 DEF UpTo
  <2> QED BY <2>4, <2>5
<1>5. CASE SendEvent(s)
  <2>1. /\ todo[s] \in Seq(Funcs) /\ todo[s] # << >>
        /\ todo' = [todo EXCEPT ![s] = Tail(todo[s])] /\ msg' = msg
    BY <1>2, <1>5, SendEffect
  <2>2. Range(Tail(todo[s])) \subseteq Range(todo[s])
    BY <2>1, TailElements
  <2>3. Range(todo'[e.sub]) \subseteq Range(todo[e.sub])
    BY <1>1, <1>2, <2>1, <2>2
  <2> QED BY <1>3, <2>1, <2>3 DEF UpTo
<1> QED BY <1>4, <1>5

\* The event that a subscriber sends is new: what waits or runs for the function
\* is of an earlier message.
LEMMA SendsNew ==
  ASSUME OrderInv, PlacesInv, NEW s \in Subs, SendEvent(s)
  PROVE  /\ PlacesInv'
         /\ \E e \in PubSubEvents : e \notin Queued \cup {current} /\ Queued' = Queued \cup {e}
         /\ UNCHANGED <<current, loop>>
<1>0. Types
  BY DEF OrderInv, FunctionsInv
<1>1. PICK e \in PubSubEvents :
        /\ e.sub = s /\ e.fn = Head(todo[s]) /\ e.msg = msg[s]
        /\ todo[s] \in Seq(Funcs) /\ todo[s] # << >>
        /\ Line' = Append(Line, e) /\ eventSwapQueue' = eventSwapQueue
  BY <1>0, SendEffect
<1>2. PICK d \in PubSubEvents :
        /\ d.sub = s /\ d.fn = Head(todo[s]) /\ d.msg = msg[s]
        /\ EventQueue' = Append(EventQueue, d)
        /\ UNCHANGED <<eventQueue, current, loop>>
  <2>1. PICK f \in Funcs, k \in 1..MaxMessages : f = Head(todo[s]) /\ k = msg[s]
    <3>1. Head(todo[s]) \in Funcs
      BY <1>1, TailElements
    <3>2. msg[s] \in 1..MaxMessages
      BY <1>1 DEF PubSubEvents
    <3> QED BY <3>1, <3>2
  <2>2. [sub |-> s, fn |-> f, msg |-> k] \in PubSubEvents
    BY DEF PubSubEvents
  <2> QED BY <2>1, <2>2 DEF SendEvent, Post
<1>3. ~UpTo(d)
  <2>1. Head(todo[s]) \in Range(todo[s]) /\ msg[s] \in Int
    BY <1>0, <1>1, TailElements DEF Types, GoroutineTypeOK
  <2> QED BY <1>2, <2>1 DEF UpTo
<1>4. d \notin Queued \cup {current}
  <2>1. d # None
    BY <1>0, QueuedType
  <2>2. \A c \in Queued : UpTo(c)
    BY <1>0, QueuedType DEF OrderInv
  <2> QED BY <1>3, <2>1, <2>2 DEF PlacesInv
<1>5. /\ Range(EventQueue') = Range(EventQueue) \cup {d}
      /\ IsInjective(EventQueue')
  BY <1>0, <1>2, <1>4, QueuedType, AppendElements DEF PlacesInv
<1>6. Queued' = Queued \cup {d}
  BY <1>1, <1>2, <1>5 DEF Queued
<1>7. ASSUME NEW c \in PubSubEvents, c = current PROVE UpTo(c)'
  <2>1. UpTo(c)
    BY <1>0, <1>7, QueuedType DEF PlacesInv
  <2> QED BY <2>1, UpToKept
<1>8. PlacesInv'
  <2>1. Range(EventQueue') \cap Range(eventQueue') = {} /\ current' \notin Queued'
    BY <1>0, <1>2, <1>4, <1>5, <1>6, QueuedType DEF PlacesInv
  <2>2. current' # None => UpTo(current)'
    <3>1. CASE current = None
      BY <1>2, <3>1
    <3>2. CASE current # None
      <4>1. PICK c \in PubSubEvents : c = current
        BY <1>0, <3>2, QueuedType
      <4>2. UpTo(c)' /\ current' = c
        BY <1>2, <1>7, <4>1
      <4> QED BY <4>2 DEF UpTo
    <3> QED BY <3>1, <3>2
  <2>3. IsInjective(eventQueue) /\ (current = None <=> loop # "callback")
    BY DEF PlacesInv
  <2> QED BY <1>2, <1>5, <2>1, <2>2, <2>3 DEF PlacesInv
<1> QED BY <1>2, <1>4, <1>6, <1>8

\* process() moves events from queue to queue.
LEMMA PlacesLoop ==
  ASSUME OrderInv, PlacesInv, UNCHANGED own, LoopReceive \/ LoopTick \/ LoopSwap
  PROVE  /\ PlacesInv' /\ Queued' = Queued /\ current' = current
         /\ loop # "closed" /\ loop' # "closed"
<1>0. Types
  BY DEF OrderInv, FunctionsInv
<1>1. /\ current' = current /\ current = None /\ loop \in {"select", "drain"}
      /\ loop' \in {"select", "drain"}
  BY DEF LoopReceive, LoopTick, LoopSwap, PlacesInv
<1>2. SUFFICES /\ IsInjective(EventQueue') /\ IsInjective(eventQueue')
               /\ Range(EventQueue') \cap Range(eventQueue') = {}
               /\ Queued' = Queued
  BY <1>1 DEF PlacesInv
<1>3. CASE LoopReceive
  <2>1. PICK q \in Seq(PubSubEvents), e \in PubSubEvents :
          /\ q = Tail(EventQueue) /\ e = Head(EventQueue)
          /\ Range(EventQueue) = {e} \cup Range(q) /\ IsInjective(q) /\ e \notin Range(q)
    <3>1. EventQueue \in Seq(PubSubEvents) /\ EventQueue # << >> /\ IsInjective(EventQueue)
      BY <1>0, <1>3, QueuedType DEF LoopReceive, PlacesInv
    <3> QED BY <3>1, TailElements
  <2>2. /\ EventQueue' = q /\ eventQueue' = Append(eventQueue, e)
        /\ eventSwapQueue' = eventSwapQueue
    BY <1>3, <2>1 DEF LoopReceive
  <2>3. eventQueue \in Seq(PubSubEvents) /\ IsInjective(eventQueue) /\ e \notin Range(eventQueue)
        /\ Range(q) \cap Range(eventQueue) = {}
    BY <1>0, <2>1, QueuedType DEF PlacesInv
  <2>4. /\ Range(eventQueue') = Range(eventQueue) \cup {e} /\ IsInjective(eventQueue')
    BY <2>2, <2>3, AppendElements
  <2> QED BY <2>1, <2>2, <2>3, <2>4 DEF Queued
<1>4. CASE LoopTick
  <2>1. eventQueue \in Seq(PubSubEvents) /\ eventQueue' \in Sorted(eventQueue)
        /\ UNCHANGED <<EventQueue, eventSwapQueue>>
    BY <1>0, <1>4, QueuedType DEF LoopTick
  <2>2. Range(eventQueue') = Range(eventQueue) /\ IsInjective(eventQueue')
    BY <2>1, SortedElements DEF PlacesInv
  <2> QED BY <2>1, <2>2 DEF PlacesInv, Queued
<1>5. CASE LoopSwap
  <2>1. eventQueue' = eventQueue /\ UNCHANGED <<EventQueue, eventSwapQueue>>
    BY <1>0, <1>5, QueuedType DEF LoopSwap
  <2> QED BY <2>1 DEF PlacesInv, Queued
<1> QED BY <1>3, <1>4, <1>5

\* process() takes the first event.
LEMMA PlacesCall ==
  ASSUME OrderInv, PlacesInv, UpdateCall
  PROVE  /\ PlacesInv' /\ current = None /\ loop # "closed" /\ loop' # "closed"
         /\ \E e \in Queued : current' = e /\ Queued' = Queued \ {e}
<1>0. Types
  BY DEF OrderInv, FunctionsInv
<1>1. /\ loop = "drain" /\ loop' = "callback" /\ eventQueue # << >>
      /\ current' = Head(eventQueue) /\ eventQueue' = Tail(eventQueue)
      /\ UNCHANGED <<EventQueue, eventSwapQueue, own>>
  BY DEF UpdateCall, LoopPop
<1>2. PICK q \in Seq(PubSubEvents), e \in PubSubEvents :
        /\ q = Tail(eventQueue) /\ e = Head(eventQueue)
        /\ Range(eventQueue) = {e} \cup Range(q) /\ IsInjective(q) /\ e \notin Range(q)
  <2>1. eventQueue \in Seq(PubSubEvents) /\ IsInjective(eventQueue)
    BY <1>0, QueuedType DEF PlacesInv
  <2> QED BY <1>1, <2>1, TailElements
<1>3. eventQueue' = q /\ current' = e /\ e # None /\ e \in Queued
  <2>1. Queued = Range(EventQueue) \cup Range(eventQueue) /\ None \notin PubSubEvents
    BY <1>0, QueuedType
  <2> QED BY <1>1, <1>2, <2>1
<1>4. Queued' = Queued \ {e}
  <2>1. /\ Range(eventSwapQueue) = {} /\ Range(EventQueue) \cap Range(eventQueue) = {}
    BY <1>0, QueuedType, EmptyElements DEF PlacesInv
  <2> QED BY <1>1, <1>2, <1>3, <2>1 DEF Queued
<1>5. UpTo(e)'
  <2>1. UpTo(e)
    BY <1>0, <1>3, QueuedType DEF OrderInv
  <2> QED BY <1>1, <2>1 DEF UpTo, own, goroutine
<1>6. PlacesInv'
  BY <1>1, <1>2, <1>3, <1>4, <1>5 DEF PlacesInv, UpTo
<1> QED BY <1>1, <1>3, <1>4, <1>6 DEF PlacesInv

\* Steps after which the same events wait and run.
LEMMA PlacesSame ==
  ASSUME OrderInv, PlacesInv,
         \/ \E n \in Names : Publish(n)
         \/ \E g \in Goroutines : Lua(g)
         \/ \E s \in Subs : Receive(s) \/ Done(s) \/ NilMessage(s)
         \/ HostSteps /\ UNCHANGED own
         \/ UNCHANGED vars
  PROVE  PlacesInv' /\ UNCHANGED <<EventQueue, eventQueue, eventSwapQueue, current, loop>>
<1>0. Types
  BY DEF OrderInv, FunctionsInv
<1>1. UNCHANGED <<EventQueue, eventQueue, eventSwapQueue, current, loop>>
  BY DEF Publish, Lua, SubscribeNew, Subscribed, SubscribeMore, AppendFunction, Unsubscribe,
         CloseRedis, Receive, Done, NilMessage, HostSteps, MainReturn, Shutdown, Call, Return,
         vars, dispatch
<1>2. ASSUME NEW c \in PubSubEvents, c = current PROVE UpTo(c)'
  <2>1. c # None /\ UpTo(c)
    BY <1>0, <1>2, QueuedType DEF PlacesInv
  <2>2. CASE \E s \in Subs : Receive(s)
    BY <2>1, <2>2, UpToKept
  <2>3. CASE UNCHANGED <<todo, msg>>
    BY <2>1, <2>3 DEF UpTo
  <2>4. ASSUME \A s \in Subs : ~Receive(s) PROVE UNCHANGED <<todo, msg>>
    BY <2>4 DEF Publish, Lua, SubscribeNew, Subscribed, SubscribeMore, AppendFunction,
                Unsubscribe, CloseRedis, Done, NilMessage, vars, own, goroutine
  <2> QED BY <2>2, <2>3, <2>4
<1>3. current' # None => UpTo(current)'
  <2>1. CASE current = None
    BY <1>1, <2>1
  <2>2. CASE current # None
    <3>1. PICK c \in PubSubEvents : c = current
      BY <1>0, <2>2, QueuedType
    <3>2. UpTo(c)' /\ current' = c
      BY <1>1, <1>2, <3>1
    <3> QED BY <3>2 DEF UpTo
  <2> QED BY <2>1, <2>2
<1>4. PlacesInv'
  BY <1>1, <1>3 DEF PlacesInv, Queued
<1> QED BY <1>1, <1>4

-----------------------------------------------------------------------------
\* Nothing changes for the life cycle when the same events wait and run.
LEMMA Stutters ==
  ASSUME Queued' = Queued, current' = current, loop' = "closed" <=> loop = "closed"
  PROVE  UNCHANGED Lifecycle!vars
BY DEF Lifecycle!vars, Stage

\* The channel takes an event.
LEMMA Accepts ==
  ASSUME NEW e \in PubSubEvents, e \notin Queued \cup {current}, Queued' = Queued \cup {e},
         current' = current, loop' = loop
  PROVE  Lifecycle!Accept(e)
<1>1. Stage(e) = "idle" /\ Stage(e)' = "pending"
  BY DEF Stage
<1>2. \A d \in PubSubEvents \ {e} : Stage(d)' = Stage(d)
  BY DEF Stage
<1>3. [d \in PubSubEvents |-> Stage(d)]'
        = [[d \in PubSubEvents |-> Stage(d)] EXCEPT ![e] = "pending"]
  BY <1>1, <1>2
<1> QED BY <1>1, <1>3 DEF Lifecycle!Accept

\* process() begins with an event.
LEMMA Begins ==
  ASSUME NEW e \in PubSubEvents, e \in Queued, Queued' = Queued \ {e}, current = None,
         None \notin PubSubEvents, current' = e, loop # "closed", loop' # "closed"
  PROVE  Lifecycle!Begin(e)
<1>1. /\ Stage(e) = "pending" /\ Stage(e)' = "running"
      /\ \A d \in PubSubEvents : Stage(d) # "running"
  BY DEF Stage
<1>2. \A d \in PubSubEvents \ {e} : Stage(d)' = Stage(d)
  BY DEF Stage
<1>3. [d \in PubSubEvents |-> Stage(d)]'
        = [[d \in PubSubEvents |-> Stage(d)] EXCEPT ![e] = "running"]
  BY <1>1, <1>2
<1> QED BY <1>1, <1>3 DEF Lifecycle!Begin

\* The function has returned.
LEMMA Retires ==
  ASSUME NEW e \in PubSubEvents, e = current, e \notin Queued, Queued' = Queued, current' = None,
         None \notin PubSubEvents, loop # "closed", loop' # "closed"
  PROVE  Lifecycle!Retire(e)
<1>1. Stage(e) = "running" /\ Stage(e)' = "idle"
  BY DEF Stage
<1>2. \A d \in PubSubEvents \ {e} : Stage(d)' = Stage(d)
  BY DEF Stage
<1>3. [d \in PubSubEvents |-> Stage(d)]'
        = [[d \in PubSubEvents |-> Stage(d)] EXCEPT ![e] = "idle"]
  BY <1>1, <1>2
<1> QED BY <1>1, <1>3 DEF Lifecycle!Retire

\* process() leaves its loop, with the event whose function failed if there is one.
LEMMA Closes ==
  ASSUME Queued' = Queued, current' = None, current \notin Queued, None \notin PubSubEvents,
         loop # "closed", loop' = "closed"
  PROVE  Lifecycle!Close
<1>1. \A e \in PubSubEvents : Stage(e)' = IF Stage(e) = "running" THEN "idle" ELSE Stage(e)
  BY DEF Stage
<1>2. [e \in PubSubEvents |-> Stage(e)]'
        = [e \in PubSubEvents |-> IF [d \in PubSubEvents |-> Stage(d)][e] = "running"
                                  THEN "idle" ELSE [d \in PubSubEvents |-> Stage(d)][e]]
  BY <1>1
<1> QED BY <1>2 DEF Lifecycle!Close

\* The effect of process() on the life cycle.
LEMMA LifecycleLoop ==
  ASSUME OrderInv, PlacesInv,
         UpdateCall \/ UpdateReturn \/ (LoopSteps /\ UNCHANGED own)
  PROVE  PlacesInv' /\ (Lifecycle!Next \/ UNCHANGED Lifecycle!vars)
<1>0. /\ None \notin PubSubEvents /\ Queued \subseteq PubSubEvents
      /\ current \in PubSubEvents \cup {None} /\ current \notin Queued
  BY QueuedType DEF OrderInv, FunctionsInv, PlacesInv
<1>1. CASE LoopReceive \/ LoopTick \/ LoopSwap
  BY <1>1, PlacesLoop, Stutters DEF UpdateCall, UpdateReturn
<1>2. CASE UpdateCall
  <2>1. PICK e \in PubSubEvents : e \in Queued /\ current' = e /\ Queued' = Queued \ {e}
    BY <1>0, <1>2, PlacesCall
  <2>2. Lifecycle!Begin(e)
    BY <1>0, <1>2, <2>1, PlacesCall, Begins
  <2> QED BY <1>2, <2>2, PlacesCall DEF Lifecycle!Next
<1>3. ASSUME current' = None, loop' # "callback",
             UNCHANGED <<EventQueue, eventQueue, eventSwapQueue>>
      PROVE  PlacesInv' /\ Queued' = Queued
  BY <1>0, <1>3 DEF PlacesInv, Queued
<1>4. CASE UpdateReturn
  <2>1. loop = "callback" /\ current \in PubSubEvents
    BY <1>0, <1>4 DEF UpdateReturn, RunsLua, PlacesInv
  <2>2. /\ current' = None /\ UNCHANGED <<EventQueue, eventQueue, eventSwapQueue>>
        /\ loop' \in {"drain", "closed"}
    BY <1>4 DEF UpdateReturn, Finish, LoopError
  <2>3. PlacesInv' /\ Queued' = Queued
    BY <1>3, <2>2
  <2>4. Lifecycle!Retire(current) \/ Lifecycle!Close
    BY <1>0, <2>1, <2>2, <2>3, Retires, Closes
  <2> QED BY <2>1, <2>3, <2>4 DEF Lifecycle!Next
<1>5. CASE LoopDone
  <2>1. /\ loop = "select" /\ loop' = "closed" /\ current = None /\ current' = None
        /\ UNCHANGED <<EventQueue, eventQueue, eventSwapQueue>>
    BY <1>5 DEF LoopDone, PlacesInv
  <2>2. PlacesInv' /\ Queued' = Queued
    BY <1>3, <2>1
  <2>3. Lifecycle!Close
    BY <1>0, <2>1, <2>2, Closes
  <2> QED BY <2>2, <2>3 DEF Lifecycle!Next
<1> QED BY <1>1, <1>2, <1>4, <1>5 DEF LoopSteps

LEMMA LifecycleStep ==
  OrderInv /\ PlacesInv /\ [Next]_vars => PlacesInv' /\ [Lifecycle!Next]_(Lifecycle!vars)
<1> SUFFICES ASSUME OrderInv, PlacesInv, [Next]_vars
             PROVE  PlacesInv' /\ (Lifecycle!Next \/ UNCHANGED Lifecycle!vars)
  OBVIOUS
<1>1. ASSUME NEW s \in Subs, SendEvent(s) PROVE PlacesInv' /\ Lifecycle!Next
  <2>1. PICK e \in PubSubEvents : e \notin Queued \cup {current} /\ Queued' = Queued \cup {e}
    BY <1>1, SendsNew
  <2>2. Lifecycle!Accept(e)
    BY <1>1, <2>1, SendsNew, Accepts
  <2> QED BY <1>1, <2>2, SendsNew DEF Lifecycle!Next
<1>2. CASE UpdateCall \/ UpdateReturn \/ (LoopSteps /\ UNCHANGED own)
  BY <1>2, LifecycleLoop
<1>3. CASE \/ \E n \in Names : Publish(n)
           \/ \E g \in Goroutines : Lua(g)
           \/ \E s \in Subs : Receive(s) \/ Done(s) \/ NilMessage(s)
           \/ HostSteps /\ UNCHANGED own
           \/ UNCHANGED vars
  <2>1. PlacesInv' /\ UNCHANGED <<Queued, current, loop>>
    BY <1>3, PlacesSame DEF Queued
  <2> QED BY <2>1, Stutters
<1> QED BY <1>1, <1>2, <1>3 DEF Next, Subscriber

\* The events of subscribers implement the life cycle of events, whatever the
\* sort of a tick does to their order (module_redis.go: Startup, pubSubEvent).
THEOREM MessagesAreEvents == Spec => ImplementsLifecycle
<1>1. Init => PlacesInv /\ Lifecycle!Init
  <2> SUFFICES ASSUME Init PROVE PlacesInv /\ Lifecycle!Init
    OBVIOUS
  <2>1. /\ EventQueue = << >> /\ eventQueue = << >> /\ eventSwapQueue = << >>
        /\ current = None /\ loop = "select"
    BY DEF Init, DispatchInit
  <2>2. Queued = {} /\ IsInjective(<< >>) /\ Range(<< >>) = {}
    BY <2>1, EmptyElements DEF Queued, IsInjective
  <2>3. \A e \in PubSubEvents : Stage(e) = "idle"
    BY <2>1, <2>2, PubSubParameters DEF Stage
  <2> QED BY <2>1, <2>2, <2>3 DEF PlacesInv, Lifecycle!Init
<1> QED BY <1>1, LifecycleStep, OrderInit, OrderStep, PTL
        DEF Spec, ImplementsLifecycle, Lifecycle!Spec
=============================================================================
