----------------------------- MODULE ZmqEvent ------------------------------
(***************************************************************************)
(* A ZeroMQ dealer or router of a runtime: its event in the event loop,    *)
(* the goroutine that takes packets from the client library into the       *)
(* event's queue, and stop() from either goroutine that runs Lua           *)
(* (module_zmq.go).                                                        *)
(***************************************************************************)
EXTENDS Dispatch

CONSTANTS Events,      \* localZmqEvent objects
          Others,      \* events of other modules, which share the event loop
          MaxPackets,  \* bound on the packets that arrive at each
          Malformed,   \* numbers of packets that gob cannot decode
          Framed,      \* numbers of packets that have a sender frame
          RecvRoom,    \* of the channel RecvChan, which goczmq makes
          SendRoom     \* of its channel SendChan

\* What goes through the loop.
LoopEvents == Events \cup Others

ASSUME ZmqParameters == /\ Events \cap Others = {}
                        /\ None \notin LoopEvents
                        /\ \A e \in Events : <<"send", e>> \notin LoopEvents \cup {None}
                        /\ MaxPackets \in Nat
                        /\ Malformed \subseteq 1..MaxPackets
                        /\ Framed \subseteq 1..MaxPackets
                        /\ RecvRoom \in Nat \ {0} /\ SendRoom \in Nat \ {0}

VARIABLES state,     \* StateEvent.value
          queue,     \* e.queue
          worker,    \* where the goroutine of Update is
          hand,      \* the packet it has decoded, to be queued
          RecvChan,  \* packets the client library has received
          open,      \* events whose RecvChan is not closed
          arrived,   \* how many packets have arrived
          SendChan,  \* how many packets wait there to be sent
          stopped,   \* events whose stop() has been called
          called     \* history: the last packet the function was called with

socket == <<RecvChan, open, arrived, SendChan>>
receiver == <<worker, hand>>
event == <<state, queue, called>>
own == <<socket, receiver, event, stopped>>
vars == <<dispatch, own>>

\* Everything the runtime refers to.
Held == Queued \cup {current} \cup {calling[g] : g \in Goroutines}

\* The mutex of the event is held from the test of the queue to the end of
\* Update, callbacks included.
Locked(e) == current = e /\ loop \in {"packets", "callback"}

\* The call of a goroutine that waits in SendChan <- of e.
Sending(e) == <<"send", e>>

\* Lua has the table of e.
Bound(e) == state[e] # "new" /\ e \notin Range(calling)

-----------------------------------------------------------------------------
Init == /\ DispatchInit
        /\ state = [e \in Events |-> "new"]
        /\ queue = [e \in Events |-> << >>]
        /\ worker = [e \in Events |-> "off"]
        /\ hand = [e \in Events |-> 0]
        /\ RecvChan = [e \in Events |-> << >>]
        /\ open = {}
        /\ arrived = [e \in Events |-> 0]
        /\ SendChan = [e \in Events |-> 0]
        /\ stopped = {}
        /\ called = [e \in Events |-> 0]

\* dealer or router, up to the send of the event.
Create(g, e) == /\ Call(g, e)
                /\ state[e] = "new"
                /\ state' = [state EXCEPT ![e] = "initialize"]
                /\ open' = open \cup {e}
                /\ UNCHANGED <<RecvChan, arrived, SendChan, receiver, queue, called, stopped>>

\* Lua makes an event of another module, such as a timer.
CreateOther(g, o) == o \notin Held /\ Call(g, o) /\ UNCHANGED own

\* m.runtime.EventQueue <- e
Send(g) == /\ calling[g] \in LoopEvents
           /\ SendAndReturn(g, calling[g])
           /\ UNCHANGED own

\* stop(), once: the state is stored, and the channeler destroyed.
Stop(g, e) == /\ RunsLua(g)
              /\ Bound(e)
              /\ e \notin stopped
              /\ state' = [state EXCEPT ![e] = "complete"]
              /\ stopped' = stopped \cup {e}
              /\ UNCHANGED <<dispatch, socket, receiver, queue, called>>

\* send(), up to the send to SendChan; a payload that gob refuses raises an
\* error, which ends the script or the loop as any other.
SendPacket(g, e) == Bound(e) /\ Call(g, Sending(e)) /\ UNCHANGED own

\* send() of the sender that came with a packet, which Lua may keep.
Reply(g, e) == (\E n \in Framed : n <= called[e]) /\ SendPacket(g, e)

Sent(g, e) == /\ calling[g] = Sending(e)
              /\ SendChan[e] < SendRoom
              /\ SendChan' = [SendChan EXCEPT ![e] = @ + 1]
              /\ Return(g)
              /\ UNCHANGED <<RecvChan, open, arrived, receiver, event, stopped>>

\* Another goroutine, such as a subscriber's, posts an event.
PostOther(o) == o \notin Held /\ Post(o) /\ UNCHANGED own

-----------------------------------------------------------------------------
(* The client library.                                                     *)

Transmit(e) == /\ e \in open
               /\ SendChan[e] > 0
               /\ SendChan' = [SendChan EXCEPT ![e] = @ - 1]
               /\ UNCHANGED <<dispatch, RecvChan, open, arrived, receiver, event, stopped>>

Arrive(e) == /\ e \in open
             /\ arrived[e] < MaxPackets
             /\ Len(RecvChan[e]) < RecvRoom
             /\ arrived' = [arrived EXCEPT ![e] = @ + 1]
             /\ RecvChan' = [RecvChan EXCEPT ![e] = Append(@, arrived'[e])]
             /\ UNCHANGED <<dispatch, open, SendChan, receiver, event, stopped>>

\* After Destroy, RecvChan is closed, and SendChan is not read any more.
CloseRecv(e) == /\ e \in open \cap stopped
                /\ open' = open \ {e}
                /\ UNCHANGED <<dispatch, RecvChan, arrived, SendChan, receiver, event, stopped>>

-----------------------------------------------------------------------------
(* The goroutine of Update.                                                *)

\* Fault: a malformed packet ends the loop.
DecodeEnds(e, n) == IF n \in Malformed
                    THEN worker' = [worker EXCEPT ![e] = "done"] /\ UNCHANGED hand
                    ELSE /\ hand' = [hand EXCEPT ![e] = n]
                         /\ worker' = [worker EXCEPT ![e] = "queueing"]

\* A malformed packet is dropped.
Decode(e, n) == IF n \in Malformed
                THEN UNCHANGED <<worker, hand>>
                ELSE /\ hand' = [hand EXCEPT ![e] = n]
                     /\ worker' = [worker EXCEPT ![e] = "queueing"]

Take(e) == /\ worker[e] = "receiving"
           /\ RecvChan[e] # << >>
           /\ RecvChan' = [RecvChan EXCEPT ![e] = Tail(@)]
           /\ Decode(e, Head(RecvChan[e]))
           /\ UNCHANGED <<dispatch, open, arrived, SendChan, event, stopped>>

\* Fault: the queue is replaced.
AppendedReplaces(e) == <<hand[e]>>

Appended(e) == Append(queue[e], hand[e])

\* e.Lock, the append, e.Unlock
Enqueue(e) == /\ worker[e] = "queueing"
              /\ ~Locked(e)
              /\ queue' = [queue EXCEPT ![e] = Appended(e)]
              /\ hand' = [hand EXCEPT ![e] = 0]
              /\ worker' = [worker EXCEPT ![e] = "receiving"]
              /\ UNCHANGED <<dispatch, socket, state, called, stopped>>

\* Fault: nothing is stored when the range ends.
RangeEndedQuietly(e) == state

\* The deferred Store.
RangeEnded(e) == [state EXCEPT ![e] = "complete"]

Received(e) == /\ worker[e] = "receiving"
               /\ RecvChan[e] = << >> /\ e \notin open
               /\ state' = RangeEnded(e)
               /\ worker' = [worker EXCEPT ![e] = "done"]
               /\ UNCHANGED <<dispatch, socket, hand, queue, called, stopped>>

-----------------------------------------------------------------------------
(* Update.                                                                 *)

Valid(e) == e \in Events => state[e] # "complete"

Pop == /\ eventQueue # << >>
       /\ LoopPop(Valid(Head(eventQueue)), "update")
       /\ UNCHANGED own

\* The Load of its switch, and the Lock of EVENT_STATE_PROGRESS.
UpdateLoad == /\ current \in Events
              /\ Goto("update", CASE state[current] = "initialize" -> "start"
                                  [] state[current] = "progress"   -> "packets"
                                  [] OTHER                         -> "continue")
              /\ UNCHANGED own

\* An event of another module runs its function, which may make any call.
UpdateOther == /\ current \in Others
               /\ Goto("update", "callback")
               /\ UNCHANGED own

\* EVENT_STATE_INITIALIZE: whatever the state is by now, it is overwritten.
UpdateStart == /\ Goto("start", "continue")
               /\ state' = [state EXCEPT ![current] = "progress"]
               /\ queue' = [queue EXCEPT ![current] = << >>]
               /\ worker' = [worker EXCEPT ![current] = "receiving"]
               /\ UNCHANGED <<socket, hand, called, stopped>>

UpdateCall == /\ Goto("packets", "callback")
              /\ queue[current] # << >>
              /\ called' = [called EXCEPT ![current] = Head(queue[current])]
              /\ queue' = [queue EXCEPT ![current] = Tail(@)]
              /\ UNCHANGED <<socket, receiver, state, stopped>>

\* The function returns, or raises an error: then Unlock, and the loop ends.
UpdateReturn == /\ RunsLua("loop")
                /\ \/ current \in Events /\ Goto("callback", "packets")
                   \/ current \in Others /\ \E again \in BOOLEAN : Finish("callback", again)
                   \/ LoopError
                /\ UNCHANGED own

\* The queue is empty: Unlock.
UpdateEnd == /\ Goto("packets", "continue")
             /\ queue[current] = << >>
             /\ UNCHANGED own

Continue == Finish("continue", state[current] # "complete") /\ UNCHANGED own

-----------------------------------------------------------------------------
Lua(g) == \/ \E e \in Events : \/ Create(g, e) \/ Stop(g, e)
                              \/ SendPacket(g, e) \/ Reply(g, e) \/ Sent(g, e)
          \/ \E o \in Others : CreateOther(g, o)
          \/ Send(g)

Receiver(e) == Take(e) \/ Enqueue(e) \/ Received(e)

Update == UpdateOther \/ UpdateLoad \/ UpdateStart \/ UpdateCall \/ UpdateEnd \/ Continue

Next == \/ \E g \in Goroutines : Lua(g)
        \/ \E e \in Events : Arrive(e) \/ Transmit(e) \/ CloseRecv(e) \/ Receiver(e)
        \/ \E o \in Others : PostOther(o)
        \/ Pop \/ Update \/ UpdateReturn
        \/ (LoopSteps \/ HostSteps) /\ UNCHANGED own

Spec == Init /\ [][Next]_vars

(* A channeler sends what is in SendChan, and closes RecvChan when it is    *)
(* destroyed; goroutines run, and one that waits for the mutex or for room  *)
(* gets it when it is free again and again; select is fair (see EventLoop). *)
Fairness == /\ \A e \in Events : /\ WF_vars(CloseRecv(e))
                                /\ WF_vars(Transmit(e))
                                /\ WF_vars(Take(e) \/ Received(e))
                                /\ SF_vars(Enqueue(e))
            /\ \A g \in Goroutines : SF_vars(Send(g) \/ \E e \in Events : Sent(g, e))
            /\ SF_vars(LoopReceive /\ UNCHANGED own)
            /\ WF_vars(LoopTick /\ UNCHANGED own)
            /\ WF_vars(LoopSwap /\ UNCHANGED own)
            /\ SF_vars(LoopDone /\ UNCHANGED own)
            /\ WF_vars(Pop)
            /\ WF_vars(Update)

\* The scripts' own part: callbacks return, whatever calls they make before.
CallbacksReturn == SF_vars(UpdateReturn)

FairSpec == Spec /\ Fairness

-----------------------------------------------------------------------------
TypeOK ==
  /\ DispatchTypeOK(LoopEvents, {"start", "packets", "continue"})
  /\ calling \in [Goroutines -> {None} \cup LoopEvents \cup {Sending(e) : e \in Events}]
  /\ state \in [Events -> {"new", "initialize", "progress", "complete"}]
  /\ queue \in [Events -> Seq(1..MaxPackets)]
  /\ worker \in [Events -> {"off", "receiving", "queueing", "done"}]
  /\ hand \in [Events -> 0..MaxPackets]
  /\ \A e \in Events : hand[e] # 0 <=> worker[e] = "queueing"
  /\ RecvChan \in [Events -> Seq(1..MaxPackets)]
  /\ \A e \in Events : Len(RecvChan[e]) <= RecvRoom
  /\ open \subseteq Events
  /\ arrived \in [Events -> 0..MaxPackets]
  /\ SendChan \in [Events -> 0..SendRoom]
  /\ stopped \subseteq Events
  /\ called \in [Events -> 0..MaxPackets]

\* The packets of an event that its function has not been called with.
Line(e) == queue[e] \o (IF hand[e] = 0 THEN << >> ELSE <<hand[e]>>) \o RecvChan[e]

\* The function is called with every well-formed packet in the order in which
\* they arrived: what has arrived and is not in line, in that order, it has been
\* called with. The queue that two goroutines share under a mutex, and that
\* the first Update replaces, loses and repeats nothing.
PacketsInOrder ==
  \A e \in Events :
    /\ \A i, j \in 1..Len(Line(e)) : i < j => Line(e)[i] < Line(e)[j]
    /\ \A n \in (1..arrived[e]) \ Malformed :
         n > called[e] <=> n \in Range(Line(e))

-----------------------------------------------------------------------------
\* A callback waits in SendChan <- of a stopped event, which has no room and is
\* not read any more; or to send an event to the full channel that only its
\* own goroutine empties. Either it does for ever, whatever event it is of.
Abandoned == \E e \in stopped : /\ calling["loop"] = Sending(e)
                                /\ SendChan[e] = SendRoom /\ e \notin open
SelfBlocked == calling["loop"] \in LoopEvents /\ ~HasRoom
Stuck == Abandoned \/ SelfBlocked

\* stop() takes effect although the first Update may overwrite its Store: in the
\* end the event is complete and out of the loop, unless the loop ends or is
\* Stuck.
StopCompletes ==
  CallbacksReturn =>
    \A e \in Events :
      e \in stopped ~> \/ state[e] = "complete" /\ e \notin Held
                       \/ loop = "closed" \/ Stuck

\* A well-formed packet reaches the function, unless the event is stopped or
\* the loop ends or is Stuck: neither a SendChan that is full for now nor the
\* mutex that is held while a callback sends keeps the packets of a living
\* event back.
PacketsArrive ==
  CallbacksReturn =>
    \A e \in Events : \A n \in (1..MaxPackets) \ Malformed :
      arrived[e] >= n /\ e \in Queued
        ~> called[e] >= n \/ e \in stopped \/ loop = "closed" \/ Stuck
=============================================================================
