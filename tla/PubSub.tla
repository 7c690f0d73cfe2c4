------------------------------- MODULE PubSub -------------------------------
(***************************************************************************)
(* Subscriptions of a runtime to Redis channels and patterns: the map of   *)
(* subscribers, the goroutine of each that turns messages into events, the *)
(* lock it holds meanwhile, and the calls that scripts and callbacks make  *)
(* (module_redis.go).                                                      *)
(***************************************************************************)
EXTENDS Dispatch

CONSTANTS Names,       \* channels and patterns
          Subs,        \* localRedisSubscriber objects
          Funcs,       \* Lua functions: each subscribe passes one of its own
          Buffer,      \* of the channel a redis.PubSub makes: 100
          MaxMessages  \* bound on the messages published

\* Calls that wait: for Redis, or for the lock of a subscriber.
Calls == [call : {"subscribe", "append", "close"}, sub : Subs, fn : Funcs \cup {None}]

\* Events that a subscriber posts.
PubSubEvents == [sub : Subs, fn : Funcs, msg : 1..MaxMessages]

ASSUME PubSubParameters == /\ None \notin Subs \cup Names \cup Funcs \cup Calls \cup PubSubEvents
                           /\ Buffer \in Nat \ {0}
                           /\ MaxMessages \in Nat

VARIABLES pubsub,     \* the map: a subscriber, by channel or pattern
          name,       \* the name each subscriber was made for
          functions,  \* of each subscriber
          pc,         \* where each goroutine Startup is
          channel,    \* s.Channel(): messages the goroutine has not received
          msg,        \* the message it has received
          todo,       \* the functions it has yet to send an event for
          cancelled,  \* subscribers whose context is cancelled
          closed,     \* subscribers whose PubSub is closed
          unsure,     \* subscribers whose Unsubscribe failed
          published,  \* number of messages published
          posted      \* history: the functions that lack no event of msg

registry == <<pubsub, name, functions>>
goroutine == <<pc, msg, todo, posted>>
client == <<channel, published>>
ends == <<cancelled, closed, unsure>>
own == <<registry, goroutine, client, ends>>
vars == <<dispatch, own>>

-----------------------------------------------------------------------------
\* Function literals that no call has passed before.
Fresh == {f \in Funcs : /\ \A s \in Subs : f \notin Range(functions[s])
                        /\ \A g \in Goroutines : calling[g] # None => f # calling[g].fn}

Waits(g, call) == calling[g] # None /\ calling[g].call = call

\* The subscriber holds its lock while it sends events.
Locked(s) == pc[s] = "sending"

Crashed == \E s \in Subs : pc[s] = "panicked"

-----------------------------------------------------------------------------
Init == /\ DispatchInit
        /\ pubsub = [n \in Names |-> None]
        /\ name = [s \in Subs |-> None]
        /\ functions = [s \in Subs |-> << >>]
        /\ pc = [s \in Subs |-> "none"]
        /\ channel = [s \in Subs |-> << >>]
        /\ msg = [s \in Subs |-> 0]
        /\ todo = [s \in Subs |-> << >>]
        /\ cancelled = {}
        /\ closed = {}
        /\ unsure = {}
        /\ published = 0
        /\ posted = [s \in Subs |-> {}]

\* The next message is published on a name. The client drops what its channel
\* cannot take; whether an Unsubscribe that failed reached Redis is not known.
Publish(n) ==
  /\ \E s \in Subs : name[s] = n
  /\ published < MaxMessages
  /\ published' = published + 1
  /\ \E deaf \in SUBSET unsure :
       channel' = [s \in Subs |->
                     IF /\ name[s] = n /\ pc[s] # "none"
                        /\ s \notin cancelled \cup deaf
                        /\ Len(channel[s]) < Buffer
                     THEN Append(channel[s], published') ELSE channel[s]]
  /\ UNCHANGED <<dispatch, registry, goroutine, ends>>

-----------------------------------------------------------------------------
(* What Lua calls.                                                         *)

\* subscribe or psubscribe of a name that is not in the map, up to the call of
\* Redis.
SubscribeNew(g, n) ==
  /\ pubsub[n] = None
  /\ Fresh # {}
  /\ \E s \in Subs : name[s] = None
  /\ LET s == CHOOSE s \in Subs : name[s] = None IN
     /\ Call(g, [call |-> "subscribe", sub |-> s, fn |-> CHOOSE f \in Fresh : TRUE])
     /\ name' = [name EXCEPT ![s] = n]
  /\ UNCHANGED <<pubsub, functions, goroutine, client, ends>>

\* The rest of it: the map is not looked at again.
Subscribed(g) ==
  /\ Waits(g, "subscribe")
  /\ Return(g)
  /\ LET s == calling[g].sub IN
     /\ functions' = [functions EXCEPT ![s] = <<calling[g].fn>>]
     /\ posted' = [posted EXCEPT ![s] = {calling[g].fn}]
     /\ pc' = [pc EXCEPT ![s] = "select"]
     /\ pubsub' = [pubsub EXCEPT ![name[s]] = s]
  /\ UNCHANGED <<name, msg, todo, client, ends>>

\* subscribe or psubscribe of a name in the map: Append, up to its Lock.
SubscribeMore(g, n) ==
  /\ pubsub[n] # None
  /\ Fresh # {}
  /\ Call(g, [call |-> "append", sub |-> pubsub[n], fn |-> CHOOSE f \in Fresh : TRUE])
  /\ UNCHANGED own

\* The rest of Append.
AppendFunction(g) ==
  /\ Waits(g, "append")
  /\ Return(g)
  /\ LET s == calling[g].sub IN
     /\ ~Locked(s)
     /\ functions' = [functions EXCEPT ![s] = Append(@, calling[g].fn)]
     /\ posted' = [posted EXCEPT ![s] = @ \cup {calling[g].fn}]
  /\ UNCHANGED <<pubsub, name, pc, msg, todo, client, ends>>

\* Fault: the subscriber stays in the map.
WithoutKeeps(n) == pubsub

\* delete(m.pubsub, channel)
Without(n) == [pubsub EXCEPT ![n] = None]

\* unsubscribe or punsubscribe: out of the map, and the call of Redis, which
\* may fail; else the cancellation of Close.
Unsubscribe(g, n) ==
  /\ pubsub[n] # None
  /\ pubsub' = Without(n)
  /\ \/ /\ Call(g, [call |-> "close", sub |-> pubsub[n], fn |-> None])
        /\ cancelled' = cancelled \cup {pubsub[n]}
        /\ UNCHANGED unsure
     \/ /\ RunsLua(g)
        /\ unsure' = unsure \cup {pubsub[n]}
        /\ UNCHANGED <<dispatch, cancelled>>
  /\ UNCHANGED <<name, functions, goroutine, client, closed>>

\* The rest of Close: the client closes its channel.
CloseRedis(g) ==
  /\ Waits(g, "close")
  /\ Return(g)
  /\ closed' = closed \cup {calling[g].sub}
  /\ UNCHANGED <<registry, goroutine, client, cancelled, unsure>>

-----------------------------------------------------------------------------
(* The goroutine of a subscriber.                                          *)

\* A message is received and the lock taken.
Receive(s) ==
  /\ pc[s] = "select"
  /\ channel[s] # << >>
  /\ msg' = [msg EXCEPT ![s] = Head(channel[s])]
  /\ channel' = [channel EXCEPT ![s] = Tail(@)]
  /\ todo' = [todo EXCEPT ![s] = functions[s]]
  /\ posted' = [posted EXCEPT ![s] = {}]
  /\ pc' = [pc EXCEPT ![s] = "sending"]
  /\ UNCHANGED <<dispatch, registry, published, ends>>

\* Fault: an event for the first function only.
RestFirst(s) == << >>

Rest(s) == Tail(todo[s])

\* Fault: no Unlock.
UnlockNever(s) == "sending"

Unlock(s) == IF Rest(s) = << >> THEN "select" ELSE "sending"

\* One event for one function; the lock is released after the last.
SendEvent(s) ==
  /\ pc[s] = "sending"
  /\ todo[s] # << >>
  /\ Post([sub |-> s, fn |-> Head(todo[s]), msg |-> msg[s]])
  /\ posted' = [posted EXCEPT ![s] = @ \cup {Head(todo[s])}]
  /\ todo' = [todo EXCEPT ![s] = Rest(s)]
  /\ pc' = [pc EXCEPT ![s] = Unlock(s)]
  /\ UNCHANGED <<registry, msg, client, ends>>

\* Fault: s.ctx is not made from the context of the runtime.
ContextDoneOwn(s) == s \in cancelled

\* s.ctx ends by Close and with the runtime.
ContextDone(s) == s \in cancelled \/ ctxDone

Done(s) ==
  /\ pc[s] = "select"
  /\ ContextDone(s)
  /\ pc' = [pc EXCEPT ![s] = "done"]
  /\ UNCHANGED <<dispatch, registry, msg, todo, posted, client, ends>>

\* The closed channel gives nil, and msg.Payload is read.
NilMessage(s) ==
  /\ pc[s] = "select"
  /\ s \in closed
  /\ channel[s] = << >>
  /\ pc' = [pc EXCEPT ![s] = "panicked"]
  /\ UNCHANGED <<dispatch, registry, msg, todo, posted, client, ends>>

-----------------------------------------------------------------------------
\* pubSubEvent.Update: its events are valid until their one call.
UpdateCall == LoopPop(TRUE, "callback") /\ UNCHANGED own

UpdateReturn == /\ RunsLua("loop")
                /\ Finish("callback", FALSE) \/ LoopError
                /\ UNCHANGED own

-----------------------------------------------------------------------------
Lua(g) == \/ \E n \in Names : SubscribeNew(g, n) \/ SubscribeMore(g, n) \/ Unsubscribe(g, n)
          \/ Subscribed(g) \/ AppendFunction(g) \/ CloseRedis(g)

Subscriber(s) == Receive(s) \/ SendEvent(s) \/ Done(s) \/ NilMessage(s)

\* A panic in any goroutine ends the process.
Next == /\ ~Crashed
        /\ \/ \E n \in Names : Publish(n)
           \/ \E g \in Goroutines : Lua(g)
           \/ \E s \in Subs : Subscriber(s)
           \/ UpdateCall \/ UpdateReturn
           \/ (LoopSteps \/ HostSteps) /\ UNCHANGED own

Spec == Init /\ [][Next]_vars

\* Redis answers, a goroutine that can run runs, and gopher-lua ends a function
\* when the context has ended. Messages being bounded, a step that is enabled
\* again and again is enabled for ever in the end: weak fairness is enough.
Fairness == /\ \A s \in Subs : /\ WF_vars(Receive(s))
                             /\ WF_vars(SendEvent(s))
                             /\ WF_vars(Done(s))
            /\ \A g \in Goroutines : /\ WF_vars(Subscribed(g) \/ CloseRedis(g))
                                   /\ WF_vars(AppendFunction(g))
            /\ WF_vars(LoopReceive /\ UNCHANGED own)
            /\ WF_vars(LoopTick /\ UNCHANGED own)
            /\ WF_vars(LoopSwap /\ UNCHANGED own)
            /\ WF_vars(LoopDone /\ UNCHANGED own)
            /\ WF_vars(UpdateCall)
            /\ WF_vars(ctxDone /\ UpdateReturn)

\* The scripts' own part: callbacks do not run for ever.
CallbacksReturn == WF_vars(UpdateReturn)

FairSpec == Spec /\ Fairness

-----------------------------------------------------------------------------
TypeOK ==
  /\ DispatchTypeOK(PubSubEvents, {})
  /\ calling \in [Goroutines -> Calls \cup {None}]
  /\ pubsub \in [Names -> Subs \cup {None}]
  /\ name \in [Subs -> Names \cup {None}]
  /\ functions \in [Subs -> Seq(Funcs)]
  /\ pc \in [Subs -> {"none", "select", "sending", "done", "panicked"}]
  /\ channel \in [Subs -> Seq(1..MaxMessages)]
  /\ \A s \in Subs : Len(channel[s]) <= Buffer
  /\ msg \in [Subs -> 0..MaxMessages]
  /\ todo \in [Subs -> Seq(Funcs)]
  /\ closed \subseteq cancelled /\ cancelled \subseteq Subs
  /\ unsure \subseteq Subs
  /\ published \in 0..MaxMessages
  /\ posted \in [Subs -> SUBSET Funcs]

\* Events on their way to functions, oldest first.
Line == eventQueue \o EventQueue

\* A function gets the messages of a subscription in the order they were
\* published and none twice: so it is in the queue of process(), in EventQueue,
\* in the loop over functions and in the client's channel, taken together. Only
\* a tick that finds more events than its sort keeps in order may mix those.
InOrder ==
  /\ ~mixed =>
       \A i, j \in 1..Len(Line) :
         i < j /\ Line[i].sub = Line[j].sub /\ Line[i].fn = Line[j].fn
           => Line[i].msg < Line[j].msg
  /\ \A s \in Subs, i \in 1..Len(Line) :
       Line[i].sub = s => IF Line[i].fn \in Range(todo[s]) THEN Line[i].msg < msg[s]
                          ELSE Line[i].msg <= msg[s]
  /\ \A s \in Subs : \A i \in 1..Len(channel[s]) :
       channel[s][i] > IF i = 1 THEN msg[s] ELSE channel[s][i - 1]

\* Between two messages no function of a subscriber lacks an event of the
\* message before: Append waits for the lock, and the loop skips no function.
EachFunctionPosted ==
  \A s \in Subs : pc[s] = "select" => Range(functions[s]) \subseteq posted[s]

\* A name in the map leads to a subscriber of that name which nobody has
\* closed, whichever goroutine subscribes and unsubscribes when: subscribe
\* never begins to append to a subscriber that has been given up before.
MapIsLive ==
  \A n \in Names : pubsub[n] # None => /\ name[pubsub[n]] = n
                                      /\ pubsub[n] \notin cancelled

-----------------------------------------------------------------------------
\* Nobody will take an event from the channel any more: process() has ended,
\* or it waits for the lock of a subscriber that waits for room.
Abandoned == /\ ~HasRoom
             /\ \/ loop = "closed"
                \/ Waits("loop", "append") /\ Locked(calling["loop"].sub)

\* The goroutine of a subscriber ends after Close and after the end of the
\* runtime, unless it is then sending to a channel nobody reads.
SubscribersEnd ==
  CallbacksReturn =>
    \A s \in Subs :
      ((s \in cancelled \/ ctxDone) /\ pc[s] # "none")
        ~> (pc[s] = "done" \/ (Locked(s) /\ Abandoned) \/ Crashed)

\* subscribe returns: the lock it waits for becomes free, unless its holder
\* is sending to a channel nobody reads.
SubscribeReturns ==
  CallbacksReturn =>
    \A g \in Goroutines :
      Waits(g, "append") ~> (calling[g] = None \/ Abandoned \/ Crashed)

-----------------------------------------------------------------------------
\* Unsubscribing does not end the program (README.md:18 has "support pub/sub").
NoNilMessage == ~Crashed
=============================================================================
