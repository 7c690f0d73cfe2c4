-------------------------- MODULE PubSubImplements --------------------------
(***************************************************************************)
(* The events of subscribers go through the life cycle of events. Nothing  *)
(* cancels one: unsubscribe ends the goroutine that posts them, and what   *)
(* is on its way then still runs.                                          *)
(***************************************************************************)
EXTENDS PubSub

Stage(e) == IF e = current THEN "running"
            ELSE IF e \in Queued THEN "pending" ELSE "idle"

Lifecycle == INSTANCE EventLifecycle
               WITH Events <- PubSubEvents,
                    stage <- [e \in PubSubEvents |-> Stage(e)],
                    cancelled <- {},
                    open <- loop # "closed"

\* Between the goroutines of the subscribers, the channel, the queues and a
\* tick that may mix them, no event of a message is lost, posted while it
\* still waits or runs, run while another runs, or run by a closed runtime.
ImplementsLifecycle == Lifecycle!Spec
=============================================================================
