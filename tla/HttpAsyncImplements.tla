------------------------ MODULE HttpAsyncImplements ------------------------
(***************************************************************************)
(* The events of request_async go through the life cycle of events: one is *)
(* running while process() holds it, pending while one of the queues does. *)
(* A request that Lua still waits in, or that never got to the channel, is *)
(* no event of the runtime.                                                *)
(***************************************************************************)
EXTENDS HttpAsync

Stage(r) == IF r = current THEN "running"
            ELSE IF r \in Queued THEN "pending" ELSE "idle"

\* What Valid() of the event says.
Valid(r) == state[r] # "complete"

Lifecycle == INSTANCE EventLifecycle
               WITH Events <- Requests,
                    stage <- [r \in Requests |-> Stage(r)],
                    cancelled <- {r \in Queued \cup ({current} \ {None}) : ~Valid(r)},
                    open <- loop # "closed"

\* Between the channel, the two queues, the goroutine of the request and the
\* error of its function, no event is lost, duplicated, run while another
\* runs, run after its answer, or run by a closed runtime.
ImplementsLifecycle == Lifecycle!Spec
=============================================================================
