------------------------ MODULE EventLoopImplements ------------------------
(***************************************************************************)
(* The event loop implements the life cycle of events: an event is running *)
(* while process() holds it, pending while one of the queues does.         *)
(***************************************************************************)
EXTENDS EventLoop

Stage(e) == IF e = current THEN "running"
            ELSE IF e \in Queued THEN "pending" ELSE "idle"

Lifecycle == INSTANCE EventLifecycle
               WITH stage <- [e \in Events |-> Stage(e)],
                    cancelled <- {e \in Queued \cup ({current} \ {None}) : ~Valid(e)},
                    open <- pc # "closed"

\* Every behaviour of the channel, the two queues and their exchange is one
\* of the life cycle: no event is lost, duplicated, run while another runs,
\* run after its cancellation, or run by a closed runtime.
ImplementsLifecycle == Lifecycle!Spec
=============================================================================
