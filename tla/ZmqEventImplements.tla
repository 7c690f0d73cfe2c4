------------------------- MODULE ZmqEventImplements -------------------------
(***************************************************************************)
(* ZeroMQ events go through the life cycle of events: stop() and the end   *)
(* of the range over RecvChan cancel one. The exception has its place: a   *)
(* stop() between the Load of the first Update and its Store is            *)
(* overwritten (module_zmq.go:162), and cancels nothing.                   *)
(***************************************************************************)
EXTENDS ZmqEvent

Stage(e) == IF e = current THEN "running"
            ELSE IF e \in Queued THEN "pending" ELSE "idle"

\* The first Update has read the state and will overwrite it.
Overwrites(e) == loop = "start" /\ e = current

Cancelled(e) == state[e] = "complete" /\ ~Overwrites(e)

Lifecycle == INSTANCE EventLifecycle
               WITH stage <- [e \in Events |-> Stage(e)],
                    cancelled <- {e \in Events \cap (Queued \cup {current}) : Cancelled(e)},
                    open <- loop # "closed"

\* Between the script, the client library, the goroutine of the event and
\* process(), no event is lost, duplicated, updated while another is, updated
\* after its cancellation, or updated by a closed runtime.
ImplementsLifecycle == Lifecycle!Spec
=============================================================================
