--------------------------- MODULE EventLifecycle ---------------------------
(***************************************************************************)
(* What a runtime promises about an event, without queues: once accepted   *)
(* it stays pending until it runs or is cancelled, events run one at a     *)
(* time, a cancelled event does not run again, and nothing runs once the   *)
(* runtime has closed.                                                     *)
(***************************************************************************)
CONSTANT Events

VARIABLES stage,      \* of each event: idle, pending or running
          cancelled,  \* events that are not to run, or not to run again
          open        \* the runtime has not closed

vars == <<stage, cancelled, open>>

Init == /\ stage = [e \in Events |-> "idle"]
        /\ cancelled = {}
        /\ open = TRUE

\* An event may be accepted by a runtime that has closed: it stays pending.
Accept(e) == /\ stage[e] = "idle"
             /\ stage' = [stage EXCEPT ![e] = "pending"]
             /\ UNCHANGED <<cancelled, open>>

Cancel(e) == /\ stage[e] # "idle"
             /\ cancelled' = cancelled \cup {e}
             /\ UNCHANGED <<stage, open>>

\* An event cancelled between the choice to run it and its run still runs
\* this once.
Begin(e) == /\ open
            /\ \A f \in Events : stage[f] # "running"
            /\ stage[e] = "pending"
            /\ e \notin cancelled
            /\ stage' = [stage EXCEPT ![e] = "running"]
            /\ UNCHANGED <<cancelled, open>>

Discard(e) == /\ open
              /\ stage[e] = "pending"
              /\ e \in cancelled
              /\ stage' = [stage EXCEPT ![e] = "idle"]
              /\ cancelled' = cancelled \ {e}
              /\ UNCHANGED open

\* A run ends: the event waits for its next run, or is done with.
Requeue(e) == /\ stage[e] = "running"
              /\ e \notin cancelled
              /\ stage' = [stage EXCEPT ![e] = "pending"]
              /\ UNCHANGED <<cancelled, open>>

Retire(e) == /\ stage[e] = "running"
             /\ stage' = [stage EXCEPT ![e] = "idle"]
             /\ cancelled' = cancelled \ {e}
             /\ UNCHANGED open

\* The runtime closes, in the middle of a failing run or between two runs.
Close == /\ open
         /\ open' = FALSE
         /\ stage' = [e \in Events |->
                        IF stage[e] = "running" THEN "idle" ELSE stage[e]]
         /\ cancelled' = cancelled \ {e \in Events : stage[e] = "running"}

Next == \/ \E e \in Events : \/ Accept(e) \/ Cancel(e) \/ Begin(e)
                             \/ Discard(e) \/ Requeue(e) \/ Retire(e)
        \/ Close

Spec == Init /\ [][Next]_vars
=============================================================================
