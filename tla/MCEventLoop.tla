---- MODULE MCEventLoop ----
(* Small instances of EventLoop for TLC. *)
EXTENDS EventLoopProperties, EventLoopImplements

CONSTANTS d, l, x, m

\* A delay of one second and a loop of one second, or of half a second.
OneSecond == [t \in Timers |-> 2]
HalfSecond == [t \in Timers |-> 1]

\* Every event of the package has priority 1.
SamePriority == [e \in Events |-> 1]
=============================================================================
