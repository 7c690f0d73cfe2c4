---- MODULE MCZmqEvent ----
(* A small instance of ZmqEvent for TLC. *)
EXTENDS ZmqEventImplements

CONSTANTS z1, z2, o

\* One event, with every call of the script and of its own function.
Alone == state[z2] = "new" /\ o \notin Held

\* In company z1 comes first and gets the packets; the script makes events,
\* stops them, and goes on; callbacks of z1 make every call but send() of z1,
\* and those of o none that waits; o does not stay, and is gone before z2 is
\* stopped; there is no Shutdown.
InCompany == /\ state[z2] # "new" => state[z1] # "new"
             /\ arrived[z2] = 0
             /\ calling["main"] \in Events \cup {None}
             /\ calling["loop"] # Sending(z1) /\ SendChan[z1] = 0
             /\ current # z1 => calling["loop"] = None
             /\ o \notin Range(eventSwapQueue)
             /\ z2 \in stopped => o \notin Held
             /\ main = "script" /\ ~ctxDone

\* The bound is on what Lua, the network, the host and other goroutines do: no
\* step that fairness is about is disabled by it.
MCSpec == Init /\ [][Next /\ (Alone' \/ InCompany')]_vars /\ Fairness
=============================================================================
