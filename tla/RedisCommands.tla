--------------------------- MODULE RedisCommands ---------------------------
(***************************************************************************)
(* The commands of the Redis module: how runtimes come to a pool of        *)
(* clients, what each Lua function asks of the server, and what the script *)
(* is given. A request may be lost, or its answer; go-redis then sends it  *)
(* again, and the server may apply the earlier one after that or after the *)
(* call has failed (module_redis.go). Subscriptions are in PubSub.         *)
(***************************************************************************)
EXTENDS Integers, Sequences, FiniteSets, Functions

CONSTANTS Runtimes,     \* runtimes built with WithModuleRedis, for one address
          Unconnected,  \* those of them built with nil options
          Callers,      \* goroutines that run Lua
          Home,         \* the runtime of each
          Script,       \* the calls each may make: [fn, key, field, value]
          Encode(_),    \* LuaValue and encode: the text to store, or Refused
          Decode(_),    \* decode and Value: what a script gets
          Number(_),    \* the integer that a stored text is, or None
          Text(_),      \* the text of an integer
          MaxTries,     \* attempts go-redis makes at one command
          MaxSent,      \* bound on the attempts of a caller
          MaxClients,   \* bound on the clients of a pool at a time
          MaxExact,     \* float64 has every integer up to this one: 2^53
          Empty,        \* the empty string as a key or field
          Refused,      \* go-redis cannot marshal the value
          None

ASSUME RedisParameters == /\ Unconnected \subseteq Runtimes
                          /\ Home \in [Callers -> Runtimes]
                          /\ DOMAIN Script = Callers
                          /\ MaxTries \in Nat \ {0}
                          /\ MaxSent \in Nat
                          /\ MaxClients \in Nat
                          /\ MaxExact \in Nat
                          /\ None \notin Runtimes \cup UNION Range(Script)

Calls == UNION Range(Script)
Keys == {q.key : q \in Calls} \ {Empty, None}

VARIABLES rdbs,     \* the pool in the map, named by the runtime that made it
          opening,  \* where connect_redis of each runtime is
          pool,     \* m.pool
          raced,    \* history: two runtimes were between Load and Store at once
          idle,     \* clients in each pool
          made,     \* clients a pool has made and not given up
          call,     \* the call each goroutine waits in
          sent,     \* attempts of each caller
          tries,    \* those of the present call
          wire,     \* attempts the server has not applied
          reply,    \* the server's answer to the present attempt
          store     \* the server: nothing, a text or a hash under each key

connection == <<rdbs, opening, pool, raced>>
clients == <<idle, made>>
attempts == <<sent, tries, wire, reply>>
vars == <<connection, clients, call, attempts, store>>

-----------------------------------------------------------------------------
Init == /\ rdbs = None
        /\ opening = [r \in Runtimes |-> "new"]
        /\ pool = [r \in Runtimes |-> None]
        /\ raced = FALSE
        /\ idle = [p \in Runtimes |-> 0]
        /\ made = [p \in Runtimes |-> 0]
        /\ call = [c \in Callers |-> None]
        /\ sent = [c \in Callers |-> 0]
        /\ tries = [c \in Callers |-> 0]
        /\ wire = {}
        /\ reply = [c \in Callers |-> << >>]
        /\ store = [k \in Keys |-> << >>]

-----------------------------------------------------------------------------
(* connect_redis.                                                          *)

Loading == {r \in Runtimes : opening[r] = "missed"}

Load(r) ==
  /\ opening[r] = "new"
  /\ \/ /\ r \in Unconnected
        /\ opening' = [opening EXCEPT ![r] = "open"]
        /\ UNCHANGED <<pool, raced>>
     \/ /\ r \notin Unconnected /\ rdbs # None
        /\ opening' = [opening EXCEPT ![r] = "open"]
        /\ pool' = [pool EXCEPT ![r] = rdbs]
        /\ UNCHANGED raced
     \/ /\ r \notin Unconnected /\ rdbs = None
        /\ opening' = [opening EXCEPT ![r] = "missed"]
        /\ raced' = (raced \/ Loading # {})
        /\ UNCHANGED pool
  /\ UNCHANGED <<rdbs, clients, call, attempts, store>>

\* Fault: the new pool is not stored.
KeptNever(r) == rdbs

\* Nobody looks a second time: the pool of the last one stays.
Kept(r) == r

Store(r) ==
  /\ opening[r] = "missed"
  /\ opening' = [opening EXCEPT ![r] = "open"]
  /\ pool' = [pool EXCEPT ![r] = r]
  /\ rdbs' = Kept(r)
  /\ UNCHANGED <<raced, clients, call, attempts, store>>

-----------------------------------------------------------------------------
(* What the Lua functions ask.                                             *)

\* int64(number): numbers are counted in halves.
Whole(n) == IF n >= 0 THEN n \div 2 ELSE -((-n) \div 2)

\* Fault: the list of an hmset ends one field early.
PairsShort(table) == LET last == CHOOSE f \in DOMAIN table : TRUE
                     IN [f \in DOMAIN table \ {last} |-> Encode(table[f])]

\* The list of fields and values of an hmset.
Pairs(table) == [f \in DOMAIN table |-> Encode(table[f])]

\* Those of an hset.
OneField(q) == [f \in {q.field} |-> Encode(q.value)]

\* What is sent. INCR is INCRBY 1, and HSET has any number of fields.
Argument(q) ==
  CASE q.fn = "incr"                     -> <<"by", 1>>
    [] q.fn \in {"incrby", "hincrby"}    -> <<"by", Whole(q.value)>>
    [] q.fn \in {"set", "publish"}       -> <<"text", Encode(q.value)>>
    [] q.fn = "hset"                     -> <<"pairs", OneField(q)>>
    [] q.fn = "hmset"                    -> <<"pairs", Pairs(q.value)>>
    [] OTHER                             -> << >>

Sendable(q) == LET a == Argument(q) IN
  CASE a # << >> /\ a[1] = "text"  -> a[2] # Refused
    [] a # << >> /\ a[1] = "pairs" -> Refused \notin Range(a[2])
    [] OTHER                       -> TRUE

\* lua.LNumber of a reply: above MaxExact to the nearest even number.
Rounded(n) == IF n <= MaxExact \/ n % 2 = 0 THEN n
              ELSE IF n % 4 = 1 THEN n - 1 ELSE n + 1

\* What is pushed when the client returns no error. The functions that write
\* push nothing.
Pushed(q, answer) ==
  CASE q.fn = "exists"                       -> <<"bool", answer[2] = 1>>
    [] q.fn \in {"get", "hget"}              -> <<"value", Decode(answer[2])>>
    [] q.fn \in {"incr", "incrby", "hincrby"} -> <<"number", Rounded(answer[2])>>
    [] q.fn = "hgetall" -> <<"fields", [f \in DOMAIN answer[2] |-> Decode(answer[2][f])]>>
    [] q.fn = "hkeys"                        -> <<"keys", DOMAIN answer[2]>>
    [] q.fn = "ping"                         -> <<"pong">>
    [] OTHER                                 -> << >>

-----------------------------------------------------------------------------
(* The server.                                                             *)

OK(item) == <<item, <<"ok">>>>
Wrong(item) == <<item, <<"error">>>>

Table(item) == IF item = << >> THEN << >> ELSE item[2]

\* The fields of a command over those of a hash.
Merged(table, over) == [f \in DOMAIN over \cup DOMAIN table |->
                          IF f \in DOMAIN over THEN over[f] ELSE table[f]]

\* The hash under a key and the answer, after a command on a hash.
AppliedToHash(item, q, arg) ==
  LET table == Table(item)
      field == IF q.field \in DOMAIN table THEN Number(table[q.field]) ELSE 0
  IN
  CASE q.fn \in {"hset", "hmset"} -> OK(<<"pairs", Merged(table, arg[2])>>)
    [] q.fn = "hincrby" ->
         IF field = None THEN Wrong(item)
         ELSE <<<<"pairs", Merged(table, [f \in {q.field} |-> Text(field + arg[2])])>>,
                <<"int", field + arg[2]>>>>
    [] q.fn = "hget" -> IF q.field \in DOMAIN table THEN <<item, <<"text", table[q.field]>>>>
                        ELSE Wrong(item)
    [] q.fn \in {"hgetall", "hkeys"} -> <<item, <<"pairs", table>>>>

\* The item under a key and the answer, after a command.
Applied(item, q, arg) ==
  LET holds(kind) == item # << >> /\ item[1] = kind
      count == IF item = << >> THEN 0 ELSE Number(item[2])
  IN
  CASE q.fn \in {"ping", "publish"} -> OK(item)
    [] q.fn = "exists" -> <<item, <<"int", IF item = << >> THEN 0 ELSE 1>>>>
    [] q.fn = "set" -> OK(arg)
    [] q.fn = "get" -> IF holds("text") THEN <<item, item>> ELSE Wrong(item)
    [] q.fn \in {"incr", "incrby"} ->
         IF holds("pairs") \/ count = None THEN Wrong(item)
         ELSE <<<<"text", Text(count + arg[2])>>, <<"int", count + arg[2]>>>>
    [] OTHER -> IF holds("text") THEN Wrong(item) ELSE AppliedToHash(item, q, arg)

-----------------------------------------------------------------------------
(* A call.                                                                 *)

Connected(c) == pool[Home[c]] # None

\* pool.Get: an idle client, or one that New makes; sync.Pool promises neither.
Get(p) == \/ idle[p] > 0 /\ idle' = [idle EXCEPT ![p] = @ - 1] /\ UNCHANGED made
          \/ made[p] < MaxClients /\ made' = [made EXCEPT ![p] = @ + 1] /\ UNCHANGED idle

\* A call that goes as far as pool.Get. Those that do not change nothing: an empty
\* key or field raises an error; without a connection validate() ends the call,
\* or the nil pool raises an error where incr, incrby, hincrby and hmset have no
\* validate().
Begin(c, q) == /\ opening[Home[c]] = "open" /\ Connected(c)
               /\ Empty \notin {q.key, q.field}
               /\ call[c] = None
               /\ sent[c] < MaxSent
               /\ Get(pool[Home[c]])
               /\ call' = [call EXCEPT ![c] = q]
               /\ UNCHANGED <<connection, attempts, store>>

\* The first attempt, or another after one that brought no answer.
Send(c) ==
  /\ call[c] # None /\ Sendable(call[c])
  /\ reply[c] = << >>
  /\ tries[c] < MaxTries /\ sent[c] < MaxSent
  /\ sent' = [sent EXCEPT ![c] = @ + 1]
  /\ tries' = [tries EXCEPT ![c] = @ + 1]
  /\ wire' = wire \cup {[caller |-> c, attempt |-> sent[c] + 1, call |-> call[c]]}
  /\ UNCHANGED <<connection, clients, call, reply, store>>

\* The server applies an attempt; its answer arrives if the caller still waits
\* for this one, or is lost.
Apply(a) ==
  LET q == a.call
      item == IF q.key \in Keys THEN store[q.key] ELSE << >>
      done == Applied(item, q, Argument(q))
  IN /\ wire' = wire \ {a}
     /\ store' = [k \in Keys |-> IF k = q.key THEN done[1] ELSE store[k]]
     /\ \/ /\ call[a.caller] # None /\ a.attempt = sent[a.caller] /\ tries[a.caller] > 0
           /\ reply' = [reply EXCEPT ![a.caller] = done[2]]
        \/ UNCHANGED reply
     /\ UNCHANGED <<connection, clients, call, sent, tries>>

\* Fault: the client is not put back.
PutNever(c) == UNCHANGED idle

\* The deferred pool.Put.
Put(c) == idle' = [idle EXCEPT ![pool[Home[c]]] = @ + 1]

Writes == {"set", "incr", "incrby", "hset", "hincrby", "hmset"}

\* Attempts of an ended call may still be applied; nobody sees those that read.
Finish(c) == /\ wire' = {a \in wire : a.caller = c => a.call.fn \in Writes}
             /\ call' = [call EXCEPT ![c] = None]
             /\ tries' = [tries EXCEPT ![c] = 0]
             /\ reply' = [reply EXCEPT ![c] = << >>]
             /\ UNCHANGED <<connection, made, sent, store>>

\* What the call is about to give the script.
Answered(c) == call[c] # None /\ reply[c] \notin {<< >>, <<"error">>}
Given(c) == Pushed(call[c], reply[c])

Return(c) == Answered(c) /\ Put(c) /\ Finish(c)

\* An error of Redis or of the client, a timeout, the end of the runtime's
\* context: it is logged, and the script gets nothing.
Fail(c) ==
  /\ call[c] # None
  /\ Put(c)
  /\ Finish(c)

\* The garbage collector empties a sync.Pool.
Collect(p) ==
  /\ idle[p] > 0
  /\ made' = [made EXCEPT ![p] = @ - idle[p]]
  /\ idle' = [idle EXCEPT ![p] = 0]
  /\ UNCHANGED <<connection, call, attempts, store>>

Next == \/ \E r \in Runtimes : Load(r) \/ Store(r) \/ Collect(r)
        \/ \E c \in Callers : \/ \E q \in Script[c] : Begin(c, q)
                              \/ Send(c) \/ Return(c) \/ Fail(c)
        \/ \E a \in wire : Apply(a)

Spec == Init /\ [][Next]_vars

-----------------------------------------------------------------------------
InUse(p) == {c \in Callers : call[c] # None /\ pool[Home[c]] = p}

\* Keys that scripts only write with hmset, all their fields at once.
Wholes == {k \in Keys : \A q, p \in Calls :
             /\ q.key = k => q.fn \in {"hmset", "hgetall", "hkeys", "exists"}
             /\ q.key = k /\ p.key = k /\ q.fn = "hmset" /\ p.fn = "hmset"
                  => DOMAIN q.value = DOMAIN p.value}

\* hgetall never gives fields of two hmset calls together: what it gives is
\* nothing or what one call wrote, and all of it, even when attempts arrive late.
HashesWhole ==
  \A c \in Callers :
    Answered(c) /\ call[c].fn = "hgetall" /\ call[c].key \in Wholes
      => \/ Given(c)[2] = << >>
         \/ \E q \in Calls : /\ q.fn = "hmset" /\ q.key = call[c].key
                             /\ Given(c)[2] = [f \in DOMAIN q.value |->
                                                  Decode(Encode(q.value[f]))]

\* Every way out of a call gives its client back: those that a pool has made
\* are idle or in a call.
ClientsReturned == \A p \in Runtimes : made[p] = idle[p] + Cardinality(InUse(p))

\* Runtimes have one pool between them unless two were in connect_redis
\* between Load and Store at once.
SplitOnlyByRace ==
  \A r, s \in Runtimes :
    pool[r] # None /\ pool[s] # None /\ pool[r] # pool[s] => raced
=============================================================================
