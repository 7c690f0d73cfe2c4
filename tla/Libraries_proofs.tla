-------------------------- MODULE Libraries_proofs --------------------------
(***************************************************************************)
(* Invariants of the commands of the Redis module, for every set of        *)
(* runtimes, of callers and of calls, every way of converting values and   *)
(* every bound; of the options of a runtime, for every list of options; of *)
(* the names of scripts, for every set of names; and of the bit libraries, *)
(* for words and mantissas of every size.                                  *)
(***************************************************************************)
EXTENDS RedisCommands, Options, ScriptNames, Bits, DataLemmas

-----------------------------------------------------------------------------
(* The pools of connect_redis.                                             *)

PoolsTypeOK == /\ rdbs \in Runtimes \cup {None}
               /\ opening \in [Runtimes -> {"new", "missed", "open"}]
               /\ pool \in [Runtimes -> Runtimes \cup {None}]
               /\ raced \in BOOLEAN

\* A runtime has no pool before connect_redis has ended.
PoolsLast == \A r \in Runtimes : pool[r] # None => opening[r] = "open"

\* While no two runtimes have been between Load and Store at once, the pools
\* that are given out are the one in the map, and who misses finds no pool in use.
OnePool ==
  ~raced => /\ \A r \in Runtimes : pool[r] # None => pool[r] = rdbs
            /\ \A r \in Loading : rdbs = None
            /\ \A r, s \in Loading : r = s

PoolsInv == PoolsTypeOK /\ PoolsLast /\ OnePool

LEMMA NoneIsNoRuntime == None \notin Runtimes
BY RedisParameters

LEMMA PoolsInitially == Init => PoolsInv
BY DEF Init, PoolsInv, PoolsTypeOK, PoolsLast, OnePool, Loading

\* Load and Store keep the invariant; nothing else touches the pools.
LEMMA PoolsStep == PoolsInv /\ [Next]_vars => PoolsInv'
<1> SUFFICES ASSUME PoolsInv, [Next]_vars PROVE PoolsInv'
  OBVIOUS
<1> USE DEF PoolsInv, PoolsTypeOK, PoolsLast, OnePool, Loading
<1>1. ASSUME NEW r \in Runtimes, Load(r) PROVE PoolsInv'
  BY <1>1, NoneIsNoRuntime DEF Load
<1>2. ASSUME NEW r \in Runtimes, Store(r) PROVE PoolsInv'
  <2>1. PoolsTypeOK' /\ PoolsLast'
    BY <1>2 DEF Store, Kept
  <2>2. OnePool'
    <3> SUFFICES ASSUME ~raced PROVE OnePool'
      BY <1>2 DEF Store
    <3>1. rdbs = None /\ \A s \in Runtimes : pool[s] = None
      BY <1>2, NoneIsNoRuntime DEF Store
    <3> QED BY <1>2, <3>1 DEF Store, Kept
  <2> QED BY <2>1, <2>2
<1>3. CASE UNCHANGED connection
  BY <1>3 DEF connection
<1>4. ASSUME NEW r \in Runtimes, Collect(r) PROVE UNCHANGED connection
  BY <1>4 DEF Collect
<1>5. ASSUME NEW c \in Callers, NEW q \in Script[c], Begin(c, q) PROVE UNCHANGED connection
  BY <1>5 DEF Begin
<1>6. ASSUME NEW c \in Callers, Send(c) \/ Return(c) \/ Fail(c) PROVE UNCHANGED connection
  BY <1>6 DEF Send, Return, Fail, Finish
<1>7. ASSUME NEW a \in wire, Apply(a) PROVE UNCHANGED connection
  BY <1>7 DEF Apply
<1>8. CASE UNCHANGED vars
  BY <1>3, <1>8 DEF vars
<1> QED BY <1>1, <1>2, <1>3, <1>4, <1>5, <1>6, <1>7, <1>8 DEF Next

THEOREM PoolsInvariant == Spec => []PoolsInv
<1> QED BY PoolsInitially, PoolsStep, PTL DEF Spec

\* Runtimes share one pool unless two of them were in connect_redis at once
\* (module_redis.go:68).
THEOREM OnePoolUnlessRaced == Spec => []SplitOnlyByRace
<1>1. PoolsInv => SplitOnlyByRace
  BY DEF PoolsInv, OnePool, SplitOnlyByRace
<1> QED BY <1>1, PoolsInvariant, PTL

-----------------------------------------------------------------------------
(* The clients of the pools.                                               *)

ClientsTypeOK == /\ idle \in [Runtimes -> Nat]
                 /\ made \in [Runtimes -> Nat]
                 /\ call \in [Callers -> Calls \cup {None}]

\* A call that took a client has the pool it came from to give it back to.
CallsHaveAPool == \A c \in Callers : call[c] # None => Connected(c)

\* Every client is idle or in one call.
EachCounted == \A p \in Runtimes : /\ IsFiniteSet(InUse(p))
                                   /\ made[p] = idle[p] + Cardinality(InUse(p))

ClientsInv == ClientsTypeOK /\ CallsHaveAPool /\ EachCounted

LEMMA ScriptsCalls == \A c \in Callers : Script[c] \subseteq Calls /\ None \notin Script[c]
BY RedisParameters DEF Calls, Range

LEMMA ClientsInitially == Init => ClientsInv
<1> SUFFICES ASSUME Init PROVE ClientsInv
  OBVIOUS
<1>1. \A p \in Runtimes : InUse(p) = {}
  BY DEF Init, InUse
<1> QED BY <1>1, FS_EmptySet DEF Init, ClientsInv, ClientsTypeOK, CallsHaveAPool,
             Connected, EachCounted

\* A call that begins is counted in the pool it takes a client from.
LEMMA ClientsBegin ==
  ASSUME PoolsInv, ClientsInv, NEW c \in Callers, NEW q \in Script[c], Begin(c, q)
  PROVE  ClientsInv'
<1>0. PICK p \in Runtimes : p = pool[Home[c]]
  BY RedisParameters DEF Begin, Connected, PoolsInv, PoolsTypeOK
<1>1. /\ p = pool[Home[c]]
      /\ q \in Calls /\ q # None
      /\ UNCHANGED pool
  BY <1>0, ScriptsCalls DEF Begin, connection
<1>2. /\ InUse(p)' = InUse(p) \cup {c}
      /\ c \notin InUse(p)
      /\ \A r \in Runtimes \ {p} : InUse(r)' = InUse(r)
  BY <1>1 DEF Begin, InUse, ClientsInv, ClientsTypeOK
<1>3. /\ IsFiniteSet(InUse(p)')
      /\ Cardinality(InUse(p)') = Cardinality(InUse(p)) + 1
      /\ Cardinality(InUse(p)) \in Nat
  BY <1>1, <1>2, FS_AddElement, FS_CardinalityType DEF ClientsInv, EachCounted
<1>4. ClientsTypeOK' /\ CallsHaveAPool'
  BY <1>1 DEF Begin, Get, ClientsInv, ClientsTypeOK, CallsHaveAPool, Connected
<1>5. /\ made'[p] - idle'[p] = made[p] - idle[p] + 1
      /\ \A r \in Runtimes \ {p} : made'[r] = made[r] /\ idle'[r] = idle[r]
  BY <1>1 DEF Begin, Get, ClientsInv, ClientsTypeOK
<1>6. EachCounted'
  <2> SUFFICES ASSUME NEW r \in Runtimes
               PROVE  /\ IsFiniteSet(InUse(r)')
                      /\ made'[r] = idle'[r] + Cardinality(InUse(r)')
    BY DEF EachCounted
  <2>1. CASE r = p
    <3>1. made[p] = idle[p] + Cardinality(InUse(p))
      BY <1>1 DEF ClientsInv, EachCounted
    <3>2. made'[p] \in Nat /\ idle'[p] \in Nat /\ made[p] \in Nat /\ idle[p] \in Nat
      BY <1>1, <1>4 DEF ClientsTypeOK, ClientsInv
    <3> QED BY <2>1, <1>3, <1>5, <3>1, <3>2
  <2>2. CASE r # p
    BY <2>2, <1>2, <1>5 DEF ClientsInv, EachCounted
  <2> QED BY <2>1, <2>2
<1> QED BY <1>4, <1>6 DEF ClientsInv

\* A call that ends, however it ends, puts one client back and is counted no more.
LEMMA ClientsEnd ==
  ASSUME PoolsInv, ClientsInv, NEW c \in Callers, call[c] # None, Put(c), Finish(c)
  PROVE  ClientsInv'
<1>0. PICK p \in Runtimes : p = pool[Home[c]]
  BY RedisParameters
     DEF Connected, PoolsInv, PoolsTypeOK, ClientsInv, CallsHaveAPool
<1>1. p = pool[Home[c]] /\ UNCHANGED <<pool, made>>
  BY <1>0 DEF Finish, connection
<1>2. /\ InUse(p)' = InUse(p) \ {c}
      /\ c \in InUse(p)
      /\ \A r \in Runtimes \ {p} : InUse(r)' = InUse(r)
  BY <1>1 DEF Finish, InUse, ClientsInv, ClientsTypeOK
<1>3. /\ IsFiniteSet(InUse(p)')
      /\ Cardinality(InUse(p)') = Cardinality(InUse(p)) - 1
      /\ Cardinality(InUse(p)) \in Nat
  BY <1>1, <1>2, FS_RemoveElement, FS_CardinalityType DEF ClientsInv, EachCounted
<1>4. ClientsTypeOK' /\ CallsHaveAPool'
  BY <1>1 DEF Finish, Put, ClientsInv, ClientsTypeOK, CallsHaveAPool, Connected
<1>5. /\ idle'[p] = idle[p] + 1
      /\ \A r \in Runtimes \ {p} : idle'[r] = idle[r]
  BY <1>1 DEF Put, ClientsInv, ClientsTypeOK
<1>6. EachCounted'
  <2> SUFFICES ASSUME NEW r \in Runtimes
               PROVE  /\ IsFiniteSet(InUse(r)')
                      /\ made'[r] = idle'[r] + Cardinality(InUse(r)')
    BY DEF EachCounted
  <2>1. CASE r = p
    <3>1. made[p] = idle[p] + Cardinality(InUse(p))
      BY <1>1 DEF ClientsInv, EachCounted
    <3>2. made'[p] = made[p] /\ made[p] \in Nat /\ idle[p] \in Nat
      BY <1>1 DEF ClientsTypeOK, ClientsInv
    <3> QED BY <2>1, <1>3, <1>5, <3>1, <3>2
  <2>2. CASE r # p
    BY <2>2, <1>1, <1>2, <1>5 DEF ClientsInv, EachCounted
  <2> QED BY <2>1, <2>2
<1> QED BY <1>4, <1>6 DEF ClientsInv

\* The garbage collector takes idle clients, and those alone.
LEMMA ClientsCollect ==
  ASSUME ClientsInv, NEW p \in Runtimes, Collect(p)
  PROVE  ClientsInv'
<1>1. UNCHANGED <<pool, call>> /\ \A r \in Runtimes : InUse(r)' = InUse(r)
  BY DEF Collect, InUse, connection
<1>2. Cardinality(InUse(p)) \in Nat
  BY FS_CardinalityType DEF ClientsInv, EachCounted
<1>3. /\ idle'[p] = 0
      /\ made'[p] = Cardinality(InUse(p))
      /\ \A r \in Runtimes \ {p} : made'[r] = made[r] /\ idle'[r] = idle[r]
  BY <1>2 DEF Collect, ClientsInv, ClientsTypeOK, EachCounted
<1>4. ClientsTypeOK'
  BY <1>1, <1>2, <1>3 DEF Collect, ClientsInv, ClientsTypeOK
<1>5. EachCounted'
  BY <1>1, <1>2, <1>3 DEF ClientsInv, EachCounted
<1>6. CallsHaveAPool'
  BY <1>1 DEF ClientsInv, CallsHaveAPool, Connected
<1> QED BY <1>4, <1>5, <1>6 DEF ClientsInv

\* connect_redis gives a pool to runtimes whose goroutines are in no call.
LEMMA ClientsOpen ==
  ASSUME PoolsInv, ClientsInv, NEW r \in Runtimes, Load(r) \/ Store(r)
  PROVE  ClientsInv'
<1>1. /\ UNCHANGED <<idle, made, call>>
      /\ \A s \in Runtimes : pool[s] # None => pool'[s] = pool[s]
  BY DEF Load, Store, PoolsInv, PoolsTypeOK, PoolsLast, clients
<1>2. ASSUME NEW c \in Callers, call[c] # None
      PROVE  pool'[Home[c]] = pool[Home[c]] /\ pool[Home[c]] # None
  BY <1>1, <1>2, RedisParameters DEF ClientsInv, CallsHaveAPool, Connected
<1>3. \A p \in Runtimes : InUse(p)' = InUse(p)
  BY <1>1, <1>2 DEF InUse
<1> QED BY <1>1, <1>2, <1>3
        DEF ClientsInv, ClientsTypeOK, CallsHaveAPool, Connected, EachCounted

\* What reads neither pools nor clients.
LEMMA ClientsUntouched ==
  ASSUME ClientsInv, UNCHANGED <<connection, clients, call>>
  PROVE  ClientsInv'
BY DEF ClientsInv, ClientsTypeOK, CallsHaveAPool, Connected, EachCounted, InUse,
       connection, clients

LEMMA ClientsStep == PoolsInv /\ ClientsInv /\ [Next]_vars => ClientsInv'
<1> SUFFICES ASSUME PoolsInv, ClientsInv, [Next]_vars PROVE ClientsInv'
  OBVIOUS
<1>1. ASSUME NEW r \in Runtimes, Load(r) \/ Store(r) \/ Collect(r) PROVE ClientsInv'
  BY <1>1, ClientsOpen, ClientsCollect
<1>2. ASSUME NEW c \in Callers, NEW q \in Script[c], Begin(c, q) PROVE ClientsInv'
  BY <1>2, ClientsBegin
<1>3. ASSUME NEW c \in Callers, Return(c) \/ Fail(c) PROVE ClientsInv'
  BY <1>3, ClientsEnd DEF Return, Fail, Answered
<1>4. ASSUME NEW c \in Callers, Send(c) PROVE ClientsInv'
  BY <1>4, ClientsUntouched DEF Send
<1>5. ASSUME NEW a \in wire, Apply(a) PROVE ClientsInv'
  BY <1>5, ClientsUntouched DEF Apply
<1>6. CASE UNCHANGED vars
  BY <1>6, ClientsUntouched DEF vars
<1> QED BY <1>1, <1>2, <1>3, <1>4, <1>5, <1>6 DEF Next

THEOREM ClientsInvariant == Spec => [](PoolsInv /\ ClientsInv)
<1> QED BY PoolsInitially, PoolsStep, ClientsInitially, ClientsStep, PTL DEF Spec

\* Every way out of a call puts its client back, so that a pool's clients are
\* idle or in a call (the deferred pool.Put of the functions of module_redis.go).
THEOREM EveryClientReturned == Spec => []ClientsReturned
<1>1. ClientsInv => ClientsReturned
  BY DEF ClientsInv, EachCounted, ClientsReturned
<1> QED BY <1>1, ClientsInvariant, PTL

-----------------------------------------------------------------------------
(* Hashes that are only written whole.                                     *)

\* Nothing, or all that one hmset wrote under the key.
WholeHash(k, item) ==
  \/ item = << >>
  \/ \E q \in Calls : /\ q.fn = "hmset" /\ q.key = k
                      /\ item = <<"pairs", Pairs(q.value)>>

WholeReply(k, answer) == \/ answer = << >>
                         \/ answer = <<"pairs", << >>>>
                         \/ WholeHash(k, answer)

AttemptsTypeOK == /\ call \in [Callers -> Calls \cup {None}]
                  /\ sent \in [Callers -> Nat]
                  /\ tries \in [Callers -> Nat]
                  /\ wire \subseteq [caller : Callers, attempt : Nat, call : Calls]
                  /\ DOMAIN reply = Callers
                  /\ reply = [c \in Callers |-> reply[c]]
                  /\ store = [k \in Keys |-> store[k]]

\* An attempt that may still be answered is one of the call the caller is in.
AttemptsOfCalls ==
  /\ \A a \in wire : /\ a.attempt <= sent[a.caller]
                     /\ tries[a.caller] > 0 /\ a.attempt = sent[a.caller]
                          => a.call = call[a.caller]
  /\ \A c \in Callers : call[c] = None => tries[c] = 0 /\ reply[c] = << >>

WholeStore == \A k \in Wholes : WholeHash(k, store[k])

WholeReplies ==
  \A c \in Callers : call[c] # None /\ call[c].fn = "hgetall" /\ call[c].key \in Wholes
                       => WholeReply(call[c].key, reply[c])

WholeInv == AttemptsTypeOK /\ AttemptsOfCalls /\ WholeStore /\ WholeReplies

LEMMA NothingHasNoFields == DOMAIN << >> = {}
OBVIOUS

LEMMA OnlyWholeWrites ==
  ASSUME NEW k \in Wholes
  PROVE  /\ k \in Keys
         /\ \A q \in Calls : q.key = k => q.fn \in {"hmset", "hgetall", "hkeys", "exists"}
         /\ \A q, p \in Calls : q.key = k /\ p.key = k /\ q.fn = "hmset" /\ p.fn = "hmset"
                                  => DOMAIN q.value = DOMAIN p.value
BY DEF Wholes

\* An hmset over what another hmset wrote leaves the fields of the later one alone.
LEMMA MergedIsTheLater ==
  ASSUME NEW k \in Wholes, NEW item, WholeHash(k, item),
         NEW q \in Calls, q.key = k, q.fn = "hmset"
  PROVE  Merged(Table(item), Pairs(q.value)) = Pairs(q.value)
<1>1. DOMAIN Pairs(q.value) = DOMAIN q.value
  BY DEF Pairs
<1>2. DOMAIN Table(item) \subseteq DOMAIN q.value
  <2>1. CASE item = << >>
    BY <2>1, NothingHasNoFields DEF Table
  <2>2. ASSUME NEW p \in Calls, p.fn = "hmset", p.key = k,
               item = <<"pairs", Pairs(p.value)>>
        PROVE  DOMAIN Table(item) = DOMAIN q.value
    <3>1. Table(item) = Pairs(p.value)
      BY <2>2 DEF Table
    <3> QED BY <2>2, <3>1, OnlyWholeWrites DEF Pairs
  <2> QED BY <2>1, <2>2 DEF WholeHash
<1>3. /\ DOMAIN Pairs(q.value) \cup DOMAIN Table(item) = DOMAIN q.value
      /\ Pairs(q.value) = [f \in DOMAIN q.value |-> Pairs(q.value)[f]]
  BY <1>1, <1>2 DEF Pairs
<1> QED BY <1>1, <1>3 DEF Merged

\* What the server makes of a hash that is written whole, and answers.
LEMMA AppliedWhole ==
  ASSUME NEW k \in Wholes, NEW item, WholeHash(k, item), NEW q \in Calls, q.key = k
  PROVE  LET done == Applied(item, q, Argument(q))
         IN /\ WholeHash(k, done[1])
            /\ q.fn = "hgetall" => WholeReply(k, done[2])
<1> DEFINE done == Applied(item, q, Argument(q))
<1>1. q.fn \in {"hmset", "hgetall", "hkeys", "exists"}
  BY OnlyWholeWrites
<1>2. ~(item # << >> /\ item[1] = "text")
  BY DEF WholeHash
<1>3. CASE q.fn = "exists"
  <2>1. done[1] = item
    BY <1>3 DEF Applied
  <2> QED BY <1>3, <2>1
<1>4. CASE q.fn = "hmset"
  <2>1. Argument(q)[2] = Pairs(q.value)
    BY <1>4 DEF Argument
  <2>2. done = AppliedToHash(item, q, Argument(q))
    BY <1>2, <1>4 DEF Applied
  <2>3. done = OK(<<"pairs", Pairs(q.value)>>)
    BY <1>4, <2>1, <2>2, MergedIsTheLater DEF AppliedToHash
  <2> QED BY <1>4, <2>3 DEF OK, WholeHash
<1>5. CASE q.fn \in {"hgetall", "hkeys"}
  <2>1. done = AppliedToHash(item, q, Argument(q))
    BY <1>2, <1>5 DEF Applied
  <2>2. done = <<item, <<"pairs", Table(item)>>>>
    BY <1>5, <2>1 DEF AppliedToHash
  <2>3. item # << >> => item = <<"pairs", Table(item)>>
    BY DEF WholeHash, Table
  <2> QED BY <2>2, <2>3 DEF WholeReply, WholeHash, Table
<1> QED BY <1>1, <1>3, <1>4, <1>5

LEMMA WholeInitially == Init => WholeInv
BY DEF Init, WholeInv, AttemptsTypeOK, AttemptsOfCalls, WholeStore, WholeReplies,
       WholeHash, Wholes

\* A call begins with no attempt of its own and no answer.
LEMMA WholeBegin ==
  ASSUME WholeInv, NEW c \in Callers, NEW q \in Script[c], Begin(c, q)
  PROVE  WholeInv'
<1>1. /\ q \in Calls /\ q # None
      /\ call[c] = None
      /\ call' = [call EXCEPT ![c] = q]
      /\ UNCHANGED <<sent, tries, wire, reply, store>>
  BY ScriptsCalls DEF Begin, attempts
<1>2. tries[c] = 0 /\ reply[c] = << >>
  BY <1>1 DEF WholeInv, AttemptsOfCalls
<1>3. AttemptsTypeOK' /\ WholeStore'
  BY <1>1 DEF WholeInv, AttemptsTypeOK, WholeStore
<1>4. AttemptsOfCalls'
  BY <1>1, <1>2 DEF WholeInv, AttemptsTypeOK, AttemptsOfCalls
<1>5. WholeReplies'
  BY <1>1, <1>2 DEF WholeInv, AttemptsTypeOK, WholeReplies, WholeReply
<1> QED BY <1>3, <1>4, <1>5 DEF WholeInv

\* A further attempt takes the place of the one that could be answered.
LEMMA WholeSend ==
  ASSUME WholeInv, NEW c \in Callers, Send(c)
  PROVE  WholeInv'
<1> DEFINE a == [caller |-> c, attempt |-> sent[c] + 1, call |-> call[c]]
<1>1. /\ call[c] # None /\ call[c] \in Calls
      /\ sent' = [sent EXCEPT ![c] = @ + 1]
      /\ tries' = [tries EXCEPT ![c] = @ + 1]
      /\ wire' = wire \cup {a}
      /\ UNCHANGED <<call, reply, store>>
  BY DEF Send, WholeInv, AttemptsTypeOK
<1>2. AttemptsTypeOK'
  <2>1. a \in [caller : Callers, attempt : Nat, call : Calls]
    BY <1>1 DEF WholeInv, AttemptsTypeOK
  <2> HIDE DEF a
  <2> QED BY <1>1, <2>1 DEF WholeInv, AttemptsTypeOK
<1>3. AttemptsOfCalls'
  <2>1. ASSUME NEW b \in wire'
        PROVE  /\ b.attempt <= sent'[b.caller]
               /\ tries'[b.caller] > 0 /\ b.attempt = sent'[b.caller]
                    => b.call = call'[b.caller]
    <3>1. CASE b = a
      BY <3>1, <1>1 DEF WholeInv, AttemptsTypeOK
    <3>2. CASE b \in wire
      <4>1. /\ b.caller \in Callers
            /\ b.attempt \in Nat
            /\ b.attempt <= sent[b.caller]
            /\ tries[b.caller] > 0 /\ b.attempt = sent[b.caller] => b.call = call[b.caller]
        BY <3>2 DEF WholeInv, AttemptsTypeOK, AttemptsOfCalls
      <4> QED BY <4>1, <1>1 DEF WholeInv, AttemptsTypeOK
    <3> QED BY <2>1, <1>1, <3>1, <3>2
  <2>2. \A d \in Callers : call'[d] = None => tries'[d] = 0 /\ reply'[d] = << >>
    BY <1>1 DEF WholeInv, AttemptsTypeOK, AttemptsOfCalls
  <2> QED BY <2>1, <2>2 DEF AttemptsOfCalls
<1>4. WholeStore' /\ WholeReplies'
  BY <1>1 DEF WholeInv, WholeStore, WholeReplies
<1> QED BY <1>2, <1>3, <1>4 DEF WholeInv

\* The server applies one attempt, maybe of a call that has ended.
LEMMA WholeApply ==
  ASSUME WholeInv, NEW a \in wire, Apply(a)
  PROVE  WholeInv'
<1> DEFINE item == IF a.call.key \in Keys THEN store[a.call.key] ELSE << >>
           done == Applied(item, a.call, Argument(a.call))
<1>1. /\ a.caller \in Callers /\ a.call \in Calls
      /\ wire' = wire \ {a}
      /\ store' = [k \in Keys |-> IF k = a.call.key THEN done[1] ELSE store[k]]
      /\ UNCHANGED <<call, sent, tries>>
  BY DEF Apply, WholeInv, AttemptsTypeOK
<1>2. \/ /\ call[a.caller] # None /\ call[a.caller] = a.call
         /\ reply' = [reply EXCEPT ![a.caller] = done[2]]
      \/ reply' = reply
  BY DEF Apply, WholeInv, AttemptsOfCalls
<1>3. a.call.key \in Wholes => /\ WholeHash(a.call.key, done[1])
                               /\ a.call.fn = "hgetall" => WholeReply(a.call.key, done[2])
  <2> SUFFICES ASSUME a.call.key \in Wholes
               PROVE  /\ WholeHash(a.call.key, done[1])
                      /\ a.call.fn = "hgetall" => WholeReply(a.call.key, done[2])
    OBVIOUS
  <2>1. WholeHash(a.call.key, item)
    BY OnlyWholeWrites DEF WholeInv, WholeStore
  <2> HIDE DEF item
  <2> QED BY <1>1, <2>1, AppliedWhole
<1> HIDE DEF done
<1>4. AttemptsTypeOK'
  BY <1>1, <1>2 DEF WholeInv, AttemptsTypeOK
<1>5. AttemptsOfCalls'
  BY <1>1, <1>2 DEF WholeInv, AttemptsTypeOK, AttemptsOfCalls
<1>6. WholeStore'
  <2> SUFFICES ASSUME NEW k \in Wholes
               PROVE  WholeHash(k, store'[k])
    BY DEF WholeStore
  <2>1. store'[k] = IF k = a.call.key THEN done[1] ELSE store[k]
    BY <1>1, OnlyWholeWrites
  <2> QED BY <2>1, <1>3 DEF WholeInv, WholeStore
<1>7. WholeReplies'
  <2> SUFFICES ASSUME NEW c \in Callers, call[c] # None, call[c].fn = "hgetall",
                      call[c].key \in Wholes
               PROVE  WholeReply(call[c].key, reply'[c])
    BY <1>1 DEF WholeReplies
  <2>1. CASE reply'[c] = reply[c]
    BY <2>1 DEF WholeInv, WholeReplies
  <2>2. CASE reply'[c] # reply[c]
    <3>1. c = a.caller /\ call[c] = a.call /\ reply'[c] = done[2]
      BY <1>1, <1>2, <2>2 DEF WholeInv, AttemptsTypeOK
    <3> QED BY <3>1, <1>3
  <2> QED BY <2>1, <2>2
<1> QED BY <1>4, <1>5, <1>6, <1>7 DEF WholeInv

\* A call that has ended cannot be answered any more.
LEMMA WholeFinish ==
  ASSUME WholeInv, NEW c \in Callers, Finish(c)
  PROVE  WholeInv'
<1>1. /\ wire' \subseteq wire
      /\ call' = [call EXCEPT ![c] = None]
      /\ tries' = [tries EXCEPT ![c] = 0]
      /\ reply' = [reply EXCEPT ![c] = << >>]
      /\ UNCHANGED <<sent, store>>
  BY DEF Finish
<1>2. AttemptsTypeOK' /\ WholeStore'
  BY <1>1 DEF WholeInv, AttemptsTypeOK, WholeStore
<1>3. AttemptsOfCalls'
  BY <1>1 DEF WholeInv, AttemptsTypeOK, AttemptsOfCalls
<1>4. WholeReplies'
  BY <1>1 DEF WholeInv, AttemptsTypeOK, WholeReplies
<1> QED BY <1>2, <1>3, <1>4 DEF WholeInv

LEMMA WholeUntouched ==
  ASSUME WholeInv, UNCHANGED <<call, attempts, store>>
  PROVE  WholeInv'
BY DEF WholeInv, AttemptsTypeOK, AttemptsOfCalls, WholeStore, WholeReplies, attempts

LEMMA WholeStep == WholeInv /\ [Next]_vars => WholeInv'
<1> SUFFICES ASSUME WholeInv, [Next]_vars PROVE WholeInv'
  OBVIOUS
<1>1. ASSUME NEW r \in Runtimes, Load(r) \/ Store(r) \/ Collect(r) PROVE WholeInv'
  BY <1>1, WholeUntouched DEF Load, Store, Collect
<1>2. ASSUME NEW c \in Callers, NEW q \in Script[c], Begin(c, q) PROVE WholeInv'
  BY <1>2, WholeBegin
<1>3. ASSUME NEW c \in Callers, Return(c) \/ Fail(c) PROVE WholeInv'
  BY <1>3, WholeFinish DEF Return, Fail
<1>4. ASSUME NEW c \in Callers, Send(c) PROVE WholeInv'
  BY <1>4, WholeSend
<1>5. ASSUME NEW a \in wire, Apply(a) PROVE WholeInv'
  BY <1>5, WholeApply
<1>6. CASE UNCHANGED vars
  BY <1>6, WholeUntouched DEF vars
<1> QED BY <1>1, <1>2, <1>3, <1>4, <1>5, <1>6 DEF Next

\* What an hgetall that is answered gives the script.
LEMMA WholeGiven ==
  ASSUME WholeInv, NEW c \in Callers, Answered(c), call[c].fn = "hgetall",
         call[c].key \in Wholes
  PROVE  \/ Given(c)[2] = << >>
         \/ \E q \in Calls : /\ q.fn = "hmset" /\ q.key = call[c].key
                             /\ Given(c)[2] = [f \in DOMAIN q.value |->
                                                  Decode(Encode(q.value[f]))]
<1> DEFINE table == reply[c][2]
<1>1. /\ WholeReply(call[c].key, reply[c])
      /\ reply[c] # << >>
  BY DEF WholeInv, WholeReplies, Answered
<1>2. Given(c)[2] = [f \in DOMAIN table |-> Decode(table[f])]
  BY DEF Given, Pushed
<1>3. CASE reply[c] = <<"pairs", << >>>>
  BY <1>2, <1>3, NothingHasNoFields
<1>4. ASSUME NEW q \in Calls, q.fn = "hmset", q.key = call[c].key,
             reply[c] = <<"pairs", Pairs(q.value)>>
      PROVE  Given(c)[2] = [f \in DOMAIN q.value |-> Decode(Encode(q.value[f]))]
  <2>1. table = [f \in DOMAIN q.value |-> Encode(q.value[f])]
    BY <1>4 DEF Pairs
  <2> HIDE DEF table
  <2> QED BY <1>2, <2>1
<1> QED BY <1>1, <1>3, <1>4 DEF WholeReply, WholeHash

THEOREM WholeInvariant == Spec => []WholeInv
<1> QED BY WholeInitially, WholeStep, PTL DEF Spec

\* hgetall gives a script nothing, or all the fields that one hmset wrote,
\* however late attempts arrive and however values are converted
\* (module_redis.go:359, module_redis.go:516).
THEOREM HashesReadWhole == Spec => []HashesWhole
<1>1. WholeInv => HashesWhole
  BY WholeGiven DEF HashesWhole
<1> QED BY <1>1, WholeInvariant, PTL

-----------------------------------------------------------------------------
(* The greatest member of a finite set of numbers.                         *)

LEMMA Greatest == ASSUME NEW n \in Nat, NEW T \in SUBSET (1..n), T # {}
                  PROVE \E x \in T : \A y \in T : y <= x
<1> DEFINE U == {m \in Nat : n - m \in T}
<1>1. U # {}
  <2>1. PICK x \in T : TRUE
    OBVIOUS
  <2>2. n - x \in Nat /\ n - (n - x) = x
    BY <2>1
  <2> QED
    BY <2>1, <2>2
<1>2. PICK m \in U : \A k \in U : m <= k
  BY <1>1, LeastNat
<1>3. n - m \in T /\ m \in Nat
  BY <1>2
<1>4. ASSUME NEW y \in T PROVE y <= n - m
  <2>1. y \in 1..n
    OBVIOUS
  <2>2. n - y \in Nat /\ n - (n - y) = y
    BY <2>1
  <2>3. n - y \in U
    BY <2>2
  <2>4. m <= n - y
    BY <2>3, <1>2
  <2> QED
    BY <2>4, <2>1, <1>3
<1> QED
  BY <1>3, <1>4

-----------------------------------------------------------------------------
(* The options of a runtime.                                               *)

Key(kind, n) == [kind |-> kind, name |-> n]

\* LastOf of Options, of any list.
Last(list, o, without) ==
  LET at == {i \in DOMAIN list : Clash(list[i], o)}
  IN IF at = {} THEN without ELSE list[CHOOSE i \in at : \A j \in at : j <= i].value

LEMMA LastAppended ==
  ASSUME NEW list \in Seq(Offered), NEW o \in Offered, NEW p, NEW without
  PROVE Last(Append(list, o), p, without) =
          IF Clash(o, p) THEN o.value ELSE Last(list, p, without)
<1> DEFINE more == Append(list, o)
           at == {i \in DOMAIN list : Clash(list[i], p)}
           atMore == {i \in DOMAIN more : Clash(more[i], p)}
<1>1. /\ Len(list) \in Nat /\ DOMAIN list = 1..Len(list)
      /\ DOMAIN more = 1..(Len(list) + 1)
      /\ \A i \in DOMAIN list : more[i] = list[i]
      /\ more[Len(list) + 1] = o
  OBVIOUS
<1>2. Last(list, p, without) =
        IF at = {} THEN without ELSE list[CHOOSE i \in at : \A j \in at : j <= i].value
  BY DEF Last
<1>3. Last(more, p, without) =
        IF atMore = {} THEN without ELSE more[CHOOSE i \in atMore : \A j \in atMore : j <= i].value
  BY DEF Last
<1>4. CASE Clash(o, p)
  <2>1. Len(list) + 1 \in atMore
    BY <1>1, <1>4
  <2>2. \A i \in atMore : i <= Len(list) + 1
    BY <1>1
  <2> HIDE DEF atMore
  <2>3. (CHOOSE i \in atMore : \A j \in atMore : j <= i) = Len(list) + 1
    <3>1. \A i \in atMore : (\A j \in atMore : j <= i) => i = Len(list) + 1
      <4>1. atMore \subseteq 1..(Len(list) + 1)
        BY <1>1 DEF atMore
      <4> QED
        BY <2>1, <2>2, <1>1, <4>1
    <3> QED
      BY <2>1, <2>2, <3>1
  <2> QED
    BY <2>1, <2>3, <1>3, <1>1, <1>4
<1>5. CASE ~ Clash(o, p)
  <2>1. at = atMore
    BY <1>1, <1>5
  <2>2. CASE at = {}
    BY <2>1, <2>2, <1>2, <1>3, <1>5
  <2>3. CASE at # {}
    <3>1. at \subseteq 1..Len(list)
      BY <1>1
    <3> HIDE DEF at
    <3>2. \E i \in at : \A j \in at : j <= i
      BY <3>1, <2>3, <1>1, Greatest
    <3>3. (CHOOSE i \in at : \A j \in at : j <= i) \in at
      BY <3>2
    <3>4. more[CHOOSE i \in at : \A j \in at : j <= i] = list[CHOOSE i \in at : \A j \in at : j <= i]
      BY <3>3, <3>1, <1>1
    <3> QED
      BY <3>4, <2>1, <2>3, <1>2, <1>3, <1>5
  <2> QED
    BY <2>2, <2>3
<1> QED
  BY <1>4, <1>5

\* A table of the runtime holds what the last options of its kind say.
Holds(table, kind, list) ==
  /\ \A n : (n \in DOMAIN table) <=> \E i \in DOMAIN list : Clash(list[i], Key(kind, n))
  /\ \A n \in DOMAIN table : \A without : table[n] = Last(list, Key(kind, n), without)

Fields(settings, preloads, auxlibs, globals) ==
  [settings |-> settings, preloads |-> preloads, auxlibs |-> auxlibs, globals |-> globals]

\* The fields of a runtime hold what a list of options says.
FieldsSet(settings, preloads, auxlibs, globals, list) ==
  /\ DOMAIN settings = Settings
  /\ \A k \in Settings : settings[k] = Last(list, Key(k, ""), k)
  /\ Holds(preloads, "module", list)
  /\ Holds(auxlibs, "lib", list)
  /\ Holds(globals, "global", list)

Set(r, list) == \E s, p, a, g : r = Fields(s, p, a, g) /\ FieldsSet(s, p, a, g, list)

OptionsInv == applied \in Seq(Offered) /\ Set(runtime, applied)

LEMMA OptionsInitially == OptionsInit => OptionsInv
<1> SUFFICES ASSUME OptionsInit PROVE OptionsInv
  OBVIOUS
<1>1. applied = << >> /\ DOMAIN applied = {} /\ applied \in Seq(Offered)
  BY DEF OptionsInit
<1>2. \A p, without : Last(applied, p, without) = without
  BY <1>1 DEF Last
<1>3. DOMAIN Nowhere = {}
  BY DEF Nowhere
<1>4. \A kind : Holds(Nowhere, kind, applied)
  BY <1>1, <1>3 DEF Holds
<1> DEFINE initial == [k \in Settings |-> k]
<1>5. runtime = Fields(initial, Nowhere, Nowhere, Nowhere)
  BY DEF OptionsInit, Default, Fields
<1>6. DOMAIN initial = Settings /\ \A k \in Settings : initial[k] = k
  OBVIOUS
<1> HIDE DEF initial
<1>7. FieldsSet(initial, Nowhere, Nowhere, Nowhere, applied)
  BY <1>2, <1>4, <1>6 DEF FieldsSet
<1> QED
  BY <1>1, <1>5, <1>7 DEF OptionsInv, Set

\* What a table says after one more option of its kind, and of another.
LEMMA HoldsEntered ==
  ASSUME NEW table, NEW kind, kind \notin Settings, NEW list \in Seq(Offered), NEW o \in Offered,
         Holds(table, kind, list), o.kind = kind
  PROVE Holds(Entered(table, o.name, o.value), kind, Append(list, o))
<1> DEFINE more == Append(list, o)
           entered == Entered(table, o.name, o.value)
<1>1. /\ Len(list) \in Nat /\ DOMAIN list = 1..Len(list)
      /\ DOMAIN more = 1..(Len(list) + 1)
      /\ \A i \in DOMAIN list : more[i] = list[i]
      /\ more[Len(list) + 1] = o
  OBVIOUS
<1>2. \A n : Clash(o, Key(kind, n)) <=> n = o.name
  BY DEF Clash, Key
<1>3. \A n : (\E i \in DOMAIN more : Clash(more[i], Key(kind, n)))
               <=> n = o.name \/ \E i \in DOMAIN list : Clash(list[i], Key(kind, n))
  BY <1>1, <1>2
<1>4. DOMAIN entered = {o.name} \cup DOMAIN table
  BY DEF Entered
<1>5. \A n : (n \in DOMAIN entered) <=> \E i \in DOMAIN more : Clash(more[i], Key(kind, n))
  BY <1>3, <1>4 DEF Holds
<1>6. ASSUME NEW n \in DOMAIN entered, NEW without
      PROVE entered[n] = Last(more, Key(kind, n), without)
  <2>1. entered[n] = IF n = o.name THEN o.value ELSE table[n]
    BY DEF Entered
  <2>2. Last(more, Key(kind, n), without) = IF n = o.name THEN o.value ELSE Last(list, Key(kind, n), without)
    BY <1>2, LastAppended
  <2>3. n # o.name => n \in DOMAIN table
    BY <1>4
  <2> QED
    BY <2>1, <2>2, <2>3 DEF Holds
<1> QED
  BY <1>5, <1>6 DEF Holds

LEMMA HoldsOther ==
  ASSUME NEW table, NEW kind, NEW list \in Seq(Offered), NEW o \in Offered,
         Holds(table, kind, list), o.kind # kind
  PROVE Holds(table, kind, Append(list, o))
<1> DEFINE more == Append(list, o)
<1>1. /\ Len(list) \in Nat /\ DOMAIN list = 1..Len(list)
      /\ DOMAIN more = 1..(Len(list) + 1)
      /\ \A i \in DOMAIN list : more[i] = list[i]
      /\ more[Len(list) + 1] = o
  OBVIOUS
<1>2. \A n : ~ Clash(o, Key(kind, n))
  BY DEF Clash, Key
<1>3. \A n : (\E i \in DOMAIN more : Clash(more[i], Key(kind, n)))
               <=> \E i \in DOMAIN list : Clash(list[i], Key(kind, n))
  BY <1>1, <1>2
<1>4. \A n, without : Last(more, Key(kind, n), without) = Last(list, Key(kind, n), without)
  BY <1>2, LastAppended
<1> QED
  BY <1>3, <1>4 DEF Holds

LEMMA SettingsKept ==
  ASSUME NEW list \in Seq(Offered), NEW o \in Offered, NEW k \in Settings
  PROVE Last(Append(list, o), Key(k, ""), k) =
          IF o.kind = k THEN o.value ELSE Last(list, Key(k, ""), k)
<1>1. Clash(o, Key(k, "")) <=> o.kind = k
  BY DEF Clash, Key
<1> QED
  BY <1>1, LastAppended

\* What the options do to the fields.
LEMMA SettingApplied ==
  ASSUME NEW s, NEW p, NEW a, NEW g, NEW o, o.kind \in Settings
  PROVE apply(Fields(s, p, a, g), o) = Fields([s EXCEPT ![o.kind] = o.value], p, a, g)
<1>1. apply(Fields(s, p, a, g), o) = With(Fields(s, p, a, g), o)
  BY DEF apply, Settings
<1>2. With(Fields(s, p, a, g), o) = Fields([s EXCEPT ![o.kind] = o.value], p, a, g)
  BY DEF With, Fields
<1> QED
  BY <1>1, <1>2

LEMMA ModuleApplied ==
  ASSUME NEW s, NEW p, NEW a, NEW g, NEW o, o.kind = "module"
  PROVE apply(Fields(s, p, a, g), o) = Fields(s, Entered(p, o.name, o.value), a, g)
<1>1. apply(Fields(s, p, a, g), o) = WithModule(Fields(s, p, a, g), o)
  BY DEF apply, Settings
<1>2. WithModule(Fields(s, p, a, g), o) = Fields(s, Entered(p, o.name, o.value), a, g)
  BY DEF WithModule, Fields
<1> QED
  BY <1>1, <1>2

LEMMA LibApplied ==
  ASSUME NEW s, NEW p, NEW a, NEW g, NEW o, o.kind = "lib"
  PROVE apply(Fields(s, p, a, g), o) = Fields(s, p, Entered(a, o.name, o.value), g)
<1>1. apply(Fields(s, p, a, g), o) = WithLib(Fields(s, p, a, g), o)
  BY DEF apply, Settings
<1>2. WithLib(Fields(s, p, a, g), o) = Fields(s, p, Entered(a, o.name, o.value), g)
  BY DEF WithLib, Fields
<1> QED
  BY <1>1, <1>2

LEMMA GlobalApplied ==
  ASSUME NEW s, NEW p, NEW a, NEW g, NEW o, o.kind = "global"
  PROVE apply(Fields(s, p, a, g), o) = Fields(s, p, a, Entered(g, o.name, o.value))
<1>1. apply(Fields(s, p, a, g), o) = WithGlobal(Fields(s, p, a, g), o)
  BY DEF apply, Settings
<1>2. WithGlobal(Fields(s, p, a, g), o) = Fields(s, p, a, Entered(g, o.name, o.value))
  BY DEF WithGlobal, Fields
<1> QED
  BY <1>1, <1>2

\* The same, field by field.
SettingPut(settings, o) == IF o.kind \in Settings THEN [settings EXCEPT ![o.kind] = o.value] ELSE settings
Registered(table, kind, o) == IF o.kind = kind THEN Entered(table, o.name, o.value) ELSE table

LEMMA OneApplied ==
  ASSUME NEW s, NEW p, NEW a, NEW g, NEW o \in Offered
  PROVE apply(Fields(s, p, a, g), o) = Fields(SettingPut(s, o), Registered(p, "module", o),
                                              Registered(a, "lib", o), Registered(g, "global", o))
<1>1. o.kind \in Settings \/ o.kind = "module" \/ o.kind = "lib" \/ o.kind = "global"
  BY OptionParameters DEF Registries
<1>2. "module" \notin Settings /\ "lib" \notin Settings /\ "global" \notin Settings
  BY DEF Settings
<1>3. CASE o.kind \in Settings
  BY <1>2, <1>3, SettingApplied DEF SettingPut, Registered
<1>4. CASE o.kind = "module"
  BY <1>2, <1>4, ModuleApplied DEF SettingPut, Registered
<1>5. CASE o.kind = "lib"
  BY <1>2, <1>5, LibApplied DEF SettingPut, Registered
<1>6. CASE o.kind = "global"
  BY <1>2, <1>6, GlobalApplied DEF SettingPut, Registered
<1> QED
  BY <1>1, <1>3, <1>4, <1>5, <1>6

LEMMA HoldsRegistered ==
  ASSUME NEW table, NEW kind, kind \notin Settings, NEW list \in Seq(Offered), NEW o \in Offered,
         Holds(table, kind, list)
  PROVE Holds(Registered(table, kind, o), kind, Append(list, o))
BY HoldsEntered, HoldsOther DEF Registered

\* One turn of the loop.
LEMMA OptionsTurn ==
  ASSUME NEW s, NEW p, NEW a, NEW g, NEW list \in Seq(Offered), FieldsSet(s, p, a, g, list),
         NEW o \in Offered
  PROVE Set(apply(Fields(s, p, a, g), o), Append(list, o))
<1> DEFINE more == Append(list, o)
<1>1. /\ DOMAIN s = Settings
      /\ \A k \in Settings : s[k] = Last(list, Key(k, ""), k)
      /\ Holds(p, "module", list) /\ Holds(a, "lib", list) /\ Holds(g, "global", list)
  BY DEF FieldsSet
<1>2. /\ DOMAIN SettingPut(s, o) = Settings
      /\ \A k \in Settings : SettingPut(s, o)[k] = IF o.kind = k THEN o.value ELSE s[k]
  BY <1>1 DEF SettingPut
<1>3. \A k \in Settings : SettingPut(s, o)[k] = Last(more, Key(k, ""), k)
  BY <1>1, <1>2, SettingsKept
<1>4. "module" \notin Settings /\ "lib" \notin Settings /\ "global" \notin Settings
  BY DEF Settings
<1>5. /\ Holds(Registered(p, "module", o), "module", more)
      /\ Holds(Registered(a, "lib", o), "lib", more)
      /\ Holds(Registered(g, "global", o), "global", more)
  BY <1>1, <1>4, HoldsRegistered
<1>6. FieldsSet(SettingPut(s, o), Registered(p, "module", o), Registered(a, "lib", o),
                Registered(g, "global", o), more)
  BY <1>2, <1>3, <1>5 DEF FieldsSet
<1> QED
  BY <1>6, OneApplied DEF Set

LEMMA OptionsStep == OptionsInv /\ [OptionsNext]_<<runtime, applied>> => OptionsInv'
<1> SUFFICES ASSUME OptionsInv, [OptionsNext]_<<runtime, applied>> PROVE OptionsInv'
  OBVIOUS
<1>1. ASSUME NEW o \in Offered, NewRuntime(o) PROVE OptionsInv'
  <2>1. runtime' = apply(runtime, o) /\ applied' = Append(applied, o)
    BY <1>1 DEF NewRuntime
  <2>2. applied \in Seq(Offered) /\ Set(runtime, applied)
    BY DEF OptionsInv
  <2>3. Set(apply(runtime, o), Append(applied, o))
    BY <2>2, OptionsTurn DEF Set
  <2>4. Append(applied, o) \in Seq(Offered)
    BY <2>2
  <2>5. applied' \in Seq(Offered) /\ Set(runtime', applied')
    BY <2>1, <2>3, <2>4
  <2> QED
    BY <2>5 DEF OptionsInv, Set, FieldsSet, Holds, Last
<1>2. CASE UNCHANGED <<runtime, applied>>
  <2>1. runtime' = runtime /\ applied' = applied
    BY <1>2
  <2>2. applied' \in Seq(Offered) /\ Set(runtime', applied')
    BY <2>1 DEF OptionsInv
  <2> QED
    BY <2>2 DEF OptionsInv, Set, FieldsSet, Holds, Last
<1> QED
  BY <1>1, <1>2 DEF OptionsNext

LEMMA HeldOrNot ==
  ASSUME NEW table, NEW kind, NEW list, Holds(table, kind, list)
  PROVE \A n, without : GetField(table, n, without) = Last(list, Key(kind, n), without)
<1> TAKE n, without
<1>1. CASE n \in DOMAIN table
  BY <1>1 DEF Holds, GetField
<1>2. CASE n \notin DOMAIN table
  <2>1. {i \in DOMAIN list : Clash(list[i], Key(kind, n))} = {}
    BY <1>2 DEF Holds
  <2> QED
    BY <2>1, <1>2 DEF Last, GetField
<1> QED
  BY <1>1, <1>2

LEMMA OptionsInvSettles == OptionsInv => OptionsSettle
<1> SUFFICES ASSUME OptionsInv PROVE OptionsSettle
  OBVIOUS
<1> DEFINE given(n) == LastNamed("global", n, Nothing)
           fits(n) == given(n) = Nothing \/ given(n) \in TableValues
           standard(n) == IF n \in Base THEN "base"
                          ELSE IF given(n) = Nothing THEN "standard" ELSE given(n)
           script(n) == IF n \in Scripts THEN "script" ELSE Nothing
           builtin(n) == IF n = "runtime" THEN "exit" ELSE script(n)
           preloaded(n) == GetField(Preloaded(runtime), n, script(n))
<1>1. /\ applied \in Seq(Offered)
      /\ Holds(runtime.preloads, "module", applied)
      /\ Holds(runtime.auxlibs, "lib", applied)
      /\ Holds(runtime.globals, "global", applied)
      /\ \A k \in Settings : runtime.settings[k] = Last(applied, Key(k, ""), k)
  <2>1. PICK s, p, a, g : runtime = Fields(s, p, a, g) /\ FieldsSet(s, p, a, g, applied)
    BY DEF OptionsInv, Set
  <2>2. runtime.settings = s /\ runtime.preloads = p /\ runtime.auxlibs = a /\ runtime.globals = g
    BY <2>1 DEF Fields
  <2> QED
    BY <2>1, <2>2 DEF OptionsInv, FieldsSet
<1>2. ASSUME NEW n, NEW without
      PROVE /\ GetField(runtime.preloads, n, without) = Last(applied, Key("module", n), without)
            /\ GetField(runtime.auxlibs, n, without) = Last(applied, Key("lib", n), without)
            /\ GetField(runtime.globals, n, without) = Last(applied, Key("global", n), without)
  <2>1. Holds(runtime.preloads, "module", applied)
    BY <1>1
  <2>2. Holds(runtime.auxlibs, "lib", applied)
    BY <1>1
  <2>3. Holds(runtime.globals, "global", applied)
    BY <1>1
  <2>4. GetField(runtime.preloads, n, without) = Last(applied, Key("module", n), without)
    BY <2>1, HeldOrNot
  <2>5. GetField(runtime.auxlibs, n, without) = Last(applied, Key("lib", n), without)
    BY <2>2, HeldOrNot
  <2>6. GetField(runtime.globals, n, without) = Last(applied, Key("global", n), without)
    BY <2>3, HeldOrNot
  <2> QED
    BY <2>4, <2>5, <2>6
<1>3. \A kind, n, without : LastNamed(kind, n, without) = Last(applied, Key(kind, n), without)
  BY DEF LastNamed, LastOf, Last, Key
<1>4. ASSUME NEW n
      PROVE preloaded(n) = LastNamed("module", n, LastNamed("lib", n, builtin(n)))
  <2>1. preloaded(n) = GetField(runtime.preloads, n, GetField(runtime.auxlibs, n, builtin(n)))
    BY DEF Preloaded, GetField
  <2>2. GetField(runtime.auxlibs, n, builtin(n)) = Last(applied, Key("lib", n), builtin(n))
    BY <1>2
  <2>3. \A without :
          GetField(runtime.preloads, n, without) = Last(applied, Key("module", n), without)
    BY <1>2
  <2> QED
    BY <2>1, <2>2, <2>3, <1>3
<1>5. \A n : GetField(runtime.globals, n, Nothing) = given(n)
  BY <1>2, <1>3
<1>6. ASSUME NEW n
      PROVE Global(runtime, n) = IF n \in Stdlib \cup Base THEN standard(n) ELSE given(n)
  BY <1>5 DEF Global
<1>7. Conflicts(runtime) = {} <=> \A n \in Stdlib : fits(n)
  BY <1>5 DEF Conflicts
<1>8. ASSUME NEW n, NEW later \in Later
      PROVE require(Startup(runtime, later), n) =
              IF n \in later THEN standard(n)
              ELSE LastNamed("module", n, LastNamed("lib", n, builtin(n)))
  <2>1. require(Startup(runtime, later), n) =
          IF n \in later THEN Global(runtime, n) ELSE preloaded(n)
    <3> DEFINE loaded == [m \in later |-> Global(runtime, m)]
    <3>1. /\ Startup(runtime, later).loaded = loaded
          /\ Startup(runtime, later).preload = Preloaded(runtime)
      BY DEF Startup
    <3>2. \A without : GetField(loaded, n, without) = IF n \in later THEN Global(runtime, n)
                                                     ELSE without
      BY DEF GetField
    <3> HIDE DEF loaded
    <3> QED
      BY <3>1, <3>2 DEF require
  <2>2. n \in later => n \in Stdlib \cup Base
    BY OptionParameters DEF Later
  <2> QED
    BY <1>4, <1>6, <2>1, <2>2
<1>9. \A k \in Settings : runtime.settings[k] = LastNamed(k, "", k)
  BY <1>1, <1>3
<1> HIDE DEF given
<1> QED
  BY <1>6, <1>7, <1>8, <1>9 DEF OptionsSettle, given

\* Scripts find what the last options of a name say, except where a standard
\* library was opened after the package library, for every list of options and
\* every order of opening (runtime.go:107, scripts.go:417).
THEOREM OptionsAreSettled == OptionsSpec => []OptionsSettle
<1>1. OptionsSpec => []OptionsInv
  BY OptionsInitially, OptionsStep, PTL DEF OptionsSpec
<1> QED
  BY <1>1, OptionsInvSettles, PTL

LEMMA RegisteredCommute ==
  ASSUME NEW table, NEW kind, kind \notin Settings, NEW o, NEW q, ~ Clash(o, q)
  PROVE Registered(Registered(table, kind, o), kind, q) = Registered(Registered(table, kind, q), kind, o)
<1>1. CASE o.kind = kind /\ q.kind = kind
  <2>1. o.name # q.name
    BY <1>1 DEF Clash
  <2>2. ASSUME NEW m, NEW n, m # n, NEW v, NEW w
        PROVE Entered(Entered(table, m, v), n, w) = Entered(Entered(table, n, w), m, v)
    BY <2>2 DEF Entered
  <2> QED
    BY <1>1, <2>1, <2>2 DEF Registered
<1> QED
  BY <1>1 DEF Registered

LEMMA SettingPutCommute ==
  ASSUME NEW settings, DOMAIN settings = Settings, NEW o, NEW q, ~ Clash(o, q)
  PROVE SettingPut(SettingPut(settings, o), q) = SettingPut(SettingPut(settings, q), o)
<1>1. CASE o.kind \in Settings /\ q.kind \in Settings
  <2>1. o.kind # q.kind
    BY <1>1 DEF Clash
  <2> QED
    BY <1>1, <2>1 DEF SettingPut
<1> QED
  BY <1>1 DEF SettingPut

\* The order of two options matters only where they set the same thing.
THEOREM OrderMattersInOnePlace ==
  ASSUME NEW s, NEW p, NEW a, NEW g, DOMAIN s = Settings,
         NEW o \in Offered, NEW q \in Offered, ~ Clash(o, q)
  PROVE apply(apply(Fields(s, p, a, g), o), q) = apply(apply(Fields(s, p, a, g), q), o)
<1>1. "module" \notin Settings /\ "lib" \notin Settings /\ "global" \notin Settings
  BY DEF Settings
<1>2. SettingPut(SettingPut(s, o), q) = SettingPut(SettingPut(s, q), o)
  BY SettingPutCommute
<1>3. \A kind : kind \notin Settings =>
        \A table : Registered(Registered(table, kind, o), kind, q)
                     = Registered(Registered(table, kind, q), kind, o)
  BY RegisteredCommute
<1> QED
  BY <1>1, <1>2, <1>3, OneApplied

-----------------------------------------------------------------------------
(* The names of scripts.                                                   *)

\* Of names whose init scripts lie no deeper than the others, Less is what
\* sort.Sort asks for.
LEMMA LessOrders ==
  ASSUME NEW S \in SUBSET Names, Consistent(S)
  PROVE Orders(S)
<1>1. \A a \in S : a.init \in BOOLEAN /\ a.dots \in Nat
  BY NameParameters
<1>2. \A a, b \in S : a.init /\ ~ b.init => a.dots <= b.dots
  BY DEF Consistent
<1>3. \A a \in S : ~ Less(a, a)
  BY <1>1 DEF Less
<1>4. ASSUME NEW a \in S, NEW b \in S, NEW c \in S
      PROVE /\ Less(a, b) /\ Less(b, c) => Less(a, c)
            /\ Less(a, c) => Less(a, b) \/ Less(b, c)
  BY <1>1, <1>2 DEF Less
<1> QED
  BY <1>3, <1>4 DEF Orders

\* sort.Sort loses no name, and makes no second one of a name.
LEMMA SortedPermutes ==
  ASSUME NEW list \in Seq(Names), NEW s \in Sorted(list)
  PROVE /\ s \in Seq(Names)
        /\ DOMAIN s = DOMAIN list
        /\ Range(s) = Range(list)
        /\ IsInjective(list) => IsInjective(s)
<1>1. PICK f \in Bijection(DOMAIN list, DOMAIN list) : s = [i \in DOMAIN list |-> list[f[i]]]
  BY DEF Sorted
<1>2. /\ f \in [DOMAIN list -> DOMAIN list]
      /\ \A i, j \in DOMAIN list : f[i] = f[j] => i = j
      /\ \A j \in DOMAIN list : \E i \in DOMAIN list : f[i] = j
  BY DEF Bijection, Injection, Surjection, IsInjective
<1>3. /\ DOMAIN s = DOMAIN list
      /\ \A i \in DOMAIN list : s[i] = list[f[i]]
  BY <1>1
<1>4. s \in Seq(Names)
  <2>1. Len(list) \in Nat /\ DOMAIN list = 1..Len(list) /\ \A i \in DOMAIN list : list[i] \in Names
    OBVIOUS
  <2>2. s \in [1..Len(list) -> Names]
    BY <1>1, <1>2, <2>1
  <2> QED
    BY <2>1, <2>2
<1>5. Range(s) = Range(list)
  BY <1>2, <1>3 DEF Range
<1>6. IsInjective(list) => IsInjective(s)
  BY <1>2, <1>3 DEF IsInjective
<1> QED
  BY <1>3, <1>4, <1>5, <1>6

InOrder(list) == \A i, j \in DOMAIN list : i < j => ~ Less(list[j], list[i])

KeptInOrder(list, S) ==
  /\ list \in Seq(Names)
  /\ Range(list) = S /\ IsInjective(list)
  /\ Consistent(S) => InOrder(list)

NamesInv == KeptInOrder(names, modules)

LEMMA NamesInitially == NamesInit => NamesInv
BY DEF NamesInit, NamesInv, KeptInOrder, Range, IsInjective, InOrder

LEMMA AddKeeps ==
  ASSUME NEW list, NEW S, KeptInOrder(list, S), NEW a \in Names \ S, NEW s \in Sorted(Append(list, a))
  PROVE KeptInOrder(s, S \cup {a})
<1> DEFINE more == Append(list, a)
<1>1. list \in Seq(Names) /\ Range(list) = S /\ IsInjective(list)
  BY DEF KeptInOrder
<1>2. more \in Seq(Names)
  BY <1>1
<1>3. /\ Len(list) \in Nat /\ DOMAIN list = 1..Len(list) /\ DOMAIN more = 1..(Len(list) + 1)
      /\ \A i \in DOMAIN list : more[i] = list[i]
      /\ more[Len(list) + 1] = a
  BY <1>1
<1>4. Range(more) = S \cup {a}
  BY <1>1, <1>3 DEF Range
<1>5. IsInjective(more)
  <2>1. \A i \in DOMAIN list : list[i] # a
    BY <1>1 DEF Range
  <2>2. \A i, j \in DOMAIN list : list[i] = list[j] => i = j
    BY <1>1 DEF IsInjective
  <2> QED
    BY <1>3, <2>1, <2>2 DEF IsInjective
<1>6. S \cup {a} \in SUBSET Names
  BY <1>2, <1>4, <1>3 DEF Range
<1>7. s \in Seq(Names) /\ Range(s) = S \cup {a} /\ IsInjective(s)
  BY <1>2, <1>4, <1>5, SortedPermutes
<1>8. Consistent(S \cup {a}) => InOrder(s)
  <2> SUFFICES ASSUME Consistent(S \cup {a}) PROVE InOrder(s)
    OBVIOUS
  <2>1. Orders(Range(more))
    BY <1>4, <1>6, LessOrders
  <2> QED
    BY <2>1 DEF Sorted, InOrder
<1> QED
  BY <1>7, <1>8 DEF KeptInOrder

LEMMA NamesStep == NamesInv /\ [NamesNext]_<<names, modules>> => NamesInv'
<1> SUFFICES ASSUME NamesInv, [NamesNext]_<<names, modules>> PROVE NamesInv'
  OBVIOUS
<1>1. ASSUME NEW a \in Names, add(a) PROVE KeptInOrder(names', modules')
  <2>1. CASE a \in modules
    <3>1. names' = names /\ modules' = modules
      BY <1>1, <2>1 DEF add
    <3> QED
      BY <3>1 DEF NamesInv
  <2>2. CASE a \notin modules
    <3>1. names' \in Sorted(Append(names, a)) /\ modules' = modules \cup {a}
      BY <1>1, <2>2 DEF add
    <3> QED
      BY <3>1, <2>2, AddKeeps DEF NamesInv
  <2> QED
    BY <2>1, <2>2
<1>2. CASE UNCHANGED <<names, modules>>
  BY <1>2 DEF NamesInv, KeptInOrder, InOrder, Consistent
<1>3. KeptInOrder(names', modules') => NamesInv'
  BY DEF NamesInv, KeptInOrder, InOrder, Consistent
<1> QED
  BY <1>1, <1>2, <1>3 DEF NamesNext

LEMMA NamesInvInOrder == NamesInv => InitsFirst
<1> SUFFICES ASSUME NamesInv PROVE InitsFirst
  OBVIOUS
<1>1. /\ names \in Seq(Names) /\ Range(names) = modules /\ IsInjective(names)
      /\ Consistent(modules) => InOrder(names)
  BY DEF NamesInv, KeptInOrder
<1>2. ASSUME Consistent(modules), NEW i \in DOMAIN names, NEW j \in DOMAIN names, i < j
      PROVE \/ names[i].init /\ ~ names[j].init
            \/ names[i].init = names[j].init /\ names[i].dots <= names[j].dots
  <2>1. ~ Less(names[j], names[i])
    BY <1>1, <1>2 DEF InOrder
  <2>2. names[i] \in Names /\ names[j] \in Names
    BY <1>1
  <2>3. /\ names[i].init \in BOOLEAN /\ names[i].dots \in Nat
        /\ names[j].init \in BOOLEAN /\ names[j].dots \in Nat
    BY <2>2, NameParameters
  <2> QED
    BY <2>1, <2>3 DEF Less
<1> QED
  BY <1>1, <1>2 DEF InitsFirst, List

\* The list has each name once, and in the order the loader expects.
THEOREM NamesInOrder == NamesSpec => []InitsFirst
<1>1. NamesSpec => []NamesInv
  BY NamesInitially, NamesStep, PTL DEF NamesSpec
<1> QED
  BY <1>1, NamesInvInOrder, PTL

-----------------------------------------------------------------------------
(* The words of the bit libraries.                                         *)

LEMMA WordSize == W \in Nat /\ 2^W \in Nat \ {0} /\ W < 2^W /\ Positions = 0..(W - 1)
BY BitParameters, PowerPositive DEF Positions

LEMMA WordBits ==
  ASSUME NEW x \in Int
  PROVE /\ ToWord(x) \in Words
        /\ \A i \in Positions : i \in ToWord(x) <=> Bit(x, i) = 1
BY DEF ToWord, Words, Bit

LEMMA WordsEqual ==
  ASSUME NEW p \in Words, NEW q \in Words, \A i \in Positions : i \in p <=> i \in q
  PROVE p = q
BY DEF Words

LEMMA SameWord ==
  ASSUME NEW x \in Int, NEW y \in Int, \A i \in Positions : Bit(x, i) = Bit(y, i)
  PROVE ToWord(x) = ToWord(y)
BY WordBits, WordsEqual

\* A word stands for one number, and a number below 2^W is that of its word.
LEMMA UnsignedOfWord ==
  ASSUME NEW word \in Words
  PROVE Unsigned(word) \in 0..(2^W - 1) /\ ToWord(Unsigned(word)) = word
<1>1. PICK x \in 0..(2^W - 1) : \A i \in 0..(W - 1) : Bit(x, i) = 1 <=> i \in word
  BY WordSize, BitsExist DEF Words
<1>2. x \in Int
  BY <1>1, WordSize
<1>3. ToWord(x) = word
  BY <1>1, <1>2, WordBits, WordsEqual, WordSize
<1> QED
  BY <1>1, <1>3 DEF Unsigned

LEMMA UnsignedInt == ASSUME NEW word \in Words PROVE Unsigned(word) \in Nat
BY UnsignedOfWord, WordSize

LEMMA WordTells ==
  ASSUME NEW x \in 0..(2^W - 1), NEW y \in 0..(2^W - 1), ToWord(x) = ToWord(y)
  PROVE x = y
<1>1. x \in Int /\ y \in Int
  BY WordSize
<1>2. \A i \in Positions : Bit(x, i) = 1 <=> Bit(y, i) = 1
  BY <1>1, WordBits
<1>3. \A i \in 0..(W - 1) : Bit(x, i) = Bit(y, i)
  <2> TAKE i \in 0..(W - 1)
  <2>1. i \in Nat /\ i \in Positions
    BY WordSize
  <2>2. Bit(x, i) \in {0, 1} /\ Bit(y, i) \in {0, 1}
    BY <1>1, <2>1, BitIs
  <2> QED
    BY <1>2, <2>1, <2>2
<1> QED
  BY <1>3, BitsTell, WordSize

LEMMA WordOfRest ==
  ASSUME NEW x \in Int
  PROVE x % 2^W \in 0..(2^W - 1) /\ ToWord(x % 2^W) = ToWord(x)
<1>1. x % 2^W \in 0..(2^W - 1)
  BY WordSize, DivMod
<1>2. x % 2^W \in Int
  BY <1>1, WordSize
<1>3. \A i \in Positions : Bit(x % 2^W, i) = Bit(x, i)
  BY BitMod, WordSize
<1> QED
  BY <1>1, <1>2, <1>3, SameWord

LEMMA UnsignedOf ==
  ASSUME NEW x \in Int PROVE Unsigned(ToWord(x)) = x % 2^W
BY UnsignedOfWord, WordBits, WordOfRest, WordTells

LEMMA UnsignedExact ==
  ASSUME NEW x \in 0..(2^W - 1) PROVE Unsigned(ToWord(x)) = x
<1>1. x \in Int
  BY WordSize
<1> QED
  BY <1>1, WordBits, UnsignedOfWord, WordTells

LEMMA LeftMultiplies ==
  ASSUME NEW x \in Int, NEW n \in Nat
  PROVE x * 2^n \in Int /\ ToWord(x * 2^n) = Left(ToWord(x), n)
<1>1. x * 2^n \in Int
  BY PowerNat
<1>2. Left(ToWord(x), n) \in Words
  BY DEF Left, Words
<1>3. ASSUME NEW i \in Positions PROVE i \in ToWord(x * 2^n) <=> i \in Left(ToWord(x), n)
  <2>1. i \in Nat
    BY WordSize
  <2>2. i \in ToWord(x * 2^n) <=> Bit(x * 2^n, i) = 1
    BY <1>1, WordBits
  <2>3. Bit(x * 2^n, i) = IF i >= n THEN Bit(x, i - n) ELSE 0
    BY <2>1, BitLeft
  <2>4. CASE i >= n
    <3>1. i - n \in Positions
      BY <2>4, WordSize
    <3>2. i - n \in ToWord(x) <=> Bit(x, i - n) = 1
      BY <3>1, WordBits
    <3> QED
      BY <2>2, <2>3, <2>4, <3>2 DEF Left
  <2>5. CASE i < n
    <3>1. i - n \notin Positions
      BY <2>1, <2>5, WordSize
    <3>2. i - n \notin ToWord(x)
      BY <3>1, WordBits DEF Words
    <3> QED
      BY <2>1, <2>2, <2>3, <2>5, <3>2 DEF Left
  <2> QED
    BY <2>1, <2>4, <2>5
<1> QED
  BY <1>1, <1>2, <1>3, WordBits, WordsEqual

\* Bits above the word come in as zeros.
LEMMA RightDivides ==
  ASSUME NEW x \in 0..(2^W - 1), NEW n \in Nat
  PROVE x \div 2^n \in Int /\ ToWord(x \div 2^n) = Right(ToWord(x), n)
<1>1. x \in Int
  BY WordSize
<1>2. x \div 2^n \in Int
  BY <1>1, BitIs
<1>3. Right(ToWord(x), n) \in Words
  BY DEF Right, Words
<1>4. ASSUME NEW i \in Positions PROVE i \in ToWord(x \div 2^n) <=> i \in Right(ToWord(x), n)
  <2>1. i \in Nat /\ n + i = i + n /\ i + n \in Nat
    BY WordSize
  <2>2. i \in ToWord(x \div 2^n) <=> Bit(x, i + n) = 1
    BY <1>1, <1>2, <2>1, WordBits, BitRight
  <2>3. CASE i + n < W
    <3>1. i + n \in Positions
      BY <2>1, <2>3, WordSize
    <3> QED
      BY <1>1, <2>2, <3>1, WordBits DEF Right
  <2>4. CASE i + n >= W
    <3>1. Bit(x, i + n) = 0
      BY <2>1, <2>4, BitAbove, WordSize
    <3>2. i + n \notin ToWord(x)
      BY <2>1, <2>4, <1>1, WordBits, WordSize DEF Words
    <3> QED
      BY <2>2, <3>1, <3>2 DEF Right
  <2> QED
    BY <2>1, <2>3, <2>4, WordSize
<1> QED
  BY <1>2, <1>3, <1>4, WordBits, WordsEqual

LEMMA SmallCount == ASSUME NEW n \in 0..W PROVE Count(n) = n
<1>1. n = 2^W * 0 + n /\ n \in 0..(2^W - 1) /\ n \in Int
  BY WordSize
<1> QED
  BY <1>1, WordSize, DivIs DEF Count

-----------------------------------------------------------------------------
(* Shifts.                                                                 *)

LEMMA NoShift == ASSUME NEW p \in Words PROVE Left(p, 0) = p /\ Right(p, 0) = p
<1>1. \A i \in Positions : i - 0 = i /\ i + 0 = i
  BY WordSize
<1> QED
  BY <1>1 DEF Left, Right, Words

LEMMA ShiftedNumbers ==
  ASSUME NEW word \in Words, NEW n \in Nat
  PROVE /\ ToWord(Unsigned(word) * 2^n) = Left(word, n)
        /\ ToWord(Unsigned(word) \div 2^n) = Right(word, n)
<1>1. Unsigned(word) \in 0..(2^W - 1) /\ ToWord(Unsigned(word)) = word /\ Unsigned(word) \in Int
  BY UnsignedOfWord, UnsignedInt
<1> QED
  BY <1>1, LeftMultiplies, RightDivides

LEMMA PlainShifts ==
  ASSUME NEW x \in Int, NEW n \in 0..W
  PROVE /\ bit32lshift(x, n) = Left(ToWord(x), n) /\ bit32lshift(x, -n) = Right(ToWord(x), n)
        /\ bit32rshift(x, n) = Right(ToWord(x), n) /\ bit32rshift(x, -n) = Left(ToWord(x), n)
<1> DEFINE word == ToWord(x)
<1>1. word \in Words /\ n \in Nat
  BY WordBits, WordSize
<1>2. Count(n) = n
  BY SmallCount
<1>3. n >= 0 /\ -(-n) = n
  BY <1>1
<1> HIDE DEF word
<1>4. CASE n = 0
  <2>1. -n = 0
    <3>1. n <= 0 /\ n >= 0 /\ n \in Int
      BY <1>1, <1>4
    <3> QED
      BY <3>1, MinusZero
  <2>2. Left(word, n) = word /\ Right(word, n) = word
    BY <1>1, <1>4, NoShift
  <2>3. bit32lshift(x, 0) = word /\ bit32rshift(x, 0) = word
    BY <1>2, <1>4, <2>2 DEF bit32lshift, bit32rshift, word
  <2> QED
    BY <1>4, <2>1, <2>2, <2>3 DEF word
<1>5. CASE n # 0
  <2>1. -n < 0 /\ ~ (n < 0)
    BY <1>1, <1>5
  <2>2. bit32lshift(x, n) = Left(word, n) /\ bit32rshift(x, n) = Right(word, n)
    BY <2>1, <1>2 DEF bit32lshift, bit32rshift, word
  <2>3. bit32lshift(x, -n) = Right(word, n) /\ bit32rshift(x, -n) = Left(word, n)
    BY <2>1, <1>2, <1>3 DEF bit32lshift, bit32rshift, word
  <2> QED
    BY <2>2, <2>3 DEF word
<1> QED
  BY <1>4, <1>5

\* The sign that comes in from the left.
LEMMA SignedShift ==
  ASSUME NEW x \in Int, NEW n \in 0..W
  PROVE bit32arshift(x, n) = ToWord(Signed(ToWord(x)) \div 2^n)
<1> DEFINE word == ToWord(x)
           u == Unsigned(word)
<1>1. /\ word \in Words /\ u \in 0..(2^W - 1) /\ u \in Int /\ ToWord(u) = word
      /\ n \in Nat /\ W - n \in 0..W
  BY WordBits, UnsignedOfWord, UnsignedInt, WordSize
<1>2. Count(n) = n /\ Count(W - n) = W - n
  BY <1>1, SmallCount
<1>3. bit32rshift(x, n) = Right(word, n)
  BY PlainShifts
<1> HIDE DEF word, u
<1>4. CASE W - 1 \notin word
  <2>1. bit32arshift(x, n) = Right(word, n)
    BY <1>3, <1>4 DEF bit32arshift, word
  <2>2. Signed(word) = u
    BY <1>4 DEF Signed, u
  <2>3. ToWord(u \div 2^n) = Right(word, n)
    BY <1>1, ShiftedNumbers DEF u
  <2> QED
    BY <2>1, <2>2, <2>3 DEF word
<1>5. CASE W - 1 \in word
  <2> DEFINE s == u - 2^W
             both == Right(word, n) \cup Left(Low(n), W - n)
  <2>1. bit32arshift(x, n) = both
    BY <1>1, <1>2, <1>5 DEF bit32arshift, word
  <2>2. Signed(word) = s
    BY <1>5 DEF Signed, u
  <2>3. s \in Int /\ s \in (-(2^W))..(-1) /\ s = u + (-1) * 2^W
    BY <1>1, WordSize
  <2> HIDE DEF s
  <2>4. s \div 2^n \in Int
    BY <1>1, <2>3, BitIs
  <2>5. both \in Words
    BY DEF Right, Left, Words
  <2>6. ASSUME NEW i \in Positions PROVE i \in ToWord(s \div 2^n) <=> i \in both
    <3>1. i \in Nat /\ n + i = i + n /\ i + n \in Nat
      BY <1>1, WordSize
    <3>2. i \in ToWord(s \div 2^n) <=> Bit(s, i + n) = 1
      BY <1>1, <2>3, <2>4, <3>1, WordBits, BitRight
    <3>3. i \in Left(Low(n), W - n) <=> i + n >= W
      <4>1. i - (W - n) \in Positions /\ i - (W - n) < n <=> i + n >= W
        BY <1>1, <3>1, WordSize
      <4> QED
        BY <4>1 DEF Left, Low
    <3>4. CASE i + n < W
      <4>1. i + n \in Positions
        BY <3>1, <3>4, WordSize
      <4>2. Bit(s, i + n) = Bit(u, i + n)
        BY <1>1, <2>3, <3>1, <3>4, BitPeriod, WordSize
      <4>3. i + n \in word <=> Bit(u, i + n) = 1
        BY <1>1, <4>1, WordBits
      <4>4. i \in Right(word, n) <=> i + n \in word
        BY DEF Right
      <4>5. ~ (i + n >= W)
        BY <1>1, <3>1, <3>4, WordSize
      <4> QED
        BY <3>2, <3>3, <4>2, <4>3, <4>4, <4>5
    <3>5. CASE i + n >= W
      <4>1. Bit(s, i + n) = 1
        BY <2>3, <3>1, <3>5, BitAbove, WordSize
      <4> QED
        BY <3>2, <3>3, <3>5, <4>1
    <3> QED
      BY <1>1, <3>1, <3>4, <3>5, WordSize
  <2>7. ToWord(s \div 2^n) = both
    BY <2>4, <2>5, <2>6, WordBits, WordsEqual
  <2> QED
    BY <2>1, <2>2, <2>7 DEF word
<1> QED
  BY <1>4, <1>5

LEMMA SignedShiftLeft ==
  ASSUME NEW x \in Int, NEW n \in 0..W
  PROVE bit32arshift(x, -n) = Left(ToWord(x), n)
<1>1. n \in Nat /\ ToWord(x) \in Words
  BY WordBits, WordSize
<1>2. bit32rshift(x, -n) = Left(ToWord(x), n)
  BY PlainShifts
<1>3. CASE n # 0
  <2>1. ~ (-n >= 0)
    BY <1>1, <1>3
  <2> QED
    BY <1>2, <2>1 DEF bit32arshift
<1>4. CASE n = 0
  <2>1. -n = 0
    <3>1. n <= 0 /\ n >= 0 /\ n \in Int
      BY <1>1, <1>4
    <3> QED
      BY <3>1, MinusZero
  <2>2. Left(ToWord(x), 0) = ToWord(x) /\ Right(ToWord(x), 0) = ToWord(x)
    BY <1>1, NoShift
  <2>3. Left(Low(0), Count(W - 0)) = {}
    BY WordSize DEF Left, Low
  <2>4. Count(0) = 0
    BY SmallCount, WordSize
  <2>5. bit32rshift(x, 0) = ToWord(x)
    BY <1>2, <1>4, <2>1, <2>2
  <2>6. bit32arshift(x, 0) = ToWord(x)
    BY <2>2, <2>3, <2>4, <2>5 DEF bit32arshift
  <2> QED
    BY <1>4, <2>1, <2>2, <2>6
<1> QED
  BY <1>3, <1>4

LEMMA Turned ==
  ASSUME NEW word \in Words, NEW n \in 0..W
  PROVE /\ {(i + n) % W : i \in word} = Left(word, n) \cup Right(word, W - n)
        /\ {(i + -n) % W : i \in word} = Right(word, n) \cup Left(word, W - n)
<1>1. word \in SUBSET (0..(W - 1)) /\ W \in Nat \ {0} /\ Positions = 0..(W - 1) /\ n \in Nat
  BY WordSize, BitParameters DEF Words
<1>2. ASSUME NEW i \in 0..(W - 1)
      PROVE /\ (i + n) % W = IF i + n < W THEN i + n ELSE i - (W - n)
            /\ (i + -n) % W = IF i >= n THEN i - n ELSE i + (W - n)
  <2>1. i + n \in Int /\ 0 <= i + n /\ i + n < 2 * W /\ (i + n) - W = i - (W - n)
    BY <1>1
  <2>2. i + -n \in Int /\ -W <= i + -n /\ i + -n < W /\ i + -n = i - n /\ (i + -n) + W = i + (W - n)
    BY <1>1
  <2>3. (i + n) % W = IF i + n < W THEN i + n ELSE (i + n) - W
    <3> DEFINE k == i + n
    <3>1. k \in Int /\ 0 <= k /\ k < 2 * W
      BY <2>1
    <3> HIDE DEF k
    <3>2. k < W => k % W = k
      BY <1>1, <3>1, RestNear
    <3>3. W <= k => k % W = k - W
      BY <1>1, <3>1, RestNear
    <3>4. k % W = IF k < W THEN k ELSE k - W
      BY <1>1, <3>1, <3>2, <3>3
    <3> QED
      BY <3>4 DEF k
  <2>4. (i + -n) % W = IF 0 <= i + -n THEN i + -n ELSE (i + -n) + W
    <3> DEFINE k == i + -n
    <3>1. k \in Int /\ -W <= k /\ k < W
      BY <2>2
    <3> HIDE DEF k
    <3>2. 0 <= k => k % W = k
      BY <1>1, <3>1, RestNear
    <3>3. k < 0 => k % W = k + W
      BY <1>1, <3>1, RestNear
    <3>4. k % W = IF 0 <= k THEN k ELSE k + W
      BY <1>1, <3>1, <3>2, <3>3
    <3> QED
      BY <3>4 DEF k
  <2>5. i >= n <=> 0 <= i + -n
    BY <1>1
  <2> QED
    BY <2>1, <2>2, <2>3, <2>4, <2>5
<1>3. ASSUME NEW j \in 0..(W - 1)
      PROVE /\ (\E i \in word : (i + n) % W = j) <=> j - n \in word \/ j + (W - n) \in word
            /\ (\E i \in word : (i + -n) % W = j) <=> j + n \in word \/ j - (W - n) \in word
  <2>1. \A i \in word : (i + n) % W = j => i = j - n \/ i = j + (W - n)
    BY <1>1, <1>2
  <2>2. j - n \in word => ((j - n) + n) % W = j
    BY <1>1, <1>2
  <2>3. j + (W - n) \in word => ((j + (W - n)) + n) % W = j
    <3> SUFFICES ASSUME j + (W - n) \in word PROVE ((j + (W - n)) + n) % W = j
      OBVIOUS
    <3> DEFINE k == j + (W - n)
    <3>1. k \in 0..(W - 1) /\ ~ (k + n < W) /\ k - (W - n) = j
      BY <1>1
    <3> HIDE DEF k
    <3>2. (k + n) % W = k - (W - n)
      BY <1>2, <3>1
    <3> QED
      BY <3>1, <3>2 DEF k
  <2>4. \A i \in word : (i + -n) % W = j => i = j + n \/ i = j - (W - n)
    BY <1>1, <1>2
  <2>5. j + n \in word => ((j + n) + -n) % W = j
    BY <1>1, <1>2
  <2>6. j - (W - n) \in word => ((j - (W - n)) + -n) % W = j
    <3> SUFFICES ASSUME j - (W - n) \in word PROVE ((j - (W - n)) + -n) % W = j
      OBVIOUS
    <3> DEFINE k == j - (W - n)
    <3>1. k \in 0..(W - 1) /\ (k >= n => n = W - W) /\ k + (W - n) = j
      BY <1>1
    <3> HIDE DEF k
    <3>2. (k + -n) % W = j
      BY <1>1, <1>2, <3>1
    <3> QED
      BY <3>2 DEF k
  <2> QED
    BY <2>1, <2>2, <2>3, <2>4, <2>5, <2>6
<1>4. ASSUME NEW i \in word PROVE (i + n) % W \in 0..(W - 1) /\ (i + -n) % W \in 0..(W - 1)
  BY <1>1, <1>2
<1>5. {(i + n) % W : i \in word} = Left(word, n) \cup Right(word, W - n)
  <2> DEFINE f(i) == (i + n) % W
             L == Left(word, n)
             R == Right(word, W - n)
  <2>1. \A i \in word : f(i) \in Positions
    BY <1>1, <1>4
  <2>2. \A j \in Positions : (\E i \in word : f(i) = j) <=> j \in L \/ j \in R
    BY <1>1, <1>3 DEF Left, Right
  <2>3. L \subseteq Positions /\ R \subseteq Positions
    BY DEF Left, Right
  <2> HIDE DEF f, L, R
  <2>4. {f(i) : i \in word} = L \cup R
    BY <2>1, <2>2, <2>3
  <2> QED
    BY <2>4 DEF f, L, R
<1>6. {(i + -n) % W : i \in word} = Right(word, n) \cup Left(word, W - n)
  <2> DEFINE f(i) == (i + -n) % W
             L == Left(word, W - n)
             R == Right(word, n)
  <2>1. \A i \in word : f(i) \in Positions
    BY <1>1, <1>4
  <2>2. \A j \in Positions : (\E i \in word : f(i) = j) <=> j \in R \/ j \in L
    BY <1>1, <1>3 DEF Left, Right
  <2>3. L \subseteq Positions /\ R \subseteq Positions
    BY DEF Left, Right
  <2> HIDE DEF f, L, R
  <2>4. {f(i) : i \in word} = R \cup L
    BY <2>1, <2>2, <2>3
  <2> QED
    BY <2>4 DEF f, L, R
<1> QED
  BY <1>5, <1>6

LEMMA Rotations ==
  ASSUME NEW x \in Int, NEW n \in 0..W
  PROVE /\ bit32lrotate(x, n) = Left(ToWord(x), n) \cup Right(ToWord(x), W - n)
        /\ bit32rrotate(x, n) = Right(ToWord(x), n) \cup Left(ToWord(x), W - n)
<1>1. ToWord(x) \in Words
  BY WordBits
<1> QED
  BY <1>1, Turned DEF bit32lrotate, bit32rrotate

LEMMA ShiftsAgreeAlways == ASSUME NEW x \in Int PROVE ShiftsAgree(x)
<1> SUFFICES ASSUME NEW n \in 0..W
             PROVE LET word == ToWord(x)
                       left == ToWord(Unsigned(word) * 2^n)
                       right == ToWord(Unsigned(word) \div 2^n)
                   IN /\ bit32lshift(x, n) = left /\ bit32lshift(x, -n) = right
                      /\ bit32rshift(x, n) = right /\ bit32rshift(x, -n) = left
                      /\ bit32arshift(x, n) = ToWord(Signed(word) \div 2^n) /\ bit32arshift(x, -n) = left
                      /\ bit32lrotate(x, n) = left \cup ToWord(Unsigned(word) \div 2^(W - n))
                      /\ bit32rrotate(x, n) = right \cup ToWord(Unsigned(word) * 2^(W - n))
  BY DEF ShiftsAgree
<1>1. n \in Nat /\ W - n \in Nat /\ ToWord(x) \in Words
  BY WordSize, WordBits
<1>2. /\ ToWord(Unsigned(ToWord(x)) * 2^n) = Left(ToWord(x), n)
      /\ ToWord(Unsigned(ToWord(x)) \div 2^n) = Right(ToWord(x), n)
      /\ ToWord(Unsigned(ToWord(x)) * 2^(W - n)) = Left(ToWord(x), W - n)
      /\ ToWord(Unsigned(ToWord(x)) \div 2^(W - n)) = Right(ToWord(x), W - n)
  BY <1>1, ShiftedNumbers
<1> QED
  BY <1>2, PlainShifts, SignedShift, SignedShiftLeft, Rotations

-----------------------------------------------------------------------------
(* One operand after the first.                                            *)

LEMMA BandOne ==
  ASSUME NEW x \in Int, NEW y \in 0..(2^W - 1)
  PROVE bit32band(x, <<y>>) = {ToWord(x) \cap ToWord(y)}
<1> DEFINE first == ToWord(x)
           Step(f, n) == IF n = 0 THEN {first} ELSE {p \cap q : p \in f[n - 1], q \in Operand(<<y>>[n])}
           after == CHOOSE f : f = [n \in 0..Len(<<y>>) |-> Step(f, n)]
           g == [n \in 0..1 |-> IF n = 0 THEN {first} ELSE {first \cap ToWord(y)}]
<1>1. Operand(<<y>>[1]) = {ToWord(y)} /\ Len(<<y>>) = 1 /\ 1 - 1 = 0
  BY DEF Operand
<1>2. ASSUME NEW f, f[0] = {first} PROVE Step(f, 1) = {first \cap ToWord(y)}
  <2>1. {p \cap q : p \in {first}, q \in {ToWord(y)}} = {first \cap ToWord(y)}
    OBVIOUS
  <2>2. Step(f, 1) = {p \cap q : p \in f[1 - 1], q \in Operand(<<y>>[1])}
    OBVIOUS
  <2>3. f[1 - 1] = {first}
    BY <1>1, <1>2
  <2> QED
    BY <1>1, <2>1, <2>2, <2>3
<1>3. \A f : Step(f, 0) = {first}
  OBVIOUS
<1> HIDE DEF Step
<1>4. g[0] = {first} /\ g[1] = {first \cap ToWord(y)}
  OBVIOUS
<1>5. g = [n \in 0..1 |-> Step(g, n)]
  <2>1. Step(g, 1) = g[1] /\ Step(g, 0) = g[0]
    BY <1>2, <1>3, <1>4
  <2> QED
    BY <2>1
<1> HIDE DEF g
<1>6. after = [n \in 0..1 |-> Step(after, n)]
  BY <1>1, <1>5
<1>7. bit32band(x, <<y>>) = after[1]
  BY <1>1 DEF bit32band, Looped, Step
<1> HIDE DEF after
<1>8. after[1] = Step(after, 1) /\ after[0] = Step(after, 0)
  BY <1>6
<1> QED
  BY <1>2, <1>3, <1>7, <1>8

LEMMA OrOne ==
  ASSUME NEW x \in Int, NEW y \in 0..(2^W - 1)
  PROVE bit32or(x, <<y>>) = {ToWord(x) \cup ToWord(y)}
<1> DEFINE first == ToWord(x)
           Step(f, n) == IF n = 0 THEN {first} ELSE {p \cup q : p \in f[n - 1], q \in Operand(<<y>>[n])}
           after == CHOOSE f : f = [n \in 0..Len(<<y>>) |-> Step(f, n)]
           g == [n \in 0..1 |-> IF n = 0 THEN {first} ELSE {first \cup ToWord(y)}]
<1>1. Operand(<<y>>[1]) = {ToWord(y)} /\ Len(<<y>>) = 1 /\ 1 - 1 = 0
  BY DEF Operand
<1>2. ASSUME NEW f, f[0] = {first} PROVE Step(f, 1) = {first \cup ToWord(y)}
  <2>1. {p \cup q : p \in {first}, q \in {ToWord(y)}} = {first \cup ToWord(y)}
    OBVIOUS
  <2>2. Step(f, 1) = {p \cup q : p \in f[1 - 1], q \in Operand(<<y>>[1])}
    OBVIOUS
  <2>3. f[1 - 1] = {first}
    BY <1>1, <1>2
  <2> QED
    BY <1>1, <2>1, <2>2, <2>3
<1>3. \A f : Step(f, 0) = {first}
  OBVIOUS
<1> HIDE DEF Step
<1>4. g[0] = {first} /\ g[1] = {first \cup ToWord(y)}
  OBVIOUS
<1>5. g = [n \in 0..1 |-> Step(g, n)]
  <2>1. Step(g, 1) = g[1] /\ Step(g, 0) = g[0]
    BY <1>2, <1>3, <1>4
  <2> QED
    BY <2>1
<1> HIDE DEF g
<1>6. after = [n \in 0..1 |-> Step(after, n)]
  BY <1>1, <1>5
<1>7. bit32or(x, <<y>>) = after[1]
  BY <1>1 DEF bit32or, Looped, Step
<1> HIDE DEF after
<1>8. after[1] = Step(after, 1) /\ after[0] = Step(after, 0)
  BY <1>6
<1> QED
  BY <1>2, <1>3, <1>7, <1>8

LEMMA XorOne ==
  ASSUME NEW x \in Int, NEW y \in 0..(2^W - 1)
  PROVE bit32xor(x, <<y>>) = {Xor(ToWord(x), ToWord(y))}
<1> DEFINE first == ToWord(x)
           Step(f, n) == IF n = 0 THEN {first} ELSE {Xor(p, q) : p \in f[n - 1], q \in Operand(<<y>>[n])}
           after == CHOOSE f : f = [n \in 0..Len(<<y>>) |-> Step(f, n)]
           g == [n \in 0..1 |-> IF n = 0 THEN {first} ELSE {Xor(first, ToWord(y))}]
<1>1. Operand(<<y>>[1]) = {ToWord(y)} /\ Len(<<y>>) = 1 /\ 1 - 1 = 0
  BY DEF Operand
<1>2. ASSUME NEW f, f[0] = {first} PROVE Step(f, 1) = {Xor(first, ToWord(y))}
  <2>1. {Xor(p, q) : p \in {first}, q \in {ToWord(y)}} = {Xor(first, ToWord(y))}
    OBVIOUS
  <2>2. Step(f, 1) = {Xor(p, q) : p \in f[1 - 1], q \in Operand(<<y>>[1])}
    OBVIOUS
  <2>3. f[1 - 1] = {first}
    BY <1>1, <1>2
  <2> QED
    BY <1>1, <2>1, <2>2, <2>3
<1>3. \A f : Step(f, 0) = {first}
  OBVIOUS
<1> HIDE DEF Step
<1>4. g[0] = {first} /\ g[1] = {Xor(first, ToWord(y))}
  OBVIOUS
<1>5. g = [n \in 0..1 |-> Step(g, n)]
  <2>1. Step(g, 1) = g[1] /\ Step(g, 0) = g[0]
    BY <1>2, <1>3, <1>4
  <2> QED
    BY <2>1
<1> HIDE DEF g
<1>6. after = [n \in 0..1 |-> Step(after, n)]
  BY <1>1, <1>5
<1>7. bit32xor(x, <<y>>) = after[1]
  BY <1>1 DEF bit32xor, Looped, Step
<1> HIDE DEF after
<1>8. after[1] = Step(after, 1) /\ after[0] = Step(after, 0)
  BY <1>6
<1> QED
  BY <1>2, <1>3, <1>7, <1>8

-----------------------------------------------------------------------------
(* Fields and masks.                                                       *)

\* The positions of a field.
Field(offset, width) == {i \in Positions : i >= offset /\ i < offset + width}

Inside(offset, width) == offset >= 0 /\ width >= 1 /\ offset + width <= W

LEMMA OutsideIsNotInside ==
  ASSUME NEW offset \in Int, NEW width \in Int
  PROVE Outside(offset, width) <=> ~ Inside(offset, width)
BY WordSize DEF Outside, Inside

LEMMA LowMask ==
  ASSUME NEW k \in Nat PROVE 2^k - 1 \in Int /\ ToWord(2^k - 1) = Low(k)
<1>1. 2^k - 1 \in Int
  BY PowerNat
<1>2. ASSUME NEW i \in Positions PROVE i \in ToWord(2^k - 1) <=> i \in Low(k)
  <2>1. i \in Nat
    BY WordSize
  <2>2. Bit(2^k - 1, i) = IF i < k THEN 1 ELSE 0
    BY <2>1, BitMask
  <2>3. i \in ToWord(2^k - 1) <=> Bit(2^k - 1, i) = 1
    BY <1>1, WordBits
  <2> QED
    BY <2>2, <2>3 DEF Low
<1>3. Low(k) \in Words
  BY DEF Low, Words
<1> QED
  BY <1>1, <1>2, <1>3, WordBits, WordsEqual

LEMMA FieldFunctions ==
  ASSUME NEW x \in Int, NEW v \in Int, NEW offset \in Int, NEW width \in Int,
         Inside(offset, width)
  PROVE LET field == Field(offset, width)
            put == Left(ToWord(v), offset) \cap field
        IN /\ bit32replace(x, v, offset, width) = (ToWord(x) \ field) \cup put
           /\ bit32lshift(2^width - 1, offset) = field
           /\ bit32lshift(v, offset) = Left(ToWord(v), offset)
<1> DEFINE p == ToWord(x)
           q == ToWord(v)
           field == Field(offset, width)
           put == Left(q, offset) \cap field
<1>1. p \in Words /\ q \in Words
  BY WordBits
<1>2. width \in Nat /\ offset \in 0..W /\ offset \in Nat
  BY WordSize DEF Inside
<1>3. /\ Left(Right(p, offset) \cap Low(width), offset) = p \cap field
      /\ Left(Right(Left(q, W - width), W - width), offset) = put
      /\ Left(Low(width), offset) = field
  <2>1. W \in Nat /\ Positions = 0..(W - 1) /\ p \subseteq Positions /\ q \subseteq Positions
    BY <1>1, WordSize DEF Words
  <2>2. offset >= 0 /\ width >= 1 /\ offset + width <= W
    BY DEF Inside
  <2>3. \A i \in Positions : (i - offset) + offset = i /\ (i + offset) - offset = i /\ i \in Int
    BY <2>1
  <2> HIDE DEF p, q
  <2>4. Left(Right(p, offset) \cap Low(width), offset) = p \cap field
    BY <2>1, <2>2, <2>3 DEF Left, Right, Low, Field
  <2>5. Left(Right(Left(q, W - width), W - width), offset) = put
    BY <2>1, <2>2 DEF Left, Right, Field
  <2>6. Left(Low(width), offset) = field
    BY <2>1, <2>2 DEF Left, Low, Field
  <2> QED
    BY <2>4, <2>5, <2>6
<1>4. Xor(p, p \cap field) = p \ field
  BY DEF Xor
<1>5. ~ Outside(offset, width)
  BY OutsideIsNotInside
<1>6. bit32replace(x, v, offset, width) = Xor(p, p \cap field) \cup put
  <2> HIDE DEF put, field
  <2> QED
    BY <1>3, <1>5 DEF bit32replace
<1>7. bit32lshift(2^width - 1, offset) = field
  BY <1>2, <1>3, LowMask, PlainShifts
<1>8. bit32lshift(v, offset) = Left(q, offset)
  BY <1>2, PlainShifts
<1> QED
  BY <1>4, <1>6, <1>7, <1>8

\* The masks of FieldsReadBack.
Mask(offset, width) == Unsigned(bit32lshift(2^width - 1, offset))
KeptBits(x, mask) == CHOOSE word \in bit32band(x, <<Unsigned(bit32not(mask))>>) : TRUE
MovedBits(v, offset, mask) == CHOOSE word \in bit32band(Unsigned(bit32lshift(v, offset)), <<mask>>) : TRUE

\* What FieldsReadBack says of a field that lies in the word.
ReadsBack(x, v, offset, width) ==
  LET new == bit32replace(x, v, offset, width)
      kept == Unsigned(KeptBits(x, Mask(offset, width)))
      moved == Unsigned(MovedBits(v, offset, Mask(offset, width)))
  IN /\ new \in Words
     /\ bit32extract(Unsigned(new), offset, width) = ToWord(v) \cap Low(width)
     /\ {new} = bit32or(kept, <<moved>>)
     /\ {new} = bit32xor(kept, <<moved>>)

LEMMA FieldOfCall ==
  ASSUME NEW x \in Int, NEW v \in Int, NEW offset \in Int, NEW width \in Int,
         Inside(offset, width)
  PROVE ReadsBack(x, v, offset, width)
<1> DEFINE p == ToWord(x)
           q == ToWord(v)
           field == Field(offset, width)
           put == Left(q, offset) \cap field
           rest == p \ field
           new == bit32replace(x, v, offset, width)
           mask == Mask(offset, width)
           kept == KeptBits(x, mask)
           moved == MovedBits(v, offset, mask)
<1>1. p \in Words /\ q \in Words /\ field \in Words /\ put \in Words /\ rest \in Words
      /\ Left(q, offset) \in Words /\ rest \cup put \in Words /\ Positions \ field \in Words
  BY WordBits DEF Field, Left, Words
<1>2. new = rest \cup put /\ bit32lshift(2^width - 1, offset) = field /\ bit32lshift(v, offset) = Left(q, offset)
  BY FieldFunctions
<1>3. \A word \in Words : /\ Unsigned(word) \in 0..(2^W - 1) /\ Unsigned(word) \in Int
                          /\ ToWord(Unsigned(word)) = word
  BY UnsignedOfWord, UnsignedInt
<1>4. Right(rest \cup put, offset) \cap Low(width) = q \cap Low(width)
  <2>1. W \in Nat /\ Positions = 0..(W - 1) /\ p \subseteq Positions /\ q \subseteq Positions
    BY <1>1, WordSize DEF Words
  <2>2. offset >= 0 /\ width >= 1 /\ offset + width <= W
    BY DEF Inside
  <2>3. \A i \in Positions : (i - offset) + offset = i /\ (i + offset) - offset = i /\ i \in Int
    BY <2>1
  <2> HIDE DEF p, q
  <2> QED
    BY <2>1, <2>2, <2>3 DEF Left, Right, Low, Field
<1>5. rest \cap put = {} /\ p \cap (Positions \ field) = rest
  BY <1>1 DEF Words
<1>6. bit32not(mask) = Positions \ field
  BY <1>1, <1>2, <1>3 DEF bit32not, Mask
<1>7. ~ Outside(offset, width)
  BY OutsideIsNotInside
<1> HIDE DEF p, q, field, put, rest, new
<1>8. bit32extract(Unsigned(new), offset, width) = q \cap Low(width)
  BY <1>1, <1>2, <1>3, <1>4, <1>7 DEF bit32extract
<1>9. kept = rest
  <2> DEFINE other == Unsigned(Positions \ field)
  <2>1. other \in 0..(2^W - 1) /\ ToWord(other) = Positions \ field
    BY <1>1, <1>3
  <2> HIDE DEF other
  <2>2. bit32band(x, <<other>>) = {p \cap ToWord(other)}
    BY <2>1, BandOne DEF p
  <2>3. bit32band(x, <<other>>) = {rest}
    BY <2>1, <2>2, <1>5
  <2>4. kept = CHOOSE word \in bit32band(x, <<other>>) : TRUE
    BY <1>6 DEF other, KeptBits
  <2> QED
    BY <2>3, <2>4
<1>10. moved = put
  <2> DEFINE other == Unsigned(Left(q, offset))
             m == Unsigned(field)
  <2>1. other \in Int /\ ToWord(other) = Left(q, offset) /\ m \in 0..(2^W - 1) /\ ToWord(m) = field
    BY <1>1, <1>3
  <2> HIDE DEF other, m
  <2>2. bit32band(other, <<m>>) = {ToWord(other) \cap ToWord(m)}
    BY <2>1, BandOne
  <2>3. bit32band(other, <<m>>) = {put}
    BY <2>1, <2>2 DEF put
  <2>4. moved = CHOOSE word \in bit32band(other, <<m>>) : TRUE
    BY <1>2 DEF other, m, MovedBits, Mask
  <2> QED
    BY <2>3, <2>4
<1> HIDE DEF kept, moved, mask
<1>11. bit32or(Unsigned(rest), <<Unsigned(put)>>) = {rest \cup put}
  <2> DEFINE r == Unsigned(rest)
             s == Unsigned(put)
  <2>1. r \in Int /\ s \in 0..(2^W - 1) /\ ToWord(r) = rest /\ ToWord(s) = put
    BY <1>1, <1>3
  <2> HIDE DEF r, s
  <2>2. bit32or(r, <<s>>) = {ToWord(r) \cup ToWord(s)}
    BY <2>1, OrOne
  <2> QED
    BY <2>1, <2>2 DEF r, s
<1>12. bit32xor(Unsigned(rest), <<Unsigned(put)>>) = {rest \cup put}
  <2> DEFINE r == Unsigned(rest)
             s == Unsigned(put)
  <2>1. r \in Int /\ s \in 0..(2^W - 1) /\ ToWord(r) = rest /\ ToWord(s) = put
    BY <1>1, <1>3
  <2> HIDE DEF r, s
  <2>2. bit32xor(r, <<s>>) = {Xor(ToWord(r), ToWord(s))}
    BY <2>1, XorOne
  <2>3. Xor(rest, put) = rest \cup put
    BY <1>5 DEF Xor
  <2> QED
    BY <2>1, <2>2, <2>3 DEF r, s
<1> QED
  BY <1>1, <1>2, <1>8, <1>9, <1>10, <1>11, <1>12 DEF ReadsBack, q, new, kept, moved, mask

LEMMA FieldsReadBackAlways == ASSUME NEW x \in Int, NEW v \in Int PROVE FieldsReadBack(x, v)
<1> SUFFICES ASSUME NEW offset \in -1..(W + 1), NEW width \in -1..(W + 1)
             PROVE LET inside == offset >= 0 /\ width >= 1 /\ offset + width <= W
                       new == bit32replace(x, v, offset, width)
                       mask == Unsigned(bit32lshift(2^width - 1, offset))
                       kept == CHOOSE word \in bit32band(x, <<Unsigned(bit32not(mask))>>) : TRUE
                       moved == CHOOSE word \in bit32band(Unsigned(bit32lshift(v, offset)), <<mask>>) : TRUE
                   IN /\ (new = NoBits) = ~inside /\ (bit32extract(x, offset, width) = NoBits) = ~inside
                      /\ inside => /\ bit32extract(Unsigned(new), offset, width) = ToWord(v) \cap Low(width)
                                   /\ {new} = bit32or(Unsigned(kept), <<Unsigned(moved)>>)
                                   /\ {new} = bit32xor(Unsigned(kept), <<Unsigned(moved)>>)
  BY DEF FieldsReadBack
<1> DEFINE new == bit32replace(x, v, offset, width)
           mask == Unsigned(bit32lshift(2^width - 1, offset))
           kept == CHOOSE word \in bit32band(x, <<Unsigned(bit32not(mask))>>) : TRUE
           moved == CHOOSE word \in bit32band(Unsigned(bit32lshift(v, offset)), <<mask>>) : TRUE
<1>1. offset \in Int /\ width \in Int
  BY WordSize
<1>2. \A word \in Words : word # NoBits
  BY WordSize DEF Words, NoBits
<1>3. CASE Inside(offset, width)
  <2>1. ~ Outside(offset, width)
    BY <1>1, <1>3, OutsideIsNotInside
  <2>2. bit32extract(x, offset, width) \in Words
    BY <2>1 DEF bit32extract, Right, Low, Words
  <2>3. offset >= 0 /\ width >= 1 /\ offset + width <= W
    BY <1>3 DEF Inside
  <2>4. /\ new \in Words
        /\ bit32extract(Unsigned(new), offset, width) = ToWord(v) \cap Low(width)
        /\ {new} = bit32or(Unsigned(kept), <<Unsigned(moved)>>)
        /\ {new} = bit32xor(Unsigned(kept), <<Unsigned(moved)>>)
    <3>1. ReadsBack(x, v, offset, width)
      BY <1>1, <1>3, FieldOfCall
    <3> QED
      BY <3>1 DEF ReadsBack, Mask, KeptBits, MovedBits
  <2> HIDE DEF new, kept, moved
  <2>5. new # NoBits /\ bit32extract(x, offset, width) # NoBits
    BY <1>2, <2>2, <2>4
  <2> QED
    BY <2>3, <2>4, <2>5 DEF new, kept, moved
<1>4. CASE ~ Inside(offset, width)
  <2>1. Outside(offset, width)
    BY <1>1, <1>4, OutsideIsNotInside
  <2>2. bit32replace(x, v, offset, width) = NoBits /\ bit32extract(x, offset, width) = NoBits
    BY <2>1 DEF bit32replace, bit32extract
  <2>3. ~ (offset >= 0 /\ width >= 1 /\ offset + width <= W)
    BY <1>4 DEF Inside
  <2> QED
    BY <2>2, <2>3
<1> QED
  BY <1>3, <1>4

-----------------------------------------------------------------------------
(* Numbers that a float64 holds.                                           *)

LEMMA MantissaSize ==
  /\ P \in Nat /\ P - 1 \in Nat /\ W - 1 \in Nat
  /\ 2^P \in Nat \ {0} /\ 2^(W - 1) \in Nat \ {0}
  /\ 2^P <= 2^(W - 1) /\ 2^W = 2 * 2^(W - 1)
<1>1. P \in Nat /\ P - 1 \in Nat /\ W - 1 \in Nat /\ P <= W - 1 /\ (W - 1) + 1 = W
  BY BitParameters
<1> QED
  BY <1>1, PowerPositive, PowerMonotone, PowerStep

\* The unit of the last place.
IsUnit(u, x) == u \in {2^k : k \in 0..W} /\ x < 2^P * u /\ (u > 1 => x >= 2^(P - 1) * u)

LEMMA UnitExists ==
  ASSUME NEW x \in 0..(2^W - 1) PROVE \E k \in 0..W : IsUnit(2^k, x)
<1>1. x \in Int
  BY WordSize
<1> DEFINE T == {k \in Nat : x < 2^P * 2^k}
<1>2. W \in T
  <2>1. 2^P \in Nat \ {0} /\ 2^W \in Nat \ {0} /\ W \in Nat
    BY MantissaSize, WordSize
  <2>2. \A a, b \in Nat \ {0} : b <= a * b
    OBVIOUS
  <2>3. 2^W <= 2^P * 2^W /\ 2^P * 2^W \in Int
    BY <2>1, <2>2
  <2> QED
    BY <2>1, <2>3
<1>3. PICK k \in T : \A j \in T : k <= j
  <2> HIDE DEF T
  <2>1. T # {}
    BY <1>2
  <2>2. T \in SUBSET Nat
    BY DEF T
  <2> QED
    BY <2>1, <2>2, LeastNat
<1>4. k \in 0..W /\ k \in Nat /\ x < 2^P * 2^k
  BY <1>2, <1>3, WordSize
<1>5. ASSUME 2^k > 1 PROVE x >= 2^(P - 1) * 2^k
  <2>1. k # 0
    <3> SUFFICES ASSUME k = 0 PROVE FALSE
      OBVIOUS
    <3>1. 2^k = 2^0 /\ 2^0 = 1
      OBVIOUS
    <3>2. 2^k = 1
      BY <3>1
    <3> QED
      BY <1>5, <3>2
  <2>2. k - 1 \in Nat /\ (k - 1) + 1 = k /\ (P - 1) + 1 = P /\ P - 1 \in Nat
    BY <2>1, <1>4, MantissaSize
  <2>3. ~ (x < 2^P * 2^(k - 1))
    BY <1>3, <2>2
  <2>4. 2^k = 2 * 2^(k - 1) /\ 2^P = 2 * 2^(P - 1) /\ 2^(k - 1) \in Nat /\ 2^(P - 1) \in Nat
    BY <2>2, PowerStep, PowerNat
  <2>5. \A a, b \in Nat : (2 * a) * b = a * (2 * b) /\ a * (2 * b) \in Int
    OBVIOUS
  <2>6. 2^P * 2^(k - 1) = 2^(P - 1) * 2^k /\ 2^(P - 1) * 2^k \in Int
    BY <2>4, <2>5
  <2> QED
    BY <1>1, <2>3, <2>6
<1> QED
  BY <1>4, <1>5 DEF IsUnit

\* A number with no more than P bits that count is held exactly.
LEMMA FloatExact ==
  ASSUME NEW word \in Words, NEW m \in 0..(2^P - 1), NEW k \in Nat, Unsigned(word) = m * 2^k
  PROVE Float(word) = Unsigned(word)
<1> DEFINE x == Unsigned(word)
           unit == CHOOSE u \in {2^j : j \in 0..W} : x < 2^P * u /\ (u > 1 => x >= 2^(P - 1) * u)
           up == \/ 2 * (x % unit) > unit
                 \/ 2 * (x % unit) = unit /\ (x \div unit) % 2 = 1
<1>1. x \in 0..(2^W - 1) /\ x = m * 2^k
  BY UnsignedOfWord
<1>2. Float(word) = (x \div unit) * unit + IF up THEN unit ELSE 0
  BY DEF Float
<1> HIDE DEF x
<1>3. IsUnit(unit, x)
  <2>1. \E u \in {2^j : j \in 0..W} : x < 2^P * u /\ (u > 1 => x >= 2^(P - 1) * u)
    BY <1>1, UnitExists DEF IsUnit
  <2> QED
    BY <2>1 DEF IsUnit
<1> HIDE DEF unit
<1>4. PICK j \in 0..W : unit = 2^j
  BY <1>3 DEF IsUnit
<1>5. j \in Nat /\ unit \in Nat \ {0} /\ m \in Nat /\ m < 2^P /\ x \in Int /\ 2^P \in Nat
  BY <1>1, <1>4, PowerPositive, MantissaSize, WordSize
<1>6. j <= k
  <2> SUFFICES ASSUME k < j PROVE FALSE
    BY <1>5
  <2>1. j - 1 \in Nat /\ (j - 1) + 1 = j /\ k <= j - 1 /\ (P - 1) + 1 = P /\ P - 1 \in Nat
    BY <1>5, MantissaSize
  <2>2. 2^j = 2 * 2^(j - 1) /\ 2^P = 2 * 2^(P - 1) /\ 2^(j - 1) \in Nat \ {0} /\ 2^(P - 1) \in Nat
        /\ 2^k <= 2^(j - 1) /\ 2^k \in Nat \ {0}
    BY <2>1, PowerStep, PowerPositive, PowerMonotone
  <2>3. unit > 1
    BY <1>4, <2>2
  <2>4. x >= 2^(P - 1) * 2^j
    BY <1>3, <1>4, <2>3 DEF IsUnit
  <2>5. \A a, b \in Nat : (2 * a) * b = a * (2 * b) /\ a * (2 * b) \in Int
    OBVIOUS
  <2>6. 2^(P - 1) * 2^j = 2^P * 2^(j - 1)
    BY <2>2, <2>5
  <2>7. \A a, b, c, d \in Nat : a < b /\ c <= d /\ c > 0 => a * c < b * d
    <3> TAKE a, b, c, d \in Nat
    <3>1. a < b /\ c <= d /\ c > 0 => a * c < b * c /\ b * c <= b * d
      OBVIOUS
    <3> QED
      BY <3>1
  <2>8. m * 2^k < 2^P * 2^(j - 1)
    BY <1>5, <2>2, <2>7
  <2> QED
    BY <1>1, <1>5, <2>4, <2>6, <2>8
<1>7. k - j \in Nat /\ j + (k - j) = k
  BY <1>5, <1>6
<1>8. 2^k = 2^j * 2^(k - j) /\ 2^(k - j) \in Nat
  BY <1>5, <1>7, PowerPlus, PowerNat
<1> DEFINE q == m * 2^(k - j)
<1>9. q \in Int /\ x = unit * q + 0
  <2>1. \A a, b, c \in Nat : a * (b * c) = b * (a * c) + 0 /\ a * c \in Int
    OBVIOUS
  <2> QED
    BY <1>1, <1>4, <1>5, <1>8, <2>1
<1> HIDE DEF q
<1>10. x \div unit = q /\ x % unit = 0
  <2>1. 0 \in 0..(unit - 1)
    BY <1>5
  <2> QED
    BY <1>5, <1>9, <2>1, DivIs
<1>11. ~ up /\ q * unit = x
  BY <1>5, <1>9, <1>10
<1> QED
  BY <1>2, <1>5, <1>10, <1>11 DEF x

LEMMA FloatSmall ==
  ASSUME NEW x \in 0..(2^P - 1) PROVE x \in 0..(2^W - 1) /\ x \in Int /\ Float(ToWord(x)) = x
<1>1. x \in 0..(2^W - 1) /\ x \in Int
  BY MantissaSize
<1>2. x = x * 2^0 /\ 0 \in Nat
  BY <1>1, 2^0 = 1
<1>3. ToWord(x) \in Words /\ Unsigned(ToWord(x)) = x
  BY <1>1, WordBits, UnsignedExact
<1>4. Unsigned(ToWord(x)) = x * 2^0
  BY <1>2, <1>3
<1>5. Float(ToWord(x)) = Unsigned(ToWord(x))
  BY <1>2, <1>3, <1>4, FloatExact
<1> QED
  BY <1>1, <1>3, <1>5

\* A word without a bit beyond the mantissa.
LEMMA SmallWord ==
  ASSUME NEW word \in Words, \A i \in word : i < P
  PROVE \E x \in 0..(2^P - 1) : ToWord(x) = word /\ Float(word) = x
<1>1. word \in SUBSET (0..(P - 1))
  BY MantissaSize, WordSize DEF Words
<1>2. PICK x \in 0..(2^P - 1) : \A i \in 0..(P - 1) : Bit(x, i) = 1 <=> i \in word
  BY <1>1, BitsExist, MantissaSize
<1>3. x \in Int
  BY MantissaSize
<1>4. ASSUME NEW i \in Positions PROVE i \in ToWord(x) <=> i \in word
  <2>1. i \in Nat /\ (i \in ToWord(x) <=> Bit(x, i) = 1)
    BY <1>3, WordBits, WordSize
  <2>2. CASE i < P
    <3>1. i \in 0..(P - 1)
      BY <2>1, <2>2, MantissaSize
    <3> QED
      BY <1>2, <2>1, <3>1
  <2>3. CASE P <= i
    <3>1. Bit(x, i) = 0
      BY <2>1, <2>3, MantissaSize, BitAbove
    <3>2. i \notin word
      BY <2>1, <2>3, MantissaSize
    <3> QED
      BY <2>1, <3>1, <3>2
  <2> QED
    BY <2>1, <2>2, <2>3, MantissaSize
<1>5. ToWord(x) = word
  BY <1>3, <1>4, WordBits, WordsEqual
<1> QED
  BY <1>5, FloatSmall

LEMMA NoneBeyond ==
  ASSUME NEW x \in 0..(2^P - 1), NEW i \in ToWord(x) PROVE i < P
<1>1. x \in Int /\ i \in Positions /\ i \in Nat
  <2>1. i \in Positions
    BY DEF ToWord
  <2> QED
    BY <2>1, FloatSmall, WordSize
<1>2. Bit(x, i) = 1
  BY <1>1, WordBits
<1>3. P <= i => Bit(x, i) = 0
  BY <1>1, BitAbove, MantissaSize
<1> QED
  BY <1>1, <1>2, <1>3, MantissaSize

LEMMA SmallOperands ==
  ASSUME NEW x \in 0..(2^P - 1)
  PROVE Int64(x) = {ToWord(x)} /\ Uint64(x) = {ToWord(x)} /\ Int64(-x - 1) = {ToWord(-x - 1)}
<1>1. x \in Int /\ x \in 0..(2^W - 1) /\ x < 2^(W - 1) /\ 0 <= x
  BY FloatSmall, MantissaSize
<1>2. x \in -(2^(W - 1))..(2^(W - 1) - 1) /\ -x - 1 \in -(2^(W - 1))..(2^(W - 1) - 1)
  BY <1>1, MantissaSize
<1> QED
  BY <1>1, <1>2 DEF Int64, Uint64

\* -1 is all ones, and -x - 1 the other bits.
LEMMA OtherBits ==
  ASSUME NEW x \in Int PROVE -x - 1 \in Int /\ Positions \ ToWord(-x - 1) = ToWord(x)
<1>1. -x - 1 \in Int
  OBVIOUS
<1>2. ASSUME NEW i \in Positions PROVE i \in Positions \ ToWord(-x - 1) <=> i \in ToWord(x)
  <2>1. i \in Nat
    BY WordSize
  <2>2. Bit(-x - 1, i) = 1 - Bit(x, i) /\ Bit(x, i) \in {0, 1}
    BY <2>1, BitNot, BitIs
  <2>3. i \in ToWord(-x - 1) <=> Bit(-x - 1, i) = 1
    BY <1>1, WordBits
  <2>4. i \in ToWord(x) <=> Bit(x, i) = 1
    BY WordBits
  <2> QED
    BY <2>2, <2>3, <2>4
<1>3. Positions \ ToWord(-x - 1) \in Words
  BY DEF Words
<1> QED
  BY <1>1, <1>2, <1>3, WordBits, WordsEqual

LEMMA SmallShift == ASSUME NEW n \in 0..(W + 1) PROVE Int64(n) = {ToWord(n)} /\ Unsigned(ToWord(n)) = n
<1>1. W - 4 \in Nat /\ W - 1 = 3 + (W - 4) /\ W \in Nat
  BY BitParameters
<1>2. 2^(0 + 1) = 2 * 2^0 /\ 2^(1 + 1) = 2 * 2^1 /\ 2^(2 + 1) = 2 * 2^2
  BY PowerStep
<1>3. 2^3 = 8
  BY <1>2
<1>4. 2^(W - 1) = 8 * 2^(W - 4) /\ W - 4 < 2^(W - 4) /\ 2^(W - 4) \in Nat
  <2>1. 2^(3 + (W - 4)) = 2^3 * 2^(W - 4)
    BY <1>1, PowerPlus
  <2>2. W - 4 < 2^(W - 4) /\ 2^(W - 4) \in Nat
    BY <1>1, PowerPositive
  <2> QED
    BY <1>1, <1>3, <2>1, <2>2
<1>5. W + 1 < 2^(W - 1) /\ 2^(W - 1) \in Nat
  BY <1>1, <1>4
<1>6. n \in -(2^(W - 1))..(2^(W - 1) - 1) /\ n \in 0..(2^W - 1)
  BY <1>1, <1>5, MantissaSize
<1> QED
  BY <1>6, UnsignedExact DEF Int64

LEMMA Masked ==
  ASSUME NEW x \in 0..(2^P - 1) PROVE bit64band(x, -1) = {x} /\ bit64bnot(-x - 1) = {x}
<1> DEFINE p == ToWord(x)
<1>1. x \in Int /\ Float(p) = x /\ p \in Words /\ p \subseteq Positions
  BY FloatSmall, WordBits DEF Words
<1>2. Int64(x) = {p} /\ Int64(-x - 1) = {ToWord(-x - 1)}
  BY SmallOperands
<1>3. Positions \ ToWord(-x - 1) = p
  BY <1>1, OtherBits
<1>4. Int64(-1) = {Positions}
  <2>1. 0 \in 0..(2^P - 1) /\ -0 - 1 = -1
    BY MantissaSize
  <2>2. Int64(-1) = {ToWord(-1)}
    BY MantissaSize DEF Int64
  <2>3. \A i \in Positions : i \in ToWord(-1)
    <3> TAKE i \in Positions
    <3>1. i \in Nat /\ 0 \in Nat /\ 0 <= i /\ -1 \in Int
      BY WordSize
    <3>2. -1 \in (-(2^0))..(-1)
      BY 2^0 = 1
    <3>3. Bit(-1, i) = 1
      BY <3>1, <3>2, BitAbove
    <3> QED
      BY <3>1, <3>3, WordBits
  <2>4. ToWord(-1) = Positions
    BY <2>3 DEF ToWord
  <2> QED
    BY <2>2, <2>4
<1>5. bit64band(x, -1) = {x}
  <2> HIDE DEF p
  <2> DEFINE And(a, b) == a \cap b
  <2>1. bit64band(x, -1) = {Float(And(a, b)) : a \in Int64(x), b \in Int64(-1)}
    BY DEF bit64band, Operated
  <2>2. And(p, Positions) = p
    BY <1>1
  <2> HIDE DEF And
  <2> QED
    BY <1>1, <1>2, <1>4, <2>1, <2>2
<1>6. bit64bnot(-x - 1) = {x}
  <2>1. bit64bnot(-x - 1) = {Float(Positions \ a) : a \in Int64(-x - 1)}
    BY DEF bit64bnot
  <2> DEFINE n == ToWord(-x - 1)
  <2> HIDE DEF p, n
  <2> QED
    BY <1>1, <1>2, <1>3, <2>1 DEF n
<1> QED
  BY <1>5, <1>6

LEMMA Combined ==
  ASSUME NEW x \in 0..(2^P - 1), NEW y \in 0..(2^P - 1)
  PROVE \E and \in bit64band(x, y), or \in bit64bor(x, y), xor \in bit64bxor(x, y) :
          and + or = x + y /\ or - and = xor
<1> DEFINE p == ToWord(x)
           q == ToWord(y)
<1>1. x \in Int /\ y \in Int /\ p \in Words /\ q \in Words
  BY FloatSmall, WordBits
<1>2. Int64(x) = {p} /\ Int64(y) = {q} /\ Uint64(y) = {q}
  BY SmallOperands
<1>3. (\A i \in p : i < P) /\ (\A i \in q : i < P)
  BY NoneBeyond
<1>4. \A i \in 0..(P - 1) : i \in Positions /\ (i \in p <=> Bit(x, i) = 1) /\ (i \in q <=> Bit(y, i) = 1)
  <2>1. 0..(P - 1) \subseteq Positions
    BY MantissaSize, WordSize, BitParameters
  <2> QED
    BY <1>1, <2>1, WordBits
<1> HIDE DEF p, q
<1>5. PICK a \in 0..(2^P - 1) : ToWord(a) = p \cap q /\ Float(p \cap q) = a
  <2>1. p \cap q \in Words /\ \A i \in p \cap q : i < P
    BY <1>1, <1>3 DEF Words
  <2> QED
    BY <2>1, SmallWord
<1>6. PICK o \in 0..(2^P - 1) : ToWord(o) = p \cup q /\ Float(p \cup q) = o
  <2>1. p \cup q \in Words /\ \A i \in p \cup q : i < P
    BY <1>1, <1>3 DEF Words
  <2> QED
    BY <2>1, SmallWord
<1>7. PICK e \in 0..(2^P - 1) : ToWord(e) = Xor(p, q) /\ Float(Xor(p, q)) = e
  <2>1. Xor(p, q) \in Words /\ \A i \in Xor(p, q) : i < P
    BY <1>1, <1>3 DEF Words, Xor
  <2> QED
    BY <2>1, SmallWord
<1>8. a \in Int /\ o \in Int /\ e \in Int
  BY MantissaSize
<1>9. ASSUME NEW i \in 0..(P - 1)
      PROVE /\ Bit(a, i) = 1 <=> Bit(x, i) = 1 /\ Bit(y, i) = 1
            /\ Bit(o, i) = 1 <=> Bit(x, i) = 1 \/ Bit(y, i) = 1
            /\ Bit(e, i) = 1 <=> ~ (Bit(x, i) = 1 <=> Bit(y, i) = 1)
  <2>1. i \in Positions
    BY <1>4
  <2>2. /\ i \in ToWord(a) <=> Bit(a, i) = 1
        /\ i \in ToWord(o) <=> Bit(o, i) = 1
        /\ i \in ToWord(e) <=> Bit(e, i) = 1
    BY <1>8, <2>1, WordBits
  <2>3. i \in ToWord(a) <=> i \in p /\ i \in q
    BY <1>5
  <2>4. i \in ToWord(o) <=> i \in p \/ i \in q
    BY <1>6
  <2>5. i \in ToWord(e) <=> ~ (i \in p <=> i \in q)
    BY <1>7 DEF Xor
  <2> QED
    BY <1>4, <2>2, <2>3, <2>4, <2>5
<1>10. a + o = x + y /\ o - a = e
  <2>1. MergedBits(P, x, y, a, o, e)
    BY <1>9 DEF MergedBits
  <2>2. P \in Nat
    BY MantissaSize
  <2> QED
    BY <2>1, <2>2, BitSums
<1>11. a \in bit64band(x, y)
  <2>1. bit64band(x, y) = {Float(s \cap t) : s \in Int64(x), t \in Int64(y)}
    BY DEF bit64band, Operated
  <2> QED
    BY <1>2, <1>5, <2>1
<1>12. o \in bit64bor(x, y)
  <2>1. bit64bor(x, y) = {Float(s \cup t) : s \in Int64(x), t \in Uint64(y)}
    BY DEF bit64bor, Operated
  <2> QED
    BY <1>2, <1>6, <2>1
<1>13. e \in bit64bxor(x, y)
  <2>1. bit64bxor(x, y) = {Float(Xor(s, t)) : s \in Int64(x), t \in Int64(y)}
    BY DEF bit64bxor, Operated
  <2> QED
    BY <1>2, <1>7, <2>1
<1> QED
  BY <1>10, <1>11, <1>12, <1>13

LEMMA ShiftedRight ==
  ASSUME NEW x \in 0..(2^P - 1), NEW z \in 0..(2^W - 1), NEW n \in 0..(W + 1),
         Int64(z) = {ToWord(z)}, z \div 2^n = x
  PROVE bit64brshift(z, n) = {x}
<1>1. n \in Nat
  BY WordSize
<1>2. Int64(n) = {ToWord(n)} /\ Unsigned(ToWord(n)) = n
  BY SmallShift
<1>3. ToWord(x) = Right(ToWord(z), n)
  BY <1>1, RightDivides
<1>4. Float(ToWord(x)) = x
  BY FloatSmall
<1> DEFINE Shifted(a, b) == Float(Right(a, Unsigned(b)))
           p == ToWord(z)
           q == ToWord(n)
<1>5. bit64brshift(z, n) = {Shifted(a, b) : a \in Int64(z), b \in Int64(n)}
  BY DEF bit64brshift, Operated
<1>6. Shifted(p, q) = x
  BY <1>2, <1>3, <1>4
<1>7. Int64(z) = {p} /\ Int64(n) = {q}
  BY <1>2
<1> HIDE DEF p, q, Shifted
<1> QED
  BY <1>5, <1>6, <1>7

LEMMA ShiftedLeft ==
  ASSUME NEW x \in 0..(2^P - 1), NEW n \in 0..(W + 1)
  PROVE bit64blshift(x, n) = {(x * 2^n) % 2^W}
<1> DEFINE z == (x * 2^n) % 2^W
<1>1. n \in Nat /\ x \in Int /\ 0 <= x /\ x < 2^P /\ 2^P \in Nat
  BY WordSize, FloatSmall, MantissaSize
<1>2. x * 2^n \in Int /\ ToWord(x * 2^n) = Left(ToWord(x), n)
  BY <1>1, LeftMultiplies
<1>3. z \in 0..(2^W - 1) /\ ToWord(z) = ToWord(x * 2^n)
  BY <1>2, WordOfRest
<1>4. \E m \in 0..(2^P - 1), k \in Nat : z = m * 2^k
  <2>1. CASE n < W
    <3>1. W - n \in Nat /\ n + (W - n) = W
      BY <1>1, <2>1, WordSize
    <3>2. 2^W = 2^n * 2^(W - n) /\ 2^n \in Nat \ {0} /\ 2^(W - n) \in Nat \ {0}
      <4>1. 2^(n + (W - n)) = 2^n * 2^(W - n)
        BY <1>1, <3>1, PowerPlus
      <4>2. 2^n \in Nat \ {0} /\ 2^(W - n) \in Nat \ {0}
        BY <1>1, <3>1, PowerPositive
      <4> QED
        BY <3>1, <4>1, <4>2
    <3> DEFINE d == 2^(W - n)
               b == 2^n
               q == x \div d
               r == x % d
    <3>3. q \in Int /\ r \in 0..(d - 1) /\ x = d * q + r /\ b \in Nat \ {0} /\ d \in Nat \ {0} /\ 2^W = b * d
      BY <1>1, <3>2, DivMod
    <3>4. x * b = x * 2^n
      OBVIOUS
    <3> HIDE DEF d, b, q, r
    <3>5. x * b = (b * d) * q + r * b
      BY <3>3
    <3>6. r * b \in 0..(b * d - 1) /\ b * d \in Nat \ {0}
      <4>1. r * b <= (d - 1) * b /\ 0 <= r * b /\ r * b \in Int
        BY <3>3
      <4>2. (d - 1) * b = b * d - b /\ b * d \in Nat \ {0}
        BY <3>3
      <4> QED
        BY <3>3, <4>1, <4>2
    <3> DEFINE y == x * b
               c == b * d
               s == r * b
    <3>7. y \in Int /\ y = c * q + s /\ s \in 0..(c - 1) /\ c \in Nat \ {0} /\ q \in Int
      BY <1>1, <3>3, <3>5, <3>6
    <3> HIDE DEF y, c, s
    <3>8. y % c = s
      BY <3>7, DivIs
    <3>9. z = r * b
      BY <3>3, <3>4, <3>8 DEF y, c, s
    <3>10. r <= x
      <4> SUFFICES ASSUME x < r PROVE FALSE
        BY <1>1, <3>3
      <4>1. x < d
        BY <1>1, <3>3
      <4>2. x % d = x
        BY <1>1, <3>3, <4>1, RestNear
      <4> QED
        BY <1>1, <4>2 DEF r
    <3>11. r \in 0..(2^P - 1)
      BY <1>1, <3>3, <3>10
    <3> QED
      BY <1>1, <3>9, <3>11 DEF b
  <2>2. CASE n >= W
    <3>1. n - W \in Nat /\ W + (n - W) = n /\ W \in Nat
      BY <1>1, <2>2, WordSize
    <3>2. 2^n = 2^W * 2^(n - W) /\ 2^(n - W) \in Nat /\ 2^W \in Nat \ {0}
      BY <3>1, PowerPlus, PowerPositive
    <3> DEFINE d == 2^W
               b == 2^(n - W)
               y == x * 2^n
               q == x * b
    <3>3. y \in Int /\ q \in Int /\ d \in Nat \ {0} /\ y = d * q + 0
      <4>1. \A u, v \in Nat : x * (u * v) = u * (x * v) + 0 /\ x * v \in Int
        BY <1>1
      <4> QED
        BY <1>2, <3>2, <4>1
    <3>4. 0 \in 0..(d - 1)
      BY <3>3
    <3> HIDE DEF d, y, q
    <3>5. y % d = 0
      BY <3>3, <3>4, DivIs
    <3>6. z = 0 * 2^0 /\ 0 \in 0..(2^P - 1)
      BY <1>1, <3>5, 2^0 = 1 DEF y, d
    <3> QED
      BY <3>6
  <2> QED
    BY <1>1, <2>1, <2>2, WordSize
<1> DEFINE w == Left(ToWord(x), n)
<1>5. w \in Words /\ Unsigned(w) = z
  BY <1>2, <1>3, WordBits, UnsignedExact
<1>6. Float(w) = z
  <2> HIDE DEF w, z
  <2>1. PICK m \in 0..(2^P - 1), k \in Nat : z = m * 2^k
    BY <1>4
  <2>2. Unsigned(w) = m * 2^k
    BY <1>5, <2>1
  <2>3. Float(w) = Unsigned(w)
    BY <1>5, <2>2, FloatExact
  <2> QED
    BY <1>5, <2>3
<1>7. Int64(n) = {ToWord(n)} /\ Unsigned(ToWord(n)) = n /\ Int64(x) = {ToWord(x)}
  BY SmallShift, SmallOperands
<1>8. bit64blshift(x, n) = {Float(Left(p, Unsigned(q))) : p \in Int64(x), q \in Int64(n)}
  BY DEF bit64blshift, Operated
<1> DEFINE t == ToWord(n)
           p == ToWord(x)
<1>9. Int64(x) = {p} /\ Int64(n) = {t} /\ Unsigned(t) = n /\ Float(Left(p, n)) = z
  BY <1>6, <1>7
<1> HIDE DEF t, p, w, z
<1>10. bit64blshift(x, n) = {z}
  BY <1>8, <1>9
<1> QED
  BY <1>10 DEF z

LEMMA Bits64Always ==
  ASSUME NEW x \in 0..(2^P - 1), NEW y \in 0..(2^P - 1) PROVE Bits64Exact(x, y)
<1>1. ASSUME NEW n \in 0..(W + 1)
      PROVE /\ bit64brshift(x, n) = {x \div 2^n}
            /\ bit64blshift(x, n) = {(x * 2^n) % 2^W}
            /\ \A shifted \in bit64blshift(x, n) :
                 x * 2^n < 2^(W - 1) => bit64brshift(shifted, n) = {x}
  <2>1. n \in Nat /\ x \in Int /\ x \in Nat /\ x \in 0..(2^W - 1) /\ 2^n \in Nat \ {0}
    BY WordSize, FloatSmall, PowerPositive, MantissaSize
  <2>2. bit64brshift(x, n) = {x \div 2^n}
    <3>1. x \div 2^n \in 0..(2^P - 1)
      <4> DEFINE d == 2^n
                 q == x \div d
      <4>1. q \in Int /\ x % d \in 0..(d - 1) /\ x = d * q + (x % d) /\ d \in Nat \ {0}
        BY <2>1, DivMod
      <4> HIDE DEF d, q
      <4>2. q >= 0
        <5>1. q <= -1 => d * q <= -d
          BY <4>1
        <5> QED
          BY <2>1, <4>1, <5>1
      <4>3. q <= d * q
        BY <4>1, <4>2
      <4>4. q <= x
        BY <2>1, <4>1, <4>3
      <4>5. q \in 0..(2^P - 1)
        BY <2>1, <4>1, <4>2, <4>4, MantissaSize
      <4> QED
        BY <4>5 DEF q, d
    <3>2. Int64(x) = {ToWord(x)}
      BY SmallOperands
    <3> QED
      BY <2>1, <3>1, <3>2, ShiftedRight
  <2>3. bit64blshift(x, n) = {(x * 2^n) % 2^W}
    BY ShiftedLeft
  <2>4. ASSUME x * 2^n < 2^(W - 1) PROVE bit64brshift((x * 2^n) % 2^W, n) = {x}
    <3> DEFINE z == x * 2^n
    <3>1. z \in Int /\ 0 <= z
      BY <2>1
    <3>2. z \div 2^n = x
      BY <2>1, MulDiv
    <3>3. z < 2^(W - 1)
      BY <2>4
    <3> HIDE DEF z
    <3>4. z \in 0..(2^W - 1) /\ z \in -(2^(W - 1))..(2^(W - 1) - 1)
      BY <3>1, <3>3, MantissaSize
    <3>5. Int64(z) = {ToWord(z)}
      BY <3>4 DEF Int64
    <3>6. z % 2^W = z
      <4> DEFINE d == 2^W
      <4>1. d \in Nat \ {0} /\ z < d
        BY <3>1, <3>4, WordSize
      <4> HIDE DEF d
      <4>2. z % d = z
        BY <3>1, <4>1, RestNear
      <4> QED
        BY <4>2 DEF d
    <3>7. bit64brshift(z, n) = {x}
      BY <3>2, <3>4, <3>5, ShiftedRight
    <3> QED
      BY <3>6, <3>7 DEF z
  <2> QED
    BY <2>2, <2>3, <2>4
<1> QED
  BY <1>1, Masked, Combined DEF Bits64Exact

-----------------------------------------------------------------------------
CallOrNone == operands = <<>> \/ operands \in Numbers \X Numbers

\* Whatever two numbers a script calls with, the shifts, the fields and the masks
\* of bit32, and the operations of bit64 on numbers that a float64 holds, agree
\* with arithmetic and with each other (auxlib/bit32.go, auxlib/bit64.go), on
\* words of every size from 4 bits on and with every smaller mantissa.
THEOREM BitLibrariesAgree == BitsSpec => []BitsAgree
<1>1. BitsInit => CallOrNone
  BY DEF BitsInit, CallOrNone
<1>2. CallOrNone /\ [BitsNext]_operands => CallOrNone'
  BY DEF CallOrNone, BitsNext, Called
<1>3. CallOrNone => BitsAgree
  <2> SUFFICES ASSUME operands \in Numbers \X Numbers PROVE AgreeOn(operands[1], operands[2])
    BY DEF CallOrNone, BitsAgree
  <2> DEFINE x == operands[1]
             y == operands[2]
  <2>1. x \in Numbers /\ y \in Numbers
    OBVIOUS
  <2>2. x \in Int /\ y \in Int
    BY <2>1, MantissaSize, WordSize DEF Numbers
  <2> HIDE DEF x, y
  <2>3. ShiftsAgree(x) /\ FieldsReadBack(x, y)
    BY <2>2, ShiftsAgreeAlways, FieldsReadBackAlways
  <2>4. x \in 0..(2^P - 1) /\ y \in 0..(2^P - 1) => Bits64Exact(x, y)
    BY Bits64Always
  <2>5. AgreeOn(x, y)
    BY <2>3, <2>4 DEF AgreeOn
  <2> QED
    BY <2>5 DEF x, y
<1> QED
  BY <1>1, <1>2, <1>3, PTL DEF BitsSpec
=============================================================================
