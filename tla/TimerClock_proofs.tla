-------------------------- MODULE TimerClock_proofs --------------------------
(***************************************************************************)
(* No timer is early by more than one tick, for every set of timers, every *)
(* length of the tick and of the callbacks, and every spacing of the posts *)
(* of other goroutines; and none is late by more than one round, for every *)
(* finite set of timers and posts further apart than a tick.               *)
(***************************************************************************)
EXTENDS TimerClock, FiniteSetTheorems, TLAPS

\* One unit of time on a clock that stops at MaxAge.
LEMMA UpType ==
  ASSUME NEW n \in 0..MaxAge
  PROVE  Up(n) \in 0..MaxAge /\ n <= Up(n) /\ Up(n) <= n + 1 /\ (Up(n) = MaxAge \/ Up(n) = n + 1)
BY ClockParameters DEF Up

\* The time to let pass is measured: it is within MaxAge.
LEMMA AskType == \A t \in Timers : Ask[t] \in 1..MaxAge /\ Ask[t] \in Nat
BY ClockParameters

-----------------------------------------------------------------------------
(* Types, and where process() has timers in its hands.                     *)

\* A tick is charged to timers that wait, and to each once: the timer whose
\* callback runs has been charged already.
Charging == /\ \A t \in todo : phase[t] = "waiting"
            /\ \A t \in current : phase[t] = "waiting"
            /\ current \cap todo = {}
            /\ pc # "callback" => current = {}
            /\ pc = "callback" => \E t \in Timers : current = {t}
            /\ pc = "select" => todo = {}

\* The types without the cardinality of current, which Charging gives.
Types == /\ pc \in {"select", "drain", "callback"}
         /\ waited \in 0..TickUnits
         /\ sinceUpdate \in 0..MaxAge
         /\ elapse \in 0..MaxAge
         /\ todo \subseteq Timers
         /\ current \subseteq Timers
         /\ spent \in 0..MaxCall
         /\ posted \in BOOLEAN
         /\ sinceSend \in 0..Gap
         /\ phase \in [Timers -> {"none", "sent", "waiting"}]
         /\ delay \in [Timers -> Int]
         /\ asked \in [Timers -> 0..MaxAge]
         /\ age \in [Timers -> 0..MaxAge]
         /\ credit \in [Timers -> 0..MaxAge]
         /\ \A t \in Timers \ current : delay[t] >= 0

\* What has been charged to a timer, and what the present tick and the next
\* one will charge for the time that has passed so far.
Owed(t) == asked[t] - delay[t] + sinceUpdate + (IF t \in todo THEN elapse ELSE 0)

\* A timer is never charged more than the time since it was armed and the
\* time that had passed then since the tick before; past MaxAge the model
\* does not measure.
Charged == \A t \in Timers \ current :
             phase[t] # "none" => age[t] = MaxAge \/ Owed(t) <= age[t] + credit[t]

IInv == Types /\ Charging /\ Charged

LEMMA InitIInv == Init => IInv
<1> SUFFICES ASSUME Init PROVE IInv
  OBVIOUS
<1>1. Types
  <2>1. 0 \in 0..MaxAge /\ 0 \in 0..TickUnits /\ 0 \in 0..MaxCall /\ Gap \in 0..Gap /\ 0 \in Int
    BY ClockParameters
  <2>2. /\ phase \in [Timers -> {"none", "sent", "waiting"}]
        /\ delay \in [Timers -> Int]
        /\ \A t \in Timers : delay[t] = 0
    BY <2>1 DEF Init
  <2>3. /\ asked \in [Timers -> 0..MaxAge]
        /\ age \in [Timers -> 0..MaxAge]
        /\ credit \in [Timers -> 0..MaxAge]
    BY <2>1 DEF Init
  <2>4. /\ pc \in {"select", "drain", "callback"} /\ posted \in BOOLEAN
        /\ todo \subseteq Timers /\ current \subseteq Timers
    BY DEF Init
  <2>5. /\ waited \in 0..TickUnits /\ spent \in 0..MaxCall /\ sinceSend \in 0..Gap
        /\ sinceUpdate \in 0..MaxAge /\ elapse \in 0..MaxAge
    BY <2>1 DEF Init
  <2>6. \A t \in Timers \ current : delay[t] >= 0
    BY <2>2
  <2> QED BY <2>2, <2>3, <2>4, <2>5, <2>6 DEF Types
<1>2. Charging /\ Charged
  BY DEF Init, Charging, Charged
<1> QED BY <1>1, <1>2 DEF IInv

\* A unit of time: the timers age as the next tick's charge grows.
LEMMA PassStep ==
  ASSUME Types, Charged, Pass,
         UNCHANGED <<elapse, todo, current, phase, delay, asked, credit>>
  PROVE  /\ sinceUpdate' \in 0..MaxAge
         /\ sinceSend' \in 0..Gap
         /\ age' \in [Timers -> 0..MaxAge]
         /\ Charged'
<1>1. sinceUpdate' \in 0..MaxAge /\ sinceUpdate' <= sinceUpdate + 1
  BY UpType DEF Types, Pass
<1>2. sinceSend' \in 0..Gap
  BY ClockParameters DEF Types, Pass
<1>3. \A t \in Timers : Up(age[t]) \in 0..MaxAge /\ (Up(age[t]) = MaxAge \/ Up(age[t]) = age[t] + 1)
  BY UpType DEF Types
<1>4. age' \in [Timers -> 0..MaxAge]
  BY <1>3, ClockParameters DEF Pass
<1>5. ASSUME NEW t \in Timers \ current, phase[t] # "none"
      PROVE  age'[t] = MaxAge \/ Owed(t)' <= age'[t] + credit[t]
  <2>1. age'[t] = Up(age[t])
    BY <1>5 DEF Pass
  <2>2. age[t] = MaxAge \/ Owed(t) <= age[t] + credit[t]
    BY <1>5 DEF Charged
  <2>3. age[t] = MaxAge => age'[t] = MaxAge
    BY <2>1, ClockParameters DEF Up
  <2>4. Owed(t) \in Int /\ Owed(t)' \in Int /\ Owed(t)' <= Owed(t) + 1
    BY <1>1, <1>5 DEF Owed, Types
  <2>5. age[t] \in Int /\ credit[t] \in Int
    BY <1>5 DEF Types
  <2> QED BY <1>3, <2>1, <2>2, <2>3, <2>4, <2>5
<1>6. Charged'
  BY <1>5 DEF Charged
<1> QED BY <1>1, <1>2, <1>4, <1>6

\* A timer is armed: it is owed what the next tick will charge too much.
LEMMA ArmStep ==
  ASSUME Types, NEW t \in Timers, NEW time \in 0..MaxAge, Arm(t, time),
         t \notin todo, UNCHANGED <<sinceUpdate, elapse, todo>>
  PROVE  /\ delay' \in [Timers -> Int]
         /\ asked' \in [Timers -> 0..MaxAge]
         /\ age' \in [Timers -> 0..MaxAge]
         /\ credit' \in [Timers -> 0..MaxAge]
         /\ delay'[t] = time
         /\ Owed(t)' <= age'[t] + credit'[t]
         /\ \A u \in Timers \ {t} : /\ delay'[u] = delay[u]
                                    /\ Owed(u)' = Owed(u)
                                    /\ age'[u] = age[u]
                                    /\ credit'[u] = credit[u]
<1>1. /\ delay' = [delay EXCEPT ![t] = time]
      /\ asked' = [asked EXCEPT ![t] = time]
      /\ age' = [age EXCEPT ![t] = 0]
      /\ credit' = [credit EXCEPT ![t] = sinceUpdate]
  BY DEF Arm
<1>2. 0 \in 0..MaxAge /\ sinceUpdate \in 0..MaxAge /\ time \in Int
  BY ClockParameters DEF Types
<1>3. /\ delay' \in [Timers -> Int]
      /\ asked' \in [Timers -> 0..MaxAge]
      /\ age' \in [Timers -> 0..MaxAge]
      /\ credit' \in [Timers -> 0..MaxAge]
  BY <1>1, <1>2 DEF Types
<1>4. delay'[t] = time /\ asked'[t] = time /\ age'[t] = 0 /\ credit'[t] = sinceUpdate
  BY <1>1 DEF Types
<1>5. Owed(t)' <= age'[t] + credit'[t]
  BY <1>2, <1>4 DEF Owed
<1>6. ASSUME NEW u \in Timers \ {t}
      PROVE  /\ delay'[u] = delay[u] /\ asked'[u] = asked[u]
             /\ age'[u] = age[u] /\ credit'[u] = credit[u]
  BY <1>1 DEF Types
<1>7. \A u \in Timers \ {t} : Owed(u)' = Owed(u)
  BY <1>6 DEF Owed
<1> QED BY <1>3, <1>4, <1>5, <1>6, <1>7

LEMMA IInvStep == IInv /\ [Next]_vars => IInv'
<1> SUFFICES ASSUME Types, Charging, Charged, [Next]_vars PROVE IInv'
  BY DEF IInv
<1>1. ASSUME NEW t \in Timers, Create(t) PROVE IInv'
  <2>1. /\ phase[t] = "none"
        /\ phase' = [phase EXCEPT ![t] = "sent"]
        /\ UNCHANGED <<pc, waited, elapse, todo, current, spent, sinceUpdate, posted, sinceSend>>
        /\ t \notin todo /\ t \notin current
    BY <1>1 DEF Create, loop, posts, Charging
  <2>2. PICK time \in 0..MaxAge : Arm(t, time)
    BY <1>1, AskType, ClockParameters DEF Create
  <2>3. /\ delay' \in [Timers -> Int]
        /\ asked' \in [Timers -> 0..MaxAge]
        /\ age' \in [Timers -> 0..MaxAge]
        /\ credit' \in [Timers -> 0..MaxAge]
        /\ delay'[t] = time
        /\ Owed(t)' <= age'[t] + credit'[t]
        /\ \A u \in Timers \ {t} : /\ delay'[u] = delay[u]
                                   /\ Owed(u)' = Owed(u)
                                   /\ age'[u] = age[u]
                                   /\ credit'[u] = credit[u]
    BY <2>1, <2>2, ArmStep
  <2>4. /\ phase' \in [Timers -> {"none", "sent", "waiting"}]
        /\ phase'[t] = "sent"
        /\ \A u \in Timers \ {t} : phase'[u] = phase[u]
    BY <2>1 DEF Types
  <2>5. Types'
    BY <2>1, <2>3, <2>4 DEF Types
  <2>6. Charging'
    BY <2>1, <2>4 DEF Charging, Types
  <2>7. Charged'
    BY <2>1, <2>3, <2>4 DEF Charged
  <2> QED BY <2>5, <2>6, <2>7 DEF IInv
<1>2. ASSUME NEW t \in Timers, ReceiveTimer(t) PROVE IInv'
  <2>1. /\ phase[t] = "sent" /\ pc = "select"
        /\ phase' \in [Timers -> {"none", "sent", "waiting"}]
        /\ phase'[t] = "waiting"
        /\ \A u \in Timers \ {t} : phase'[u] = phase[u]
        /\ waited' = 0
        /\ UNCHANGED <<pc, elapse, todo, current, spent, sinceUpdate, posted, sinceSend,
                       delay, asked, age, credit>>
    BY <1>2 DEF ReceiveTimer, Types, posts, armed
  <2>2. Types'
    BY <2>1, ClockParameters DEF Types
  <2>3. Charging'
    BY <2>1 DEF Charging, Types
  <2>4. Charged'
    BY <2>1 DEF Charged, Owed
  <2> QED BY <2>2, <2>3, <2>4 DEF IInv
<1>3. ASSUME NEW t \in Timers, UpdateWait(t) PROVE IInv'
  <2>1. /\ t \in todo /\ t \notin current /\ todo' = todo \ {t}
        /\ delay[t] - elapse > 0
        /\ delay' = [delay EXCEPT ![t] = @ - elapse]
        /\ UNCHANGED <<pc, waited, elapse, current, spent, sinceUpdate, posted, sinceSend,
                       phase, asked, age, credit>>
    BY <1>3 DEF UpdateWait, Left, posts, armed, Charging
  <2>2. /\ delay' \in [Timers -> Int]
        /\ delay'[t] = delay[t] - elapse
        /\ \A u \in Timers \ {t} : delay'[u] = delay[u]
    BY <2>1 DEF Types
  <2>3. Types'
    BY <2>1, <2>2 DEF Types
  <2>4. Charging'
    BY <2>1 DEF Charging
  <2>5. Owed(t)' = Owed(t)
    BY <2>1, <2>2 DEF Owed, Types
  <2>6. \A u \in Timers \ {t} : Owed(u)' = Owed(u)
    BY <2>1, <2>2 DEF Owed
  <2>7. Charged'
    BY <2>1, <2>5, <2>6 DEF Charged
  <2> QED BY <2>3, <2>4, <2>7 DEF IInv
<1>4. ASSUME NEW t \in Timers, UpdateCall(t) PROVE IInv'
  <2>1. /\ pc = "drain" /\ current = {} /\ pc' = "callback" /\ current' = {t} /\ spent' = 0
        /\ t \in todo /\ todo' = todo \ {t}
        /\ delay' = [delay EXCEPT ![t] = @ - elapse]
        /\ UNCHANGED <<waited, elapse, sinceUpdate, posted, sinceSend,
                       phase, asked, age, credit>>
    BY <1>4 DEF UpdateCall, posts, armed, Charging
  <2>2. /\ delay' \in [Timers -> Int]
        /\ \A u \in Timers \ {t} : delay'[u] = delay[u]
    BY <2>1 DEF Types
  <2>3. Types'
    BY <2>1, <2>2, ClockParameters DEF Types
  <2>4. Charging'
    BY <2>1 DEF Charging
  <2>5. \A u \in Timers \ {t} : Owed(u)' = Owed(u)
    BY <2>1, <2>2 DEF Owed
  <2>6. Charged'
    BY <2>1, <2>5 DEF Charged
  <2> QED BY <2>3, <2>4, <2>6 DEF IInv
<1>5. ASSUME NEW t \in Timers, Return(t) PROVE IInv'
  <2>1. /\ pc = "callback" /\ current = {t} /\ t \notin todo /\ phase[t] = "waiting"
        /\ current' = {} /\ pc' = "drain"
        /\ UNCHANGED <<waited, elapse, todo, spent, sinceUpdate, posted, sinceSend>>
    BY <1>5 DEF Return, posts, Charging
  <2>2. CASE Again(t) /\ UNCHANGED phase
    <3>1. Arm(t, Ask[t]) /\ Ask[t] \in 0..MaxAge
      BY <2>2, AskType DEF Again
    <3>2. /\ delay' \in [Timers -> Int]
          /\ asked' \in [Timers -> 0..MaxAge]
          /\ age' \in [Timers -> 0..MaxAge]
          /\ credit' \in [Timers -> 0..MaxAge]
          /\ delay'[t] = Ask[t]
          /\ Owed(t)' <= age'[t] + credit'[t]
          /\ \A u \in Timers \ {t} : /\ delay'[u] = delay[u]
                                     /\ Owed(u)' = Owed(u)
                                     /\ age'[u] = age[u]
                                     /\ credit'[u] = credit[u]
      BY <2>1, <3>1, ArmStep
    <3>3. Types'
      BY <2>1, <2>2, <3>1, <3>2 DEF Types
    <3>4. Charging'
      BY <2>1, <2>2 DEF Charging
    <3>5. Charged'
      BY <2>1, <2>2, <3>2 DEF Charged
    <3> QED BY <3>3, <3>4, <3>5 DEF IInv
  <2>3. CASE /\ phase' = [phase EXCEPT ![t] = "none"]
             /\ delay' = [delay EXCEPT ![t] = 0]
             /\ UNCHANGED armed
    <3>1. /\ phase' \in [Timers -> {"none", "sent", "waiting"}]
          /\ delay' \in [Timers -> Int]
          /\ phase'[t] = "none" /\ delay'[t] = 0
          /\ \A u \in Timers \ {t} : phase'[u] = phase[u] /\ delay'[u] = delay[u]
          /\ UNCHANGED <<asked, age, credit>>
      BY <2>3 DEF Types, armed
    <3>2. Types'
      BY <2>1, <3>1 DEF Types
    <3>3. Charging'
      BY <2>1, <3>1 DEF Charging, Types
    <3>4. \A u \in Timers \ {t} : Owed(u)' = Owed(u)
      BY <2>1, <3>1 DEF Owed
    <3>5. Charged'
      BY <2>1, <3>1, <3>4 DEF Charged
    <3> QED BY <3>2, <3>3, <3>5 DEF IInv
  <2> QED BY <1>5, <2>2, <2>3 DEF Return
<1>6. CASE Post \/ ReceivePost \/ UNCHANGED vars
  <2>1. /\ UNCHANGED <<pc, elapse, todo, current, spent, sinceUpdate, phase,
                       delay, asked, age, credit>>
        /\ waited' \in {0, waited} /\ posted' \in BOOLEAN /\ sinceSend' \in {0, sinceSend}
    BY <1>6 DEF Post, ReceivePost, vars, loop, posts, timers, armed, Types
  <2>2. Types'
    BY <2>1, ClockParameters DEF Types
  <2>3. Charging' /\ Charged'
    BY <2>1 DEF Charging, Charged, Owed
  <2> QED BY <2>2, <2>3 DEF IInv
<1>7. CASE Wait \/ CallbackTime
  <2>1. /\ UNCHANGED <<pc, elapse, todo, current, posted, phase, delay, asked, credit>>
        /\ Pass
        /\ waited' \in 0..TickUnits /\ spent' \in 0..MaxCall
    BY <1>7, ClockParameters DEF Wait, CallbackTime, Types
  <2>2. /\ sinceUpdate' \in 0..MaxAge
        /\ sinceSend' \in 0..Gap
        /\ age' \in [Timers -> 0..MaxAge]
        /\ Charged'
    BY <2>1, PassStep
  <2>3. Types'
    BY <2>1, <2>2 DEF Types
  <2>4. Charging'
    BY <2>1 DEF Charging
  <2> QED BY <2>2, <2>3, <2>4 DEF IInv
<1>8. CASE Tick
  <2>1. /\ pc = "select" /\ current = {} /\ pc' = "drain" /\ elapse' = sinceUpdate /\ sinceUpdate' = 0
        /\ todo' = {t \in Timers : phase[t] = "waiting"}
        /\ UNCHANGED <<waited, current, spent, posted, sinceSend, phase, delay,
                       asked, age, credit>>
    BY <1>8 DEF Tick, posts, timers, armed, Charging
  <2>2. Types'
    BY <2>1, ClockParameters DEF Types
  <2>3. Charging'
    BY <2>1 DEF Charging
  <2>4. ASSUME NEW t \in Timers PROVE Owed(t)' <= Owed(t)
    BY <2>1 DEF Owed, Types
  <2>5. \A t \in Timers : Owed(t) \in Int /\ Owed(t)' \in Int /\ age[t] + credit[t] \in Int
    BY <2>1, ClockParameters DEF Owed, Types
  <2>6. Charged'
    BY <2>1, <2>4, <2>5 DEF Charged
  <2> QED BY <2>2, <2>3, <2>6 DEF IInv
<1>9. CASE Swap
  <2>1. /\ pc = "drain" /\ todo = {} /\ pc' = "select" /\ waited' = 0
        /\ UNCHANGED <<elapse, todo, current, spent, sinceUpdate, posted, sinceSend,
                       phase, delay, asked, age, credit>>
    BY <1>9 DEF Swap, posts, timers, armed
  <2>2. Types'
    BY <2>1, ClockParameters DEF Types
  <2>3. Charging' /\ Charged'
    BY <2>1 DEF Charging, Charged, Owed
  <2> QED BY <2>2, <2>3 DEF IInv
<1> QED BY <1>1, <1>2, <1>3, <1>4, <1>5, <1>6, <1>7, <1>8, <1>9 DEF Next

\* No tick charges a timer for more time than it could have passed with it:
\* what Update takes off Delay is time since the timer was armed, or since
\* the tick before.
THEOREM ChargedOnce == Spec => []IInv
<1>1. IInv /\ [Next]_vars => IInv'
  BY IInvStep
<1> QED BY InitIInv, <1>1, PTL DEF Spec

\* The clocks, the queue of a tick and the one running callback keep their
\* types, and no timer waits with less than nothing left of its Delay.
THEOREM TypeCorrect == Spec => []TypeOK
<1>1. IInv => TypeOK
  <2> SUFFICES ASSUME Types, Charging PROVE TypeOK
    BY DEF IInv
  <2>1. Cardinality(current) = (IF pc = "callback" THEN 1 ELSE 0)
    <3>1. Cardinality({}) = 0 /\ \A t \in Timers : Cardinality({t}) = 1
      BY FS_EmptySet, FS_Singleton
    <3> QED BY <3>1 DEF Charging
  <2>2. \A t \in Timers : {asked[t], age[t], credit[t]} \subseteq 0..MaxAge
    BY DEF Types
  <2> QED BY <2>1, <2>2 DEF Types, TypeOK
<1> QED BY <1>1, ChargedOnce, PTL

\* A callback begins early by at most the time that had passed, when its
\* timer was armed, since the last tick began.
THEOREM EarlyByLessThanOneTick == Spec => EarlyByOneTick
<1>1. ASSUME IInv, [Next]_vars, NEW t \in Timers, Calls(t)
      PROVE  age[t] + credit[t] >= asked[t]
  <2>1. UpdateCall(t)
    <3>1. t \in current' /\ t \notin current
      BY <1>1 DEF Calls
    <3>2. ~UNCHANGED current /\ current' # {}
      BY <3>1
    <3>3. PICK u \in Timers : UpdateCall(u)
      BY <1>1, <3>2 DEF Next, Create, ReceiveTimer, UpdateWait, Return, Post, ReceivePost, Wait,
         Tick, CallbackTime, Swap, vars, loop
    <3>4. u = t
      BY <3>1, <3>3 DEF UpdateCall
    <3> QED BY <3>3, <3>4
  <2>2. t \in todo /\ t \notin current /\ phase[t] # "none" /\ delay[t] - elapse <= 0
    BY <1>1, <2>1 DEF UpdateCall, Left, IInv, Charging
  <2>3. age[t] = MaxAge \/ asked[t] - delay[t] + sinceUpdate + elapse <= age[t] + credit[t]
    BY <1>1, <2>2 DEF IInv, Charged, Owed
  <2>4. /\ asked[t] \in 0..MaxAge /\ age[t] \in 0..MaxAge /\ credit[t] \in 0..MaxAge
        /\ delay[t] \in Int /\ sinceUpdate \in 0..MaxAge /\ elapse \in 0..MaxAge
    BY <1>1 DEF IInv, Types
  <2> QED BY <2>2, <2>3, <2>4, ClockParameters
<1>2. IInv /\ [Next]_vars => [\A t \in Timers : Calls(t) => age[t] + credit[t] >= asked[t]]_vars
  BY <1>1
<1> QED BY <1>2, ChargedOnce, PTL DEF Spec, EarlyByOneTick

-----------------------------------------------------------------------------
(* No timer is late by more than one round. This holds when Timers is a    *)
(* finite set and posts are further apart than a tick: without the second, *)
(* the run TimerClockFlood shows a timer that never fires.                 *)

Others(t) == Timers \ {t}
Live == {t \in Timers \ current : phase[t] # "none"}

\* The callbacks of the timers in S, and what their events and the posts
\* before them make the select wait.
Cost(S) == Cardinality(S) * MaxCall
Receipts(S) == Cardinality(S) * (2 * TickUnits)

LEMMA CostOf ==
  ASSUME NEW T, IsFiniteSet(T), NEW S \in SUBSET T
  PROVE  /\ IsFiniteSet(S)
         /\ Cost(S) \in Nat /\ Cost(S) <= Cost(T)
         /\ Receipts(S) \in Nat /\ Receipts(S) <= Receipts(T)
         /\ \A u \in T \ S : /\ Cost(S \cup {u}) = Cost(S) + MaxCall
                             /\ Receipts(S \cup {u}) = Receipts(S) + 2 * TickUnits
<1>1. /\ IsFiniteSet(S) /\ Cardinality(S) \in Nat /\ Cardinality(T) \in Nat
      /\ Cardinality(S) <= Cardinality(T)
  BY FS_Subset, FS_CardinalityType
<1>2. \A u \in T \ S : Cardinality(S \cup {u}) = Cardinality(S) + 1
  BY <1>1, FS_AddElement
<1>3. ASSUME NEW a \in Nat, NEW b \in Nat, NEW c \in Nat, a <= b
      PROVE  a * c \in Nat /\ a * c <= b * c /\ (a + 1) * c = a * c + c
  <2>1. PICK d \in Nat : b = a + d
    BY <1>3
  <2>2. b * c = a * c + d * c /\ d * c \in Nat /\ a * c \in Nat
    BY <2>1
  <2> QED BY <2>2
<1>4. MaxCall \in Nat /\ 2 * TickUnits \in Nat
  BY ClockParameters
<1>5. /\ Cost(S) \in Nat /\ Cost(S) <= Cost(T)
      /\ Receipts(S) \in Nat /\ Receipts(S) <= Receipts(T)
  BY <1>1, <1>3, <1>4 DEF Cost, Receipts
<1>6. ASSUME NEW u \in T \ S
      PROVE  /\ Cost(S \cup {u}) = Cost(S) + MaxCall
             /\ Receipts(S \cup {u}) = Receipts(S) + 2 * TickUnits
  <2>1. Cardinality(S \cup {u}) = Cardinality(S) + 1
    BY <1>2
  <2>2. (Cardinality(S) + 1) * MaxCall = Cardinality(S) * MaxCall + MaxCall
    BY <1>1, <1>3, <1>4
  <2>3. (Cardinality(S) + 1) * (2 * TickUnits) = Cardinality(S) * (2 * TickUnits) + 2 * TickUnits
    BY <1>1, <1>3, <1>4
  <2> QED BY <2>1, <2>2, <2>3 DEF Cost, Receipts
<1> QED BY <1>1, <1>5, <1>6

\* The time of a timer that no tick has charged to it yet.
Lag(t) == age[t] - (asked[t] - delay[t])

\* What the present callback has taken, and what the present tick charges.
InCall == IF pc = "callback" THEN spent ELSE 0
Charge(t) == IF t \in todo THEN elapse ELSE 0

\* A post can come before the select has waited for 66 ms.
Slack == IF ~posted /\ sinceSend + (TickUnits - waited) < Gap THEN 0 ELSE TickUnits

\* The time that is not charged yet is time since the last tick began, or
\* what the present tick is about to charge.
Chargeable(t) == Lag(t) <= sinceUpdate + Charge(t) /\ delay[t] <= asked[t]

\* In a tick: the last one's callbacks and the select, for a timer that has yet
\* to be updated, and this one's callbacks.
InTick(t) ==
  Lag(t) <= (IF t \in todo THEN Receipts(Timers) + Cost(Others(t)) ELSE 0)
              + Cost(Others(t) \ (todo \cup current)) + InCall

\* In the select: it still waits for what has not come yet.
Unreceived(t) == {u \in Others(t) : phase[u] # "waiting"}
InSelect(t) ==
  Lag(t) + (TickUnits - waited) + Receipts(Unreceived(t)) + Slack
    <= Receipts(Timers) + Cost(Others(t))

\* The select does not wait while the channel holds anything.
Prompt == /\ \A t \in Timers : phase[t] = "sent" =>
               /\ delay[t] = asked[t]
               /\ pc = "select" /\ waited > 0 => age[t] = 0
          /\ pc = "select" /\ posted /\ waited > 0 => sinceSend = 0

TickTime == sinceUpdate <= Cost(Timers \ (todo \cup current)) + InCall

OnTime == /\ \A t \in Live : Chargeable(t)
          /\ Prompt
          /\ pc # "select" => TickTime /\ \A t \in Live : InTick(t)
          /\ pc = "select" => \A t \in Live : InSelect(t)

LEMMA LagType ==
  Types => \A t \in Timers : /\ Lag(t) \in Int /\ age[t] \in Int
                             /\ asked[t] \in Int /\ delay[t] \in Int
BY ClockParameters DEF Types, Lag

LEMMA ClockTypes ==
  ASSUME Types
  PROVE  /\ TickUnits \in Nat \ {0} /\ MaxCall \in Nat /\ Gap \in Nat /\ MaxAge \in Nat
         /\ waited \in Nat /\ waited <= TickUnits /\ sinceSend \in Nat /\ sinceSend <= Gap
         /\ sinceUpdate \in Nat /\ sinceUpdate <= MaxAge /\ elapse \in Nat
         /\ spent \in Nat /\ spent <= MaxCall /\ InCall \in Nat
         /\ Slack \in {0, TickUnits}
BY ClockParameters DEF Types, InCall, Slack

\* The costs of the other timers, without those in A, and of those in U that
\* the select has not received.
LEMMA Bounds ==
  ASSUME IsFiniteSet(Timers), NEW t \in Timers, NEW A, NEW U \in SUBSET Others(t)
  PROVE  /\ Receipts(Timers) \in Nat /\ Cost(Others(t)) \in Nat
         /\ Cost(Others(t) \ A) \in Nat
         /\ Cost(Others(t) \ A) <= Cost(Others(t))
         /\ Receipts(U) \in Nat
         /\ Receipts(U) + 2 * TickUnits <= Receipts(Timers)
<1>1. Others(t) \in SUBSET Timers /\ t \in Timers \ Others(t) /\ Others(t) \cup {t} = Timers
  BY DEF Others
<1>2. /\ IsFiniteSet(Others(t)) /\ Cost(Others(t)) \in Nat
      /\ Receipts(Others(t)) \in Nat
      /\ Receipts(Others(t) \cup {t}) = Receipts(Others(t)) + 2 * TickUnits
  BY <1>1, CostOf
<1>3. Receipts(Timers) = Receipts(Others(t)) + 2 * TickUnits
  BY <1>1, <1>2
<1>4. PICK S \in SUBSET Others(t) : S = Others(t) \ A
  OBVIOUS
<1>5. Cost(S) \in Nat /\ Cost(S) <= Cost(Others(t))
  BY <1>2, CostOf
<1>6. Receipts(U) \in Nat /\ Receipts(U) <= Receipts(Others(t))
  BY <1>2, CostOf
<1> QED BY <1>2, <1>3, <1>4, <1>5, <1>6, ClockParameters

\* A timer with nothing to charge is on time wherever process() is now.
LEMMA Fresh ==
  ASSUME IsFiniteSet(Timers), Types', NEW t \in Timers, Lag(t)' \in Int, Lag(t)' <= 0
  PROVE  InTick(t)' /\ InSelect(t)' /\ Lag(t)' <= sinceUpdate' + Charge(t)'
<1>1. /\ TickUnits \in Nat /\ Slack' \in {0, TickUnits}
      /\ waited' \in Nat /\ waited' <= TickUnits
      /\ InCall' \in Nat /\ sinceUpdate' \in Nat /\ Charge(t)' \in Nat
  BY ClockParameters DEF Types, Slack, InCall, Charge
<1>2. /\ Receipts(Timers) \in Nat /\ Cost(Others(t)) \in Nat
      /\ Cost(Others(t) \ (todo' \cup current')) \in Nat
  BY Bounds
<1>3. PICK U \in SUBSET Others(t) : U = Unreceived(t)'
  BY DEF Unreceived
<1>4. Receipts(U) \in Nat /\ Receipts(U) + 2 * TickUnits <= Receipts(Timers)
  BY Bounds
<1>5. InTick(t)'
  BY <1>1, <1>2 DEF InTick
<1>6. Lag(t)' + (TickUnits - waited') + Receipts(U) + Slack' <= Receipts(Timers) + Cost(Others(t))
  BY <1>1, <1>2, <1>4
<1>7. InSelect(t)'
  BY <1>3, <1>6 DEF InSelect
<1> QED BY <1>1, <1>5, <1>7

\* A unit of time is charged to the timers as it passes.
LEMMA PassCharges ==
  ASSUME Types, Pass, \A t \in Live : Chargeable(t),
         UNCHANGED <<elapse, todo, current, phase, delay, asked, credit>>
  PROVE  /\ Live' = Live
         /\ \A t \in Live : Chargeable(t)' /\ Lag(t)' <= Lag(t) + 1
         /\ sinceUpdate' <= sinceUpdate + 1
         /\ sinceSend' = IF sinceSend < Gap THEN sinceSend + 1 ELSE sinceSend
<1>1. Live' = Live
  BY DEF Live
<1>2. sinceUpdate' \in Nat /\ sinceUpdate' <= sinceUpdate + 1
      /\ (sinceUpdate' = MaxAge \/ sinceUpdate' = sinceUpdate + 1)
  BY UpType DEF Types, Pass
<1>3. ASSUME NEW t \in Live
      PROVE  Chargeable(t)' /\ Lag(t)' <= Lag(t) + 1
  <2>1. /\ t \in Timers /\ phase[t] # "none" /\ age[t] \in 0..MaxAge
        /\ asked[t] \in Int /\ delay[t] \in Int
    BY LagType DEF Live, Types
  <2>2. age'[t] = Up(age[t]) /\ Up(age[t]) \in 0..MaxAge /\ Up(age[t]) <= age[t] + 1
    BY <2>1, UpType DEF Pass
  <2>3. asked'[t] = asked[t] /\ delay'[t] = delay[t] /\ Charge(t)' = Charge(t)
    BY DEF Charge
  <2>4. Charge(t) \in Nat
    BY ClockTypes DEF Charge
  <2>5. age[t] - (asked[t] - delay[t]) <= sinceUpdate + Charge(t) /\ delay[t] <= asked[t]
    BY <1>3 DEF Chargeable, Lag
  <2>6. age'[t] - (asked'[t] - delay'[t]) <= sinceUpdate' + Charge(t)'
    BY <1>2, <2>1, <2>2, <2>3, <2>4, <2>5, ClockTypes
  <2> QED BY <2>1, <2>2, <2>3, <2>5, <2>6 DEF Chargeable, Lag
<1> QED BY <1>1, <1>2, <1>3 DEF Pass

LEMMA CreateOnTime ==
  ASSUME IsFiniteSet(Timers), Types, Types', Charging, OnTime,
         NEW t \in Timers, Create(t)
  PROVE  OnTime'
<1>1. /\ phase[t] = "none" /\ phase' = [phase EXCEPT ![t] = "sent"]
      /\ UNCHANGED <<pc, waited, elapse, todo, current, spent, sinceUpdate, posted, sinceSend>>
      /\ t \notin todo /\ t \notin current
  BY DEF Create, loop, posts, Charging
<1>2. PICK time \in 0..MaxAge : Arm(t, time)
  BY AskType, ClockParameters DEF Create
<1>3. /\ delay'[t] = time /\ asked'[t] = time /\ age'[t] = 0
      /\ \A u \in Timers \ {t} : /\ delay'[u] = delay[u] /\ asked'[u] = asked[u]
                                 /\ age'[u] = age[u]
  BY <1>2 DEF Arm, Types
<1>4. phase'[t] = "sent" /\ \A u \in Timers \ {t} : phase'[u] = phase[u]
  BY <1>1 DEF Types
<1>5. Live' = Live \cup {t} /\ t \notin Live
  BY <1>1, <1>4 DEF Live
<1>6. Lag(t)' = 0 /\ delay'[t] <= asked'[t]
  BY <1>3 DEF Lag
<1>7. InTick(t)' /\ InSelect(t)' /\ Chargeable(t)'
  <2>1. Lag(t)' \in Int /\ Lag(t)' <= 0
    BY <1>6
  <2>2. InTick(t)' /\ InSelect(t)' /\ Lag(t)' <= sinceUpdate' + Charge(t)'
    BY <2>1, Fresh
  <2> QED BY <1>6, <2>2 DEF Chargeable
<1>8. ASSUME NEW u \in Live
      PROVE  /\ u \in Timers \ {t} /\ Lag(u)' = Lag(u) /\ Charge(u)' = Charge(u)
             /\ delay'[u] = delay[u] /\ asked'[u] = asked[u]
             /\ Unreceived(u)' = Unreceived(u)
  <2>1. u \in Timers \ {t}
    BY <1>1, <1>8 DEF Live
  <2>2. Lag(u)' = Lag(u) /\ Charge(u)' = Charge(u)
    BY <1>1, <1>3, <2>1 DEF Lag, Charge
  <2>3. Unreceived(u)' = Unreceived(u)
    BY <1>1, <1>4 DEF Unreceived, Others
  <2> QED BY <1>3, <2>1, <2>2, <2>3
<1>9. InCall' = InCall /\ Slack' = Slack
  BY <1>1 DEF InCall, Slack
<1>10. \A u \in Live : Chargeable(u)'
  BY <1>1, <1>8 DEF Chargeable, OnTime
<1>11. Prompt'
  BY <1>1, <1>3, <1>4, <1>6 DEF OnTime, Prompt
<1>12. pc' # "select" => TickTime' /\ \A u \in Live : InTick(u)'
  BY <1>1, <1>8, <1>9 DEF OnTime, TickTime, InTick
<1>13. pc' = "select" => \A u \in Live : InSelect(u)'
  BY <1>1, <1>8, <1>9 DEF OnTime, InSelect
<1> QED BY <1>5, <1>7, <1>10, <1>11, <1>12, <1>13 DEF OnTime

LEMMA ReceiveTimerOnTime ==
  ASSUME IsFiniteSet(Timers), Types, Types', Charging, OnTime,
         NEW t \in Timers, ReceiveTimer(t)
  PROVE  OnTime'
<1>1. /\ phase[t] = "sent" /\ pc = "select" /\ waited' = 0
      /\ phase'[t] = "waiting"
      /\ \A u \in Timers \ {t} : phase'[u] = phase[u]
      /\ UNCHANGED <<pc, elapse, todo, current, spent, sinceUpdate, posted, sinceSend,
                     delay, asked, age, credit>>
  BY DEF ReceiveTimer, Types, posts, armed
<1>2. t \notin todo /\ t \notin current /\ Live' = Live /\ t \in Live
  BY <1>1 DEF Live, Charging
<1>3. \A u \in Live : Lag(u)' = Lag(u) /\ Charge(u)' = Charge(u)
  BY <1>1 DEF Lag, Charge
<1>4. \A u \in Live : Chargeable(u)'
  BY <1>1, <1>2, <1>3 DEF Chargeable, OnTime
<1>5. Prompt'
  BY <1>1 DEF OnTime, Prompt, Types
<1>6. ASSUME NEW u \in Live \ {t} PROVE InSelect(u)'
  <2>1. u \in Timers /\ t \in Others(u)
    BY <1>6 DEF Live, Others
  <2>2. PICK U \in SUBSET Others(u) : U = Unreceived(u)'
    BY DEF Unreceived
  <2>3. t \notin U /\ U \cup {t} = Unreceived(u)
    BY <1>1, <2>1, <2>2 DEF Unreceived, Others
  <2>4. Receipts(Unreceived(u)) = Receipts(U) + 2 * TickUnits
    <3>1. IsFiniteSet(Others(u))
      BY FS_Subset DEF Others
    <3>2. Receipts(U \cup {t}) = Receipts(U) + 2 * TickUnits
      BY <2>1, <2>3, <3>1, CostOf
    <3> QED BY <2>3, <3>2
  <2>5. /\ Receipts(Timers) \in Nat /\ Cost(Others(u)) \in Nat /\ Receipts(U) \in Nat
    BY <2>1, Bounds
  <2>6. /\ TickUnits \in Nat /\ Slack' \in {0, TickUnits} /\ Slack \in {0, TickUnits}
        /\ waited \in Nat /\ waited <= TickUnits /\ waited' = 0 /\ Lag(u) \in Int
    BY <1>1, <2>1, ClockTypes, LagType DEF Slack
  <2>7. Lag(u) + (TickUnits - waited) + Receipts(Unreceived(u)) + Slack
          <= Receipts(Timers) + Cost(Others(u))
    BY <1>1, <1>6 DEF OnTime, InSelect
  <2>8. Lag(u) + (TickUnits - 0) + Receipts(U) + Slack' <= Receipts(Timers) + Cost(Others(u))
    BY <2>4, <2>5, <2>6, <2>7
  <2> QED BY <1>1, <1>3, <1>6, <2>2, <2>8 DEF InSelect
<1>7. InSelect(t)'
  <2>1. CASE waited = 0
    <3>1. Unreceived(t)' = Unreceived(t) /\ Slack' = Slack
      BY <1>1, <2>1 DEF Unreceived, Others, Slack
    <3> QED BY <1>1, <1>2, <1>3, <2>1, <3>1 DEF OnTime, InSelect
  <2>2. CASE waited # 0
    <3>1. Lag(t) = 0
      BY <1>1, <2>2, ClockTypes, LagType DEF OnTime, Prompt, Lag
    <3> QED BY <1>2, <1>3, <3>1, Fresh
  <2> QED BY <2>1, <2>2
<1> QED BY <1>1, <1>2, <1>4, <1>5, <1>6, <1>7 DEF OnTime

LEMMA UpdateWaitOnTime ==
  ASSUME IsFiniteSet(Timers), Types, Types', Charging, OnTime,
         NEW t \in Timers, UpdateWait(t)
  PROVE  OnTime'
<1>1. /\ pc = "drain" /\ t \in todo /\ current = {} /\ todo' = todo \ {t}
      /\ delay'[t] = delay[t] - elapse
      /\ \A u \in Timers \ {t} : delay'[u] = delay[u]
      /\ UNCHANGED <<pc, waited, elapse, current, spent, sinceUpdate, posted, sinceSend,
                     phase, asked, age, credit>>
  BY DEF UpdateWait, Types, posts, armed, Charging
<1>2. Live' = Live /\ t \in Live /\ phase[t] = "waiting"
  BY <1>1 DEF Live, Charging
<1>3. \A u \in Live \ {t} : Lag(u)' = Lag(u) /\ Charge(u)' = Charge(u)
  BY <1>1 DEF Lag, Charge, Live
<1>4. /\ Lag(t)' = Lag(t) - elapse /\ Charge(t) = elapse /\ Charge(t)' = 0
      /\ Lag(t) \in Int /\ elapse \in Nat /\ sinceUpdate \in Nat
  BY <1>1, LagType, ClockTypes DEF Lag, Charge
<1>5. Lag(t)' <= sinceUpdate
  BY <1>2, <1>4 DEF OnTime, Chargeable
<1>6. \A u \in Live : Chargeable(u)'
  <2>1. delay'[t] <= asked'[t]
    BY <1>1, <1>2, <1>4, LagType DEF OnTime, Chargeable
  <2>2. Chargeable(t)'
    BY <1>1, <1>4, <1>5, <2>1 DEF Chargeable
  <2>3. \A u \in Live \ {t} : Chargeable(u)'
    BY <1>1, <1>2, <1>3 DEF OnTime, Chargeable, Live
  <2> QED BY <2>2, <2>3
<1>7. Prompt'
  BY <1>1, <1>2 DEF OnTime, Prompt
<1>8. InCall' = InCall /\ InCall = 0 /\ todo' \cup current' = todo \ {t}
      /\ todo \cup current = todo
  BY <1>1 DEF InCall
<1>9. sinceUpdate <= Cost(Timers \ todo)
  BY <1>1, <1>8, CostOf, ClockTypes DEF OnTime, TickTime
<1>10. TickTime'
  <2>1. PICK B \in SUBSET Timers : B = Timers \ (todo \ {t})
    OBVIOUS
  <2>2. PICK A \in SUBSET B : A = Timers \ todo
    BY <2>1
  <2>3. IsFiniteSet(B) /\ Cost(B) \in Nat
    BY <2>1, CostOf
  <2>4. Cost(A) <= Cost(B) /\ Cost(A) \in Nat
    BY <2>2, <2>3, CostOf
  <2> QED BY <1>1, <1>4, <1>8, <1>9, <2>1, <2>2, <2>3, <2>4 DEF TickTime
<1>11. InTick(t)'
  <2>1. Others(t) \ (todo' \cup current') = Timers \ todo
    BY <1>1 DEF Others
  <2>2. Cost(Timers \ todo) \in Nat
    BY CostOf
  <2>3. Lag(t)' <= Cost(Timers \ todo) /\ InCall' = 0 /\ t \notin todo'
    <3>1. Lag(t)' \in Int /\ Lag(t)' <= sinceUpdate /\ sinceUpdate \in Nat
      BY <1>4, <1>5
    <3> QED BY <1>1, <1>8, <1>9, <2>2, <3>1
  <2>4. InTick(t)' <=> Lag(t)' <= 0 + Cost(Timers \ todo) + 0
    BY <1>8, <2>1, <2>3 DEF InTick
  <2> QED BY <2>2, <2>3, <2>4
<1>12. ASSUME NEW u \in Live \ {t} PROVE InTick(u)'
  <2>1. PICK B \in SUBSET Others(u) : B = Others(u) \ (todo' \cup current')
    OBVIOUS
  <2>2. PICK A \in SUBSET B : A = Others(u) \ (todo \cup current)
    BY <1>8, <2>1
  <2>3. IsFiniteSet(Others(u))
    BY FS_Subset DEF Others
  <2>4. IsFiniteSet(B) /\ Cost(B) \in Nat
    BY <2>1, <2>3, CostOf
  <2>5. Cost(A) <= Cost(B) /\ Cost(A) \in Nat
    BY <2>2, <2>4, CostOf
  <2>6. InTick(u) /\ u \in Timers
    BY <1>1, <1>12 DEF OnTime, Live
  <2>7. Receipts(Timers) \in Nat /\ Cost(Others(u)) \in Nat /\ Lag(u) \in Int
    BY <2>6, Bounds, LagType
  <2>8. u \in todo' <=> u \in todo
    BY <1>1, <1>12
  <2> DEFINE K == IF u \in todo THEN Receipts(Timers) + Cost(Others(u)) ELSE 0
  <2>9. K \in Nat /\ Lag(u) <= K + Cost(A) + 0
    BY <1>8, <2>2, <2>6, <2>7 DEF InTick
  <2>10. Lag(u) <= K + Cost(B) + 0
    <3> HIDE DEF K
    <3> QED BY <2>4, <2>5, <2>7, <2>9
  <2> QED BY <1>3, <1>8, <1>12, <2>1, <2>8, <2>10 DEF InTick
<1> QED BY <1>1, <1>2, <1>6, <1>7, <1>10, <1>11, <1>12 DEF OnTime

LEMMA UpdateCallOnTime ==
  ASSUME IsFiniteSet(Timers), Types, Types', Charging, OnTime,
         NEW t \in Timers, UpdateCall(t)
  PROVE  OnTime'
<1>1. /\ pc = "drain" /\ t \in todo /\ current = {} /\ todo' = todo \ {t}
      /\ pc' = "callback" /\ current' = {t} /\ spent' = 0
      /\ \A u \in Timers \ {t} : delay'[u] = delay[u]
      /\ UNCHANGED <<waited, elapse, sinceUpdate, posted, sinceSend, phase, asked, age, credit>>
  BY DEF UpdateCall, Types, posts, armed, Charging
<1>2. Live' = Live \ {t} /\ phase[t] = "waiting"
  BY <1>1 DEF Live, Charging
<1>3. \A u \in Live \ {t} : /\ Lag(u)' = Lag(u) /\ Charge(u)' = Charge(u)
                            /\ delay'[u] = delay[u] /\ (u \in todo' <=> u \in todo)
  BY <1>1 DEF Lag, Charge, Live
<1>4. InCall' = InCall /\ todo' \cup current' = todo \cup current
  BY <1>1 DEF InCall
<1>5. \A u \in Live' : Chargeable(u)'
  BY <1>1, <1>2, <1>3 DEF OnTime, Chargeable
<1>6. Prompt'
  BY <1>1, <1>2 DEF OnTime, Prompt
<1>7. TickTime'
  BY <1>1, <1>4 DEF OnTime, TickTime
<1>8. ASSUME NEW u \in Live \ {t} PROVE InTick(u)'
  BY <1>1, <1>3, <1>4, <1>8 DEF OnTime, InTick
<1> QED BY <1>1, <1>2, <1>5, <1>6, <1>7, <1>8 DEF OnTime

\* The callback of u adds its time to what a timer has waited.
LEMMA CallCost ==
  ASSUME NEW T, IsFiniteSet(T), NEW A, NEW u \in T, u \in A, NEW s \in Nat, s <= MaxCall
  PROVE  /\ Cost(T \ A) \in Nat /\ Cost(T \ (A \ {u})) \in Nat
         /\ Cost(T \ A) + s <= Cost(T \ (A \ {u}))
<1>1. PICK S \in SUBSET T : S = T \ A
  OBVIOUS
<1>2. u \in T \ S /\ S \cup {u} = T \ (A \ {u})
  BY <1>1
<1>3. Cost(S) \in Nat /\ Cost(S \cup {u}) = Cost(S) + MaxCall
  BY <1>2, CostOf
<1> QED BY <1>1, <1>2, <1>3, ClockParameters

LEMMA ReturnOnTime ==
  ASSUME IsFiniteSet(Timers), Types, Types', Charging, OnTime,
         NEW t \in Timers, Return(t)
  PROVE  OnTime'
<1>1. /\ pc = "callback" /\ current = {t} /\ t \notin todo /\ phase[t] = "waiting"
      /\ current' = {} /\ pc' = "drain"
      /\ UNCHANGED <<waited, elapse, todo, spent, sinceUpdate, posted, sinceSend>>
  BY DEF Return, posts, Charging
<1>2. \/ /\ Lag(t)' = 0 /\ delay'[t] = asked'[t] /\ phase'[t] = "waiting"
      \/ phase'[t] = "none"
  <2>1. CASE Again(t) /\ UNCHANGED phase
    <3>1. delay'[t] = Ask[t] /\ asked'[t] = Ask[t] /\ age'[t] = 0
      BY <2>1 DEF Again, Arm, Types
    <3>2. Lag(t)' = 0
      BY <3>1, AskType DEF Lag
    <3> QED BY <1>1, <2>1, <3>1, <3>2
  <2>2. CASE phase' = [phase EXCEPT ![t] = "none"]
    BY <2>2 DEF Types
  <2> QED BY <2>1, <2>2 DEF Return
<1>3. \A u \in Timers \ {t} : /\ phase'[u] = phase[u] /\ delay'[u] = delay[u]
                              /\ asked'[u] = asked[u] /\ age'[u] = age[u]
  BY DEF Return, Again, Arm, Types, armed
<1>4. Live' \ {t} = Live
  BY <1>1, <1>3 DEF Live
<1>5. \A u \in Live : /\ u \in Timers \ {t} /\ Lag(u)' = Lag(u) /\ Charge(u)' = Charge(u)
                      /\ delay'[u] = delay[u] /\ asked'[u] = asked[u]
  BY <1>1, <1>3, <1>4 DEF Lag, Charge, Live
<1>6. /\ InCall = spent /\ InCall' = 0 /\ spent \in Nat /\ spent <= MaxCall
      /\ t \in todo \cup current /\ todo' \cup current' = (todo \cup current) \ {t}
  BY <1>1, ClockTypes DEF InCall
<1>7. TickTime'
  <2>1. sinceUpdate <= Cost(Timers \ (todo \cup current)) + spent /\ sinceUpdate \in Nat
    BY <1>1, <1>6, ClockTypes DEF OnTime, TickTime
  <2>2. /\ Cost(Timers \ (todo \cup current)) \in Nat
        /\ Cost(Timers \ ((todo \cup current) \ {t})) \in Nat
        /\ Cost(Timers \ (todo \cup current)) + spent <= Cost(Timers \ ((todo \cup current) \ {t}))
    BY <1>6, CallCost
  <2>3. sinceUpdate <= Cost(Timers \ ((todo \cup current) \ {t})) + 0
    BY <1>6, <2>1, <2>2
  <2> QED BY <1>1, <1>6, <2>3 DEF TickTime
<1>8. ASSUME NEW u \in Live PROVE InTick(u)'
  <2>1. u \in Timers /\ t \in Others(u) /\ IsFiniteSet(Others(u))
    BY <1>5, <1>8, FS_Subset DEF Others
  <2>2. /\ Cost(Others(u) \ (todo \cup current)) \in Nat
        /\ Cost(Others(u) \ ((todo \cup current) \ {t})) \in Nat
        /\ Cost(Others(u) \ (todo \cup current)) + spent
             <= Cost(Others(u) \ ((todo \cup current) \ {t}))
    BY <1>6, <2>1, CallCost
  <2>3. Receipts(Timers) \in Nat /\ Cost(Others(u)) \in Nat /\ Lag(u) \in Int
    BY <2>1, Bounds, LagType
  <2> DEFINE K == IF u \in todo THEN Receipts(Timers) + Cost(Others(u)) ELSE 0
  <2>4. K \in Nat /\ Lag(u) <= K + Cost(Others(u) \ (todo \cup current)) + spent
    BY <1>1, <1>6, <1>8, <2>3 DEF OnTime, InTick
  <2>5. Lag(u) <= K + Cost(Others(u) \ ((todo \cup current) \ {t})) + 0
    <3> HIDE DEF K
    <3> QED BY <1>6, <2>2, <2>3, <2>4
  <2> QED BY <1>1, <1>5, <1>6, <1>8, <2>5 DEF InTick
<1>9. t \in Live' => Chargeable(t)' /\ InTick(t)'
  <2> SUFFICES ASSUME t \in Live' PROVE Chargeable(t)' /\ InTick(t)'
    OBVIOUS
  <2>1. Lag(t)' = 0 /\ delay'[t] = asked'[t]
    BY <1>2 DEF Live
  <2>2. Lag(t)' \in Int /\ Lag(t)' <= 0
    BY <2>1
  <2>3. InTick(t)' /\ Lag(t)' <= sinceUpdate' + Charge(t)'
    BY <2>2, Fresh
  <2>4. delay'[t] <= asked'[t]
    BY <2>1 DEF Types
  <2> QED BY <2>3, <2>4 DEF Chargeable
<1>10. \A u \in Live : Chargeable(u)'
  BY <1>1, <1>5 DEF OnTime, Chargeable
<1>11. Prompt'
  <2>1. \A u \in Timers : phase'[u] = "sent" => u # t /\ phase[u] = "sent"
    BY <1>2, <1>3
  <2> QED BY <1>1, <1>3, <2>1 DEF OnTime, Prompt
<1> QED BY <1>1, <1>4, <1>7, <1>8, <1>9, <1>10, <1>11 DEF OnTime

LEMMA TickOnTime ==
  ASSUME IsFiniteSet(Timers), Types, Types', Charging, OnTime, Tick
  PROVE  OnTime'
<1>1. /\ pc = "select" /\ waited = TickUnits /\ todo = {} /\ current = {} /\ current' = {}
      /\ pc' = "drain" /\ elapse' = sinceUpdate /\ sinceUpdate' = 0
      /\ todo' = {u \in Timers : phase[u] = "waiting"}
      /\ UNCHANGED <<waited, current, spent, posted, sinceSend, phase, delay, asked, age, credit>>
  BY DEF Tick, posts, timers, armed, Charging
<1>2. Live' = Live
  BY <1>1 DEF Live
<1>3. \A u \in Live : /\ u \in Timers /\ Lag(u)' = Lag(u) /\ Lag(u) \in Int
                      /\ delay'[u] <= asked'[u]
  BY <1>1, LagType DEF Lag, Live, OnTime, Chargeable
<1>4. ASSUME NEW u \in Live, u \notin todo' PROVE Chargeable(u)' /\ InTick(u)'
  <2>1. phase[u] = "sent"
    BY <1>1, <1>4 DEF Live, Types
  <2>2. Lag(u) = 0
    BY <1>1, <1>3, <2>1, ClockTypes, LagType DEF OnTime, Prompt, Lag
  <2>3. Lag(u)' \in Int /\ Lag(u)' <= 0
    BY <1>3, <2>2
  <2>4. InTick(u)' /\ Lag(u)' <= sinceUpdate' + Charge(u)'
    BY <1>3, <2>3, Fresh
  <2> QED BY <1>3, <2>4 DEF Chargeable
<1>5. ASSUME NEW u \in Live, u \in todo' PROVE Chargeable(u)' /\ InTick(u)'
  <2>1. Lag(u) <= sinceUpdate + 0
    BY <1>1 DEF OnTime, Chargeable, Charge
  <2>2. Charge(u)' = sinceUpdate /\ sinceUpdate \in Nat
    BY <1>1, <1>5, ClockTypes DEF Charge
  <2>3. Chargeable(u)'
    BY <1>1, <1>3, <2>1, <2>2 DEF Chargeable
  <2>4. PICK U \in SUBSET Others(u) : U = Unreceived(u)
    BY DEF Unreceived
  <2>5. /\ Receipts(Timers) \in Nat /\ Cost(Others(u)) \in Nat /\ Receipts(U) \in Nat
        /\ Cost(Others(u) \ (todo' \cup current')) \in Nat
    BY <1>3, Bounds
  <2>6. Slack \in Nat /\ TickUnits \in Nat
    BY ClockTypes
  <2>7. Lag(u) + (TickUnits - TickUnits) + Receipts(U) + Slack <= Receipts(Timers) + Cost(Others(u))
    BY <1>1, <2>4 DEF OnTime, InSelect
  <2>8. Lag(u) <= Receipts(Timers) + Cost(Others(u)) + Cost(Others(u) \ (todo' \cup current')) + 0
    BY <1>3, <2>5, <2>6, <2>7
  <2>9. InCall' = 0
    BY <1>1 DEF InCall
  <2>10. InTick(u)'
    BY <1>3, <1>5, <2>8, <2>9 DEF InTick
  <2> QED BY <2>3, <2>10
<1>6. Prompt'
  BY <1>1 DEF OnTime, Prompt
<1>7. TickTime'
  <2>1. PICK S \in SUBSET Timers : S = Timers \ (todo' \cup current')
    OBVIOUS
  <2>2. Cost(S) \in Nat
    BY CostOf
  <2>3. InCall' = 0
    BY <1>1 DEF InCall
  <2> QED BY <1>1, <2>1, <2>2, <2>3 DEF TickTime
<1> QED BY <1>1, <1>2, <1>4, <1>5, <1>6, <1>7 DEF OnTime

LEMMA SwapOnTime ==
  ASSUME IsFiniteSet(Timers), Types, Types', Charging, OnTime, Swap
  PROVE  OnTime'
<1>1. /\ pc = "drain" /\ todo = {} /\ current = {} /\ pc' = "select" /\ waited' = 0
      /\ UNCHANGED <<elapse, todo, current, spent, sinceUpdate, posted, sinceSend,
                     phase, delay, asked, age, credit>>
  BY DEF Swap, posts, timers, armed, Charging
<1>2. Live' = Live
  BY <1>1 DEF Live
<1>3. \A u \in Live : /\ u \in Timers /\ Lag(u)' = Lag(u) /\ Lag(u) \in Int /\ Charge(u)' = Charge(u)
  BY <1>1, LagType DEF Lag, Live, Charge
<1>4. \A u \in Live : Chargeable(u)'
  BY <1>1, <1>3 DEF OnTime, Chargeable
<1>5. Prompt'
  BY <1>1 DEF OnTime, Prompt
<1>6. ASSUME NEW u \in Live PROVE InSelect(u)'
  <2>1. InCall = 0 /\ Others(u) \ (todo \cup current) = Others(u)
    BY <1>1 DEF InCall
  <2>2. Lag(u) <= 0 + Cost(Others(u)) + 0
    BY <1>1, <2>1 DEF OnTime, InTick
  <2>3. PICK U \in SUBSET Others(u) : U = Unreceived(u)'
    BY DEF Unreceived
  <2>4. /\ Receipts(Timers) \in Nat /\ Cost(Others(u)) \in Nat /\ Receipts(U) \in Nat
        /\ Receipts(U) + 2 * TickUnits <= Receipts(Timers)
    BY <1>3, Bounds
  <2>5. TickUnits \in Nat /\ Slack' \in {0, TickUnits}
    BY ClockTypes DEF Slack
  <2>6. Lag(u) + (TickUnits - 0) + Receipts(U) + Slack' <= Receipts(Timers) + Cost(Others(u))
    BY <1>3, <2>2, <2>4, <2>5
  <2> QED BY <1>1, <1>3, <2>3, <2>6 DEF InSelect
<1> QED BY <1>1, <1>2, <1>4, <1>5, <1>6 DEF OnTime

LEMMA WaitOnTime ==
  ASSUME IsFiniteSet(Timers), Types, Types', Charging, OnTime, Wait
  PROVE  OnTime'
<1>1. /\ pc = "select" /\ ~posted /\ Sent = {} /\ waited < TickUnits /\ waited' = waited + 1
      /\ UNCHANGED <<pc, elapse, todo, current, spent, posted, phase, delay, asked, credit>>
      /\ Pass
  BY DEF Wait
<1>2. /\ Live' = Live
      /\ \A u \in Live : Chargeable(u)' /\ Lag(u)' <= Lag(u) + 1
      /\ sinceSend' = IF sinceSend < Gap THEN sinceSend + 1 ELSE sinceSend
  BY <1>1, PassCharges DEF OnTime
<1>3. Slack' <= Slack /\ Slack \in Nat /\ Slack' \in Nat
  <2>1. /\ TickUnits \in Nat /\ Gap \in Nat /\ sinceSend \in Nat /\ sinceSend <= Gap
        /\ waited \in Nat
    BY ClockTypes
  <2>2. sinceSend' + (TickUnits - (waited + 1)) >= Gap => sinceSend + (TickUnits - waited) >= Gap
    BY <1>1, <1>2, <2>1
  <2>3. /\ Slack = IF sinceSend + (TickUnits - waited) < Gap THEN 0 ELSE TickUnits
        /\ Slack' = IF sinceSend' + (TickUnits - (waited + 1)) < Gap THEN 0 ELSE TickUnits
    BY <1>1 DEF Slack
  <2> QED BY <1>1, <1>2, <2>1, <2>2, <2>3
<1>4. Prompt'
  BY <1>1 DEF Prompt, Sent
<1>5. ASSUME NEW u \in Live PROVE InSelect(u)'
  <2>1. u \in Timers
    BY DEF Live
  <2>2. PICK U \in SUBSET Others(u) : U = Unreceived(u)
    BY DEF Unreceived
  <2>3. Unreceived(u)' = U
    BY <1>1, <2>2 DEF Unreceived
  <2>4. Receipts(Timers) \in Nat /\ Cost(Others(u)) \in Nat /\ Receipts(U) \in Nat
    BY <2>1, Bounds
  <2>5. Lag(u) \in Int /\ Lag(u)' \in Int /\ TickUnits \in Nat /\ waited \in Nat
    <3>1. Lag(u)' \in Int
      BY <2>1, ClockParameters DEF Types, Lag
    <3> QED BY <2>1, <3>1, LagType, ClockTypes
  <2>6. Lag(u) + (TickUnits - waited) + Receipts(U) + Slack <= Receipts(Timers) + Cost(Others(u))
    BY <1>1, <2>2 DEF OnTime, InSelect
  <2>7. Lag(u)' + (TickUnits - (waited + 1)) + Receipts(U) + Slack'
          <= Receipts(Timers) + Cost(Others(u))
    BY <1>2, <1>3, <2>4, <2>5, <2>6
  <2> QED BY <1>1, <2>3, <2>7 DEF InSelect
<1> QED BY <1>1, <1>2, <1>4, <1>5 DEF OnTime

LEMMA CallbackTimeOnTime ==
  ASSUME IsFiniteSet(Timers), Types, Types', Charging, OnTime, CallbackTime
  PROVE  OnTime'
<1>1. /\ pc = "callback" /\ spent' = spent + 1 /\ spent \in Nat
      /\ UNCHANGED <<pc, waited, elapse, todo, current, posted, phase, delay, asked, credit>>
      /\ Pass
  BY ClockTypes DEF CallbackTime
<1>2. /\ Live' = Live
      /\ \A u \in Live : Chargeable(u)' /\ Lag(u)' <= Lag(u) + 1
      /\ sinceUpdate' <= sinceUpdate + 1
  BY <1>1, PassCharges DEF OnTime
<1>3. InCall = spent /\ InCall' = spent + 1
  BY <1>1 DEF InCall
<1>4. Prompt'
  BY <1>1 DEF OnTime, Prompt
<1>5. TickTime'
  <2>1. PICK S \in SUBSET Timers : S = Timers \ (todo \cup current)
    OBVIOUS
  <2>2. Cost(S) \in Nat
    BY CostOf
  <2>3. sinceUpdate <= Cost(S) + spent /\ sinceUpdate \in Nat /\ sinceUpdate' \in Nat
    BY <1>1, <1>3, <2>1, ClockTypes DEF OnTime, TickTime, Types
  <2>4. sinceUpdate' <= Cost(S) + (spent + 1)
    BY <1>1, <1>2, <2>2, <2>3
  <2> QED BY <1>1, <1>3, <2>1, <2>4 DEF TickTime
<1>6. ASSUME NEW u \in Live PROVE InTick(u)'
  <2>1. u \in Timers
    BY DEF Live
  <2>2. /\ Receipts(Timers) \in Nat /\ Cost(Others(u)) \in Nat
        /\ Cost(Others(u) \ (todo \cup current)) \in Nat
    BY <2>1, Bounds
  <2>3. Lag(u) \in Int /\ Lag(u)' \in Int
    <3>1. Lag(u)' \in Int
      BY <2>1, ClockParameters DEF Types, Lag
    <3> QED BY <2>1, <3>1, LagType
  <2> DEFINE K == IF u \in todo THEN Receipts(Timers) + Cost(Others(u)) ELSE 0
  <2>4. K \in Nat /\ Lag(u) <= K + Cost(Others(u) \ (todo \cup current)) + spent
    BY <1>1, <1>3, <2>2 DEF OnTime, InTick
  <2>5. Lag(u)' <= K + Cost(Others(u) \ (todo \cup current)) + (spent + 1)
    <3> HIDE DEF K
    <3> QED BY <1>1, <1>2, <2>2, <2>3, <2>4
  <2> QED BY <1>1, <1>3, <2>5 DEF InTick
<1> QED BY <1>1, <1>2, <1>4, <1>5, <1>6 DEF OnTime

\* Posts that are further apart than a tick make the select start over once.
LEMMA PostsOnTime ==
  ASSUME IsFiniteSet(Timers), Gap > TickUnits, Types, Types', Charging, OnTime,
         Post \/ ReceivePost \/ UNCHANGED vars
  PROVE  OnTime'
<1>1. UNCHANGED <<pc, elapse, todo, current, spent, sinceUpdate, phase, delay, asked, age, credit>>
  BY DEF Post, ReceivePost, vars, loop, posts, timers, armed
<1>2. \/ waited' = waited /\ ~posted /\ posted' /\ sinceSend = Gap /\ sinceSend' = 0
      \/ waited' = 0 /\ posted /\ ~posted' /\ sinceSend' = sinceSend
      \/ UNCHANGED <<waited, posted, sinceSend>>
  BY DEF Post, ReceivePost, vars, loop, posts
<1>3. /\ Live' = Live /\ InCall' = InCall
      /\ \A u \in Live : /\ u \in Timers /\ Lag(u)' = Lag(u) /\ Charge(u)' = Charge(u)
                         /\ Unreceived(u)' = Unreceived(u)
  BY <1>1 DEF Live, InCall, Lag, Charge, Unreceived
<1>4. \A u \in Live : Chargeable(u)'
  BY <1>1, <1>3 DEF OnTime, Chargeable
<1>5. Prompt'
  BY <1>1, <1>2 DEF OnTime, Prompt
<1>6. pc' # "select" => TickTime' /\ \A u \in Live : InTick(u)'
  BY <1>1, <1>3 DEF OnTime, TickTime, InTick
<1>7. pc = "select" => Slack' + (TickUnits - waited') <= Slack + (TickUnits - waited)
  <2> SUFFICES ASSUME pc = "select"
               PROVE  Slack' + (TickUnits - waited') <= Slack + (TickUnits - waited)
    OBVIOUS
  <2>1. /\ TickUnits \in Nat /\ Gap \in Nat /\ sinceSend \in Nat
        /\ waited \in Nat /\ waited <= TickUnits
    BY ClockTypes
  <2>2. CASE waited' = waited /\ ~posted /\ posted' /\ sinceSend = Gap /\ sinceSend' = 0
    BY <2>1, <2>2 DEF Slack
  <2>3. CASE waited' = 0 /\ posted /\ ~posted' /\ sinceSend' = sinceSend
    <3>1. waited > 0 => sinceSend = 0
      BY <2>3 DEF OnTime, Prompt
    <3>2. Slack = TickUnits
      BY <2>3 DEF Slack
    <3>3. Slack' = IF sinceSend + (TickUnits - 0) < Gap THEN 0 ELSE TickUnits
      BY <2>3 DEF Slack
    <3> QED BY <2>1, <2>3, <3>1, <3>2, <3>3
  <2>4. CASE UNCHANGED <<waited, posted, sinceSend>>
    BY <2>1, <2>4 DEF Slack
  <2> QED BY <1>2, <2>2, <2>3, <2>4
<1>8. ASSUME NEW u \in Live, pc = "select" PROVE InSelect(u)'
  <2>1. PICK U \in SUBSET Others(u) : U = Unreceived(u)
    BY DEF Unreceived
  <2>2. /\ Receipts(Timers) \in Nat /\ Cost(Others(u)) \in Nat /\ Receipts(U) \in Nat
    BY <1>3, Bounds
  <2>3. /\ Lag(u) \in Int /\ TickUnits \in Nat /\ waited \in Nat /\ Slack \in Nat
        /\ waited' \in Nat /\ Slack' \in Nat
    BY <1>3, LagType, ClockTypes DEF Types, Slack
  <2>4. Lag(u) + (TickUnits - waited) + Receipts(U) + Slack <= Receipts(Timers) + Cost(Others(u))
    BY <1>8, <2>1 DEF OnTime, InSelect
  <2>5. Lag(u) + (TickUnits - waited') + Receipts(U) + Slack' <= Receipts(Timers) + Cost(Others(u))
    <3>1. Slack' + (TickUnits - waited') <= Slack + (TickUnits - waited)
      BY <1>7, <1>8
    <3>2. ASSUME NEW l \in Int, NEW r \in Int, NEW m \in Int, NEW s1 \in Int, NEW s2 \in Int,
                 NEW w1 \in Int, NEW w2 \in Int,
                 l + w1 + r + s1 <= m, s2 + w2 <= s1 + w1
          PROVE  l + w2 + r + s2 <= m
      BY <3>2
    <3>3. /\ TickUnits - waited \in Int /\ TickUnits - waited' \in Int
          /\ Receipts(Timers) + Cost(Others(u)) \in Int /\ Receipts(U) \in Int
          /\ Lag(u) \in Int /\ Slack \in Int /\ Slack' \in Int
      BY <2>2, <2>3
    <3> QED BY <2>4, <3>1, <3>2, <3>3
  <2> QED BY <1>3, <2>1, <2>5 DEF InSelect
<1> QED BY <1>1, <1>3, <1>4, <1>5, <1>6, <1>8 DEF OnTime

LEMMA OnTimeStep ==
  ASSUME IsFiniteSet(Timers), Gap > TickUnits, IInv, IInv', OnTime, [Next]_vars
  PROVE  OnTime'
<1>1. Types /\ Types' /\ Charging
  BY DEF IInv
<1>2. ASSUME NEW t \in Timers, Create(t) PROVE OnTime'
  BY <1>1, <1>2, CreateOnTime
<1>3. ASSUME NEW t \in Timers, ReceiveTimer(t) PROVE OnTime'
  BY <1>1, <1>3, ReceiveTimerOnTime
<1>4. ASSUME NEW t \in Timers, UpdateWait(t) PROVE OnTime'
  BY <1>1, <1>4, UpdateWaitOnTime
<1>5. ASSUME NEW t \in Timers, UpdateCall(t) PROVE OnTime'
  BY <1>1, <1>5, UpdateCallOnTime
<1>6. ASSUME NEW t \in Timers, Return(t) PROVE OnTime'
  BY <1>1, <1>6, ReturnOnTime
<1>7. CASE Post \/ ReceivePost \/ UNCHANGED vars
  BY <1>1, <1>7, PostsOnTime
<1>8. CASE Wait
  BY <1>1, <1>8, WaitOnTime
<1>9. CASE Tick
  BY <1>1, <1>9, TickOnTime
<1>10. CASE CallbackTime
  BY <1>1, <1>10, CallbackTimeOnTime
<1>11. CASE Swap
  BY <1>1, <1>11, SwapOnTime
<1> QED BY <1>2, <1>3, <1>4, <1>5, <1>6, <1>7, <1>8, <1>9, <1>10, <1>11 DEF Next

\* What has not been charged to a timer is at most the longest round.
LEMMA LagBound ==
  ASSUME IsFiniteSet(Timers), Types, Charging, OnTime, NEW t \in Live
  PROVE  Lag(t) <= Receipts(Timers) + 2 * Cost(Others(t))
<1>1. t \in Timers /\ Lag(t) \in Int
  BY LagType DEF Live
<1>2. CASE pc = "select"
  <2>1. PICK U \in SUBSET Others(t) : U = Unreceived(t)
    BY DEF Unreceived
  <2>2. Receipts(Timers) \in Nat /\ Cost(Others(t)) \in Nat /\ Receipts(U) \in Nat
    BY <1>1, Bounds
  <2>3. Lag(t) + (TickUnits - waited) + Receipts(U) + Slack <= Receipts(Timers) + Cost(Others(t))
    BY <1>2, <2>1 DEF OnTime, InSelect
  <2>4. TickUnits \in Nat /\ waited \in Nat /\ waited <= TickUnits /\ Slack \in Nat
    BY ClockTypes DEF Slack
  <2> QED BY <1>1, <2>2, <2>3, <2>4
<1>3. CASE pc # "select"
  <2>1. Receipts(Timers) \in Nat /\ Cost(Others(t)) \in Nat
    BY <1>1, Bounds
  <2> DEFINE A == todo \cup current
             K == IF t \in todo THEN Receipts(Timers) + Cost(Others(t)) ELSE 0
  <2>2. Cost(Others(t) \ A) \in Nat /\ Cost(Others(t) \ A) + InCall <= Cost(Others(t))
    <3>1. CASE pc = "callback"
      <4>1. PICK c \in Timers : current = {c}
        BY <3>1 DEF Charging
      <4>2. c \in Others(t) /\ c \in A /\ IsFiniteSet(Others(t))
        BY <4>1, FS_Subset DEF Live, Others
      <4>3. InCall = spent /\ spent \in Nat /\ spent <= MaxCall
        BY <3>1, ClockTypes DEF InCall
      <4>4. /\ Cost(Others(t) \ A) \in Nat /\ Cost(Others(t) \ (A \ {c})) \in Nat
            /\ Cost(Others(t) \ A) + spent <= Cost(Others(t) \ (A \ {c}))
        BY <4>2, <4>3, CallCost
      <4>5. Cost(Others(t) \ (A \ {c})) <= Cost(Others(t))
        BY <1>1, Bounds
      <4> QED BY <2>1, <4>3, <4>4, <4>5
    <3>2. CASE pc # "callback"
      <4>1. InCall = 0
        BY <3>2 DEF InCall
      <4>2. Cost(Others(t) \ A) \in Nat /\ Cost(Others(t) \ A) <= Cost(Others(t))
        BY <1>1, Bounds
      <4> QED BY <4>1, <4>2
    <3> QED BY <3>1, <3>2
  <2>3. Lag(t) <= K + Cost(Others(t) \ A) + InCall
    BY <1>3 DEF OnTime, InTick
  <2>4. K \in Nat /\ K <= Receipts(Timers) + Cost(Others(t))
    BY <2>1
  <2>5. InCall \in Nat
    BY ClockTypes
  <2> HIDE DEF A, K
  <2> QED BY <1>1, <2>1, <2>2, <2>3, <2>4, <2>5
<1> QED BY <1>2, <1>3

\* When posts are further apart than a tick, no timer waits longer than one
\* round beyond its Delay: a tick loses no time, and the select starts over
\* no more than once for each timer and each post before it.
THEOREM NoTimerLate ==
  ASSUME IsFiniteSet(Timers), Gap > TickUnits
  PROVE  Spec => []NeverLate
<1>1. Init => OnTime
  BY DEF Init, OnTime, Live, Prompt
<1>2. IInv /\ IInv' /\ OnTime /\ [Next]_vars => OnTime'
  BY OnTimeStep
<1>3. IInv /\ OnTime => NeverLate
  <2> SUFFICES ASSUME Types, Charging, OnTime, NEW t \in Timers, phase[t] # "none", t \notin current
               PROVE  age[t] <= asked[t] + LongestRound
    BY DEF IInv, NeverLate
  <2>1. t \in Live
    BY DEF Live
  <2>2. Lag(t) <= Receipts(Timers) + 2 * Cost(Others(t))
    BY <2>1, LagBound
  <2>3. Cardinality(Others(t)) = Cardinality(Timers) - 1 /\ Cardinality(Timers) \in Nat
    BY FS_RemoveElement, FS_CardinalityType DEF Others
  <2>4. Receipts(Timers) + 2 * Cost(Others(t)) = LongestRound
    <3> DEFINE n == Cardinality(Timers)
    <3>1. /\ Receipts(Timers) = n * (2 * TickUnits)
          /\ Cost(Others(t)) = (n - 1) * MaxCall
          /\ LongestRound = 2 * n * TickUnits + 2 * (n - 1) * MaxCall
      BY <2>3 DEF Receipts, Cost, LongestRound
    <3>2. n \in Int /\ TickUnits \in Int /\ MaxCall \in Int
      BY <2>3, ClockParameters
    <3>3. ASSUME NEW a \in Int, NEW b \in Int, NEW c \in Int
          PROVE  a * (2 * b) + 2 * ((a - 1) * c) = 2 * a * b + 2 * (a - 1) * c
      BY <3>3
    <3> HIDE DEF n
    <3> QED BY <3>1, <3>2, <3>3
  <2>5. delay[t] >= 0 /\ Lag(t) = age[t] - (asked[t] - delay[t])
    BY DEF Types, Lag
  <2>6. Receipts(Timers) \in Nat /\ Cost(Others(t)) \in Nat /\ LongestRound \in Int
    <3>1. Receipts(Timers) \in Nat /\ Cost(Others(t)) \in Nat
      BY Bounds
    <3> QED BY <2>4, <3>1
  <2> QED BY <2>2, <2>4, <2>5, <2>6, LagType
<1> QED BY <1>1, <1>2, <1>3, ChargedOnce, PTL DEF Spec
=============================================================================
