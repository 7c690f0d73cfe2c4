----------------------------- MODULE TimerClock -----------------------------
(***************************************************************************)
(* Timers against a clock: the 66 ms timer of the select in process(), the *)
(* elapsed time a tick charges to every timer, the time callbacks take,    *)
(* and events that other goroutines post meanwhile (runtime.go,            *)
(* module_event.go). EventLoop has the queues and leaves time abstract;    *)
(* this module has time and leaves the queues abstract.                    *)
(***************************************************************************)
EXTENDS Integers, FiniteSets

CONSTANTS Timers,     \* localTimerEvent objects
          Loops,      \* those of them made by event.loop
          Ask,        \* the sec argument of each, in units of time
          TickUnits,  \* 66 ms, in units of time
          MaxCall,    \* bound on the units of time a callback takes
          Gap,        \* units of time between two posts, at least
          MaxAge      \* bound up to which time is measured

ASSUME ClockParameters == /\ Loops \subseteq Timers
                          /\ MaxAge \in Nat
                          /\ Ask \in [Timers -> 1..MaxAge]
                          /\ TickUnits \in Nat \ {0}
                          /\ MaxCall \in Nat
                          /\ Gap \in Nat

VARIABLES pc,           \* where process() is
          waited,       \* time since the select made its 66 ms timer
          sinceUpdate,  \* time since eventUpdateTime
          elapse,       \* elpase of the present tick
          todo,         \* timers the present tick has yet to dispatch
          current,      \* timers whose callback runs: one or none
          spent,        \* time the callback has taken
          posted,       \* an event of another goroutine is in the channel
          sinceSend,    \* time since the last such event
          phase,        \* of each timer: none, sent or waiting
          delay,        \* TimerEvent.Delay
          asked,        \* history: the time the timer is to let pass
          age,          \* history: the time since it was armed
          credit        \* history: sinceUpdate when it was armed

loop == <<pc, waited, elapse, todo, current, spent>>
posts == <<posted, sinceSend>>
armed == <<asked, age, credit>>
timers == <<phase, delay, armed>>
vars == <<loop, sinceUpdate, posts, timers>>

Up(n) == IF n < MaxAge THEN n + 1 ELSE n

\* One unit of time passes everywhere.
Pass == /\ sinceUpdate' = Up(sinceUpdate)
        /\ sinceSend' = IF sinceSend < Gap THEN sinceSend + 1 ELSE sinceSend
        /\ age' = [t \in Timers |-> IF phase[t] = "none" THEN 0 ELSE Up(age[t])]

Sent == {t \in Timers : phase[t] = "sent"}

\* The timer is to let time pass from now on.
Arm(t, time) == /\ delay' = [delay EXCEPT ![t] = time]
                /\ asked' = [asked EXCEPT ![t] = time]
                /\ age' = [age EXCEPT ![t] = 0]
                /\ credit' = [credit EXCEPT ![t] = sinceUpdate]

\* Fault: Delay is compared before the elapsed time is taken off.
LeftBefore(t) == delay[t]

\* Fault: a tick charges the time since the select, not since the last tick.
LeftOfWait(t) == delay[t] - TickUnits

\* e.Delay -= elapse
Left(t) == delay[t] - elapse

-----------------------------------------------------------------------------
Init == /\ pc = "select"
        /\ waited = 0
        /\ sinceUpdate = 0
        /\ elapse = 0
        /\ todo = {}
        /\ current = {}
        /\ spent = 0
        /\ posted = FALSE
        /\ sinceSend = Gap
        /\ phase = [t \in Timers |-> "none"]
        /\ delay = [t \in Timers |-> 0]
        /\ asked = [t \in Timers |-> 0]
        /\ age = [t \in Timers |-> 0]
        /\ credit = [t \in Timers |-> 0]

\* event.delay or event.loop, from the script or from a callback: the first
\* Delay of a loop timer is zero.
Create(t) == /\ phase[t] = "none"
             /\ phase' = [phase EXCEPT ![t] = "sent"]
             /\ Arm(t, IF t \in Loops THEN 0 ELSE Ask[t])
             /\ UNCHANGED <<loop, sinceUpdate, posts>>

Post == /\ ~posted
        /\ sinceSend = Gap
        /\ posted' = TRUE
        /\ sinceSend' = 0
        /\ UNCHANGED <<loop, sinceUpdate, timers>>

\* The select receives an event, and makes new timers.
ReceiveTimer(t) == /\ pc = "select"
                   /\ phase[t] = "sent"
                   /\ phase' = [phase EXCEPT ![t] = "waiting"]
                   /\ waited' = 0
                   /\ UNCHANGED <<pc, elapse, todo, current, spent, sinceUpdate,
                                  posts, delay, armed>>

ReceivePost == /\ pc = "select"
               /\ posted
               /\ posted' = FALSE
               /\ waited' = 0
               /\ UNCHANGED <<pc, elapse, todo, current, spent, sinceUpdate,
                              sinceSend, timers>>

\* The select blocks: nothing is in the channel and 66 ms have not passed.
Wait == /\ pc = "select"
        /\ ~posted /\ Sent = {}
        /\ waited < TickUnits
        /\ waited' = waited + 1
        /\ Pass
        /\ UNCHANGED <<pc, elapse, todo, current, spent, posted, phase,
                       delay, asked, credit>>

Tick == /\ pc = "select"
        /\ waited = TickUnits
        /\ pc' = "drain"
        /\ elapse' = sinceUpdate
        /\ sinceUpdate' = 0
        /\ todo' = {t \in Timers : phase[t] = "waiting"}
        /\ UNCHANGED <<waited, current, spent, posts, timers>>

\* Fault: the elapsed time is taken off a copy of Delay.
UpdateWaitOnCopy(t) == /\ pc = "drain"
                       /\ t \in todo
                       /\ Left(t) > 0
                       /\ todo' = todo \ {t}
                       /\ UNCHANGED <<pc, waited, elapse, current, spent,
                                      sinceUpdate, posts, timers>>

\* localTimerEvent.Update: not yet time, or up to the call.
UpdateWait(t) == /\ pc = "drain"
                 /\ t \in todo
                 /\ Left(t) > 0
                 /\ todo' = todo \ {t}
                 /\ delay' = [delay EXCEPT ![t] = @ - elapse]
                 /\ UNCHANGED <<pc, waited, elapse, current, spent, sinceUpdate,
                                posts, phase, armed>>

UpdateCall(t) == /\ pc = "drain"
                 /\ t \in todo
                 /\ Left(t) <= 0
                 /\ todo' = todo \ {t}
                 /\ delay' = [delay EXCEPT ![t] = @ - elapse]
                 /\ current' = {t}
                 /\ spent' = 0
                 /\ pc' = "callback"
                 /\ UNCHANGED <<waited, elapse, sinceUpdate, posts, phase, armed>>

CallbackTime == /\ pc = "callback"
                /\ spent < MaxCall
                /\ spent' = spent + 1
                /\ Pass
                /\ UNCHANGED <<pc, waited, elapse, todo, current, posted, phase,
                               delay, asked, credit>>

\* Fault: the overshoot of this call is taken off the next period.
AgainInPhase(t) == /\ delay' = [delay EXCEPT ![t] = @ + Ask[t]]
                   /\ asked' = [asked EXCEPT ![t] = Ask[t]]
                   /\ age' = [age EXCEPT ![t] = 0]
                   /\ credit' = [credit EXCEPT ![t] = sinceUpdate]

\* The callback of a loop timer returns true: e.Delay = e.Period
Again(t) == Arm(t, Ask[t])

\* The callback returns; a timer that does not go on is not referred to.
Return(t) == /\ pc = "callback"
             /\ t \in current
             /\ \/ t \in Loops /\ Again(t) /\ UNCHANGED phase
                \/ /\ phase' = [phase EXCEPT ![t] = "none"]
                   /\ delay' = [delay EXCEPT ![t] = 0]
                   /\ UNCHANGED armed
             /\ current' = {}
             /\ pc' = "drain"
             /\ UNCHANGED <<waited, elapse, todo, spent, sinceUpdate, posts>>

Swap == /\ pc = "drain"
        /\ todo = {}
        /\ pc' = "select"
        /\ waited' = 0
        /\ UNCHANGED <<elapse, todo, current, spent, sinceUpdate, posts, timers>>

Next == \/ \E t \in Timers : \/ Create(t) \/ ReceiveTimer(t)
                             \/ UpdateWait(t) \/ UpdateCall(t) \/ Return(t)
        \/ Post \/ ReceivePost \/ Wait \/ Tick \/ CallbackTime \/ Swap

Spec == Init /\ [][Next]_vars

\* Time passes, the select is fair to its ready cases, callbacks return.
Fairness == /\ WF_vars(Wait)
            /\ WF_vars(CallbackTime \/ \E t \in Timers : Return(t))
            /\ WF_vars(Swap)
            /\ SF_vars(Tick)
            /\ SF_vars(ReceivePost)
            /\ \A t \in Timers : /\ SF_vars(ReceiveTimer(t))
                                 /\ WF_vars(UpdateWait(t) \/ UpdateCall(t))

FairSpec == Spec /\ Fairness

-----------------------------------------------------------------------------
\* The types, and no timer has less than nothing left while it waits.
TypeOK == /\ pc \in {"select", "drain", "callback"}
          /\ waited \in 0..TickUnits
          /\ {sinceUpdate, elapse} \subseteq 0..MaxAge
          /\ todo \subseteq Timers
          /\ current \subseteq Timers
          /\ Cardinality(current) = (IF pc = "callback" THEN 1 ELSE 0)
          /\ spent \in 0..MaxCall
          /\ posted \in BOOLEAN
          /\ sinceSend \in 0..Gap
          /\ phase \in [Timers -> {"none", "sent", "waiting"}]
          /\ delay \in [Timers -> Int]
          /\ \A t \in Timers \ current : delay[t] >= 0
          /\ \A t \in Timers : {asked[t], age[t], credit[t]} \subseteq 0..MaxAge

\* The step calls the Lua function of t.
Calls(t) == t \in current' \ current

\* A timer is early by at most the time that had passed, when it was armed,
\* since the last tick began: Update takes the whole time between two ticks
\* off Delay, also of a timer made late in it, and never more than that.
EarlyByOneTick == [][\A t \in Timers :
                       Calls(t) => age[t] + credit[t] >= asked[t]]_vars

\* The longest time between two Updates of a timer when posts are more than
\* 66 ms apart: the select waits once, and again after the event of every other
\* timer and after a post before each of them and before the tick; and the
\* callback of every other timer may run after the first Update, in its tick,
\* and before the second, in the next.
LongestRound == 2 * Cardinality(Timers) * TickUnits
                  + 2 * (Cardinality(Timers) - 1) * MaxCall

\* A timer waits at most one such time beyond what it was asked to: a tick
\* loses no time, neither what callbacks took nor what the select waited.
NeverLate == \A t \in Timers :
               phase[t] # "none" /\ t \notin current
                 => age[t] <= asked[t] + LongestRound

\* README.md:15 has timers among the features: the function of a timer is
\* called in the end, whatever else the runtime receives.
TimersFire == \A t \in Timers : phase[t] = "sent" ~> t \in current
=============================================================================
