-------------------------- MODULE HttpAsync_proofs --------------------------
(***************************************************************************)
(* Invariants of HTTP requests, for every set of requests and every        *)
(* capacity of the channel.                                                *)
(***************************************************************************)
EXTENDS HttpAsyncImplements, DataLemmas

-----------------------------------------------------------------------------
(* Types.                                                                  *)

LEMMA InitType == Init => TypeOK
<1> SUFFICES ASSUME Init PROVE TypeOK
  OBVIOUS
<1>1. << >> \in Seq(Requests) /\ Len(<< >>) <= Capacity
  BY EmptyElements, DispatchParameters
<1>2. DispatchTypeOK(Requests, {})
  BY <1>1 DEF Init, DispatchInit, DispatchTypeOK
<1> QED BY <1>2 DEF Init, DispatchInit, TypeOK

\* The sort of a tick moves events, and neither adds nor forgets one.
LEMMA SortedElements ==
  ASSUME NEW S, NEW s \in Seq(S), NEW r \in Sorted(s)
  PROVE  r \in Seq(S) /\ Range(r) = Range(s) /\ (IsInjective(s) => IsInjective(r))
<1>1. CASE Len(s) <= StableLimit
  BY <1>1 DEF Sorted
<1>2. CASE ~(Len(s) <= StableLimit)
  <2>1. DOMAIN s = 1..Len(s)
    BY LenProperties
  <2>2. PICK f \in Bijection(1..Len(s), 1..Len(s)) : r = [i \in 1..Len(s) |-> s[f[i]]]
    BY <1>2, <2>1, Zenon DEF Sorted
  <2> QED BY <2>2, PermutedElements
<1> QED BY <1>1, <1>2

\* The script and its host.
LEMMA HostType == TypeOK /\ HostSteps /\ UNCHANGED <<request, history>> => TypeOK'
BY DEF HostSteps, MainReturn, Shutdown, RunsLua, TypeOK, DispatchTypeOK, request, history

\* process() between two updates.
LEMMA LoopType == TypeOK /\ LoopSteps /\ UNCHANGED <<request, history>> => TypeOK'
<1> SUFFICES ASSUME TypeOK, LoopSteps, UNCHANGED <<request, history>> PROVE TypeOK'
  OBVIOUS
<1> USE DEF TypeOK, DispatchTypeOK, request, history
<1>1. CASE LoopReceive
  <2>1. /\ Head(EventQueue) \in Requests
        /\ EventQueue' \in Seq(Requests)
        /\ Len(EventQueue') = Len(EventQueue) - 1
        /\ Len(EventQueue) \in Nat
        /\ Len(EventQueue) <= Capacity
    BY <1>1, TailElements, LenProperties DEF LoopReceive
  <2>2. eventQueue' \in Seq(Requests)
    BY <1>1, <2>1, AppendElements DEF LoopReceive
  <2>3. Len(EventQueue') <= Capacity
    <3> HIDE DEF TypeOK, DispatchTypeOK
    <3> QED BY <2>1, DispatchParameters
  <2> QED BY <1>1, <2>1, <2>2, <2>3 DEF LoopReceive
<1>2. CASE LoopTick
  <2>1. eventQueue' \in Seq(Requests)
    BY <1>2, SortedElements DEF LoopTick
  <2> QED BY <1>2, <2>1 DEF LoopTick
<1>3. CASE LoopSwap
  BY <1>3, EmptyElements DEF LoopSwap
<1>4. CASE LoopDone
  BY <1>4 DEF LoopDone
<1> QED BY <1>1, <1>2, <1>3, <1>4 DEF LoopSteps

\* What Lua calls.
LEMMA LuaType == ASSUME TypeOK, NEW g \in Goroutines, Lua(g) PROVE TypeOK'
<1> USE DEF TypeOK, DispatchTypeOK, request, history
<1>1. ASSUME NEW r \in Requests, NEW c \in {"request", "async"}, Request(g, r, c)
      PROVE  TypeOK'
  BY <1>1 DEF Request, Call, Waiting
<1>2. CASE Answer(g)
  BY <1>2 DEF Answer, Return, Cancel, Waiting
<1>3. CASE Send(g)
  <2>1. calling[g].req \in Requests
    BY <1>3 DEF Send, Waiting
  <2>2. /\ EventQueue' \in Seq(Requests)
        /\ Len(EventQueue') = Len(EventQueue) + 1
        /\ Len(EventQueue) \in Nat
        /\ Len(EventQueue) < Capacity
    BY <1>3, <2>1, AppendElements, LenProperties DEF Send, SendAndReturn, HasRoom
  <2>3. Len(EventQueue') <= Capacity
    <3> HIDE DEF TypeOK, DispatchTypeOK
    <3> QED BY <2>2, DispatchParameters
  <2> QED BY <1>3, <2>2, <2>3 DEF Send, SendAndReturn
<1>4. ASSUME NEW r \in Requests, Refuse(g, r) PROVE TypeOK'
  BY <1>4 DEF Refuse, dispatch
<1> QED BY <1>1, <1>2, <1>3, <1>4 DEF Lua

\* The timeout and the goroutine of a request.
LEMMA RequestType ==
  ASSUME TypeOK, NEW r \in Requests, Expire(r) \/ Do(r) \/ Finalize(r)
  PROVE  TypeOK'
BY DEF TypeOK, DispatchTypeOK, dispatch, history, Expire, Do, Finalize

\* Update and what process() does around it. Control says that current is an
\* event wherever Update is.
Control == loop \in {"update", "callback"} <=> current # None

LEMMA UpdateType == TypeOK /\ Control /\ (Pop \/ Update \/ UpdateReturn) => TypeOK'
<1> SUFFICES ASSUME TypeOK, Control, Pop \/ Update \/ UpdateReturn PROVE TypeOK'
  OBVIOUS
<1> USE DEF TypeOK, DispatchTypeOK, request, history
<1>1. CASE Pop
  <2>1. Head(eventQueue) \in Requests /\ eventQueue' \in Seq(Requests)
    BY <1>1, TailElements DEF Pop, LoopPop
  <2> QED BY <1>1, <2>1 DEF Pop, LoopPop
<1>2. ASSUME loop \in {"update", "callback"}
      PROVE  current \in Requests /\ Append(eventSwapQueue, current) \in Seq(Requests)
  <2>1. current \in Requests
    BY <1>2 DEF Control
  <2> QED BY <2>1, AppendElements
<1>3. CASE UpdateStart \/ UpdateWait
  BY <1>2, <1>3 DEF UpdateStart, UpdateWait, Finish
<1>4. CASE UpdateCall
  <2>1. Passed(current) \in [code : {"status", "bad gateway"},
                             text : {"error", "body", "nothing"}]
    BY DEF Passed, Reads
  <2>2. passed' \in [Requests -> [code : {"status", "bad gateway"},
                                  text : {"error", "body", "nothing"}] \cup {None}]
    BY <1>4, <2>1 DEF UpdateCall
  <2>3. calls' \in [Requests -> Nat]
    <3>1. /\ calls \in [Requests -> Nat] /\ current \in Requests
          /\ calls' = [calls EXCEPT ![current] = @ + 1]
      BY <1>2, <1>4 DEF UpdateCall, Goto
    <3> HIDE DEF TypeOK, DispatchTypeOK
    <3> QED BY <3>1
  <2> QED BY <1>4, <2>2, <2>3 DEF UpdateCall, Goto
<1>5. CASE UpdateReturn
  BY <1>2, <1>5 DEF UpdateReturn, Release, Cancel, Finish, LoopError, RunsLua
<1> QED BY <1>1, <1>3, <1>4, <1>5 DEF Update

LEMMA ControlStep == TypeOK /\ Control /\ [Next]_vars => Control'
<1> SUFFICES ASSUME TypeOK, Control, [Next]_vars PROVE Control'
  OBVIOUS
<1> USE DEF Control
<1>1. ASSUME NEW g \in Goroutines, Lua(g) PROVE Control'
  BY <1>1 DEF Lua, Request, Answer, Refuse, Send, Call, Return, SendAndReturn, dispatch
<1>2. ASSUME NEW r \in Requests, Expire(r) \/ Do(r) \/ Finalize(r) PROVE Control'
  BY <1>2 DEF Expire, Do, Finalize, dispatch
<1>3. CASE Pop
  <2>1. Head(eventQueue) # None
    <3>1. eventQueue \in Seq(Requests) /\ eventQueue # << >>
      BY <1>3 DEF Pop, TypeOK, DispatchTypeOK
    <3> QED BY <3>1, TailElements, HttpParameters
  <2> QED BY <1>3, <2>1 DEF Pop, LoopPop
<1>4. CASE Update
  BY <1>4 DEF Update, UpdateStart, UpdateWait, UpdateCall, Finish, Goto
<1>5. CASE UpdateReturn
  BY <1>5 DEF UpdateReturn, Finish, LoopError
<1>6. CASE LoopSteps \/ HostSteps
  BY <1>6 DEF LoopSteps, LoopReceive, LoopTick, LoopSwap, LoopDone,
              HostSteps, MainReturn, Shutdown
<1>7. CASE UNCHANGED vars
  BY <1>7 DEF vars, dispatch
<1> QED BY <1>1, <1>2, <1>3, <1>4, <1>5, <1>6, <1>7 DEF Next

LEMMA TypeStep == TypeOK /\ Control /\ [Next]_vars => TypeOK'
<1>1. TypeOK /\ UNCHANGED vars => TypeOK'
  BY DEF TypeOK, DispatchTypeOK, vars, dispatch, request, history
<1> QED BY <1>1, HostType, LoopType, LuaType, RequestType, UpdateType DEF Next

THEOREM TypeCorrect == Spec => [](TypeOK /\ Control)
<1>1. Init => Control
  BY DEF Init, DispatchInit, Control
<1> QED BY <1>1, InitType, ControlStep, TypeStep, PTL DEF Spec

-----------------------------------------------------------------------------
(* The call of the function.                                               *)

\* The goroutine of a request stores its answer before the state in which
\* Update calls the function, and runs in no other state than "progress".
AnswerStored ==
  \A r \in Requests :
    /\ state[r] = "initialize" => worker[r] = "off" /\ ~resp[r] /\ ~err[r]
    /\ worker[r] # "off" => state[r] = "progress"
    /\ worker[r] = "doing" => ~resp[r] /\ ~err[r]
    /\ worker[r] = "answered" \/ state[r] \in {"finalize", "complete"}
         => (resp[r] <=> ~err[r])

\* Where the function is called the state is "finalize", which Release leaves.
CalledInFinalize ==
  /\ loop = "callback" => state[current] = "finalize"
  /\ \A r \in Requests :
       /\ calls[r] <= 1
       /\ calls[r] > 0 => state[r] = "complete" \/ (loop = "callback" /\ current = r)
       /\ passed[r] # None
            => (passed[r].code = "status") # (passed[r].text = "error")

CallInv == AnswerStored /\ CalledInFinalize

LEMMA CallInit == Init => CallInv
BY DEF Init, DispatchInit, CallInv, AnswerStored, CalledInFinalize

\* The call is made with an answer, and is the first one.
LEMMA CallCall == TypeOK /\ Control /\ CallInv /\ UpdateCall => CallInv'
<1> SUFFICES ASSUME TypeOK, Control, CallInv, UpdateCall PROVE CallInv'
  OBVIOUS
<1>1. /\ current \in Requests
      /\ state[current] = "finalize"
      /\ loop = "update" /\ loop' = "callback" /\ current' = current
      /\ UNCHANGED <<state, worker, resp, err>>
      /\ passed' = [passed EXCEPT ![current] = Passed(current)]
      /\ calls' = [calls EXCEPT ![current] = @ + 1]
  BY DEF UpdateCall, Goto, TypeOK, DispatchTypeOK, Control, request
<1>2. AnswerStored'
  BY <1>1 DEF CallInv, AnswerStored
<1>3. (Passed(current).code = "status") # (Passed(current).text = "error")
  BY <1>1 DEF CallInv, AnswerStored, Passed, Reads
<1>4. calls[current] = 0
  <2>1. calls[current] \in Nat /\ ~(calls[current] > 0)
    BY <1>1 DEF CallInv, CalledInFinalize, TypeOK
  <2> QED BY <2>1
<1>5. ASSUME NEW r \in Requests
      PROVE  /\ calls'[r] <= 1
             /\ calls'[r] > 0 => state'[r] = "complete" \/ (loop' = "callback" /\ current' = r)
             /\ passed'[r] # None
                  => (passed'[r].code = "status") # (passed'[r].text = "error")
  <2>1. CASE r = current
    <3>1. calls'[r] = calls[current] + 1 /\ passed'[r] = Passed(current)
      BY <1>1, <2>1 DEF TypeOK
    <3> QED BY <1>1, <1>3, <1>4, <2>1, <3>1
  <2>2. CASE r # current
    <3>1. calls'[r] = calls[r] /\ passed'[r] = passed[r]
      BY <1>1, <2>2 DEF TypeOK
    <3> QED BY <1>1, <2>2, <3>1 DEF CallInv, CalledInFinalize
  <2> QED BY <2>1, <2>2
<1> QED BY <1>1, <1>2, <1>5 DEF CallInv, CalledInFinalize

LEMMA CallStep == TypeOK /\ Control /\ CallInv /\ [Next]_vars => CallInv'
<1> SUFFICES ASSUME TypeOK, Control, CallInv, [Next]_vars PROVE CallInv'
  OBVIOUS
<1> USE DEF CallInv, AnswerStored, CalledInFinalize
<1>1. ASSUME UNCHANGED <<state, worker, resp, err, passed, calls>>,
             loop = "callback" => UNCHANGED <<loop, current>>,
             loop' = "callback" => loop = "callback"
      PROVE  CallInv'
  BY <1>1
<1>2. ASSUME NEW g \in Goroutines, Lua(g) PROVE CallInv'
  BY <1>1, <1>2 DEF Lua, Request, Answer, Refuse, Send, Call, Return, SendAndReturn, request, history, dispatch
<1>3. ASSUME NEW r \in Requests, Expire(r) PROVE CallInv'
  BY <1>1, <1>3 DEF Expire, dispatch, history
<1>4. ASSUME NEW r \in Requests, Do(r) PROVE CallInv'
  <2>1. /\ worker[r] = "doing"
        /\ \/ resp' = [resp EXCEPT ![r] = TRUE] /\ UNCHANGED err
           \/ err' = [err EXCEPT ![r] = TRUE] /\ UNCHANGED resp
        /\ worker' = [worker EXCEPT ![r] = "answered"]
        /\ UNCHANGED <<state, loop, current, passed, calls>>
    BY <1>4 DEF Do, dispatch, history
  <2>2. state[r] = "progress" /\ ~resp[r] /\ ~err[r]
    BY <2>1
  <2>3. /\ worker'[r] = "answered" /\ (resp'[r] <=> ~err'[r])
        /\ \A q \in Requests \ {r} : worker'[q] = worker[q] /\ resp'[q] = resp[q] /\ err'[q] = err[q]
    <3>1. /\ DOMAIN worker = Requests /\ DOMAIN resp = Requests /\ DOMAIN err = Requests
      BY DEF TypeOK
    <3> HIDE DEF CallInv, AnswerStored, CalledInFinalize
    <3>2. CASE resp' = [resp EXCEPT ![r] = TRUE] /\ UNCHANGED err
      BY <2>1, <2>2, <3>1, <3>2
    <3>3. CASE err' = [err EXCEPT ![r] = TRUE] /\ UNCHANGED resp
      BY <2>1, <2>2, <3>1, <3>3
    <3> QED BY <2>1, <3>2, <3>3
  <2>4. AnswerStored'
    BY <2>1, <2>2, <2>3
  <2> QED BY <2>1, <2>4
<1>5. ASSUME NEW r \in Requests, Finalize(r) PROVE CallInv'
  <2>1. /\ worker[r] = "answered"
        /\ state' = [state EXCEPT ![r] = "finalize"]
        /\ worker' = [worker EXCEPT ![r] = "off"]
        /\ UNCHANGED <<resp, err, loop, current, passed, calls>>
    BY <1>5 DEF Finalize, dispatch, history
  <2>2. state[r] = "progress" /\ (resp[r] <=> ~err[r])
    BY <2>1
  <2>3. /\ worker'[r] = "off" /\ state'[r] = "finalize"
        /\ \A q \in Requests \ {r} : worker'[q] = worker[q] /\ state'[q] = state[q]
    <3>1. DOMAIN worker = Requests /\ DOMAIN state = Requests
      BY DEF TypeOK
    <3> HIDE DEF CallInv, AnswerStored, CalledInFinalize
    <3> QED BY <2>1, <3>1
  <2>4. AnswerStored'
    BY <2>1, <2>2, <2>3
  <2>5. loop = "callback" => current \in Requests
    BY DEF Control, TypeOK, DispatchTypeOK
  <2>6. CalledInFinalize'
    BY <2>1, <2>2, <2>3, <2>5
  <2> QED BY <2>4, <2>6
<1>6. CASE Pop
  BY <1>1, <1>6 DEF Pop, LoopPop, request, history
<1>7. CASE UpdateStart
  <2>1. /\ current \in Requests /\ loop = "update" /\ loop' = "drain"
        /\ state[current] = "initialize"
        /\ state' = [state EXCEPT ![current] = "progress"]
        /\ worker' = [worker EXCEPT ![current] = "doing"]
        /\ UNCHANGED <<resp, err, passed, calls>>
    BY <1>7 DEF UpdateStart, Finish, TypeOK, DispatchTypeOK, Control, history
  <2>2. worker'[current] = "doing" /\ state'[current] = "progress"
        /\ \A q \in Requests \ {current} : worker'[q] = worker[q] /\ state'[q] = state[q]
    <3>1. DOMAIN worker = Requests /\ DOMAIN state = Requests
      BY DEF TypeOK
    <3> HIDE DEF CallInv, AnswerStored, CalledInFinalize
    <3> QED BY <2>1, <3>1
  <2> QED BY <2>1, <2>2
<1>8. CASE UpdateWait
  BY <1>1, <1>8 DEF UpdateWait, Finish, request, history
<1>9. CASE UpdateCall
  BY <1>9, CallCall
<1>10. CASE UpdateReturn
  <2>1. /\ loop = "callback" /\ loop' # "callback" /\ current \in Requests
        /\ state' = [state EXCEPT ![current] = "complete"]
        /\ UNCHANGED <<worker, resp, err, passed, calls>>
    BY <1>10 DEF UpdateReturn, Release, RunsLua, Finish, LoopError, history,
                 TypeOK, DispatchTypeOK, Control
  <2>2. state'[current] = "complete" /\ \A q \in Requests \ {current} : state'[q] = state[q]
    <3>1. DOMAIN worker = Requests /\ DOMAIN state = Requests
      BY DEF TypeOK
    <3> HIDE DEF CallInv, AnswerStored, CalledInFinalize
    <3> QED BY <2>1, <3>1
  <2>3. AnswerStored' /\ CalledInFinalize'
    BY <2>1, <2>2
  <2> QED BY <2>3
<1>11. CASE (LoopSteps \/ HostSteps) /\ UNCHANGED <<request, history>>
  BY <1>1, <1>11 DEF LoopSteps, LoopReceive, LoopTick, LoopSwap, LoopDone,
              HostSteps, MainReturn, Shutdown, request, history
<1>12. CASE UNCHANGED vars
  BY <1>1, <1>12 DEF vars, dispatch, request, history
<1> QED BY <1>2, <1>3, <1>4, <1>5, <1>6, <1>7, <1>8, <1>9, <1>10, <1>11, <1>12
        DEF Next, Update

\* The function of a request is called at most once, with a status or with the
\* error that explains why there is none (module_http.go:213).
THEOREM OnceWithAnswer == Spec => []CalledOnceWithAnswer
<1>1. CallInv => CalledOnceWithAnswer
  BY DEF CallInv, CalledInFinalize, CalledOnceWithAnswer
<1> QED BY <1>1, CallInit, CallStep, TypeCorrect, PTL DEF Spec

-----------------------------------------------------------------------------
(* The contexts.                                                           *)

\* A context is made once, by the call, and has ended when the event is complete.
ContextInv ==
  \A r \in Requests : /\ ctx[r] = "none" => r \notin Held
                      /\ ctx[r] = "live" => r \in Held
                      /\ state[r] = "complete" => ctx[r] = "ended"

LEMMA ContextInit == Init => ContextInv
<1> SUFFICES ASSUME Init PROVE ContextInv
  OBVIOUS
<1>1. Queued = {} /\ current = None
  BY EmptyElements DEF Init, DispatchInit, Queued
<1>2. \A g \in Goroutines : calling[g] = None
  BY DEF Init, DispatchInit
<1>3. Held = {None}
  BY <1>1, <1>2 DEF Held, InCalls
<1> QED BY <1>3, HttpParameters DEF Init, ContextInv

\* What Lua calls.
LEMMA ContextLua ==
  ASSUME TypeOK, ContextInv, NEW g \in Goroutines, Lua(g)
  PROVE  ContextInv'
<1>1. ASSUME NEW r \in Requests, NEW c \in {"request", "async"}, Request(g, r, c)
      PROVE  ContextInv'
  <2>1. /\ calling[g] = None
        /\ calling' = [calling EXCEPT ![g] = [call |-> c, req |-> r]]
        /\ ctx[r] = "none" /\ ctx' = [ctx EXCEPT ![r] = "live"]
        /\ UNCHANGED <<state, Queued, current>>
    BY <1>1 DEF Request, Unmade, Call, RunsLua, Queued
  <2>2. [call |-> c, req |-> r] # None
    BY HttpParameters DEF Waiting
  <2>3. InCalls' = InCalls \cup {r}
    BY <2>1, <2>2 DEF InCalls, TypeOK
  <2>4. Held' = Held \cup {r}
    BY <2>1, <2>3 DEF Held
  <2> QED BY <2>1, <2>4 DEF ContextInv, TypeOK
<1>2. CASE Answer(g)
  <2>1. /\ calling[g] # None /\ calling' = [calling EXCEPT ![g] = None]
        /\ Cancel(calling[g].req)
        /\ UNCHANGED <<state, Queued, current>>
    BY <1>2 DEF Answer, Return, Queued
  <2>2. InCalls' \subseteq InCalls /\ InCalls \subseteq InCalls' \cup {calling[g].req}
    BY <2>1 DEF InCalls, TypeOK
  <2>3. Held' \subseteq Held /\ Held \subseteq Held' \cup {calling[g].req}
    BY <2>1, <2>2 DEF Held
  <2> QED BY <2>1, <2>3 DEF ContextInv, TypeOK, Cancel
<1>3. CASE Send(g)
  <2>1. /\ calling[g] # None /\ calling' = [calling EXCEPT ![g] = None]
        /\ Queued' = Queued \cup {calling[g].req}
        /\ UNCHANGED <<state, ctx, current>>
    <3>1. EventQueue \in Seq(Requests) /\ calling[g].req \in Requests
      BY <1>3 DEF Send, TypeOK, DispatchTypeOK, Waiting
    <3>2. Range(Append(EventQueue, calling[g].req)) = Range(EventQueue) \cup {calling[g].req}
      BY <3>1, AppendElements
    <3> QED BY <1>3, <3>2 DEF Send, SendAndReturn, Queued, request
  <2>2. /\ calling[g].req \in InCalls
        /\ InCalls' \subseteq InCalls /\ InCalls \subseteq InCalls' \cup {calling[g].req}
    BY <2>1 DEF InCalls, TypeOK
  <2>3. Held' = Held
    BY <2>1, <2>2 DEF Held
  <2> QED BY <2>1, <2>3 DEF ContextInv
<1>4. ASSUME NEW r \in Requests, Refuse(g, r) PROVE ContextInv'
  <2>1. /\ ctx[r] = "none" /\ ctx'[r] = "ended" /\ UNCHANGED <<dispatch, state>>
        /\ \A q \in Requests \ {r} : ctx'[q] = ctx[q]
    BY <1>4 DEF Refuse, Unmade, TypeOK
  <2>2. Held' = Held
    BY <2>1 DEF dispatch, Held, InCalls, Queued
  <2> QED BY <2>1, <2>2 DEF ContextInv
<1> QED BY <1>1, <1>2, <1>3, <1>4 DEF Lua

\* process() between two updates moves events, and forgets none.
LEMMA QueuedKept == ASSUME TypeOK, LoopSteps PROVE Queued' = Queued
<1>1. CASE LoopReceive
  <2>1. /\ EventQueue \in Seq(Requests) /\ EventQueue # << >>
        /\ eventQueue \in Seq(Requests)
    BY <1>1 DEF LoopReceive, TypeOK, DispatchTypeOK
  <2>2. /\ Range(EventQueue) = {Head(EventQueue)} \cup Range(Tail(EventQueue))
        /\ Range(Append(eventQueue, Head(EventQueue)))
             = Range(eventQueue) \cup {Head(EventQueue)}
    BY <2>1, TailElements, AppendElements
  <2> QED BY <1>1, <2>2 DEF LoopReceive, Queued
<1>2. CASE LoopTick
  <2>1. Range(eventQueue') = Range(eventQueue)
    BY <1>2, SortedElements DEF LoopTick, TypeOK, DispatchTypeOK
  <2> QED BY <1>2, <2>1 DEF LoopTick, Queued
<1>3. CASE LoopDone
  BY <1>3 DEF LoopDone, Queued
<1>4. CASE LoopSwap
  BY <1>4, EmptyElements DEF LoopSwap, Queued
<1> QED BY <1>1, <1>2, <1>3, <1>4 DEF LoopSteps

LEMMA ContextLoop ==
  ASSUME TypeOK, Control, ContextInv, LoopSteps, UNCHANGED <<request, history>>
  PROVE  ContextInv'
<1>1. UNCHANGED <<ctx, state, current, calling>>
  BY DEF LoopSteps, LoopReceive, LoopTick, LoopSwap, LoopDone, request
<1> QED BY <1>1, QueuedKept DEF ContextInv, Held, InCalls

\* An event that is dropped is complete, and its context has ended.
LEMMA ContextPop ==
  ASSUME TypeOK, Control, ContextInv, Pop
  PROVE  ContextInv'
<1>1. /\ eventQueue \in Seq(Requests) /\ eventQueue # << >>
      /\ current = None
      /\ eventQueue' = Tail(eventQueue)
      /\ IF state[Head(eventQueue)] # "complete" THEN current' = Head(eventQueue)
                                                 ELSE current' = None
      /\ UNCHANGED <<ctx, state, EventQueue, eventSwapQueue, calling>>
  BY DEF Pop, LoopPop, TypeOK, DispatchTypeOK, Control, request
<1>2. /\ Head(eventQueue) \in Requests
      /\ Range(eventQueue) = {Head(eventQueue)} \cup Range(eventQueue')
  BY <1>1, TailElements
<1>3. InCalls' = InCalls
  BY <1>1 DEF InCalls
<1>4. CASE state[Head(eventQueue)] # "complete"
  <2>1. Held = Held' \cup {None}
    BY <1>1, <1>2, <1>3, <1>4 DEF Held, Queued
  <2> QED BY <1>1, <2>1, HttpParameters DEF ContextInv
<1>5. CASE state[Head(eventQueue)] = "complete"
  <2>1. Held = Held' \cup {Head(eventQueue)}
    BY <1>1, <1>2, <1>3, <1>5 DEF Held, Queued
  <2> QED BY <1>1, <1>2, <1>5, <2>1 DEF ContextInv
<1> QED BY <1>4, <1>5

LEMMA ContextUpdate ==
  ASSUME TypeOK, Control, ContextInv, Update \/ UpdateReturn
  PROVE  ContextInv'
<1>1. /\ current \in Requests /\ current \in Held
      /\ ctx[current] # "none"
  <2>1. loop \in {"update", "callback"}
    BY DEF Update, UpdateStart, UpdateWait, UpdateCall, UpdateReturn, RunsLua, Finish, Goto
  <2> QED BY <2>1 DEF Control, TypeOK, DispatchTypeOK, Held, ContextInv
<1>2. Range(Append(eventSwapQueue, current)) = Range(eventSwapQueue) \cup {current}
  <2>1. eventSwapQueue \in Seq(Requests)
    BY DEF TypeOK, DispatchTypeOK
  <2> QED BY <1>1, <2>1, AppendElements
<1>3. CASE UpdateStart \/ UpdateWait
  <2>1. Held' = Held \cup {None}
    BY <1>2, <1>3 DEF UpdateStart, UpdateWait, Finish, Held, InCalls, Queued
  <2>2. UNCHANGED ctx
        /\ \A r \in Requests : state'[r] = "complete" => state[r] = "complete"
    BY <1>1, <1>3 DEF UpdateStart, UpdateWait, request, TypeOK
  <2> QED BY <2>1, <2>2, HttpParameters DEF ContextInv
<1>4. CASE UpdateCall
  BY <1>4 DEF UpdateCall, Goto, ContextInv, Held, InCalls, Queued, request
<1>5. CASE UpdateReturn
  <2>1. /\ Cancel(current)
        /\ state' = [state EXCEPT ![current] = "complete"]
        /\ current' = None
        /\ UNCHANGED <<EventQueue, eventQueue, calling>>
        /\ eventSwapQueue' = eventSwapQueue
    BY <1>1, <1>5 DEF UpdateReturn, Release, Finish, LoopError, TypeOK
  <2>2. Held' \cup {current} = Held \cup {None}
    BY <2>1 DEF Held, InCalls, Queued
  <2>3. ctx'[current] = "ended"
        /\ \A r \in Requests \ {current} : ctx'[r] = ctx[r] /\ state'[r] = state[r]
    BY <1>1, <2>1 DEF Cancel, TypeOK
  <2>4. \A r \in Requests \ {current} : r \in Held' <=> r \in Held
    BY <2>2, HttpParameters
  <2> QED BY <1>1, <2>3, <2>4 DEF ContextInv
<1> QED BY <1>3, <1>4, <1>5 DEF Update

LEMMA ContextStep == TypeOK /\ Control /\ ContextInv /\ [Next]_vars => ContextInv'
<1> SUFFICES ASSUME TypeOK, Control, ContextInv, [Next]_vars PROVE ContextInv'
  OBVIOUS
<1>0. UNCHANGED dispatch => Held' = Held
  BY DEF dispatch, Held, InCalls, Queued
<1>1. ASSUME NEW r \in Requests, Expire(r) PROVE ContextInv'
  <2>1. ctx[r] = "live" /\ ctx'[r] = "ended" /\ UNCHANGED <<dispatch, state>>
        /\ \A q \in Requests \ {r} : ctx'[q] = ctx[q]
    BY <1>1 DEF Expire, TypeOK
  <2> QED BY <1>0, <2>1 DEF ContextInv
<1>2. ASSUME NEW r \in Requests, Do(r) PROVE ContextInv'
  BY <1>0, <1>2 DEF Do, ContextInv
<1>3. ASSUME NEW r \in Requests, Finalize(r) PROVE ContextInv'
  <2>1. state'[r] = "finalize" /\ UNCHANGED <<dispatch, ctx>>
        /\ \A q \in Requests \ {r} : state'[q] = state[q]
    BY <1>3 DEF Finalize, TypeOK
  <2> QED BY <1>0, <2>1 DEF ContextInv
<1>4. CASE HostSteps /\ UNCHANGED <<request, history>>
  BY <1>4 DEF HostSteps, MainReturn, Shutdown, ContextInv, Held, InCalls, Queued, request
<1>5. CASE UNCHANGED vars
  BY <1>0, <1>5 DEF vars, request, ContextInv
<1> QED BY <1>1, <1>2, <1>3, <1>4, <1>5, ContextLua, ContextLoop, ContextPop,
           ContextUpdate DEF Next

\* No way a call or an update can end leaves a context to its timeout
\* (the ctxCancelFn of module_http.go).
THEOREM NoContextLeft == Spec => []ContextsReleased
<1>1. ContextInv => ContextsReleased
  BY DEF ContextInv, ContextsReleased
<1> QED BY <1>1, ContextInit, ContextStep, TypeCorrect, PTL DEF Spec
-----------------------------------------------------------------------------
(* The life cycle of events.                                               *)

\* A request is in one place: in a call, in one of the queues, or in Update.
HeldOnce ==
  /\ \A q \in {EventQueue, eventQueue, eventSwapQueue} : IsInjective(q)
  /\ Range(EventQueue) \cap Range(eventQueue) = {}
  /\ Range(EventQueue) \cap Range(eventSwapQueue) = {}
  /\ Range(eventQueue) \cap Range(eventSwapQueue) = {}
  /\ current \notin Queued
  /\ \A g \in Goroutines : calling[g] # None => calling[g].req \notin Queued \cup {current}
  /\ \A g, h \in Goroutines :
       g # h /\ calling[g] # None /\ calling[h] # None => calling[g].req # calling[h].req

LEMMA HeldOnceInit == Init => HeldOnce
<1> SUFFICES ASSUME Init PROVE HeldOnce
  OBVIOUS
<1>1. /\ EventQueue = << >> /\ eventQueue = << >> /\ eventSwapQueue = << >>
      /\ \A g \in Goroutines : calling[g] = None
  BY DEF Init, DispatchInit
<1>2. Range(<< >>) = {} /\ IsInjective(<< >>)
  BY DEF Range, IsInjective
<1> QED BY <1>1, <1>2 DEF HeldOnce, Queued

LEMMA ElementsAreRequests ==
  ASSUME TypeOK
  PROVE  /\ Range(EventQueue) \subseteq Requests /\ Range(eventQueue) \subseteq Requests
         /\ Range(eventSwapQueue) \subseteq Requests /\ Queued \subseteq Requests
         /\ None \notin Requests
<1>1. /\ EventQueue \in Seq(Requests) /\ eventQueue \in Seq(Requests)
      /\ eventSwapQueue \in Seq(Requests)
  BY DEF TypeOK, DispatchTypeOK
<1> QED BY <1>1, RangeOfSeq, HttpParameters DEF Queued

\* A new request comes from nowhere, and goes into a call of its own.
LEMMA HeldOnceRequest ==
  ASSUME TypeOK, ContextInv, HeldOnce, NEW g \in Goroutines, NEW r \in Requests,
         NEW c \in {"request", "async"}, Request(g, r, c)
  PROVE  HeldOnce'
<1>1. /\ calling[g] = None
      /\ calling' = [calling EXCEPT ![g] = [call |-> c, req |-> r]]
      /\ r \notin Held
      /\ UNCHANGED <<EventQueue, eventQueue, eventSwapQueue, current>>
  BY DEF Request, Unmade, Call, RunsLua, ContextInv
<1>2. calling'[g].req = r /\ \A h \in Goroutines \ {g} : calling'[h] = calling[h]
  BY <1>1 DEF TypeOK
<1>3. r \notin Queued \cup {current}
      /\ \A h \in Goroutines : calling[h] # None => calling[h].req # r
  BY <1>1 DEF Held, InCalls
<1>4. \A h \in Goroutines : calling'[h] # None => calling'[h].req \notin Queued \cup {current}
  BY <1>2, <1>3 DEF HeldOnce
<1>5. \A h, k \in Goroutines : h # k /\ calling'[h] # None /\ calling'[k] # None
                                => calling'[h].req # calling'[k].req
  BY <1>2, <1>3 DEF HeldOnce
<1> QED BY <1>1, <1>4, <1>5 DEF HeldOnce, Queued

\* The channel takes the event of a call, which is over.
LEMMA HeldOnceSend ==
  ASSUME TypeOK, HeldOnce, NEW g \in Goroutines, Send(g)
  PROVE  /\ HeldOnce'
         /\ calling[g].req \in Requests
         /\ calling[g].req \notin Queued \cup {current}
         /\ Queued' = Queued \cup {calling[g].req}
<1> DEFINE e == calling[g].req
<1>1. /\ calling[g] # None /\ e \in Requests
      /\ EventQueue' = Append(EventQueue, e)
      /\ calling' = [calling EXCEPT ![g] = None]
      /\ UNCHANGED <<eventQueue, eventSwapQueue, current>>
  BY DEF Send, SendAndReturn, TypeOK, Waiting
<1>2. e \notin Queued \cup {current}
  BY <1>1 DEF HeldOnce
<1>3. EventQueue \in Seq(Requests) /\ IsInjective(EventQueue) /\ e \notin Range(EventQueue)
  BY <1>2 DEF TypeOK, DispatchTypeOK, HeldOnce, Queued
<1>4. Range(EventQueue') = Range(EventQueue) \cup {e} /\ IsInjective(EventQueue')
  BY <1>1, <1>3, AppendElements
<1>5. \A h \in Goroutines : calling'[h] # None => h # g /\ calling'[h] = calling[h]
  BY <1>1 DEF TypeOK
<1>6. \A h \in Goroutines : h # g /\ calling[h] # None => calling[h].req # e
  BY <1>1 DEF HeldOnce
<1> HIDE DEF e
<1>7. Queued' = Queued \cup {e}
  BY <1>1, <1>4 DEF Queued
<1>8. \A h \in Goroutines : calling'[h] # None
                              => calling'[h].req \notin Queued' \cup {current'}
  BY <1>1, <1>5, <1>6, <1>7 DEF HeldOnce
<1>9. \A h, k \in Goroutines : h # k /\ calling'[h] # None /\ calling'[k] # None
                                => calling'[h].req # calling'[k].req
  BY <1>5 DEF HeldOnce
<1>10. HeldOnce'
  BY <1>1, <1>2, <1>4, <1>7, <1>8, <1>9 DEF HeldOnce, Queued
<1> QED BY <1>1, <1>2, <1>7, <1>10 DEF e

\* process() moves events from queue to queue.
LEMMA HeldOnceLoop == ASSUME TypeOK, Control, HeldOnce, LoopSteps PROVE HeldOnce'
<1>0. UNCHANGED <<current, calling>>
  BY DEF LoopSteps, LoopReceive, LoopTick, LoopSwap, LoopDone
<1>1. CASE LoopReceive
  <2> DEFINE e == Head(EventQueue)
  <2>1. /\ EventQueue \in Seq(Requests) /\ EventQueue # << >> /\ eventQueue \in Seq(Requests)
        /\ IsInjective(EventQueue) /\ IsInjective(eventQueue)
        /\ EventQueue' = Tail(EventQueue) /\ eventQueue' = Append(eventQueue, e)
        /\ UNCHANGED eventSwapQueue
    BY <1>1 DEF LoopReceive, TypeOK, DispatchTypeOK, HeldOnce
  <2>2. /\ e \in Requests /\ Range(EventQueue) = {e} \cup Range(EventQueue')
        /\ IsInjective(EventQueue') /\ e \notin Range(EventQueue')
    BY <2>1, TailElements
  <2>3. e \notin Range(eventQueue)
    BY <2>2 DEF HeldOnce
  <2> HIDE DEF e
  <2>4. Range(eventQueue') = Range(eventQueue) \cup {e} /\ IsInjective(eventQueue')
    BY <2>1, <2>2, <2>3, AppendElements
  <2>5. Queued' = Queued
    BY <2>1, <2>2, <2>4 DEF Queued
  <2> QED BY <1>0, <2>1, <2>2, <2>4, <2>5 DEF HeldOnce
<1>2. CASE LoopTick
  <2>1. eventQueue \in Seq(Requests) /\ IsInjective(eventQueue)
        /\ eventQueue' \in Sorted(eventQueue) /\ UNCHANGED <<EventQueue, eventSwapQueue>>
    BY <1>2 DEF LoopTick, TypeOK, DispatchTypeOK, HeldOnce
  <2>2. Range(eventQueue') = Range(eventQueue) /\ IsInjective(eventQueue')
    BY <2>1, SortedElements
  <2> QED BY <1>0, <2>1, <2>2 DEF HeldOnce, Queued
<1>3. CASE LoopDone
  BY <1>0, <1>3 DEF LoopDone, HeldOnce, Queued
<1>4. CASE LoopSwap
  <2>1. /\ eventQueue = << >> /\ eventQueue' = eventSwapQueue /\ eventSwapQueue' = << >>
        /\ UNCHANGED EventQueue
    BY <1>4 DEF LoopSwap
  <2>2. Range(<< >>) = {} /\ IsInjective(<< >>)
    BY DEF Range, IsInjective
  <2>3. Queued' = Queued
    BY <2>1, <2>2 DEF Queued
  <2> QED BY <1>0, <2>1, <2>2, <2>3 DEF HeldOnce
<1> QED BY <1>1, <1>2, <1>3, <1>4 DEF LoopSteps

\* process() takes the first event, and drops it when it is complete.
LEMMA PopEffect ==
  ASSUME TypeOK, Control, HeldOnce, Pop
  PROVE  /\ HeldOnce'
         /\ UNCHANGED <<state, calling>> /\ current = None /\ loop # "closed" /\ loop' # "closed"
         /\ \E e \in Requests : /\ e \in Queued /\ Queued' = Queued \ {e}
                                /\ current' = IF Valid(e) THEN e ELSE None
<1> DEFINE e == Head(eventQueue)
<1>1. /\ eventQueue \in Seq(Requests) /\ eventQueue # << >> /\ IsInjective(eventQueue)
      /\ eventQueue' = Tail(eventQueue) /\ current = None /\ loop = "drain"
      /\ current' = (IF Valid(e) THEN e ELSE None)
      /\ loop' = (IF Valid(e) THEN "update" ELSE "drain")
      /\ UNCHANGED <<EventQueue, eventSwapQueue, state, calling>>
  BY DEF Pop, LoopPop, Valid, TypeOK, DispatchTypeOK, Control, HeldOnce, request
<1>2. /\ e \in Requests /\ Range(eventQueue) = {e} \cup Range(eventQueue')
      /\ IsInjective(eventQueue') /\ e \notin Range(eventQueue')
  BY <1>1, TailElements
<1> HIDE DEF e
<1>3. e \in Queued /\ Queued' = Queued \ {e}
  BY <1>1, <1>2 DEF Queued, HeldOnce
<1>4. \A g \in Goroutines : calling[g] # None => calling[g].req \notin Queued
  BY DEF HeldOnce
<1>5. None \notin Queued
  BY ElementsAreRequests
<1>6. \A g \in Goroutines : calling[g] # None => calling[g].req # None
  BY <1>1 DEF HeldOnce
<1>7. \A g \in Goroutines : calling'[g] # None
                              => calling'[g].req \notin Queued' \cup {current'}
  BY <1>1, <1>3, <1>4, <1>6
<1>8. current' \notin Queued'
  BY <1>1, <1>3, <1>5
<1>9. HeldOnce'
  BY <1>1, <1>2, <1>7, <1>8 DEF HeldOnce
<1> QED BY <1>1, <1>2, <1>3, <1>9

\* Update returns: the event goes to the swap queue or nowhere.
LEMMA FinishEffect ==
  ASSUME TypeOK, HeldOnce, current \in Requests, NEW from, NEW keep \in BOOLEAN,
         Finish(from, keep)
  PROVE  /\ HeldOnce' /\ current' = None /\ loop' # "closed"
         /\ Queued' = IF keep THEN Queued \cup {current} ELSE Queued
<1>1. /\ eventSwapQueue \in Seq(Requests) /\ IsInjective(eventSwapQueue)
      /\ current \notin Range(eventSwapQueue)
  BY DEF TypeOK, DispatchTypeOK, HeldOnce, Queued
<1>2. /\ Range(Append(eventSwapQueue, current)) = Range(eventSwapQueue) \cup {current}
      /\ IsInjective(Append(eventSwapQueue, current))
  BY <1>1, AppendElements
<1>3. /\ current' = None /\ loop' # "closed"
      /\ eventSwapQueue' = IF keep THEN Append(eventSwapQueue, current) ELSE eventSwapQueue
      /\ UNCHANGED <<EventQueue, eventQueue, calling>>
  BY DEF Finish
<1>4. Queued' = IF keep THEN Queued \cup {current} ELSE Queued
  BY <1>2, <1>3 DEF Queued
<1>5. None \notin Queued' /\ \A g \in Goroutines : calling[g] # None => calling[g].req # None
  BY <1>4, ElementsAreRequests DEF TypeOK, Waiting
<1>6. \A g \in Goroutines : calling'[g] # None
                              => calling'[g].req \notin Queued' \cup {current'}
  BY <1>3, <1>4, <1>5 DEF HeldOnce
<1>7. IsInjective(eventSwapQueue')
  BY <1>1, <1>2, <1>3
<1>8. /\ Range(EventQueue') \cap Range(eventSwapQueue') = {}
      /\ Range(eventQueue') \cap Range(eventSwapQueue') = {}
  BY <1>2, <1>3 DEF HeldOnce, Queued
<1>9. HeldOnce'
  BY <1>3, <1>5, <1>6, <1>7, <1>8 DEF HeldOnce
<1> QED BY <1>3, <1>4, <1>9

\* The event of a failing function is in no queue any more.
LEMMA ErrorEffect ==
  ASSUME TypeOK, HeldOnce, LoopError
  PROVE  HeldOnce' /\ Queued' = Queued /\ current' = None /\ loop # "closed" /\ loop' = "closed"
<1>1. /\ current' = None /\ loop = "callback" /\ loop' = "closed"
      /\ UNCHANGED <<EventQueue, eventQueue, eventSwapQueue, calling>>
  BY DEF LoopError, RunsLua
<1>2. Queued' = Queued /\ None \notin Queued
      /\ \A g \in Goroutines : calling[g] # None => calling[g].req # None
  BY <1>1, ElementsAreRequests DEF Queued, TypeOK, Waiting
<1> QED BY <1>1, <1>2 DEF HeldOnce

\* Where Update is, there is an event.
LEMMA UpdateCurrent ==
  ASSUME TypeOK, Control, Update \/ UpdateReturn
  PROVE  current \in Requests /\ loop # "closed"
<1>1. loop \in {"update", "callback"}
  BY DEF Update, UpdateStart, UpdateWait, UpdateCall, UpdateReturn, RunsLua, Finish, Goto
<1> QED BY <1>1 DEF Control, TypeOK, DispatchTypeOK

\* The end of Update, in its three forms.
LEMMA ReturnEffect ==
  ASSUME TypeOK, Control, UpdateReturn
  PROVE  /\ state' = [state EXCEPT ![current] = "complete"]
         /\ Finish("callback", FALSE) \/ LoopError
<1>1. current \in Requests
  BY UpdateCurrent
<1>2. state' = [state EXCEPT ![current] = "complete"]
      /\ (Finish("callback", state'[current] # "complete") \/ LoopError)
  BY DEF UpdateReturn, Release
<1>3. state'[current] = "complete"
  BY <1>1, <1>2 DEF TypeOK
<1>4. (state'[current] # "complete") = FALSE
  BY <1>3
<1> QED BY <1>2, <1>4

LEMMA HeldOnceStep == TypeOK /\ Control /\ ContextInv /\ HeldOnce /\ [Next]_vars => HeldOnce'
<1> SUFFICES ASSUME TypeOK, Control, ContextInv, HeldOnce, [Next]_vars PROVE HeldOnce'
  OBVIOUS
<1>1. ASSUME UNCHANGED <<EventQueue, eventQueue, eventSwapQueue, current>>,
             \A g \in Goroutines : calling'[g] # None => calling'[g] = calling[g]
      PROVE  HeldOnce'
  BY <1>1 DEF HeldOnce, Queued
<1>2. ASSUME NEW g \in Goroutines, Answer(g) PROVE HeldOnce'
  <2>1. /\ UNCHANGED <<EventQueue, eventQueue, eventSwapQueue, current>>
        /\ calling' = [calling EXCEPT ![g] = None]
    BY <1>2 DEF Answer, Return
  <2>2. \A h \in Goroutines : calling'[h] # None => calling'[h] = calling[h]
    BY <2>1 DEF TypeOK
  <2> QED BY <1>1, <2>1, <2>2
<1>12. ASSUME NEW g \in Goroutines, NEW r \in Requests, Refuse(g, r) PROVE HeldOnce'
  BY <1>1, <1>12 DEF Refuse, dispatch
<1>3. ASSUME NEW g \in Goroutines, Lua(g) PROVE HeldOnce'
  BY <1>2, <1>3, <1>12, HeldOnceRequest, HeldOnceSend DEF Lua
<1>4. ASSUME NEW r \in Requests, Expire(r) \/ Do(r) \/ Finalize(r) PROVE HeldOnce'
  BY <1>1, <1>4 DEF Expire, Do, Finalize, dispatch
<1>5. CASE Pop
  BY <1>5, PopEffect
<1>6. CASE UpdateStart \/ UpdateWait
  BY <1>6, UpdateCurrent, FinishEffect DEF Update, UpdateStart, UpdateWait
<1>7. CASE UpdateCall
  BY <1>1, <1>7 DEF UpdateCall, Goto
<1>8. CASE UpdateReturn
  BY <1>8, UpdateCurrent, ReturnEffect, FinishEffect, ErrorEffect
<1>9. CASE LoopSteps
  BY <1>9, HeldOnceLoop
<1>10. CASE HostSteps
  BY <1>1, <1>10 DEF HostSteps, MainReturn, Shutdown
<1>11. CASE UNCHANGED vars
  BY <1>1, <1>11 DEF vars, dispatch
<1> QED BY <1>3, <1>4, <1>5, <1>6, <1>7, <1>8, <1>9, <1>10, <1>11 DEF Next, Update

\* The event of a request that Lua waits in is not complete.
Fresh == \A g \in Goroutines : calling[g] # None => Valid(calling[g].req)

\* A step that ends no Update completes no event, and leaves none complete.
LEMMA ValidityKept ==
  ASSUME TypeOK, Control, AnswerStored, [Next]_vars, ~UpdateReturn
  PROVE  \A r \in Requests : Valid(r)' <=> Valid(r)
<1>1. ASSUME UNCHANGED state PROVE \A r \in Requests : Valid(r)' <=> Valid(r)
  BY <1>1 DEF Valid
<1>2. ASSUME NEW g \in Goroutines, Lua(g) PROVE UNCHANGED state
  BY <1>2 DEF Lua, Request, Answer, Refuse, Send, request
<1>3. ASSUME NEW r \in Requests, Expire(r) \/ Do(r) PROVE UNCHANGED state
  BY <1>3 DEF Expire, Do
<1>4. ASSUME NEW q \in Requests, state[q] # "complete", NEW s, s # "complete",
             state' = [state EXCEPT ![q] = s]
      PROVE  \A r \in Requests : Valid(r)' <=> Valid(r)
  <2>1. state'[q] = s /\ \A r \in Requests \ {q} : state'[r] = state[r]
    BY <1>4 DEF TypeOK
  <2> QED BY <1>4, <2>1 DEF Valid
<1>5. ASSUME NEW r \in Requests, Finalize(r)
      PROVE  state[r] # "complete" /\ state' = [state EXCEPT ![r] = "finalize"]
  BY <1>5 DEF Finalize, AnswerStored
<1>6. ASSUME UpdateStart
      PROVE  /\ current \in Requests /\ state[current] # "complete"
             /\ state' = [state EXCEPT ![current] = "progress"]
  BY <1>6, UpdateCurrent DEF Update, UpdateStart
<1>7. ASSUME Pop \/ UpdateWait \/ UpdateCall \/ UNCHANGED vars
             \/ ((LoopSteps \/ HostSteps) /\ UNCHANGED <<request, history>>)
      PROVE  UNCHANGED state
  BY <1>7 DEF Pop, UpdateWait, UpdateCall, vars, request
<1> QED BY <1>1, <1>2, <1>3, <1>4, <1>5, <1>6, <1>7 DEF Next, Update

\* UpdateReturn completes the event it is of.
LEMMA ReturnValidity ==
  ASSUME TypeOK, Control, UpdateReturn
  PROVE  \A r \in Requests \ {current} : Valid(r)' <=> Valid(r)
<1>1. \A r \in Requests \ {current} : state'[r] = state[r]
  BY ReturnEffect DEF TypeOK
<1> QED BY <1>1 DEF Valid

LEMMA FreshStep ==
  TypeOK /\ Control /\ AnswerStored /\ ContextInv /\ HeldOnce /\ Fresh /\ [Next]_vars => Fresh'
<1> SUFFICES ASSUME TypeOK, Control, AnswerStored, ContextInv, HeldOnce, Fresh, [Next]_vars
             PROVE  Fresh'
  OBVIOUS
<1>1. \A g \in Goroutines : calling[g] # None => calling[g].req \in Requests
  BY DEF TypeOK, Waiting
<1>2. ASSUME \A g \in Goroutines : calling'[g] # None => calling'[g] = calling[g], ~UpdateReturn
      PROVE  Fresh'
  BY <1>1, <1>2, ValidityKept DEF Fresh, Valid
<1>3. CASE UpdateReturn
  <2>1. UNCHANGED calling /\ \A g \in Goroutines : calling[g] # None => calling[g].req # current
    BY <1>3, ReturnEffect DEF Finish, LoopError, HeldOnce
  <2> QED BY <1>1, <1>3, <2>1, ReturnValidity DEF Fresh, Valid
<1>4. ASSUME NEW g \in Goroutines, NEW r \in Requests, NEW c \in {"request", "async"},
             Request(g, r, c), ~UpdateReturn
      PROVE  Fresh'
  <2>1. /\ calling' = [calling EXCEPT ![g] = [call |-> c, req |-> r]]
        /\ state[r] # "complete" /\ UNCHANGED state
    BY <1>4 DEF Request, Unmade, Call, ContextInv
  <2>2. calling'[g].req = r /\ \A h \in Goroutines \ {g} : calling'[h] = calling[h]
    BY <2>1 DEF TypeOK
  <2> QED BY <2>1, <2>2 DEF Fresh, Valid
<1>5. ASSUME NEW g \in Goroutines,
             Answer(g) \/ Send(g) \/ \E r \in Requests : Refuse(g, r)
      PROVE  \A h \in Goroutines : calling'[h] # None => calling'[h] = calling[h]
  BY <1>5 DEF Answer, Return, Refuse, Send, SendAndReturn, TypeOK, dispatch
<1>6. ASSUME NEW r \in Requests, Expire(r) \/ Do(r) \/ Finalize(r) PROVE UNCHANGED calling
  BY <1>6 DEF Expire, Do, Finalize, dispatch
<1>7. ASSUME Pop \/ Update \/ LoopSteps \/ HostSteps \/ UNCHANGED vars PROVE UNCHANGED calling
  BY <1>7 DEF Pop, LoopPop, Update, UpdateStart, UpdateWait, UpdateCall, Finish, Goto, LoopSteps,
     LoopReceive, LoopTick, LoopSwap, LoopDone, HostSteps, MainReturn, Shutdown, vars, dispatch
<1> QED BY <1>2, <1>3, <1>4, <1>5, <1>6, <1>7 DEF Next, Lua

\* What the life cycle is about: events that wait or run.
Alive == Queued \cup ({current} \ {None})

\* Nothing changes for the life cycle when the same events wait and run, and
\* the same of them are complete.
LEMMA Stutters ==
  ASSUME Queued' = Queued, current' = current, loop' = "closed" <=> loop = "closed",
         \A r \in Alive : Valid(r)' <=> Valid(r)
  PROVE  UNCHANGED Lifecycle!vars
<1>1. [r \in Requests |-> Stage(r)]' = [r \in Requests |-> Stage(r)]
  BY DEF Stage
<1>2. {r \in Alive : ~Valid(r)}' = {r \in Alive : ~Valid(r)}
  BY DEF Alive
<1> QED BY <1>1, <1>2 DEF Lifecycle!vars, Alive

\* The channel takes an event.
LEMMA Accepts ==
  ASSUME NEW r \in Requests, r \notin Queued, r # current,
         Queued' = Queued \cup {r}, current' = current, loop' = loop,
         Valid(r)', \A q \in Alive : Valid(q)' <=> Valid(q)
  PROVE  Lifecycle!Accept(r)
<1>1. Stage(r) = "idle" /\ Stage(r)' = "pending"
  BY DEF Stage
<1>2. \A q \in Requests \ {r} : Stage(q)' = Stage(q)
  BY DEF Stage
<1>3. [q \in Requests |-> Stage(q)]' = [[q \in Requests |-> Stage(q)] EXCEPT ![r] = "pending"]
  BY <1>1, <1>2
<1>4. {q \in Alive : ~Valid(q)}' = {q \in Alive : ~Valid(q)}
  <2>1. Alive' = Alive \cup {r}
    BY DEF Alive
  <2> QED BY <2>1
<1> QED BY <1>1, <1>3, <1>4 DEF Lifecycle!Accept, Alive

\* process() pops an event: Update begins, or the event is dropped.
LEMMA Pops ==
  ASSUME NEW r \in Requests, r \in Queued, Queued' = Queued \ {r}, current = None,
         None \notin Requests, current' = IF Valid(r) THEN r ELSE None,
         loop # "closed", loop' # "closed", \A q \in Alive : Valid(q)' <=> Valid(q)
  PROVE  Lifecycle!Begin(r) \/ Lifecycle!Discard(r)
<1>1. Stage(r) = "pending" /\ \A q \in Requests : Stage(q) # "running"
  BY DEF Stage
<1>2. \A q \in Requests \ {r} : Stage(q)' = Stage(q)
  BY DEF Stage
<1>3. CASE Valid(r)
  <2>1. Stage(r)' = "running"
    BY <1>3 DEF Stage
  <2>2. [q \in Requests |-> Stage(q)]' = [[q \in Requests |-> Stage(q)] EXCEPT ![r] = "running"]
    BY <1>2, <2>1
  <2>3. Alive' = Alive
    BY <1>3 DEF Alive
  <2>4. {q \in Alive : ~Valid(q)}' = {q \in Alive : ~Valid(q)}
    BY <2>3
  <2>5. Lifecycle!Begin(r)
    BY <1>1, <1>3, <2>2, <2>4 DEF Lifecycle!Begin, Alive
  <2> QED BY <2>5
<1>4. CASE ~Valid(r)
  <2>1. Stage(r)' = "idle"
    BY <1>4 DEF Stage
  <2>2. [q \in Requests |-> Stage(q)]' = [[q \in Requests |-> Stage(q)] EXCEPT ![r] = "idle"]
    BY <1>2, <2>1
  <2>3. Alive' = Alive \ {r}
    BY <1>4 DEF Alive
  <2>4. {q \in Alive : ~Valid(q)}' = {q \in Alive : ~Valid(q)} \ {r}
    BY <2>3
  <2>5. Lifecycle!Discard(r)
    BY <1>1, <1>4, <2>2, <2>4 DEF Lifecycle!Discard, Alive
  <2> QED BY <2>5
<1> QED BY <1>3, <1>4

\* Update goes on with the event another time.
LEMMA Requeues ==
  ASSUME NEW r \in Requests, r = current, r \notin Queued, None \notin Requests,
         Queued' = Queued \cup {r}, current' = None, loop # "closed", loop' # "closed",
         Valid(r), \A q \in Alive : Valid(q)' <=> Valid(q)
  PROVE  Lifecycle!Requeue(r)
<1>1. Stage(r) = "running" /\ Stage(r)' = "pending"
  BY DEF Stage
<1>2. \A q \in Requests \ {r} : Stage(q)' = Stage(q)
  BY DEF Stage
<1>3. [q \in Requests |-> Stage(q)]' = [[q \in Requests |-> Stage(q)] EXCEPT ![r] = "pending"]
  BY <1>1, <1>2
<1>4. Alive' = Alive
  BY DEF Alive
<1>5. {q \in Alive : ~Valid(q)}' = {q \in Alive : ~Valid(q)}
  BY <1>4
<1> QED BY <1>1, <1>3, <1>5 DEF Lifecycle!Requeue, Alive

\* The event is done with, and its function returned.
LEMMA Retires ==
  ASSUME NEW r \in Requests, r = current, r \notin Queued, None \notin Requests,
         Queued' = Queued, current' = None, loop # "closed", loop' # "closed",
         \A q \in Queued : Valid(q)' <=> Valid(q)
  PROVE  Lifecycle!Retire(r)
<1>1. Stage(r) = "running" /\ Stage(r)' = "idle"
  BY DEF Stage
<1>2. \A q \in Requests \ {r} : Stage(q)' = Stage(q)
  BY DEF Stage
<1>3. [q \in Requests |-> Stage(q)]' = [[q \in Requests |-> Stage(q)] EXCEPT ![r] = "idle"]
  BY <1>1, <1>2
<1>4. Alive = Queued \cup {r} /\ Alive' = Queued
  BY DEF Alive
<1>5. {q \in Alive : ~Valid(q)}' = {q \in Alive : ~Valid(q)} \ {r}
  BY <1>4
<1> QED BY <1>1, <1>3, <1>5 DEF Lifecycle!Retire, Alive

\* process() leaves its loop, with the event whose function failed if there is one.
LEMMA Closes ==
  ASSUME Queued' = Queued, current' = None, None \notin Requests,
         current \in Requests \cup {None}, current \notin Queued, Queued \subseteq Requests,
         loop # "closed", loop' = "closed", \A q \in Queued : Valid(q)' <=> Valid(q)
  PROVE  Lifecycle!Close
<1>1. \A r \in Requests : Stage(r)' = IF Stage(r) = "running" THEN "idle" ELSE Stage(r)
  BY DEF Stage
<1>2. [r \in Requests |-> Stage(r)]'
        = [r \in Requests |-> IF [q \in Requests |-> Stage(q)][r] = "running"
                              THEN "idle" ELSE [q \in Requests |-> Stage(q)][r]]
  BY <1>1
<1>3. {r \in Requests : [q \in Requests |-> Stage(q)][r] = "running"} = {current} \ {None}
  BY DEF Stage
<1>4. {r \in Alive : ~Valid(r)}' = {r \in Alive : ~Valid(r)} \ ({current} \ {None})
  <2>1. Alive' = Queued
    BY DEF Alive
  <2> QED BY <2>1 DEF Alive
<1> QED BY <1>2, <1>3, <1>4 DEF Lifecycle!Close, Alive

LEMMA LifecycleStep ==
  TypeOK /\ Control /\ AnswerStored /\ HeldOnce /\ Fresh /\ [Next]_vars
    => [Lifecycle!Next]_(Lifecycle!vars)
<1> SUFFICES ASSUME TypeOK, Control, AnswerStored, HeldOnce, Fresh, [Next]_vars
             PROVE  Lifecycle!Next \/ UNCHANGED Lifecycle!vars
  OBVIOUS
<1>0. /\ None \notin Requests /\ Queued \subseteq Requests /\ Alive \subseteq Requests
      /\ current \in Requests \cup {None} /\ current \notin Queued
  BY ElementsAreRequests DEF Alive, TypeOK, DispatchTypeOK, HeldOnce
<1>1. ASSUME ~UpdateReturn
      PROVE  \A r \in Alive : Valid(r)' <=> Valid(r)
  BY <1>0, <1>1, ValidityKept
<1>2. CASE UpdateReturn
  <2>1. current \in Requests /\ loop # "closed"
    BY <1>2, UpdateCurrent
  <2>2. \A r \in Queued : Valid(r)' <=> Valid(r)
    BY <1>0, <1>2, ReturnValidity
  <2>3. CASE Finish("callback", FALSE)
    <3>1. Queued' = Queued /\ current' = None /\ loop' # "closed"
      BY <2>1, <2>3, FinishEffect
    <3>2. Lifecycle!Retire(current)
      BY <1>0, <2>1, <2>2, <3>1, Retires
    <3> QED BY <2>1, <3>2 DEF Lifecycle!Next
  <2>4. CASE LoopError
    <3>1. Queued' = Queued /\ current' = None /\ loop' = "closed"
      BY <2>4, ErrorEffect
    <3>2. Lifecycle!Close
      BY <1>0, <2>1, <2>2, <3>1, Closes
    <3> QED BY <3>2 DEF Lifecycle!Next
  <2> QED BY <1>2, <2>3, <2>4, ReturnEffect
<1>3. ASSUME UNCHANGED <<Queued, current>>, loop' = "closed" <=> loop = "closed", ~UpdateReturn
      PROVE  UNCHANGED Lifecycle!vars
  BY <1>1, <1>3, Stutters
<1>4. ASSUME NEW g \in Goroutines, Send(g), ~UpdateReturn PROVE Lifecycle!Next
  <2>1. PICK r \in Requests : r = calling[g].req
    BY <1>4, HeldOnceSend
  <2>2. /\ r \notin Queued /\ r # current /\ Queued' = Queued \cup {r}
    BY <1>4, <2>1, HeldOnceSend
  <2>3. current' = current /\ loop' = loop /\ Valid(r)
    BY <1>4, <2>1 DEF Send, SendAndReturn, Fresh
  <2>4. Valid(r)'
    BY <1>4, <2>3, ValidityKept
  <2>5. Lifecycle!Accept(r)
    BY <1>1, <1>4, <2>2, <2>3, <2>4, Accepts
  <2> QED BY <2>5 DEF Lifecycle!Next
<1>5. ASSUME Pop, ~UpdateReturn PROVE Lifecycle!Next
  <2>1. PICK r \in Requests : /\ r \in Queued /\ Queued' = Queued \ {r}
                              /\ current' = IF Valid(r) THEN r ELSE None
    BY <1>5, PopEffect
  <2>2. current = None /\ loop # "closed" /\ loop' # "closed"
    BY <1>5, PopEffect
  <2>3. Lifecycle!Begin(r) \/ Lifecycle!Discard(r)
    BY <1>0, <1>1, <1>5, <2>1, <2>2, Pops
  <2> QED BY <2>3 DEF Lifecycle!Next
<1>6. ASSUME UpdateStart \/ UpdateWait, ~UpdateReturn PROVE Lifecycle!Next
  <2>1. /\ current \in Requests /\ loop # "closed" /\ Finish("update", TRUE) /\ Valid(current)
    BY <1>6, UpdateCurrent DEF Update, UpdateStart, UpdateWait, Valid
  <2>2. Queued' = Queued \cup {current} /\ current' = None /\ loop' # "closed"
    BY <2>1, FinishEffect
  <2>3. Lifecycle!Requeue(current)
    BY <1>0, <1>1, <1>6, <2>1, <2>2, Requeues
  <2> QED BY <2>1, <2>3 DEF Lifecycle!Next
<1>7. ASSUME LoopDone, ~UpdateReturn PROVE Lifecycle!Next
  <2>1. /\ Queued' = Queued /\ current = None /\ current' = None
        /\ loop # "closed" /\ loop' = "closed"
    BY <1>7 DEF LoopDone, Queued, Control
  <2>2. \A r \in Queued : Valid(r)' <=> Valid(r)
    BY <1>0, <1>7, ValidityKept
  <2>3. Lifecycle!Close
    BY <1>0, <2>1, <2>2, Closes
  <2> QED BY <2>3 DEF Lifecycle!Next
<1>8. ASSUME LoopReceive \/ LoopTick \/ LoopSwap
      PROVE  UNCHANGED <<Queued, current>> /\ (loop' = "closed" <=> loop = "closed")
  <2>1. Queued' = Queued
    BY <1>8, QueuedKept DEF LoopSteps
  <2> QED BY <1>8, <2>1 DEF LoopReceive, LoopTick, LoopSwap
<1>9. ASSUME NEW g \in Goroutines,
             \/ Answer(g)
             \/ \E r \in Requests : Refuse(g, r)
             \/ \E r \in Requests, c \in {"request", "async"} : Request(g, r, c)
      PROVE  UNCHANGED <<Queued, current, loop>>
  BY <1>9 DEF Answer, Return, Refuse, Request, Call, Queued, dispatch
<1>10. ASSUME NEW r \in Requests, Expire(r) \/ Do(r) \/ Finalize(r)
       PROVE  UNCHANGED <<Queued, current, loop>>
  BY <1>10 DEF Expire, Do, Finalize, dispatch, Queued
<1>11. ASSUME UpdateCall
       PROVE  UNCHANGED <<Queued, current>> /\ (loop' = "closed" <=> loop = "closed")
  BY <1>11 DEF UpdateCall, Goto, Queued
<1>12. ASSUME HostSteps \/ UNCHANGED vars PROVE UNCHANGED <<Queued, current, loop>>
  BY <1>12 DEF HostSteps, MainReturn, Shutdown, vars, dispatch, Queued
<1> HIDE DEF Alive
<1> QED BY <1>2, <1>3, <1>4, <1>5, <1>6, <1>7, <1>8, <1>9, <1>10, <1>11, <1>12
        DEF Next, Lua, Update, LoopSteps

\* The events of request_async implement the life cycle of events: what a
\* runtime promises of an event holds of a request from the channel on, with
\* its goroutine, its timeout and a function that fails (module_http.go).
THEOREM RequestsAreEvents == Spec => ImplementsLifecycle
<1>1. Init => Lifecycle!Init
  <2> SUFFICES ASSUME Init PROVE Lifecycle!Init
    OBVIOUS
  <2>1. Queued = {} /\ current = None /\ loop # "closed"
    BY EmptyElements DEF Init, DispatchInit, Queued
  <2>2. \A r \in Requests : Stage(r) = "idle"
    BY <2>1, HttpParameters DEF Stage
  <2>3. [r \in Requests |-> Stage(r)] = [r \in Requests |-> "idle"]
    BY <2>2
  <2> QED BY <2>1, <2>3 DEF Lifecycle!Init
<1>2. Init => Fresh
  BY DEF Init, DispatchInit, Fresh
<1>3. CallInv => AnswerStored
  BY DEF CallInv
<1> QED BY <1>1, <1>2, <1>3, FreshStep, LifecycleStep, HeldOnceInit, HeldOnceStep, ContextInit,
           ContextStep, CallInit, CallStep, TypeCorrect, PTL DEF Spec, ImplementsLifecycle, Lifecycle!Spec
=============================================================================
