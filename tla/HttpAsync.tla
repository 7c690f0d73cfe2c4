----------------------------- MODULE HttpAsync -----------------------------
(***************************************************************************)
(* HTTP requests of a runtime: request, which makes Lua wait, and          *)
(* request_async, whose event starts a goroutine, waits in the event loop  *)
(* for its answer and calls a Lua function with it (module_http.go).       *)
(***************************************************************************)
EXTENDS Dispatch

CONSTANT Requests  \* calls of request and request_async, by number as they are made

\* The calls Lua may wait in.
Waiting == [call : {"request", "async"}, req : Requests]

ASSUME HttpParameters == Requests \subseteq Nat /\ None \notin Requests \cup Waiting

VARIABLES ctx,     \* the context of each request
          state,   \* StateEvent.value of its event
          worker,  \* where its goroutine is
          resp,    \* e.resp is set
          err,     \* e.err is set
          passed,  \* history: what the function was called with
          calls    \* history: how often it was called

request == <<ctx, state, worker, resp, err>>
history == <<passed, calls>>
vars == <<dispatch, request, history>>

-----------------------------------------------------------------------------
\* A request is in a call, or its event is in the loop.
InCalls == {calling[g].req : g \in {h \in Goroutines : calling[h] # None}}
Held == Queued \cup {current} \cup InCalls

\* Fault: the call does not look at the timeout.
EndedWithRuntime(r) == ctxDone

\* The context of a request: context.WithTimeout(l.Context(), ...).
Ended(r) == ctx[r] = "ended" \/ ctxDone

\* ctxCancelFn(), which a context that has expired does not notice.
Cancel(r) == ctx' = [ctx EXCEPT ![r] = "ended"]

\* The loop that reads the answer runs while headers # nil.
Reads(headers) == headers # "nil"

\* What the function is called with; headers is nil where the loop begins.
Passed(r) == [code |-> IF resp[r] THEN "status" ELSE "bad gateway",
              text |-> CASE err[r] -> "error"
                         [] ~err[r] /\ Reads("nil") -> "body"
                         [] OTHER -> "nothing"]

\* The next call to be made.
Unmade(r) == ctx[r] = "none" /\ \A q \in Requests : q < r => ctx[q] # "none"

-----------------------------------------------------------------------------
Init == /\ DispatchInit
        /\ ctx = [r \in Requests |-> "none"]
        /\ state = [r \in Requests |-> "initialize"]
        /\ worker = [r \in Requests |-> "off"]
        /\ resp = [r \in Requests |-> FALSE]
        /\ err = [r \in Requests |-> FALSE]
        /\ passed = [r \in Requests |-> None]
        /\ calls = [r \in Requests |-> 0]

\* Both calls make the context first. request goes on to wait for its answer,
\* request_async, past the checks of Refuse, to send its event.
Request(g, r, call) ==
  /\ Call(g, [call |-> call, req |-> r])
  /\ Unmade(r)
  /\ ctx' = [ctx EXCEPT ![r] = "live"]
  /\ UNCHANGED <<state, worker, resp, err, history>>

\* request returns: with its answer, or with the error of the request, of a
\* header, of the call or of the body. The deferred ctxCancelFn() runs.
Answer(g) == /\ calling[g] # None /\ calling[g].call = "request"
             /\ Return(g)
             /\ Cancel(calling[g].req)
             /\ UNCHANGED <<state, worker, resp, err, history>>

\* request_async made a context, and then could not make the request, or found
\* a header that is not a string.
Refuse(g, r) == /\ RunsLua(g)
                /\ Unmade(r)
                /\ ctx' = [ctx EXCEPT ![r] = "ended"]
                /\ UNCHANGED <<dispatch, state, worker, resp, err, history>>

\* m.runtime.EventQueue <- e
Send(g) == /\ calling[g] # None /\ calling[g].call = "async"
           /\ SendAndReturn(g, calling[g].req)
           /\ UNCHANGED <<request, history>>

\* The timeout of the context, which runs from the call.
Expire(r) == /\ ctx[r] = "live"
             /\ ctx' = [ctx EXCEPT ![r] = "ended"]
             /\ UNCHANGED <<dispatch, state, worker, resp, err, history>>

-----------------------------------------------------------------------------
(* The goroutine of a request.                                             *)

\* e.Do returns a response or an error, and an error once the context has ended.
Do(r) == /\ worker[r] = "doing"
         /\ \/ ~Ended(r) /\ resp' = [resp EXCEPT ![r] = TRUE] /\ UNCHANGED err
            \/ err' = [err EXCEPT ![r] = TRUE] /\ UNCHANGED resp
         /\ worker' = [worker EXCEPT ![r] = "answered"]
         /\ UNCHANGED <<dispatch, ctx, state, history>>

\* The deferred Store.
Finalize(r) == /\ worker[r] = "answered"
               /\ state' = [state EXCEPT ![r] = "finalize"]
               /\ worker' = [worker EXCEPT ![r] = "off"]
               /\ UNCHANGED <<dispatch, ctx, resp, err, history>>

-----------------------------------------------------------------------------
(* Update, by the state it loads.                                          *)

Pop == /\ eventQueue # << >>
       /\ LoopPop(state[Head(eventQueue)] # "complete", "update")
       /\ UNCHANGED <<request, history>>

UpdateStart == /\ Finish("update", TRUE)
               /\ state[current] = "initialize"
               /\ state' = [state EXCEPT ![current] = "progress"]
               /\ worker' = [worker EXCEPT ![current] = "doing"]
               /\ UNCHANGED <<ctx, resp, err, history>>

UpdateWait == /\ Finish("update", TRUE)
              /\ state[current] = "progress"
              /\ UNCHANGED <<request, history>>

UpdateCall == /\ Goto("update", "callback")
              /\ state[current] = "finalize"
              /\ passed' = [passed EXCEPT ![current] = Passed(current)]
              /\ calls' = [calls EXCEPT ![current] = @ + 1]
              /\ UNCHANGED request

\* Fault: Update does not store that it is complete.
ReleaseForgets == /\ Cancel(current)
                  /\ UNCHANGED <<state, worker, resp, err, history>>

\* Fault: ctxCancelFn is not called.
ReleaseLeaves == /\ state' = [state EXCEPT ![current] = "complete"]
                 /\ UNCHANGED <<ctx, worker, resp, err, history>>

\* The deferred calls, whether the function returned or raised an error.
Release == /\ Cancel(current)
           /\ state' = [state EXCEPT ![current] = "complete"]
           /\ UNCHANGED <<worker, resp, err, history>>

UpdateReturn == /\ RunsLua("loop")
                /\ Release
                /\ Finish("callback", state'[current] # "complete") \/ LoopError

-----------------------------------------------------------------------------
Lua(g) == \/ \E r \in Requests, call \in {"request", "async"} : Request(g, r, call)
          \/ \E r \in Requests : Refuse(g, r)
          \/ Answer(g) \/ Send(g)

Update == UpdateStart \/ UpdateWait \/ UpdateCall

Next == \/ \E g \in Goroutines : Lua(g)
        \/ \E r \in Requests : Expire(r) \/ Do(r) \/ Finalize(r)
        \/ Pop \/ Update \/ UpdateReturn
        \/ (LoopSteps \/ HostSteps) /\ UNCHANGED <<request, history>>

Spec == Init /\ [][Next]_vars

(* Timeouts expire; client calls return once their context has ended, and   *)
(* need not before; goroutines run; select and the channel are fair (see    *)
(* EventLoop). Nothing helps a Send that finds the channel full for ever.   *)
Fairness == /\ \A r \in Requests : /\ WF_vars(Expire(r))
                                  /\ WF_vars(Ended(r) /\ Do(r))
                                  /\ WF_vars(Finalize(r))
            /\ \A g \in Goroutines :
                 /\ WF_vars(calling[g] # None /\ Ended(calling[g].req) /\ Answer(g))
                 /\ SF_vars(Send(g))
            /\ SF_vars(LoopReceive /\ UNCHANGED <<request, history>>)
            /\ WF_vars(LoopTick /\ UNCHANGED <<request, history>>)
            /\ WF_vars(LoopSwap /\ UNCHANGED <<request, history>>)
            /\ SF_vars(LoopDone /\ UNCHANGED <<request, history>>)
            /\ WF_vars(Pop)
            /\ WF_vars(Update)
            /\ WF_vars(ctxDone /\ UpdateReturn)

\* The scripts' own part: callbacks do not run for ever.
CallbacksReturn == WF_vars(UpdateReturn)

FairSpec == Spec /\ Fairness

-----------------------------------------------------------------------------
TypeOK ==
  /\ DispatchTypeOK(Requests, {})
  /\ calling \in [Goroutines -> Waiting \cup {None}]
  /\ ctx \in [Requests -> {"none", "live", "ended"}]
  /\ state \in [Requests -> {"initialize", "progress", "finalize", "complete"}]
  /\ worker \in [Requests -> {"off", "doing", "answered"}]
  /\ resp \in [Requests -> BOOLEAN] /\ err \in [Requests -> BOOLEAN]
  /\ passed \in [Requests -> [code : {"status", "bad gateway"},
                              text : {"error", "body", "nothing"}] \cup {None}]
  /\ calls \in [Requests -> Nat]

\* The function of a request is called at most once, and with an answer: a
\* status, or the error that explains why there is none. No Update sees the
\* state its goroutine stores before the answer it stores.
CalledOnceWithAnswer ==
  \A r \in Requests :
    /\ calls[r] <= 1
    /\ passed[r] # None => (passed[r].code = "status") # (passed[r].text = "error")

\* A context is live only in the hands of somebody who ends it: Lua is in the
\* call, or the event is in the loop, which keeps it when it closes. No error, of
\* the request or of the function, leaves a context to its timeout.
ContextsReleased == \A r \in Requests : ctx[r] = "live" => r \in Held

\* A callback waits in request_async to send to the full channel that only its
\* own goroutine empties: for ever, as in EventLoop.
SelfBlocked == /\ calling["loop"] # None /\ calling["loop"].call = "async"
               /\ ~HasRoom

\* Every request_async the loop has accepted is answered, unless the loop ends
\* or is SelfBlocked: a server that never answers is answered for by the timeout.
RequestsAnswered ==
  CallbacksReturn =>
    \A r \in Requests :
      r \in Queued ~> calls[r] > 0 \/ loop = "closed" \/ SelfBlocked

-----------------------------------------------------------------------------
\* A response comes with its body: "Read the response body."
\* (module_http.go:235).
BodyPassed ==
  \A r \in Requests :
    passed[r] # None /\ resp[r] /\ ~err[r] => passed[r].text = "body"
=============================================================================
