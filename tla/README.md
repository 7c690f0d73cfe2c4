# runtimelua in TLA+

TLA+ models of `runtimelua`, a Go package that runs Lua scripts
(gopher-lua) with an event loop per runtime, timers, Redis publish/subscribe,
HTTP, ZeroMQ and hot reload of `.lua` files. The models are translated from the
Go source; paths below are relative to the repository.

## The system

| Component | Source | State it keeps | Operations |
|---|---|---|---|
| Runtime and event loop | `runtime.go`, `runtime_event*.go` | channel `EventQueue` (128), `eventQueue`, `eventSwapQueue`, context, Lua VM | `Startup`, `Shutdown`, `exit`, `process()` |
| Event module | `module_event.go` | per timer: `Delay`, `Period`, active flag | `delay`, `loop`, `stop`, `valid`, `Update` |
| Script module, hot reload | `scripts.go` | `modules` (cache), `names`, channel `runtimes` (pool), fsnotify watcher | scan, `require` loaders, watcher goroutine, `hotfix`, `patch` |
| Redis module | `module_redis.go` | map of client pools, map of subscribers, their functions | commands, `subscribe`, `unsubscribe`, `psubscribe`, `punsubscribe` |
| HTTP module | `module_http.go` | per request: response, error, state | `request`, `request_async` |
| ZeroMQ module | `module_zmq.go` | per channeler: queue of packets, state | `dealer`, `router`, `send`, `stop` |
| Options | `option*.go`, `runtime.go` | the fields of a runtime before `Startup` | `WithModule...`, `WithLib...`, `WithGlobal`, the fold in `NewRuntime` |
| Conversions and logger | `luaconv/`, `auxlib/json.go`, `module_logger.go` | none | Lua to Go and back, JSON, the fields of a log line |
| Bit libraries | `auxlib/bit32.go`, `bit64.go` | none | every function of `bit32` and `bit64` |
| Other libraries, example | the rest of `auxlib/`, `example/` | none | stateless calls of Go libraries |

How they interact. Two goroutines run Lua on the one VM of a runtime: the
caller of `Startup`, which runs the main script, and `process()`, which runs
callbacks. Everything that wants a callback sends an `Event` to the channel
`EventQueue`: the script and callbacks (timers, exit, HTTP, ZeroMQ), the
subscriber goroutines of Redis, and the watcher of the script module. Only
`process()` receives. A tick of 66 ms sorts what was received, dispatches each
event once, and keeps those whose `Continue()` is true in a second slice that
it then exchanges with the first. All runtimes made on one script module share
its cache and its pool; when a file changes, the watcher sends an event to one
runtime of the pool after another and waits for the answer of each.

What is hard about it, and what makes each part correct:

- **event loop**: sends to a bounded channel from the goroutine that empties
  it; a stack shared by two goroutines; `stop()` between the test of an event
  and its update; events moved between a channel, two slices and a local
  variable. Correct means: no event lost, duplicated, reordered or run after it
  was stopped; ticks, exits and shutdowns that complete.
- **timers**: a 66 ms timer that each event restarts, and an elapsed time that
  is charged to all timers alike. Correct means: bounded earliness and
  lateness, and every timer fires.
- **hot reload**: a pool that rotates and grows while a round compares a count
  with its length; a first runtime that decides for the others; runtimes that
  end; a file read twice; a cache, `package.preload` and `package.loaded` that
  each hold a version. Correct means: only versions that ran spread, no runtime
  goes back, every change arrives, init scripts are listed before others.
- **Redis**: a goroutine per subscription that sends events with its lock held; a map
  two goroutines change around calls of Redis; `Close` against a channel it
  closes. Correct means: each function gets each message once and in order, the
  map leads to live subscribers, goroutines end, `subscribe` returns. Commands
  share a map of client pools that runtimes fill in two steps, and go-redis sends
  a command again whose answer is lost. Correct means: a hash written whole is
  read whole, clients come back, runtimes share a pool unless they race.
- **HTTP**: a goroutine per request that races its timeout, the end of the
  runtime and the state of its event. Correct means: one call per request,
  with the answer, and no context left behind.
- **ZeroMQ**: a goroutine that shares a queue with `Update`; `stop()` against the
  states of the event; `send()` to a bounded channel with the mutex held. Correct
  means: packets in order, none lost, `stop()` is final.
- **libraries**: conversions that decide by the keys of a table what it is, and by
  the look of a text what was stored; words that go through float64; options
  that hide each other. Correct means: what a script gives comes back, shifts and
  fields agree with arithmetic, scripts find what the options say.

## Modules

| Module | What it is |
|---|---|
| `EventLoop` | one runtime: the queues, `process()`, the main script, timers, exits and posted events; time is abstract |
| `EventLoopProperties` | its properties |
| `EventLifecycle` | abstract specification: what a runtime promises of an event, without queues |
| `EventLoopImplements`, `PubSubImplements`, `HttpAsyncImplements`, `ZmqEventImplements` | refinement mappings from the module of that name to `EventLifecycle` |
| `TimerClock` | timers, ticks and posts against a clock; the queues are abstract |
| `HotReload` | cache, watcher, pool and runtimes of the script module |
| `Dispatch` | script, channel and `process()` without timers: the part that the next three share; its actions leave the variables of the module that extends it to that module |
| `PubSub` | subscriptions to Redis channels and patterns, on `Dispatch` |
| `HttpAsync` | `request` and `request_async`, on `Dispatch` |
| `ZmqEvent` | dealers and routers, on `Dispatch` |
| `ScriptNames` | the sorted list of names of the script module |
| `RedisCommands` | `connect_redis`, the client pool, every command, a server and a network that loses answers |
| `LuaConv` | Lua values, Go values, JSON, what Redis stores, the fields of a log line |
| `Bits` | `bit32` and `bit64` on words of `W` bits and floats of `P` |
| `Options` | the options of a runtime, what `Startup` makes of them, `require` |
| `EventLoop_proofs`, `TimerClock_proofs`, `HotReload_proofs`, `PubSub_proofs`, `HttpAsync_proofs`, `ZmqEvent_proofs` | theorems about the module of that name, and their proofs |
| `Libraries_proofs` | theorems about `RedisCommands`, `Options`, `ScriptNames` and `Bits` |
| `DataLemmas` | what the proofs share: the operations on channels and queues and what they do to the elements of a sequence, to its order and to two queues in a row; induction on numbers; powers of two and the bits of a number |
| `MC...` | model values and small functions for the configurations of the module of that name; `MCLibraries` composes `RedisCommands` with the conversions of `LuaConv`, and runs `Options`, `ScriptNames` and `Bits` beside it |

Operators whose comment begins with "Fault" (`HasRoomBeyond`, `LoopPopPeeks`,
...) are no part of a specification. Each is a plausible mistake in the
operator it precedes, and shows that a property can fail; `PROJECT.json`
("mutants") pairs them with the properties.

### EventLoop and the code

The constants name Go objects: `Timers` are `localTimerEvent`s, `Loops` those
of `event.loop`, `Exits` are `localExitEvent`s, `Messages` stand for events other
goroutines post (`pubSubEvent` is the one whose `Update` is modelled:
`INITIALIZE`, then a call, then `COMPLETE`). An object that nothing in the runtime
refers to (`Held`) may be made again, so a finite set stands for any number of
events over time; it bounds only how many live at once.

| Variable | Code |
|---|---|
| `EventQueue`, `eventQueue`, `eventSwapQueue`, `current` | the channel, the slices and `e` of `process()` |
| `pc` | `select`, `drain` (the `for` of the tick), `update` (after `Valid()`), `callback` (inside `PCall`), `closed` |
| `timer`, `elapse` | steps of the 66 ms timer; `elpase` |
| `main`, `result` | where `Startup` is; whether a value is on top of the stack it shares with `process()` |
| `calling` | the event a goroutine is sending, between the making of the object and the channel's acceptance |
| `delay`, `active`, `state` | `TimerEvent.Delay`, `TimerEvent.value`, `StateEvent.value` |
| `ctxDone`, `evaluated` | the context; what the evaluation handler was given |
| `stopped` | history: timers whose `stop()` has to take effect |

One action per step of a goroutine that another can see. `NewTimer` (with
`Delay`, `Loop`) and `Exit` make the object, `Send` is the channel operation and
is disabled while the channel is full; `LoopPop` is the pop with the `Valid`
test, and `UpdateExit`, `UpdateWait`, `UpdateCall` are the three ways into
`Update`, so a `stop()` of the main script can come between. `LoopReturn`
includes the `Continue` test and the append. `LoopError` is the `break`: it does
not cancel the context, as in the code. `Sorted` is the set of all results
`sort.Sort` may give: it keeps ties in order up to `StableLimit` elements (12 in Go,
which sorts by insertion up to there) and in any order beyond.

Data races are choices. The script and the callbacks run Lua interleaved at
their calls into Go, and the tick's `vm.Pop(vm.GetTop())` may come between the return
of the script and the read of its result. What else two goroutines may do to one
`LState` (its registry is not made for it) is not modelled, nor is what
a closed VM does under a script that still runs.

### TimerClock and the code

Time passes in `Wait` (the select blocks) and in `CallbackTime` only; all else is
instantaneous. `waited` is the age of the 66 ms timer of the present select and
`sinceUpdate` the time since `eventUpdateTime`. `Create` is `event.delay` or
`event.loop`, from the script or a callback; `Post` is another goroutine's event,
at least `Gap` units after the one before. `asked`, `age` and `credit` are history:
what the timer was armed for, how long ago, and the time already run of the
tick interval at that moment. `stop()` and errors are left to `EventLoop`.

### HotReload and the code

A file's content is a version number that grows with each edit. `TakeEvent` is the
reading of an fsnotify event up to the start of the round; `TakeNext` takes a runtime
from the pool, and `SendToNext` puts it back and sends it the event - two steps, as
another runtime may take the last place in between; `Hotfix` and `Patch` are
the runtime's `Update` with `localFileCache.hotfix` and `.patch`; `TakeResult` is the
rest of the loop, with `Add` (`sm.add`, which keeps the old `HotfixDisabled`).
`Require` runs what `package.preload` has, or else the cache; where that raises an error, gopher-lua leaves
a mark in `package.loaded`, which `patch` takes for a loaded file. `Scan` goes through the
directory up to the first file that cannot be read (the `break` leaves the loop);
such a file is also missed by `TakeEvent` and is an error of `Hotfix`. `Broken` versions may
fail when they run, `Marked` versions begin with the marker of static files.
A runtime is here only the code that answers the watcher's event: that a queued
event is dispatched is `MessagesRun` of `EventLoop`, and becomes the fairness of
`Hotfix` and `Patch`. fsnotify itself is external: an edit is reported once, as
`Write` or `Create`, in order, after `AddRecursive`.

### Dispatch and the modules on it

`Dispatch` has the queues, `process()` and the script of `EventLoop`, and leaves out what
only timers need: elapsed time, the steps of the 66 ms timer, evaluation. `loop` is `pc` of
`EventLoop`. Its actions are parts of an action: `Call` and `Return` begin and end a
call of Go that may wait, `SendAndReturn` is a call that sends an event, `Post` a send of
another goroutine, `LoopPop(valid, to)` the pop with the `Valid` test of the module's
event, `Finish(from, continue)` the return of `Update` with its `Continue`. The extending module
conjoins what happens to its own variables. All events here have one priority, so `Sorted`
is what `sort.Sort` does with ties: nothing up to `StableLimit` events (12 in Go), any
permutation beyond. `mixed` is history: a tick has found more.

`PubSub`. `Names` are channels and patterns: `subscribe` and `psubscribe` share the map and
differ in nothing else, so one action stands for both. A call that waits is two
actions with everything of other goroutines between them: `SubscribeNew` looks into
the map and calls Redis, `Subscribed` stores and starts the goroutine without a second
look; `SubscribeMore` is the lookup of `Append` and `AppendFunction` its lock;
`Unsubscribe` deletes from the map, and either the call of Redis (or `validate`) fails,
which leaves the subscriber running and unreachable, or `Close` cancels (and
`CloseRedis` closes the channel). It is the one call of Redis that is a single step: of the subscriber that it
has taken from the map, the state between the delete and the cancel is the one it stays in when the call
fails, so what other goroutines can do meanwhile is in the model, and the cancel after it is no more
than an earlier `Done`. `Receive`, `SendEvent`, `Done` and `NilMessage` are the goroutine
`Startup`: the lock is held in `pc = "sending"`. `Publish` is Redis and go-redis: a message to
every subscriber of a name, dropped where the client's channel is full. A panic
of a subscriber ends the program (`Crashed`).

`HttpAsync`. `Requests` are calls, numbered in the order in which they are made (`Unmade`), each once and as
one kind or the other; `ctx` is its context (`none` before the call), `Expire` the timeout, which runs from the call on. `Do` and `Finalize` are
the goroutine: the answer first, then the state. `Answer` is every way in which
`request` returns. `Refuse` is `request_async` that made its context and then raised an error: of the request
or of a header. Past these checks (`Request` with `async`) it can only wait in its send. `Release` is the two deferred calls of
`Update`, whether the function returns or raises an error. `passed` is what the
function was called with, in three values: a status or 502, and a body, an error or
nothing.

`ZmqEvent`. Its events share `EventQueue` with each other and with those of other modules, and a callback of any of
them may make any call; `Others` are such events: `CreateOther` is the making of one in Lua, `PostOther` a send of another
goroutine, and `UpdateOther` runs its function. `Arrive` and `CloseRecv` are goczmq; a packet is its number of arrival, and numbers in
`Malformed` cannot be decoded. `Take`, `Enqueue` and `Received` are the goroutine of the first
`Update`. `UpdateLoad` reads the state and `UpdateStart` overwrites it, so a `stop()` of the script
may come between. The mutex is held in `packets` and `callback`. `stopped` is history and
keeps `stop()` to once per event. `SendPacket` and `Reply` are `send()` of the event and of
the sender of a packet (which exists only for packets with a sender frame); they wait in
`Sent` for room in `SendChan`, which `Transmit` makes until the channeler is destroyed.

### RedisCommands and the libraries

`RedisCommands`. The script asks one of `Script[c]` at a time. `Load` and `Store` are the two
steps of `connect_redis`; a pool is named by the runtime that made it. `Begin` takes a
client and `Put` is the deferred return of it, in `Return` and `Fail` alike. `Send` is an
attempt of go-redis, and `wire` holds those the server has not applied: `Apply` takes any
of them, also of a call that has failed, and its answer arrives or is lost. `Argument` is
what each Lua function sends, `Applied` what the server does with it, `Pushed` what the
script gets. `Encode` and `Decode` come from `LuaConv`.

`LuaConv`. A value is a tuple that begins with its type. What decides its fate is kept: the
types, which keys a table has, whether a text is the JSON of a value. `MaxN` and the order
of `ForEach` are gopher-lua's; `Marshals`, `Unmarshal` and `Written` those of the libraries.

`Bits`. A machine word is the set of the positions of its ones, which `ToWord` and `Unsigned`
turn from and into a number. Go leaves open what a float outside the range of an integer
type becomes: `Operand`, `Int64` and `Uint64` are then any word. `Looped` is the loop over
the operands of `band`, `bor` and `bxor`, `Float` the rounding to `P` bits. A state is the
last pair of numbers a script called with. The counts that the properties use go up to `W + 1`,
which is an integer of `W` bits from `W = 4` on.

`Options`. An option is a kind, a name and a value, and `NewRuntime` one turn of the loop over the
list, so that a state is the runtime after a prefix of some list. `Startup` opens the standard libraries in the
order of a map's iteration (`runtime.go:107`), and opening the package library replaces `_LOADED`
(`scripts.go:417-419`): `Later` is the set of libraries opened after it, any set, and these are what `require` finds before it
asks the loaders. Opening a library adds its functions to the global table of its name, or raises an
error if there is another value (`Conflicts`), which ends the program, for nothing recovers the `Call` of
`runtime.go:110`. What `RegisterModule` and `require` of gopher-lua do is not in the repository (it is not vendored), and is
modelled as that library documents it. `Stdlib` stands for the standard libraries, `Base` for what the base library sets, `TableValues` for
values that Lua gets as tables. `ScriptNames`. A name is an
identity, whether it ends with "init", and its number of dots; `add` puts it into the list and
sorts. `Sorted` is the contract of `sort.Sort` and no algorithm: any permutation, and a sorted
one if `Less` is the order it asks for.

## What the runs check

Bounds and what they allow are named per run; every run exhausts its state
space.

| Run | Instance | Properties |
|---|---|---|
| `EventLoopSafety` | delay, loop, exit, message; channel of 2 for 4 events, so that sends block; a timer waits one tick; sort stable up to 2 of 3 waiting events | `TypeOK`, `HeldOnce`, `SecondLoopsStayScheduled`, `NotSelfBlocked`, `StopIsFinal`, `FirstComeFirstServed`, `ImplementsLifecycle` |
| `EventLoopLiveness` | loop, exit, message, each made and posted again and again; channel of one, so that a callback's send finds it full; two steps to a tick | `ShutdownCloses`, `ExitCloses`, `MessagesRun` |
| `TimerClock` | delay and loop of 3 units, tick of 2, posts 3 apart, callbacks up to 1; ages up to 14, above the longest a timer can wait | `TypeOK`, `NeverLate`, `EarlyByOneTick`, `TimersFire` |
| `HotReload` | 3 runtimes, one late and one that may end; 3 versions of one file, the second marked static, later ones may fail, and the file may not be readable; `Write` and `Create`; a pool with room for all three | `TypeOK`, `OnlyTriedVersionsSpread`, `CacheFollowsThePool`, `NeverGoesBack`, `ChangesArriveWhileUp` |
| `PubSub` | 2 names, 2 subscribers, 2 functions, 2 messages; `EventQueue` and the client's channel hold one, so that every send can block and messages are dropped; ticks find up to four events, and the sort keeps the order of three | `TypeOK`, `EachFunctionPosted`, `MapIsLive`, `InOrder`, `SubscribersEnd`, `SubscribeReturns` |
| `HttpAsync` | 3 requests and a channel of one, so that `request_async` blocks in the script and in callbacks; the order of events, which no property here is about, is kept by the sort | `CalledOnceWithAnswer`, `ContextsReleased`, `ImplementsLifecycle`, `RequestsAnswered` |
| `ZmqEvent` | 2 events, 1 of another module, a channel of one; 3 packets, the first malformed, the second with a sender, 1 in `RecvChan`, 1 in `SendChan` | `PacketsInOrder`, `ImplementsLifecycle`, `StopCompletes`, `PacketsArrive` |
| `Libraries` | 3 runtimes, one without a connection; 2 callers, 2 attempts at a command and 2 in all, 2 clients, float64 exact to 4; a counter, two hashes, a text; or else (`given`) one of 1402 Lua values; calls of the bit libraries with each of 576 pairs of numbers, on words of 4 bits with 3 in a float; up to 3 of 24 options one by one, on names of scripts, of standard libraries and of globals, with every set of libraries opened after `package`; up to 4 of 8 script names one by one | `HashesWhole`, `ClientsReturned`, `SplitOnlyByRace`, `ValuesComeBack`, `BitsAgree`, `OptionsSettle`, `InitsFirst` |

Larger instances add copies of actors that share nothing but the channel: two
subscribers already compete for it, two functions are enough for a message to be
posted to one and not yet to the other, and two goroutines are all that run Lua. Liveness
needs a channel smaller than the events that callbacks may send, or the block of a callback's send
(`SelfBlocked`) would not be met: with one place, a posted or sent event fills it and a second one blocks. In `ZmqEvent` two
events and one of another module are what the two ways of `Stuck` need: a callback of one sends by the
other, which was stopped, or creates the other while the third fills the channel. `MCSpec` bounds that instance (`MCZmqEvent`): either
one event is alone, with every call of the script and of its own function (`Alone`), or there is company and
what Lua, the network and the host do is restricted (`InCompany`). No step that fairness is about is disabled by that: it cuts
inputs, and TLC finds each of the two exceptions needed by each of the two liveness properties. Words of 4 bits have shifts by zero, inside,
by the width and beyond, and 3 bits in a float make some of them inexact. The libraries
have nothing in common: in a behaviour (`given`) only one of them takes steps, and a value is
converted in a behaviour of its own.

- `HeldOnce` and `SecondLoopsStayScheduled`: an event is in one place, and a loop timer
  that goes on is in some place, through receive, sort, pop, append and swap.
- `StopIsFinal`: after `stop()` no callback of the timer begins, except the one
  whose `Valid` test was already passed.
- `FirstComeFirstServed`: order of arrival is order of dispatch, for events of
  one priority and ticks small enough for a stable sort. Every event of the
  package has priority 1.
- `NotSelfBlocked`: a callback's send does not block while the runtime refers to at
  most `Capacity + 1` events: the one it is and the one it sends are not in the
  channel.
- `ShutdownCloses`, `ExitCloses`, `MessagesRun`: the end of the context closes the loop, so does an accepted
  `exit`, and an accepted message is dispatched. They name one exception, `SelfBlocked`: a callback waits at
  `EventQueue <-` (`runtime.go:177`, `module_event.go:58`, `:79`) and the channel is full. Nothing there
  looks at a context, so neither a Shutdown nor an exit ends the wait (`SelfBlockedForEver` proves it). `PostsPause`
  is a premise of the last two: events leave the 66 ms timer time to expire again and again.
- `RequestsAnswered`: an accepted request is answered by its server or its timeout, unless the loop closes or is
  `SelfBlocked`, here by a `request_async` in a callback (`module_http.go:199`).
- `ImplementsLifecycle`: all of it once more, as the life cycle of one event. For `HttpAsync` and `ZmqEvent`
  it is the same life cycle under mappings of their own: a request is an event from its
  acceptance by the channel on, and its answer, like `stop()`, cancels what is in a queue. The one
  exception is in the mapping of `ZmqEvent` (`Overwrites`): a `stop()` between the `Load` and the `Store` of the
  first `Update` (`module_zmq.go:162`) cancels nothing. `PubSubImplements` is not in a run, for its mapping
  doubles the time of the largest one; it is proved, and `MCPubSub` extends it, so that
  `PROPERTY ImplementsLifecycle` in `PubSub.cfg` checks it too.
  The `TypeOK` of `HttpAsync` and `ZmqEvent` is in no run either: it is proved (`TypeCorrect`).
- `EarlyByOneTick`, `NeverLate`: a timer fires early by at most the part of a tick
  interval that had passed when it was armed, and late by at most one `LongestRound`:
  for `n` timers `2n` waits of the select and `2(n - 1)` callbacks of the others, each of
  which may run in the tick of the first of two `Update`s, after it, and in the tick of the
  second, before it. One tick interval, with every callback once, is no bound: with three
  timers it can be exceeded.
- `CacheFollowsThePool`: the cache takes a version only after the round was sent to
  every runtime that was in the pool at its beginning.
- `ChangesArriveWhileUp`: while no runtime has ended, a reported change of a cached file
  that is read and runs without error comes to every runtime that loaded the file.
- `InOrder`: one order through four places: the client's channel, the loop over
  the functions, `EventQueue`, the slice of `process()`. A tick that finds more events than
  `sort.Sort` keeps in order may mix the last two, and nothing else may. `EachFunctionPosted`:
  none left out by a `subscribe` during the loop.
- `MapIsLive`: whatever the two goroutines do around their calls of Redis, a name in the map
  leads to a subscriber of that name that nobody closed.
- `SubscribersEnd` and `SubscribeReturns` hold but for one case, which they name: `Abandoned`,
  where the channel is full and its reader has ended or itself waits for the lock.
- `ContextsReleased`: a live context is in the hands of somebody who ends it with
  `ctxCancelFn`, a call or the loop, which keeps its events when it closes; no error
  leaves one to the 5 s of the timeout.
- `StopCompletes`: a `stop()` that the first `Update` overwrites is made good by the
  end of the range over the closed `RecvChan`. `PacketsArrive`: well-formed packets of a living event reach its
  function. Both name two cases (`Stuck`): a callback, of whatever event, waits for room in the `SendChan` of
  a stopped event (`Abandoned`, `module_zmq.go:228`), or to send an event to the full channel (`SelfBlocked`). Either is for ever
  (`StuckForEver`).
- `HashesWhole`: attempts of `hmset` that are lost, repeated or late never leave a script
  with fields of two calls. `SplitOnlyByRace`: two pools for one address need two runtimes
  between `Load` and `Store`. `ClientsReturned`: errors and timeouts lose no client.
- `ValuesComeBack`: of which values a script gets back what it gave, through Go, JSON and
  Redis, and which tables are logged with all their fields. `BitsAgree`: shifts, rotations
  and fields against multiplication, division and masks. `OptionsSettle`: whether `Startup` comes
  to its end, what the globals are, and which module `require` finds, in whatever order options came and
  libraries were opened. `InitsFirst`: the comment at
  `scripts.go:147`, for the lists of which it is true.

### Fairness

`EventLoop`: Go's `select` picks among its ready cases at random, so a case that is
ready again and again is taken: strong fairness of `LoopReceive`, `LoopTick`,
`LoopDone`. A runnable goroutine runs: weak fairness of its steps; a sender blocked
on a channel is served when there is room again and again (Go queues senders): strong
fairness of `Send("main")`. gopher-lua tests the context between instructions, so a
callback that runs Lua ends once the context has (`ShutdownCloses` needs no more); one that waits in a send does not,
and that of a callback is fair only in that it goes on when there is room, which the goroutine that waits there cannot make. That callbacks
return otherwise is the script's business: the other liveness properties state it
as a premise, `CallbacksReturn`. No fairness makes the script act.

`TimerClock`: time passes, callbacks end within `MaxCall`, the select is fair as
above. `HotReload`: the watcher runs, a runtime that was made is started, and one
that is up dispatches. No fairness of `Edit`, `Require`, `Register` or `Close`.
`Libraries` has safety properties only.

`HttpAsync`, `ZmqEvent`: as `EventLoop`; a timeout expires, a client call returns once its context
has ended (net/http promises that, and not that servers answer), a destroyed channeler
closes `RecvChan`, one that is not sends what is in `SendChan`, and a goroutine that waits for a
mutex or for room gets it when it is free again and again. Callbacks of ZeroMQ events may send
many times before they return, so there `CallbacksReturn` is strong fairness. `PubSub`: as these, but messages and functions are bounded, so weak fairness is enough
for the select too; Redis answers. A `request_async` that waits in its send has no other way out: strong
fairness is of `Send` alone, and of `Answer` of `request` once its context has ended.

In `EventLoopLiveness` events can be posted again and again, and each turn of the select makes the
66 ms timer anew. Strong fairness of `LoopTick` is that of the select: it takes the expired timer if it is found
expired again and again, and does not say that it ever is. That is a premise of the properties that need ticks,
`PostsPause`; `TimerClock` has the clock, and shows when it holds (`Gap` above
`TickUnits`) and when not (run `TimerClockFlood`).

## Where the code and what is said of it differ

Each of these is a run that ends in a counterexample ("findings" in
`PROJECT.json`).

| Run | What happens |
|---|---|
| `TimerClockFlood` | events less than 66 ms apart put the tick off for ever |
| `HotReloadDeadRuntime` | the watcher waits for ever for the answer of a runtime that has ended |
| `PubSubNilMessage` | after `unsubscribe` the subscriber may read the closed channel before it sees the end of its context, and dereferences nil |
| `HttpAsyncBody` | `request_async` passes no body and no headers: `for headers != nil` never runs |

Others the models show and no run is kept for:

- a period below one second is zero and the loop is called once (hence "second" in
  `SecondLoopsStayScheduled`);
- a delay made late in a tick interval is early by that much (hence `EarlyByOneTick`);
- a delay timer that has fired is not `valid()`, which `module_event_test.go:59` reads otherwise;
- a tick between the return of the script and the read of its value empties the
  stack, and the evaluation handler is not called;
- a callback that sends to the full channel blocks the only goroutine that empties it, and neither
  `Shutdown` nor `exit` ends it (`NotSelfBlocked` says up to how many events that cannot happen; `SelfBlocked` is the exception of
  the liveness properties of `EventLoop`, `HttpAsync` and `ZmqEvent`);
- likewise a callback that subscribes once more to a name whose subscriber is
  sending to the full channel (`Abandoned` of `PubSub`);
- a runtime that joins the pool and loads the file during a round can be left
  out of it; an edit reported as `Create` hotfixes a static file; the first runtime of a
  round that requires the file before the round has ended runs the old one
  (`NeverGoesBack` is claimed of loaded files);
- a subscriber whose `Unsubscribe` failed, or that another `subscribe` of the name
  overwrote in the map, cannot be closed any more and ends with the runtime;
- `stop()` within a callback of a ZeroMQ event does not end the delivery of what is queued,
  and a callback that sends by a stopped event waits for ever once `SendChan` is full;
- `hotfix` leaves the preload function of an earlier round, and the cache follows at the end of
  a round only: a runtime that requires the file for the first time may run an older version
  than it was given before (`scripts.go:48`, `:70`);
- a runtime that joins while the watcher holds another one may take the last of 1024 places
  of the pool, and the watcher then waits for ever to put the other back (`Stuck` of `HotReload`);
- one unreadable file ends the scan, and the files after it are not cached until they change;
- `Less` of `ModuleNames` is no order: "main" and "pkg.init" are each less than the other, and
  turn round whenever a name is added, where the comment at `scripts.go:147` has init scripts first;
- the map of client pools is keyed by the address: a second runtime with another password
  or database gets the pool of the first;
- `incr`, `incrby`, `hincrby` and `hmset` do not call `validate()`, and raise the error of a nil pool
  when there is no connection;
- `subscribe` and `psubscribe` share a map: a pattern with the text of a channel gets the
  subscription of the channel;
- a table with a whole key loses its string keys, a stored text that looks like JSON comes back
  as what it says, and NaN comes back from Redis as the text "NaN" and makes a table that holds it
  an empty text;
- results of `bit64` with more than 53 bits are rounded (`bnot` of a small number), `arshift` by
  more than a word loses the sign, and negative later operands of `band` give what the processor
  gives;
- `WithGlobal` of a standard library's name gets the functions of the library if it is a table, and otherwise makes
  `Startup` panic; one of a name that the base library sets is overwritten;
- `require` of a standard library's name gives that library, whatever `WithModule` or `WithLib` say, if the map's
  iteration of `runtime.go:107` opens it after the package library, and what the options say otherwise;
- a file whose `require` raised an error counts as loaded for `patch`;
- the main script may still run when `process()` closes its VM (`runtime.go:221`).

## What is proved

The theorems hold for every value of the constants that satisfies the named assumptions
of the modules: any set of timers, requests, subscribers, runtimes, calls; any capacity; any
number of messages, packets, versions and attempts. Sets need not be finite where nothing
is counted.

| Module | Theorem | Statement |
|---|---|---|
| `EventLoop` | `TypeCorrect` | `Spec => []TypeOK` |
| | `EventsHeldOnce` | `Spec => []HeldOnce` |
| | `StopFinal` | `Spec => StopIsFinal` |
| | `SecondLoopsScheduled` | `Spec => []SecondLoopsStayScheduled` |
| | `NeverSelfBlocked` | `Spec => []NotSelfBlocked` |
| | `SelfBlockedForEver` | `Spec => [][SelfBlocked => SelfBlocked']_vars` |
| | `ServedInTurn` | `Spec => FirstComeFirstServed` |
| | `LifecycleImplemented` | `Spec => ImplementsLifecycle`, the refinement of `EventLifecycle` |
| `TimerClock` | `TypeCorrect` | `Spec => []TypeOK` |
| | `EarlyByLessThanOneTick` | `Spec => EarlyByOneTick` |
| | `NoTimerLate` | `Spec => []NeverLate`, for finitely many timers and `Gap > TickUnits` |
| `HotReload` | `TypeCorrect` | `Spec => []TypeOK`, with `Control` and `Registered` |
| | `TriedFirst` | `Spec => []OnlyTriedVersionsSpread` |
| | `OnlyForward` | `Spec => NeverGoesBack` |
| | `CacheLast` | `Spec => CacheFollowsThePool` |
| `PubSub` | `TypeCorrect` | `Spec => []TypeOK`, with `CallsOK`, `HasMessage`, `NothingStays` |
| | `EveryFunctionPosted` | `Spec => []EachFunctionPosted` |
| | `MapLeadsToLive` | `Spec => []MapIsLive` |
| | `MessagesInOrder` | `Spec => []InOrder` |
| | `MessagesAreEvents` | `Spec => ImplementsLifecycle` |
| `HttpAsync` | `TypeCorrect` | `Spec => []TypeOK`, with `Control` |
| | `OnceWithAnswer` | `Spec => []CalledOnceWithAnswer` |
| | `NoContextLeft` | `Spec => []ContextsReleased` |
| | `RequestsAreEvents` | `Spec => ImplementsLifecycle` |
| `ZmqEvent` | `TypeCorrect` | `Spec => []TypeOK`, with `Control` and `FirstUpdate` |
| | `PacketsCalledInOrder` | `Spec => []PacketsInOrder` |
| | `StuckForEver` | `Spec => [][Stuck => Stuck']_vars` |
| | `StoppedForGood` | `Spec => [][StaysOut]_vars`: a stopped event that is complete and out of the loop stays both |
| | `ZmqEventsAreEvents` | `Spec => ImplementsLifecycle` |
| `RedisCommands` | `OnePoolUnlessRaced` | `Spec => []SplitOnlyByRace` |
| | `EveryClientReturned` | `Spec => []ClientsReturned` |
| | `HashesReadWhole` | `Spec => []HashesWhole` |
| `Options` | `OptionsAreSettled` | `OptionsSpec => []OptionsSettle` |
| | `OrderMattersInOnePlace` | two options that do not set the same thing may change places |
| `ScriptNames` | `NamesInOrder` | `NamesSpec => []InitsFirst` |
| `Bits` | `BitLibrariesAgree` | `BitsSpec => []BitsAgree` |

Assumptions. Each module names those on its constants, and TLC evaluates them in the runs:
`EventKinds` (the kinds of events are disjoint, `None` is none of them), `EventParameters` and
`LoopParameters` (numbers are numbers, the channel has room for one); `ClockParameters`
(likewise, and what a timer is asked to wait is measured: `Ask \in [Timers -> 1..MaxAge]`);
`ReloadParameters` (the runtimes made before the first `Startup` fit into the pool, the walk of
the directory comes to each file once); `DispatchParameters`, `PubSubParameters`, `HttpParameters`,
`ZmqParameters` (`None` is no event, a send that waits is none either, and events of ZeroMQ are not those of other modules); `RedisParameters` (a script per caller, one attempt at least);
`OptionParameters` (an option has a kind, a name and a value; `package` is a standard library, `_G` is set by the base library, and no other library has its names), `NameParameters` (a name has a number of dots),
`BitParameters` (4 bits or more in a word, fewer of them in a float). `NoTimerLate` has
two hypotheses of its own: posts closer than a tick starve every timer (`TimerClockFlood`), and a
round of infinitely many timers has no length.

### The arguments

`EventLoop`. `IInv` is `TypeOK`; `Control` (`current` is an event exactly while `pc` is
`update` or `callback`, and the loop sends only from a callback); and `HeldOnce`, which alone is
not inductive: that `Finish` may append `current` needs `current` to be an event in no
queue. `StopFinal` adds `StopInv` (a timer in `stopped` is not active). `NeverSelfBlocked`
counts: an injective queue is as long as its set of elements is large, and that set, the
current event and the one being sent are disjoint parts of what the runtime refers to. `SelfBlockedForEver` goes
through the steps: only `process()` receives, and `Control` has it in the callback that waits.
`LifecycleImplemented` adds `Armed` (an event is valid from its making to its acceptance):
each action is a step of the life of one event, or of none, under the mapping of
`EventLoopImplements`; `ValidityKept` and its kin say which events an action can concern.
`ServedInTurn` is about one step: with both queues in a row (`Line`), two events of one
priority leave it in the order in which they stand in it; the stable sort is where the limit
on the tick is needed (`SortedKeepsOrder`).

`TimerClock`. `Charged` says what the code keeps no record of: all that the ticks took off a timer's
`Delay`, and what the running and the next one will take for the time that has passed so far, is at
most its age and the part of a tick interval that had passed when it was armed. `EarlyByOneTick` is what it says
when `Delay` reaches zero. `OnTime` is the other side. The lag of a timer is its age
less what has been charged to it; it never exceeds what is about to be charged (`Chargeable`). In the select, the lag and
what the select may still wait - for each other timer that has not arrived, for a
post (`Slack`), for the tick - stay within a round (`InSelect`); in a tick, the callbacks so
far (`InTick`, `TickTime`). `Prompt` says that nothing waits in the channel while the select waits.

`HotReload`. `TriedInHand`: once the first runtime of a round has answered, the version in the watcher's hand
has run; so `patch` and the cache take only such versions. `NobodyAhead`: no runtime and no cache is ahead of the
disk, nor, once a runtime has run it, of the version in hand. `Rotation`:
the runtimes of the pool that the round has yet to come to are still in the channel, before all that
it put back; new runtimes join behind these. So after as many turns as the channel is
long none of them is left, however often it grew. `Registered` (a runtime is in the channel at
most once, also while the watcher holds one) is what the rotation rests on.

`PubSub`. `Posting`: while a message is sent, each function has its event or has yet to get it,
because `Append` waits for the lock. `Started` and `Making`: a `subscribe` that waits for Redis has a subscriber that no
other call and no entry of the map has, so what it stores is live. `OrderInv` goes through the places of a message:
the client's channel is later than the one in hand (`Later`), an event in
line is no later, and earlier where its function is still to be served (`UpTo`), and the line
is ordered unless a tick mixed it. `OwnFunctions` and `Distinct` keep two events of one message for one
function apart: a function literal joins once. `MessagesAreEvents` adds `PlacesInv`: an event is in
one place, and the one that runs is `UpTo` as well. What a goroutine posts is therefore new (`SendsNew`): it is for
the message in hand and a function still to be served, and all that waits or runs for that function
is of an earlier message - also when a tick has mixed the order.

`HttpAsync`. `AnswerStored`: the goroutine stores its answer before the state that lets
`Update` call the function, and runs in no state but `progress`. `CalledInFinalize`: the
function is called in `finalize`, and the two deferred calls of `Update` leave that state in
any case. `ContextInv`: a context is made once, and has ended when the event is complete.
`RequestsAreEvents` takes `HeldOnce` (a request is in one call, one queue or `Update`) and `Fresh` (the event of a
waiting call is not complete); then `ValidityKept` says that only the end of `Update`
completes an event, and each action is a step of one request's life or of none.

`ZmqEvent`. A packet goes from `RecvChan` to the hand of the goroutine to the queue. `LineOrdered`:
nothing that comes later in that line arrived earlier. `LineComplete`: in line is exactly what has
arrived, can be decoded, and the function was not called with. `FirstUpdate`: an event has no
goroutine and no queue before its first `Update`, which makes both. `ZmqEventsAreEvents` adds `HeldOnce`
and `Fresh` as above. Here events are also completed from outside `Update`, by `stop()` and by the end of the range
over `RecvChan`; `Calm` collects the steps that do neither and move no event.
`StuckForEver` rests on `Waits`: the loop waits in a call only in `callback`, and only of events that were made; then no step
empties the channel, no step opens a destroyed channeler again or takes from its `SendChan`. `StoppedForGood` uses the
same invariants: only `UpdateStart` undoes a complete state, of the current event, and nothing brings an event
into the loop but the call that made it (`HeldKept`).

`RedisCommands`. `PoolsInv`: until two runtimes are between `Load` and `Store` at once, all pools given
out are the one in the map, and who misses finds none given out. `ClientsInv`: the clients a pool made are
those that are idle and those in calls. `WholeInv`: an attempt on its way is one of the call that its caller
is in, or of one that has failed; either way what it would store is whole, and so are the store and the replies.

`Options`. `OptionsInv` follows the list as it grows: each field of the runtime is what the last option of its
kind and name says (`LastNamed` of a list with one more option is that option, or what it was).
What `Startup` makes of the fields is then a matter of cases, of names and of what is opened after the package library.

`ScriptNames`. Where no init script lies deeper than another script, `Less` is an order of the kind that
`sort.Sort` asks for, and a list sorted by it has the init scripts first.

`Bits`. The bit at `i` of a number is `(x \div 2^i) % 2`. That numbers below `2^n` with the same bits are the same
(`BitsTell`), and that each set of positions has its number (`BitsExist`), takes induction on `n`,
for which `LeastNat` (a set of numbers has a least one, from the library's `WFMin`) stands in: `SetInduction`. That `2^n`
is what it should be comes from the number of subsets of `n` things (`PowerStep`). After that a
shift, a rotation or a field is a statement about sets of positions, and the rest is that shifting
multiplies and divides (`SmallShift`), that words with no position in common add up (`BitSums`), and that a
number of at most `P` bits is a float (`FloatExact`).

The order of the proofs is the same in each module: types first, one lemma per group of actions, with
the control state they need; then what an action does to a queue as a lemma on sequences;
then one step of the invariant per action.

### Only model-checked

That the exceptions of the liveness properties are for ever is proved (`SelfBlockedForEver`, `StuckForEver`); that there are no others is
model-checked. All liveness (`ShutdownCloses`, `ExitCloses`, `MessagesRun`, `TimersFire`, `ChangesArriveWhileUp`,
`SubscribersEnd`, `SubscribeReturns`, `RequestsAnswered`, `StopCompletes`, `PacketsArrive`): TLAPS has no rules for
fairness and `ENABLED`. `ValuesComeBack`: the conversions go through tables within tables with `RECURSIVE`
operators, which no backend can reason about; in `RedisCommands` they are constants (`Encode`, `Decode`),
and `HashesReadWhole` holds whatever they are.

## Not modelled, and the plan

Not modelled: what Lua code computes; the contents of messages; logging; operations of the
client libraries (redis, net/http, goczmq) beyond what `src/` relies on; the patterns of
`LuaPathDefault` that `loLoaderCache` goes through; the path arithmetic of `WithScriptEntry`;
`NewRuntimeWithConfig`, which does not keep the script module it is given, so that its `Startup`
fails at once; `aes`, `base64`, `md5`, `uuid`, `os`, which are stateless calls of Go libraries.

The order of what is to come:

1. `EventLoop` implements `Dispatch` under a mapping of `pc` to `loop`, so that what
   is shown of the shared part is shown of the detailed one.
2. The safety half of the other liveness properties, as theorems: that `Abandoned` of `PubSub` and `Stuck` of
   `HotReload` are for ever too, and that nothing else blocks a send.
3. `LuaConv` with functions on the depth of a table in place of its `RECURSIVE` operators, so that what
   comes back can be proved by induction on the depth.
