# Verification of rsketch

TLA+ specifications of the rsketch server, checked with TLC and proved with
TLAPS. File names below are relative to the repository root.

## The system

rsketch is a server scaffold in Rust. `crates/cmd` starts `crates/app`, which
starts one gRPC and one REST server of `crates/server` on a multi-threaded
tokio runtime and stops them on SIGINT, SIGTERM or a request of its owner.
`crates/common` holds telemetry and small value types; `crates/store` declares
a storage trait that nothing implements yet; `crates/core` is empty.

| Component | State it keeps | Operations | Talks to |
|---|---|---|---|
| gRPC server, `crates/server/src/grpc.rs` | its task, listening socket, connections, one readiness reporter per service | `start_grpc_server`, the task it spawns, the reporters | the handle: start channel, cancellation token, join handles; the OS: bind |
| REST server, `crates/server/src/http.rs` | its task, listening socket, connections; while it starts, the router | `start_rest_server` with its route handlers, the task it spawns | the same; the handlers of its caller |
| `ServiceHandler`, `crates/server/src/lib.rs` | `started_rx`, token, join handles | `wait_for_start`, `shutdown`, `wait_for_stop`, `is_finished`, drop | both servers; its owner |
| `App`, `crates/app/src/lib.rs` | `running`, the App token, the loop task, the shutdown channel, the two handles | `start`, the loop, `AppHandle::{shutdown, wait_for_shutdown}`, `run` | both servers, signals, the runtime |
| Command line, `crates/cmd` | none | `hello`, `server` | `App::run`, the runtime it creates and drops |
| Logging, `crates/common/src/telemetry/logging.rs` | global subscriber, `Once`, worker guards | `init_global_logging`, `init_tracing_subscriber`, `init_default_ut_logging` | everybody who logs |
| Trace sampler and context, `tracing_sampler.rs`, `tracing_context.rs` | options only | `should_sample`, W3C conversion | the OpenTelemetry SDK |
| Panic hook, `panic_hook.rs` | process-wide hook, counter | `set_panic_hook`, the hook | the standard library, every thread that panics |
| `ReadableSize`, `readable_size.rs` | a 64-bit count | parse, print, serialise, arithmetic | configuration files, the REST server's body limit |
| `env.rs` | none | `var`, `var_parsed`, `required_var` | dotenv |
| `Location`, `crates/store/src/core.rs` | a packed 64-bit word | `new`, accessors, raw | the future store |
| Scripts, `scripts/`, `k8s/` | the working tree, clusters | dependency update and analysis, CI emulation, install and cleanup | external tools |

What is hard here is the life cycle. A server is bound after its start function
returned; the start notification, the cancellation token and the join handles
are three independent channels between the owner and the task; a handle may be
dropped, or a wait given up, at any point; two servers may be configured with
one address; the application wakes `run` before it tells its servers to stop,
and the runtime is then dropped under them; signals arrive before, while and
after the handlers are installed; a start may fail half-way. Apart from that,
the panic hook is replaced in two steps while other threads may panic, and the
limits of the REST server depend on the order in which a router is built and on
sizes that pass through text and floating point.

What makes each part correct:

- *Servers and handle*: what `wait_for_start` and `wait_for_stop` report is
  true, the waits return, a shutdown is never lost, no address is shared.
- *Application*: shutdown is visible in one order, has a cause, reaches both
  servers and ends the process; a failed start leaves nothing at exit.
- *Logging*: every caller learns the same outcome, a call that returned is
  true, no writer is lost or left behind, nobody waits for ever.
- *Sampler and context*: the right rule decides, a ratio samples its share, a
  trace has one decision.
- *REST router*: every handler's routes are there or the start fails; which
  limit and which headers guard a route follows from the order of the handlers.
- *Sizes*: a size that is saved comes back, what is printed is comparable.
- *Panic hook*: a panic is counted, hooks end, no hook is lost by calls that do
  not overlap.
- *`Location`*: the fields of a word neither lose a bit nor reach each other.

## Modules

| Module | What it is |
|---|---|
| `Server` | The tasks of both kinds of server, their connections, the network addresses. No specification of its own: it is extended. |
| `GracefulServer` | Abstract specification: a launched server fails before it served, or serves until asked and stops after its requests left. |
| `ServiceHandler` | `Server` plus, per server, any owner of its handle. Refinement mapping to `GracefulServer`. |
| `App` | `Server` plus the main thread, the loop task, an `AppHandle`, signals, and the drop of the runtime. |
| `StartOnce` | Abstract specification: one call decides for all whether logging starts, and the workers it opened end with it or are handed over once. |
| `LogInit` | The one-time start of logging, with threads that enter it in every way the code has. Refinement mapping to `StartOnce`. |
| `Sampling` | The sampler and the trace contexts of several services. |
| `ReadableSize` | Sizes, their text, and what the code does between them. No specification of its own: it is extended. |
| `RestRouter` | `ReadableSize` as the body limit of a REST server, and the router that is built with it. |
| `PanicHook` | The process-wide hook under threads that install it and threads that panic. |
| `Location` | The packed word of the store, as operators. |
| `MCApp`, `MCSampling`, `MCRestRouter` | Symmetry sets, options, texts and handler lists for TLC. |
| `ServerProofs` | The invariant of the server tasks, shared by the proofs of both compositions. |
| `ServiceHandlerProofs`, `AppProofs`, `LogInitProofs`, `SamplingProofs`, `PanicHookProofs`, `RestRouterProofs` | The theorems; the refinements are in `ServiceHandlerProofs` and `LogInitProofs`. |
| `NumberProofs` | Minima, products, quotients and powers of two, which the proofs of the sampler and of the sizes use, and the theorems about `Location`. |

### Server

`task` is the life of the spawned future: `spawned` until its first poll,
`serving` from the bind to the completion of the shutdown future, `draining`
until the serve future resolves, then `done`, or `panicked` for the `unwrap` of
the REST bind, or `aborted` when a runtime is dropped. `started` is the oneshot
channel, closed when the task drops its sender unsent. `cancelled` is the
token. `reporter` holds the readiness tasks of the gRPC server. `port` maps an
address to its listener, which may be another process. `conn` holds one
connection per client and server: `idle`, `busy` with a request, `closed`, or
`lost` when a request was cut by an abort.

tonic and axum are modelled from how the code uses them: bind, then poll the
shutdown future, stop accepting when it completes, close idle connections,
resolve when no connection is left. A draining server may keep its socket
until the task ends or close it at once (`BeginDrain` allows both).

### ServiceHandler

`owner` is a program counter per handle. The borrow checker allows one call at
a time and nothing after `wait_for_stop`; it allows giving a pending wait up by
dropping its future, and dropping the handle. `rxTaken` is `started_rx ==
None`. `startSeen` records that the owner was told of the start. `is_finished`
reads and changes nothing; it is the operator `Ended`.

### App

`main` walks through `App::start` (`start`, `grpc`, `rest`, `loop`) and then
through `App::run` (`waiting`) or the use of an `AppHandle` (`holding` to
`settling`), and then through the drop of the runtime (`returned`, `dropping`,
`exited`). `loop` is the task spawned by `start`; from `woken` to `done` it
awaits nothing, so the drop of the runtime, which waits for a poll in
progress, cannot cut it there (`AbortLoop`). A signal without a handler kills
the process; a handler stays installed for ever. `LoopPollsReady` leaves open
which handlers were installed, because `select!` polls its branches in random
order. `InstallCanFail` lets the two `expect`s of `shutdown_signal` fail.
`result` is what `run` gives: nothing yet, `ok`, `err` for a start that failed,
or `panicked` when logging could not be started (`LoggingPanics`), which is
before `start` sets anything; `LogInit` says when that happens.

### LogInit

`global` and `ut` are the two `Once`s, `pc` is where each thread stands; the
steps `tracer` to `leaving` are the closure of `init_global_logging` in its
order. A `Once` blocks callers while it runs and makes them panic when it is
poisoned: calls after a failed one fail as well, they are not ignored. A panic
unwinds in steps: it leaves the inner `Once`, which is poisoned from then on
while the workers still run (`Panics`), then `init_global_logging`, which drops
the guards (`UnwindInit`), then its caller, for a unit test through the outer
`Once` (`UnwindCaller`). `guard` says who holds each `WorkerGuard`: a thread, the static of
the unit tests, or nobody any more. There are four kinds of threads: `Direct`
keeps the guards until main returns (`examples/hello-server.rs`), `Apps` drops
them when `App::start` returns, `Uts` calls `init_default_ut_logging`, `Tests`
installs its own subscriber as the tests of `http.rs` do. Which layers a call
asks for follows from its kind, or is free for `Direct`. Appenders, the level
and the exporter may fail; the logger and the subscriber fail when they are
taken. The mutex around the static is only locked inside the outer `Once` and
is not modelled apart from it. An endpoint is one of four classes, since
the code looks at its first four characters only.

### Sampling

A span is a record of its service, trace id, attributes and decision. A carrier
is the text `to_json` makes of a context; carriers are never removed, so they
arrive in any order and any number of times, and damaged text may arrive at any
moment. Ratios are integers in units of `1/Unit`: the code multiplies a float
by a power of two, which is exact, and cuts it off, which is integer division.
`Half` stands for `1u64 << 63`. Only the low half of a trace id is represented,
because the sampler ignores the other one.

### ReadableSize

A size is a word of `WordBits` bits. A text is a plain number, a decimal with a
unit, or malformed; decimals are counted in tenths, the finest the code prints.
A number that is no word is rejected, as is a malformed text. A float is
modelled by what it does: `FloatFloor` rounds to `FloatBits` significant bits, a
tie to the even side, and drops the fraction; its exponents end beyond every
word, where `as u64` saturates. The constructors and the multiplication wrap, as release builds do.
Units reach from B to PiB.

### RestRouter

`phase` follows `start_rest_server`: the router with `/health` and its fallback
gets the body limit, then CORS, then each handler is applied in its turn, then
the task is spawned. `routes` gives the body limit and the CORS headers of each
route. A handler is what it does to the router: it brings paths, may put a limit
on its own routes or on all routes that are there (`whole`), and `keeps` the
given router, or only its routes, when it merges that router into one of its own
and axum leaves its own fallback in force, or nothing, when it returns a router
of its own. `Kept` and `Own` are the two parts, `Applied` what is returned. axum
is external: a layer wraps the routes that exist when it is added, the inner of
two limits counts, and a route that is taken makes `route` or `merge` panic, in
the caller. A handler that sets a fallback or CORS headers, or takes single
routes away, is not modelled. A path stands for a path with its method; axum
joins different methods of one path. Before the router is built, the size in its configuration may go
through every operation of `ReadableSize`, any number of times.

### PanicHook

The hook in force is a chain: layers of `set_panic_hook` around the hook that
was there before the first. `TakeHook` and `SetHook` are the two steps of a call;
between them the library's own hook is in force, and what a second call takes
then is that. The standard library holds a lock for reading while a hook runs,
which is why no step of `set_panic_hook` happens while a panic is in its hook.
`covered` and `overlapped` are history: a panic began with a layer in force, two
calls ran into each other.

### Location

Shifts are multiplications and divisions by `Half`, `|` is addition of disjoint
bits, a narrowing cast keeps the remainder. There is no state, so no run: the two
theorems say all there is.

## Runs

| Run | Question | Instance |
|---|---|---|
| `handler` | Is what the handle tells its owner true, whatever the owner does? Do the waits return and does shutdown end the server? Do the servers implement `GracefulServer`? | one gRPC and one REST server, one address and an unparsable one, one service, one client |
| `handler_panic` | Does `wait_for_stop` report a panic? It does not (finding). | one address |
| `app_safety` | Is shutdown ordered, caused, complete; what is left at exit? | both drivers, failing handler installation, two addresses |
| `app_live` | Do a signal and a start that failed or panicked end the process? | one address |
| `app_run_returns` | Does `run` wait for its servers? It does not (finding). | `run`, two addresses |
| `log_start` | Does every call end, is what they return true, is every guard held? Does the code implement `StartOnce`? | four kinds of threads: one `Direct`, one of `Apps`, two `Uts`, one of `Tests` |
| `log_writers` | Does logging outlive `App::start`? It does not (finding). | one `App` |
| `log_endpoint` | Does every endpoint have a scheme? No (finding). | one `Direct` |
| `sampling` | Has a trace one decision, by the right rule, and is its ratio met? | two services, nine options, five attribute lists, eight ids, two spans |
| `rest_router` | Does every size survive saving and printing? Are all handlers' routes there, and what guards them? | every word of 13 bits, eleven typed texts, ten handler lists |
| `rest_middleware` | Do the configured limit and CORS guard every route? They do not (finding). | the same |
| `panic_hook` | Is a panic counted, how often, which hook survives, do hooks end? | three calls, two panics |

Bounds. Two servers are the application's own number, and enough for one server
to take, release or block the address of the other. The servers of `handler`
and `app_live` compete for one address, which is the worse case; `app_safety`
has two, so that the servers collide or not and a foreign process holds one of
them, and the proofs are for any set of addresses. One client per server gives
every state of a connection; clients do not interact. One service: reporters
are independent. Every counter of the code is finite here, so no other bound is
needed. For logging, two unit tests race for the outer `Once` and all others
for the inner one. For sampling, `MaxSpans` bounds the spans: two compare two
roots, or a root and its child in either service, and chains of any length are
covered by a theorem; a `Unit` of 3 makes every bound but 0 and 1 inexact, and
the options include ratios below 0 and above 1. For sizes, words have 13 bits,
floats 10 and units 2, for 64, 53 and 10 in the code: as there, a float and a
unit together are one bit short of a word, and the largest unit is still exact
as a float, so each of the code's cases (exact, rounded, saturated, wrapped,
every unit) happens, and every word is reached. The handler lists have limits
on routes and on routers before and after each other, handlers without routes,
handlers that merge and one that replaces the router, before and after the
others, and a path wanted twice and `/health` wanted by a handler, each with and
without a replacement in between. Three calls of
`set_panic_hook` are enough for a third one to follow, or run into, two that
overlap; two panics for one to wait behind another. Every state graph is
explored completely. No run disables the deadlock check.

Fairness. The runtime polls woken tasks, so each task step is weakly fair. The
main thread's steps after a decision are weakly fair. The operating system runs
every thread that has called the logging initialisation, that is between the
two steps of `set_panic_hook`, or that is in a hook. Nothing is assumed of
owners (they may never call anything), of threads that have not called or hold
their guards, of calls of `set_panic_hook` not yet begun, of clients (a request
may stall for ever, which is why `ShutdownEndsServer` and `WaitForStopReturns`
are stated under `NoStall`), of other processes, or of signals.

### Findings

- `wait_for_stop` answers `Ok` for a task that panicked; its comment promises a
  panic (`crates/server/src/lib.rs:95`).
- `wait_for_shutdown` and `run` return before the servers are told to stop, and
  requests in flight are then cut by the drop of the runtime; the comments say
  "Wait for the application to shutdown" and "blocking until it's shut down"
  (`crates/app/src/lib.rs:93`, `:159`).
- The body limit and the CORS headers of a REST server reach `/health` and the
  fallback only: both layers are added before the handlers' routes. The docs say
  "Sets up the Axum router with middleware (CORS, body size limits)" and
  "Maximum HTTP request body size" (`crates/server/src/http.rs:42`, `:53`, `:104`).
- `App::start` drops the worker guards of logging when it returns, and with them
  the writers (`crates/app/src/lib.rs:101`, `logging.rs:346`).
- A bare OTLP endpoint whose host name begins with `http` gets no scheme
  (`logging.rs:227`, `:739`).

Observations that no run states, because no text of the repository promises
otherwise or because a run would only restate them:

- `App::start` returns `Ok` before its servers bind, so also when a port is in
  use; a test expects an error there (`crates/app/src/lib.rs:208`).
- `max_recv_message_size` and `max_send_message_size` of the gRPC configuration
  are never read (`grpc.rs:50`); tonic's own limits count.
- A text such as `"-1KB"` loads as 0, while a negative number is rejected.
- A size of 2^63 bytes or more that no unit above KiB divides may come back from
  a file a KiB off, since its count of KiB does not fit a float;
  `SavedSizeSurvives` states the bound.
- Calls of `set_panic_hook` that overlap can lose the hook that was there before
  them, and each other's layer; a second call in a row counts every panic twice.
  Nothing in the repository calls it twice, which is why `SerialCallsKeepHooks`
  and `PanicsCounted` state what does hold.

## Proofs

Every invariant and every action property that a passing run checks is also a
theorem, for all values of the constants that satisfy the modules' assumptions.
For the servers and the application that is any finite or infinite sets of
clients, services and addresses, and for `ServiceHandler` any sets of servers,
from `ServerAssumption` (the two kinds of server are disjoint, the special
values are distinct) and, for the application, `AppAssumption`.

`ServerProofs` states `ServerInv`. None of the properties is inductive: that a
serving server owns its address (`Owned`) survives a bind by another server only
because binds take free addresses, and survives the release of an address only
because a server holds no address but its own (`Held`); that a started server
serves until told (`Announced`) needs that draining follows the announcement
(`Drained`). `ServerStepKeepsInv` and `SpawnKeepsInv` are used by both
compositions; `AbortKeepsServerInv` adds the drop of the runtime.

`ServiceHandlerProofs` extends it to `IInv` (a handle exists exactly when a task
does, the owner was told only what was sent, a stop was joined) and derives the
five safety properties and one that says "never again"
(`GivenUpWaitLosesStart`). `ImplementsSafety` shows that initial states and
steps map to those of `GracefulServer`.

`AppProofs` proves `AppInv`. Its core is `Promise`: when `run` could be awake,
the loop is in the poll that woke it or past it. With `AtExit` (the process
exits only after that poll) this gives `EveryServerTold`; with `Handlers` it
gives that a deaf loop never lets `run` return.

`LogInitProofs` proves `LogInv`. One thread is inside each `Once` (`Exclusive`);
a call ends as the inner `Once` ended, and the outer one can only be decided
after it (`Verdicts`), which is `OneVerdict`; what the closure has set and
opened follows its steps (`Installed`, `Opened`). That the static's guards are
never replaced needs both: whoever stores is inside the outer `Once`, and guards
in the static mean that it is done or about to be left. `ClosureIsFirst` says
that the `expect` on `RELOAD_HANDLE` cannot fail, which is why `SetReload` has
no panic; like `StaticGuardsStay`, it is proved only. `StartsOnce` is the
refinement of `StartOnce`, step by step: entering a `Once` is a stutter, a panic
in the closure or its end decides, unwinding releases the workers and then the
caller, everybody else learns, and what a caller does
with its guards is `HandOver`. It needs one more invariant, `OneHolder`: all
workers that are open have the same holder, and while the closure runs it is the
thread that runs it (`ClosureHolds`). `StartOnce` has no step out of a static
that holds guards, and none that answers two calls differently. The assumptions
are that a thread is of one kind and is none of the values `guard` uses for
other holders.

`SamplingProofs` proves that a trace has one decision, with the strengthening
that every carrier agrees with a span of its trace, and that the sampler is
monotone in the ratio. `FirstRulesDecide` follows from `RootInv`: every root
span was decided by `RatioFor`, the loop of the code, and `RatioIsGiven` shows
that what the loop finds is what `Gives` asks of the first rule that applies.
`SharesAreRatios` counts: the ids below a bound are pairs that the shift makes
alike, so their number is twice the bound. `SamplingAssumption` says that rules
and attributes are lists, attributes are pairs, and ratios integers.

`PanicHookProofs` proves `HookInv`, for any finite number of calls and any
number of panics. No chain is longer than the calls that have returned, neither
the one in force, nor one that a call has taken, nor what a panic has counted
and has yet to run (`Chains`); a layer is in force unless a call is under way
(`Cover`); without overlap the complete chain is in force or in the hands of the
one call (`Serial`).

`RestRouterProofs` proves, for any list of handlers, that the server is spawned
with exactly the routes that remain or a handler wanted a path that is taken,
from `RouterInv`: at every turn the router has the routes of the handlers since
the last replacement (`Collected`, `Remains`), and none of the handlers so far
clashes. A handler clashes, by the list alone, exactly when it finds its path
taken (`ClashIsSeen`). `RoutesAsLayered` is not inductive, as it speaks of the
finished router. `RoutesInv` says it of every turn: a route has the limit of the
first handler, from the one that brought it (`IsOrigin`), that limits it
(`Guarded`), and `OneMoreLimiter` says that one more handler is the first only
where none was before, since it comes last. For the unknown path the origin is
the last handler that merged or replaced the router.

The same module proves what becomes of sizes, for all widths of words, floats
and units that satisfy `WidthAssumption` (a float and a unit together are one
bit shorter than a word, the largest unit fits a float; 64, 53 and 10 do).
`RouterTypeCorrect` shows that a size stays a word whatever is done to it.
`SavedSizesSurvive` rests on `ReloadCases`: a size comes back as it was, or,
when a unit divides it, as the float nearest to it (`Nearest`). With few enough
significant bits that is the size itself (`NearestExact`); a larger one is moved
to a multiple of two KiB, at most a KiB away (`NearestNear`, `NearestLarge`),
where it is a float and is moved no second time, or to the largest size, which
is odd and saved as a plain number (`ReloadLargest`). `DisplaysAreFaithful`
needs that rounding is monotone, also from one exponent to the next
(`NearestMonotone`) and from one unit to the next (`PrintedMonotone`). The
largest sizes need an argument of their own: floats are two KiB apart there,
which is all the bound allows, so reading a size back must not add a rounding to
that of printing it. It does not, because half of the last digit, a twentieth of
a PiB, is nearer to the multiple of two KiB below it than to the one above
(`ReadLargest`): 2^(4i + 1) is 2 modulo 5 for every i.

Induction over numbers is done with least counterexamples (`MinOfNaturals`,
`SetInduction`), and 2^n is treated as the number of subsets of a set of n
elements (`NumberProofs`), because the provers know neither. The rest of
`NumberProofs` is division with its remainder: `FieldsReadBack` and
`RawReadsBack` show from it that a location gives back its fields and a word its
bits, for every width.

Only liveness is model-checked and not proved: `WaitForStartReturns`,
`ShutdownEndsServer`, `WaitForStopReturns` and the fair part of
`ImplementsGracefulServer`; `HandleShutdownReachesServers`, `SignalEndsProcess`
and `FailedStartEndsProcess`; `EveryCallEnds`; `HooksEnd`.

## Not modelled

gRPC routing, reflection and message contents; the OpenTelemetry layer of the
REST router; argument parsing and version strings; `env.rs`, three stateless
functions nothing calls; the division of one size by another and `as_mb`, which
only compute; the store trait, which has no implementation, and `docs/`, which
describes one; `crates/core`; the scripts, which run git, cargo, act and helm
one after another and keep no state of their own; generated bindings; the
`tokio-console` and deadlock detection features, off by default; log formats.
The health state a reporter sets is only represented by the reporter having
finished.

## Plan

1. Done: `Server`, `GracefulServer`, `ServiceHandler`, `App`, `StartOnce`,
   `LogInit`, `Sampling`, `ReadableSize`, `RestRouter`, `PanicHook`, `Location`, with their
   runs and proofs.
2. Left: the liveness properties, which TLAPS cannot prove; a second reading of
   the proofs for shorter ones.
