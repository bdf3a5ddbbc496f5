------------------------------- MODULE LogInit ------------------------------
(***************************************************************************)
(* The one-time start of logging, crates/common/src/telemetry/logging.rs:  *)
(* init_global_logging, which every other entry point calls, under its     *)
(* Once, and init_default_ut_logging, which wraps it in a Once of its own. *)
(* The global state is the logger of the log crate, the subscriber and the *)
(* reload handle; the background workers that write logs live as long as   *)
(* the WorkerGuards the calls hand out.                                    *)
(*                                                                         *)
(* Each thread makes one call.  A call may panic where the code expects    *)
(* something of its environment: a panic poisons the Once it leaves.       *)
(***************************************************************************)
CONSTANTS
    Direct,   \* call init_global_logging and keep the guards (examples/hello-server.rs)
    Apps,     \* App::start, which drops the guards when it returns
    Uts,      \* call init_default_ut_logging
    Tests     \* init_test_logging of server/src/http.rs: a subscriber of their own

Callers == Direct \cup Apps \cup Uts
Threads == Callers \cup Tests

ASSUME KindsAreDisjoint ==
    /\ Direct \cap (Apps \cup Uts \cup Tests) = {}
    /\ Apps \cap (Uts \cup Tests) = {}
    /\ Uts \cap Tests = {}

ASSUME NoThreadIsAMarker == Threads \cap {"none", "static", "dropped"} = {}

\* One non-blocking writer, with its worker thread, for each destination.
Workers == {"stdout", "file", "errFile"}

VARIABLES
    pc,          \* where each thread is
    global,      \* the Once of init_global_logging
    ut,          \* the Once of init_default_ut_logging
    logger,      \* the logger of the log crate is set
    subscriber,  \* the global subscriber of tracing: "none", "ours" or "foreign"
    reload,      \* RELOAD_HANDLE is set
    propagator,  \* the global propagator is set
    endpoint,    \* the endpoint the span exporter was built with
    guard        \* who holds the WorkerGuard of each worker

vars == <<pc, global, ut, logger, subscriber, reload, propagator, endpoint, guard>>

OnceState == {"new", "running", "done", "poisoned"}

\* The steps of the closure of init_global_logging, in their order.
GlobalStep == {"tracer", "stdout", "file", "errFile", "level", "reload", "otlp",
               "exporter", "subscriber", "leaving"}

\* "calling" and "utInside" stand before a Once; "returned" follows
\* init_global_logging, whose guards the thread now holds; "unwinding" follows a
\* panic inside it.
PcState == GlobalStep \cup {"idle", "calling", "utInside", "returned", "utStored", "ended",
                            "unwinding", "unwound", "panicked",
                            "testing", "testLogger", "quit"}

Endpoints == {"unset", "default", "given", "prefixed", "schemeless"}

TypeOK ==
    /\ pc \in [Threads -> PcState]
    /\ global \in OnceState
    /\ ut \in OnceState
    /\ logger \in BOOLEAN
    /\ subscriber \in {"none", "ours", "foreign"}
    /\ reload \in BOOLEAN
    /\ propagator \in BOOLEAN
    /\ endpoint \in Endpoints
    /\ guard \in [Workers -> Threads \cup {"none", "static", "dropped"}]

Init ==
    /\ pc = [t \in Threads |-> "idle"]
    /\ global = "new"
    /\ ut = "new"
    /\ logger = FALSE
    /\ subscriber = "none"
    /\ reload = FALSE
    /\ propagator = FALSE
    /\ endpoint = "unset"
    /\ guard = [w \in Workers |-> "none"]

\* Inside the closure of the Once of init_global_logging, and of the other one.
InGlobal(t) == pc[t] \in GlobalStep
InUt(t) ==
    /\ t \in Uts
    /\ pc[t] \in GlobalStep \cup {"utInside", "returned", "utStored", "unwinding", "unwound"}

Moves(t, from, to) == pc[t] = from /\ pc' = [pc EXCEPT ![t] = to]

\* The guards in the hands of t are dropped, and their workers end.
DropsGuards(t) ==
    guard' = [w \in Workers |-> IF guard[w] = t THEN "dropped" ELSE guard[w]]

\* Mutant of Panics: the Once stays as it was.
PanicsQuietly(t) ==
    /\ pc' = [pc EXCEPT ![t] = "unwinding"]
    /\ UNCHANGED <<global, ut, logger, subscriber, reload, propagator, endpoint, guard>>

\* A panic in the closure of init_global_logging: the unwinding leaves the Once
\* first, while the frame around it still has the guards.
Panics(t) ==
    /\ pc' = [pc EXCEPT ![t] = "unwinding"]
    /\ global' = "poisoned"
    /\ UNCHANGED <<ut, logger, subscriber, reload, propagator, endpoint, guard>>

\* Mutant of UnwindInit: the guards are forgotten.
UnwindInitHoldingGuards(t) ==
    /\ Moves(t, "unwinding", "unwound")
    /\ UNCHANGED <<global, ut, logger, subscriber, reload, propagator, endpoint, guard>>

\* Then it leaves init_global_logging, whose guards are dropped ...
UnwindInit(t) ==
    /\ Moves(t, "unwinding", "unwound")
    /\ DropsGuards(t)
    /\ UNCHANGED <<global, ut, logger, subscriber, reload, propagator, endpoint>>

\* ... and its caller, for a unit test through the other Once.
UnwindCaller(t) ==
    /\ Moves(t, "unwound", "panicked")
    /\ ut' = IF t \in Uts THEN "poisoned" ELSE ut
    /\ UNCHANGED <<global, logger, subscriber, reload, propagator, endpoint, guard>>

-----------------------------------------------------------------------------
(* The two Onces: init_default_ut_logging around init_global_logging.       *)

Call(t) ==
    /\ t \in Callers
    /\ Moves(t, "idle", "calling")
    /\ UNCHANGED <<global, ut, logger, subscriber, reload, propagator, endpoint, guard>>

\* Mutant of EnterUt: the Once is missing.
EnterUtAgain(t) ==
    /\ t \in Uts
    /\ ut \in {"new", "done"}
    /\ Moves(t, "calling", "utInside")
    /\ ut' = "running"
    /\ UNCHANGED <<global, logger, subscriber, reload, propagator, endpoint, guard>>

\* START.call_once of init_default_ut_logging, by the first caller.
EnterUt(t) ==
    /\ t \in Uts
    /\ ut = "new"
    /\ Moves(t, "calling", "utInside")
    /\ ut' = "running"
    /\ UNCHANGED <<global, logger, subscriber, reload, propagator, endpoint, guard>>

\* ... and by a later one.
SkipUt(t) ==
    /\ t \in Uts
    /\ ut = "done"
    /\ Moves(t, "calling", "ended")
    /\ UNCHANGED <<global, ut, logger, subscriber, reload, propagator, endpoint, guard>>

FindUtPoisoned(t) ==
    /\ t \in Uts
    /\ ut = "poisoned"
    /\ Moves(t, "calling", "panicked")
    /\ UNCHANGED <<global, ut, logger, subscriber, reload, propagator, endpoint, guard>>

\* t is about to run START.call_once of init_global_logging.
AtGlobal(t) == pc[t] = IF t \in Uts THEN "utInside" ELSE "calling"

EnterGlobal(t) ==
    /\ t \in Callers /\ AtGlobal(t)
    /\ global = "new"
    /\ pc' = [pc EXCEPT ![t] = "tracer"]
    /\ global' = "running"
    /\ UNCHANGED <<ut, logger, subscriber, reload, propagator, endpoint, guard>>

\* Mutant of SkipGlobal: a caller does not wait for the one that runs.
SkipGlobalEarly(t) ==
    /\ t \in Callers /\ AtGlobal(t)
    /\ global \in {"running", "done"}
    /\ pc' = [pc EXCEPT ![t] = "returned"]
    /\ UNCHANGED <<global, ut, logger, subscriber, reload, propagator, endpoint, guard>>

\* A later caller gets an empty vector of guards.
SkipGlobal(t) ==
    /\ t \in Callers /\ AtGlobal(t)
    /\ global = "done"
    /\ pc' = [pc EXCEPT ![t] = "returned"]
    /\ UNCHANGED <<global, ut, logger, subscriber, reload, propagator, endpoint, guard>>

\* call_once panics at a poisoned Once; this call has no guards.
FindGlobalPoisoned(t) ==
    /\ t \in Callers /\ AtGlobal(t)
    /\ global = "poisoned"
    /\ pc' = [pc EXCEPT ![t] = "unwound"]
    /\ UNCHANGED <<global, ut, logger, subscriber, reload, propagator, endpoint, guard>>

EnterOnce(t) ==
    \/ EnterUt(t)
    \/ SkipUt(t)
    \/ FindUtPoisoned(t)
    \/ EnterGlobal(t)
    \/ SkipGlobal(t)
    \/ FindGlobalPoisoned(t)

-----------------------------------------------------------------------------
(* The closure of init_global_logging.                                      *)

\* LogTracer::init().expect(..)
InitTracer(t) ==
    \/ /\ ~logger
       /\ Moves(t, "tracer", "stdout")
       /\ logger' = TRUE
       /\ UNCHANGED <<global, ut, subscriber, reload, propagator, endpoint, guard>>
    \/ /\ logger
       /\ pc[t] = "tracer"
       /\ Panics(t)

\* A writer is opened: t holds its guard until init_global_logging returns it.
Opens(t, w) == guard' = [guard EXCEPT ![w] = t]

\* opts.append_stdout
StdoutLayer(t) ==
    /\ Moves(t, "stdout", "file")
    /\ \/ Opens(t, "stdout")
       \/ t \in Direct /\ UNCHANGED guard
    /\ UNCHANGED <<global, ut, logger, subscriber, reload, propagator, endpoint>>

\* opts.dir is empty by default, in App::start too, and in a unit test whose
\* UNITTEST_LOG_DIR is set to nothing.
NoDir(t) ==
    /\ Moves(t, "file", "level")
    /\ UNCHANGED <<global, ut, logger, subscriber, reload, propagator, endpoint, guard>>

FileLayer(t) ==
    /\ t \notin Apps
    /\ \/ /\ Moves(t, "file", "errFile")
          /\ Opens(t, "file")
       \/ /\ Moves(t, "errFile", "level")
          /\ Opens(t, "errFile")
    /\ UNCHANGED <<global, ut, logger, subscriber, reload, propagator, endpoint>>

\* The directory or the file cannot be created.
AppenderFails(t) ==
    /\ t \notin Apps
    /\ pc[t] \in {"file", "errFile"}
    /\ Panics(t)

\* The level comes from the options or from RUST_LOG and may not parse.
ParseLevel(t) ==
    \/ /\ Moves(t, "level", "reload")
       /\ UNCHANGED <<global, ut, logger, subscriber, reload, propagator, endpoint, guard>>
    \/ /\ pc[t] = "level"
       /\ Panics(t)

\* RELOAD_HANDLE.set(..).expect(..): ClosureRunsOnce says that the handle is not
\* set here, so the panic is not an action.
SetReload(t) ==
    /\ ~reload
    /\ Moves(t, "reload", "otlp")
    /\ reload' = TRUE
    /\ UNCHANGED <<global, ut, logger, subscriber, propagator, endpoint, guard>>

\* opts.enable_otlp_tracing, off by default.
NoOtlp(t) ==
    /\ Moves(t, "otlp", "subscriber")
    /\ UNCHANGED <<global, ut, logger, subscriber, reload, propagator, endpoint, guard>>

Otlp(t) ==
    /\ t \in Direct
    /\ Moves(t, "otlp", "exporter")
    /\ propagator' = TRUE
    /\ UNCHANGED <<global, ut, logger, subscriber, reload, endpoint, guard>>

\* Mutant of Endpoint: the option is passed on as it is.
EndpointUnresolved(given) == given

\* The endpoint of the options: none, a URL, a bare authority such as
\* collector:4317, or one whose host name begins with http (httpd:4317).
Endpoint(given) ==
    CASE given = "none" -> "default"
      [] given = "url" -> "given"
      [] given = "host" -> "prefixed"
      [] given = "httpHost" -> "schemeless"

\* build_otlp_exporter
BuildExporter(t) ==
    \/ /\ Moves(t, "exporter", "subscriber")
       /\ \E given \in {"none", "url", "host", "httpHost"} : endpoint' = Endpoint(given)
       /\ UNCHANGED <<global, ut, logger, subscriber, reload, propagator, guard>>
    \/ /\ pc[t] = "exporter"
       /\ Panics(t)

\* Mutant of SetSubscriber: the error of set_global_default is ignored.
SetSubscriberQuietly(t) ==
    /\ Moves(t, "subscriber", "leaving")
    /\ subscriber' = IF subscriber = "none" THEN "ours" ELSE subscriber
    /\ UNCHANGED <<global, ut, logger, reload, propagator, endpoint, guard>>

\* set_global_default(..).expect(..)
SetSubscriber(t) ==
    \/ /\ subscriber = "none"
       /\ Moves(t, "subscriber", "leaving")
       /\ subscriber' = "ours"
       /\ UNCHANGED <<global, ut, logger, reload, propagator, endpoint, guard>>
    \/ /\ subscriber # "none"
       /\ pc[t] = "subscriber"
       /\ Panics(t)

LeaveGlobal(t) ==
    /\ Moves(t, "leaving", "returned")
    /\ global' = "done"
    /\ UNCHANGED <<ut, logger, subscriber, reload, propagator, endpoint, guard>>

RunGlobal(t) ==
    \/ InitTracer(t)
    \/ StdoutLayer(t)
    \/ NoDir(t)
    \/ FileLayer(t)
    \/ AppenderFails(t)
    \/ ParseLevel(t)
    \/ SetReload(t)
    \/ NoOtlp(t)
    \/ Otlp(t)
    \/ BuildExporter(t)
    \/ SetSubscriber(t)
    \/ LeaveGlobal(t)

-----------------------------------------------------------------------------
(* After init_global_logging.                                               *)

\* *g = Some(init_global_logging(..)): what the static held before is dropped.
StoreGuards(t) ==
    /\ t \in Uts
    /\ Moves(t, "returned", "utStored")
    /\ guard' = [w \in Workers |->
                    CASE guard[w] = t -> "static"
                      [] guard[w] = "static" -> "dropped"
                      [] OTHER -> guard[w]]
    /\ UNCHANGED <<global, ut, logger, subscriber, reload, propagator, endpoint>>

LeaveUt(t) ==
    /\ t \in Uts
    /\ Moves(t, "utStored", "ended")
    /\ ut' = "done"
    /\ UNCHANGED <<global, logger, subscriber, reload, propagator, endpoint, guard>>

\* App::start returns: its local _guards are dropped.
ReturnFromStart(t) ==
    /\ t \in Apps
    /\ Moves(t, "returned", "ended")
    /\ DropsGuards(t)
    /\ UNCHANGED <<global, ut, logger, subscriber, reload, propagator, endpoint>>

\* The end of main.
ReturnFromMain(t) ==
    /\ t \in Direct
    /\ Moves(t, "returned", "ended")
    /\ DropsGuards(t)
    /\ UNCHANGED <<global, ut, logger, subscriber, reload, propagator, endpoint>>

\* try_init, whose error init_test_logging ignores: the subscriber, then the
\* logger, each only if there is none.
TestInit(t) ==
    /\ t \in Tests
    /\ \/ /\ Moves(t, "idle", "testing")
          /\ UNCHANGED <<logger, subscriber>>
       \/ /\ subscriber = "none"
          /\ Moves(t, "testing", "testLogger")
          /\ subscriber' = "foreign"
          /\ UNCHANGED logger
       \/ /\ subscriber # "none"
          /\ Moves(t, "testing", "quit")
          /\ UNCHANGED <<logger, subscriber>>
       \/ /\ Moves(t, "testLogger", "quit")
          /\ logger' = TRUE
          /\ UNCHANGED subscriber
    /\ UNCHANGED <<global, ut, reload, propagator, endpoint, guard>>

-----------------------------------------------------------------------------
(* The specification.                                                       *)

\* What a thread does once it has called.
Step(t) ==
    \/ EnterOnce(t)
    \/ RunGlobal(t)
    \/ UnwindInit(t)
    \/ UnwindCaller(t)
    \/ StoreGuards(t)
    \/ LeaveUt(t)
    \/ ReturnFromStart(t)

Out(t) == pc[t] \in {"ended", "panicked", "quit"}

\* All calls are made.
Terminated ==
    /\ \A t \in Threads : Out(t)
    /\ UNCHANGED vars

Next ==
    \/ \E t \in Threads : Call(t) \/ Step(t) \/ ReturnFromMain(t) \/ TestInit(t)
    \/ Terminated

Safe == Init /\ [][Next]_vars

\* The operating system runs every thread; nobody has to call, or to leave main.
Spec == Safe /\ \A t \in Callers : WF_vars(Step(t))

-----------------------------------------------------------------------------
(* Properties.                                                              *)

\* A call of the initialisation has come back.
Returned(t) == t \in Callers /\ pc[t] \in {"returned", "utStored", "ended"}
Panicked(t) == t \in Callers /\ pc[t] = "panicked"

\* All calls agree: if one returns, none panics.  Both Onces decide once, and a
\* caller that waits for another one gets that one's verdict.
OneVerdict == \A t, u \in Threads : ~(Returned(t) /\ Panicked(u))

\* When any call has returned, from whatever thread, our subscriber and a
\* logger are installed and the level can be changed: a test that installed its
\* own subscriber in between has made the call panic.
ReturnedMeansInstalled ==
    \A t \in Threads : Returned(t) => logger /\ subscriber = "ours" /\ reload

\* However many threads call, the closure is the first of ours to run: only a
\* foreign logger can make the `expect` on LogTracer fail, the one on
\* RELOAD_HANDLE ("maybe init_global_logging get called twice?") cannot, and no
\* writer is opened over another.
ClosureRunsOnce ==
    \A t \in Threads :
        /\ pc[t] = "tracer" /\ logger => \E h \in Tests : pc[h] = "quit"
        /\ pc[t] = "reload" => ~reload
        /\ pc[t] \in Workers => guard[pc[t]] = "none"

\* A guard is held by a call in progress, by the one that returned it or by one
\* that unwinds, and a failed initialisation leaves no worker thread behind it:
\* other callers may be told of the failure while the workers still end.
GuardsAreHeld ==
    \A w \in Workers :
        /\ guard[w] \in Threads =>
               InGlobal(guard[w]) \/ pc[guard[w]] \in {"returned", "unwinding"}
        /\ global = "poisoned" =>
               guard[w] \in {"none", "dropped"} \/ pc[guard[w]] = "unwinding"

\* The guards of the unit tests stay in their static for the rest of the process.
StaticGuardsStay ==
    [][\A w \in Workers : guard[w] = "static" => guard'[w] = "static"]_vars

\* No call waits for ever: not for a thread that failed, nor for each other.
EveryCallEnds ==
    \A t \in Callers :
        pc[t] = "calling" ~> Out(t) \/ (t \in Direct /\ pc[t] = "returned")

\* What a call was told, what was decided, and who holds the workers.
Told(t) ==
    CASE pc[t] = "idle" -> "idle"
      [] pc[t] = "panicked" -> "panicked"
      [] Returned(t) -> "returned"
      [] OTHER -> "asking"

Answers == [t \in Callers |-> Told(t)]

Decided ==
    CASE global = "done" -> "returned"
      [] global = "poisoned" -> "panicked"
      [] OTHER -> "open"

Holders == {guard[w] : w \in Workers} \ {"none"}

Once == INSTANCE StartOnce WITH answer <- Answers, verdict <- Decided, holders <- Holders

\* One call decides for all, the others are told what it decided, and the workers
\* it opened end with it if it fails, or are handed over once: to the static for
\* good, or to nobody (logging.rs:388-411, :489-681, app/src/lib.rs:101).
ImplementsStartOnce == Once!Spec

\* "guards ... must be kept alive for logging to function" (logging.rs:346): as
\* long as main has not returned, what the subscriber writes to has a worker.
WritersAlive ==
    subscriber = "ours" /\ (\A t \in Direct : pc[t] # "ended")
        => \A w \in Workers : guard[w] # "dropped"

\* "URLs without a scheme will automatically get http:// prepended" (logging.rs:227).
EndpointHasScheme == endpoint # "schemeless"
=============================================================================
