-------------------------------- MODULE App --------------------------------
(***************************************************************************)
(* The application of crates/app/src/lib.rs: App::start and its loop task, *)
(* AppHandle, App::run, the signals of shutdown_signal, and the runtime    *)
(* that ServerArgs::run (crates/cmd/src/main.rs) drops when run returns.   *)
(* It owns one gRPC and one REST server, whose tasks are in Server.        *)
(*                                                                         *)
(* The main thread, the loop task, the server tasks and the operating      *)
(* system interleave freely: the runtime is multi-threaded.                *)
(***************************************************************************)
EXTENDS Server

CONSTANTS
    grpc, rest,      \* the two servers
    Drivers,         \* who drives start: "run" (App::run) or "handle" (an AppHandle)
    InstallCanFail   \* whether the operating system may refuse a signal handler

ASSUME AppAssumption ==
    /\ grpc # rest
    /\ GrpcServers = {grpc}
    /\ RestServers = {rest}
    /\ Drivers \subseteq {"run", "handle"}
    /\ InstallCanFail \in BOOLEAN

Signals == {"INT", "TERM"}

VARIABLES
    driver,      \* who drives this process
    graceful,    \* config.enable_graceful_shutdown
    main,        \* where the main thread is
    result,      \* what App::run returned
    loop,        \* the main application loop task
    running,     \* App::running
    appToken,    \* App::cancellation_token is cancelled
    oneshot,     \* shutdown_tx / shutdown_rx
    installed,   \* the signals tokio has a handler for (never uninstalled)
    caught       \* the signals a handler has recorded

appVars == <<driver, graceful, main, result, loop,
             running, appToken, oneshot, installed, caught>>

vars == <<serverVars, appVars>>

\* "start" .. "loop" are the stages of App::start, "waiting" is
\* wait_for_shutdown in run, "holding" .. "settling" the use of an AppHandle,
\* "dropping" the drop of the runtime.
MainState == {"start", "grpc", "rest", "loop", "waiting",
              "holding", "stored", "cancelled", "settling",
              "returned", "dropping", "exited", "killed"}

\* "woken" .. "grpcTold" lie within one poll of the loop task: nothing is
\* awaited between them.
LoopState == {"absent", "spawned", "waiting", "woken", "stored", "appCancelled",
              "grpcTold", "done", "panicked", "aborted"}

LoopEnded == loop \in {"absent", "done", "panicked", "aborted"}

TypeOK ==
    /\ ServerTypeOK
    /\ driver \in Drivers
    /\ graceful \in BOOLEAN
    /\ main \in MainState
    /\ result \in {"none", "ok", "err", "panicked"}
    /\ loop \in LoopState
    /\ running \in BOOLEAN
    /\ appToken \in BOOLEAN
    /\ oneshot \in {"none", "pending", "sent", "closed"}
    /\ installed \subseteq Signals
    /\ caught \subseteq Signals

\* AppConfig::open: not running, nothing cancelled.
Init ==
    /\ ServerInit
    /\ driver \in Drivers
    /\ graceful \in BOOLEAN
    /\ main = "start"
    /\ result = "none"
    /\ loop = "absent"
    /\ running = FALSE
    /\ appToken = FALSE
    /\ oneshot = "none"
    /\ installed = {}
    /\ caught = {}

MainMoves(from, to) == main = from /\ main' = to

LoopMoves(from, to) == loop = from /\ loop' = to

-----------------------------------------------------------------------------
(* App::start.                                                              *)

\* init_tracing_subscriber may panic (a level that does not parse, a foreign
\* logger or subscriber): start and run unwind before anything is set.
LoggingPanics ==
    /\ MainMoves("start", "returned")
    /\ result' = "panicked"
    /\ UNCHANGED <<serverVars, driver, graceful, loop, running, appToken, oneshot, installed,
                   caught>>

BeginStart ==
    /\ MainMoves("start", "grpc")
    /\ running' = TRUE
    /\ oneshot' = "pending"
    /\ UNCHANGED <<serverVars, driver, graceful, result, loop, appToken, installed, caught>>

StartGrpc ==
    /\ MainMoves("grpc", "rest")
    /\ SpawnGrpc(grpc)
    /\ UNCHANGED <<driver, graceful, result, loop, running, appToken, oneshot, installed, caught>>

StartRest ==
    /\ MainMoves("rest", "loop")
    /\ SpawnRest(rest)
    /\ UNCHANGED <<driver, graceful, result, loop, running, appToken, oneshot, installed, caught>>

\* Mutants of StartFails: the flag of the failed start is taken back; run waits
\* although start failed.
StartFailsCleanly ==
    /\ \/ MainMoves("grpc", "returned") /\ ~AddressParses(grpc)
       \/ MainMoves("rest", "returned") /\ ~AddressParses(rest)
    /\ result' = "err"
    /\ oneshot' = "closed"
    /\ running' = FALSE
    /\ UNCHANGED <<serverVars, driver, graceful, loop, appToken, installed, caught>>

StartFailsAndWaits ==
    /\ \/ MainMoves("grpc", "waiting") /\ ~AddressParses(grpc)
       \/ MainMoves("rest", "waiting") /\ ~AddressParses(rest)
    /\ result' = "err"
    /\ oneshot' = "closed"
    /\ UNCHANGED <<serverVars, driver, graceful, loop, running, appToken, installed, caught>>

\* The `?` of start, and of run after it: the AppHandle, shutdown_rx and the
\* ServiceHandlers made so far are dropped.  running is not reset.
StartFails ==
    /\ \/ MainMoves("grpc", "returned") /\ ~AddressParses(grpc)
       \/ MainMoves("rest", "returned") /\ ~AddressParses(rest)
    /\ result' = "err"
    /\ oneshot' = "closed"
    /\ UNCHANGED <<serverVars, driver, graceful, loop, running, appToken, installed, caught>>

SpawnLoop ==
    /\ MainMoves("loop", IF driver = "run" THEN "waiting" ELSE "holding")
    /\ LoopMoves("absent", "spawned")
    /\ UNCHANGED <<serverVars, driver, graceful, result, running, appToken, oneshot,
                   installed, caught>>

-----------------------------------------------------------------------------
(* The loop task.                                                           *)

LoopOnly(from, to) ==
    /\ LoopMoves(from, to)
    /\ UNCHANGED <<driver, graceful, main, result, oneshot, caught>>

\* Mutants of LoopPolls: without graceful shutdown nothing is awaited; SIGTERM
\* is forgotten.
LoopPollsNoWait ==
    /\ oneshot = "pending"
    /\ LoopOnly("spawned", IF graceful THEN "waiting" ELSE "woken")
    /\ installed' = IF graceful THEN Signals ELSE {}
    /\ UNCHANGED <<serverVars, running, appToken>>

LoopPollsIntOnly ==
    /\ oneshot = "pending"
    /\ LoopOnly("spawned", "waiting")
    /\ installed' = IF graceful THEN {"INT"} ELSE {}
    /\ UNCHANGED <<serverVars, running, appToken>>

\* The first poll of shutdown_signal installs both handlers; without graceful
\* shutdown it installs none.
LoopPolls ==
    /\ oneshot = "pending"
    /\ LoopOnly("spawned", "waiting")
    /\ installed' = IF graceful THEN Signals ELSE {}
    /\ UNCHANGED <<serverVars, running, appToken>>

\* select! polls its branches in a random order: when shutdown_rx is ready on
\* the first poll the signal branches may not have been polled at all.
LoopPollsReady ==
    /\ oneshot # "pending"
    /\ LoopOnly("spawned", "woken")
    /\ installed' \in IF graceful THEN SUBSET Signals ELSE {{}}
    /\ UNCHANGED <<serverVars, running, appToken>>

\* Mutant of LoopPanics: unwinding cancels the token through a drop guard.
LoopPanicCancels ==
    /\ InstallCanFail
    /\ graceful
    /\ LoopOnly("spawned", "panicked")
    /\ installed' \in (SUBSET Signals) \ {Signals}
    /\ appToken' = TRUE
    /\ UNCHANGED <<serverVars, running>>

\* expect("failed to install ..."): the task ends, and drops shutdown_rx and
\* both ServiceHandlers.
LoopPanics ==
    /\ InstallCanFail
    /\ graceful
    /\ LoopOnly("spawned", "panicked")
    /\ installed' \in (SUBSET Signals) \ {Signals}
    /\ UNCHANGED <<serverVars, running, appToken>>

\* Mutant of LoopWakes: the branch is `Ok(()) = shutdown_rx`.
LoopWakesOnSendOnly ==
    /\ caught # {} \/ oneshot = "sent"
    /\ LoopOnly("waiting", "woken")
    /\ UNCHANGED <<serverVars, running, appToken, installed>>

LoopWakes ==
    /\ caught # {} \/ oneshot # "pending"
    /\ LoopOnly("waiting", "woken")
    /\ UNCHANGED <<serverVars, running, appToken, installed>>

LoopStoresRunning ==
    /\ LoopOnly("woken", "stored")
    /\ running' = FALSE
    /\ UNCHANGED <<serverVars, appToken, installed>>

\* Mutant of LoopCancelsApp: the App token is forgotten.
LoopForgetsApp ==
    /\ LoopOnly("stored", "appCancelled")
    /\ UNCHANGED <<serverVars, running, appToken, installed>>

LoopCancelsApp ==
    /\ LoopOnly("stored", "appCancelled")
    /\ appToken' = TRUE
    /\ UNCHANGED <<serverVars, running, installed>>

\* ServiceHandler::shutdown.
ShutdownServer(s) ==
    /\ cancelled' = [cancelled EXCEPT ![s] = TRUE]
    /\ UNCHANGED <<addr, task, started, reporter, port, conn>>

LoopTellsGrpc ==
    /\ LoopOnly("appCancelled", "grpcTold")
    /\ ShutdownServer(grpc)
    /\ UNCHANGED <<running, appToken, installed>>

LoopTellsRest ==
    /\ LoopOnly("grpcTold", "done")
    /\ ShutdownServer(rest)
    /\ UNCHANGED <<running, appToken, installed>>

-----------------------------------------------------------------------------
(* App::run, and an AppHandle in other hands.                               *)

\* wait_for_shutdown returns: run drops the AppHandle and returns Ok.
RunReturns ==
    /\ MainMoves("waiting", "returned")
    /\ appToken
    /\ result' = "ok"
    /\ oneshot' = IF oneshot = "pending" THEN "closed" ELSE oneshot
    /\ UNCHANGED <<serverVars, driver, graceful, loop, running, appToken, installed, caught>>

\* Mutant of HandleStoresRunning: the token comes before the flag.
HandleCancelsFirst ==
    /\ MainMoves("holding", "stored")
    /\ appToken' = TRUE
    /\ UNCHANGED <<serverVars, driver, graceful, result, loop, running, oneshot,
                   installed, caught>>

\* AppHandle::shutdown, one shared object at a time.
HandleStoresRunning ==
    /\ MainMoves("holding", "stored")
    /\ running' = FALSE
    /\ UNCHANGED <<serverVars, driver, graceful, result, loop, appToken, oneshot,
                   installed, caught>>

HandleCancelsApp ==
    /\ MainMoves("stored", "cancelled")
    /\ appToken' = TRUE
    /\ UNCHANGED <<serverVars, driver, graceful, result, loop, running, oneshot,
                   installed, caught>>

HandleSends ==
    /\ MainMoves("cancelled", "settling")
    /\ oneshot' = "sent"
    /\ UNCHANGED <<serverVars, driver, graceful, result, loop, running, appToken,
                   installed, caught>>

\* Mutant of HandleDropped: the channel gets a state nobody expects.
HandleDroppedOddly ==
    /\ MainMoves("holding", "settling")
    /\ oneshot' = "dropped"
    /\ UNCHANGED <<serverVars, driver, graceful, result, loop, running, appToken,
                   installed, caught>>

\* The AppHandle is dropped without shutdown.
HandleDropped ==
    /\ MainMoves("holding", "settling")
    /\ oneshot' = "closed"
    /\ UNCHANGED <<serverVars, driver, graceful, result, loop, running, appToken,
                   installed, caught>>

\* Whoever held the AppHandle stops keeping the runtime alive.
HandleReturns ==
    /\ MainMoves("settling", "returned")
    /\ UNCHANGED <<serverVars, driver, graceful, result, loop, running, appToken, oneshot,
                   installed, caught>>

-----------------------------------------------------------------------------
(* Dropping the runtime: no task is polled again, each is dropped where it  *)
(* stands, and a poll in progress is waited for.                            *)

DropRuntime ==
    /\ MainMoves("returned", "dropping")
    /\ UNCHANGED <<serverVars, driver, graceful, result, loop, running, appToken, oneshot,
                   installed, caught>>

Alive(s) == task[s] \in {"spawned", "serving", "draining"}

\* The tasks of the servers in S are gone, and with them their listeners, their
\* connections and started_tx.
Abort(S) ==
    /\ task' = [s \in Servers |-> IF s \in S /\ Alive(s) THEN "aborted" ELSE task[s]]
    /\ started' = [s \in Servers |->
                      IF s \in S /\ Alive(s) /\ started[s] = "unsent" THEN "closed" ELSE started[s]]
    /\ port' = [a \in Addresses |-> IF port[a] \in S THEN Free ELSE port[a]]
    /\ conn' = [s \in Servers |-> [c \in Clients |->
                   CASE s \in S /\ conn[s][c] = "busy" -> "lost"
                     [] s \in S /\ conn[s][c] = "idle" -> "closed"
                     [] OTHER -> conn[s][c]]]

AbortServer(s) ==
    /\ main = "dropping"
    /\ Alive(s)
    /\ Abort({s})
    /\ UNCHANGED <<addr, cancelled, reporter, appVars>>

AbortReporter(s, v) ==
    /\ main = "dropping"
    /\ reporter[s][v] = "running"
    /\ reporter' = [reporter EXCEPT ![s][v] = "aborted"]
    /\ UNCHANGED <<addr, task, started, cancelled, port, conn, appVars>>

\* Mutant of AbortLoop: the loop awaits something before it tells the servers.
AbortLoopMidway ==
    /\ main = "dropping"
    /\ loop \in {"spawned", "waiting", "appCancelled"}
    /\ LoopOnly(loop, "aborted")
    /\ UNCHANGED <<serverVars, running, appToken, installed>>

\* Only between two polls.
AbortLoop ==
    /\ main = "dropping"
    /\ loop \in {"spawned", "waiting"}
    /\ LoopOnly(loop, "aborted")
    /\ UNCHANGED <<serverVars, running, appToken, installed>>

\* Mutant of Exit: the runtime is shut down in the background.
ExitAtOnce ==
    /\ MainMoves("dropping", "exited")
    /\ UNCHANGED <<serverVars, driver, graceful, result, loop, running, appToken, oneshot,
                   installed, caught>>

Exit ==
    /\ MainMoves("dropping", "exited")
    /\ LoopEnded
    /\ \A s \in Servers : ~Alive(s) /\ ReportersEnded(s)
    /\ UNCHANGED <<serverVars, driver, graceful, result, loop, running, appToken, oneshot,
                   installed, caught>>

-----------------------------------------------------------------------------
(* Signals.                                                                 *)

InProcess == main \notin {"exited", "killed"}

SignalCaught(sg) ==
    /\ InProcess
    /\ sg \in installed
    /\ caught' = caught \cup {sg}
    /\ UNCHANGED <<serverVars, driver, graceful, main, result, loop, running, appToken,
                   oneshot, installed>>

\* The default action of the signal.
SignalKills(sg) ==
    /\ InProcess
    /\ sg \notin installed
    /\ main' = "killed"
    /\ loop' = IF LoopEnded THEN loop ELSE "aborted"
    /\ Abort(Servers)
    /\ reporter' = [s \in Servers |-> [v \in Services |->
                       IF reporter[s][v] = "running" THEN "aborted" ELSE reporter[s][v]]]
    /\ UNCHANGED <<addr, cancelled, driver, graceful, result, running, appToken, oneshot,
                   installed, caught>>

-----------------------------------------------------------------------------
StartStep == LoggingPanics \/ BeginStart \/ StartGrpc \/ StartRest \/ StartFails \/ SpawnLoop

LoopStep ==
    \/ LoopPolls
    \/ LoopPollsReady
    \/ LoopPanics
    \/ LoopWakes
    \/ LoopStoresRunning
    \/ LoopCancelsApp
    \/ LoopTellsGrpc
    \/ LoopTellsRest

HandleStep ==
    \/ HandleStoresRunning
    \/ HandleCancelsApp
    \/ HandleSends
    \/ HandleDropped
    \/ HandleReturns

DropStep ==
    \/ \E s \in Servers : AbortServer(s) \/ \E v \in Services : AbortReporter(s, v)
    \/ AbortLoop
    \/ Exit

Next ==
    \/ StartStep
    \/ LoopStep
    \/ RunReturns
    \/ HandleStep
    \/ DropRuntime
    \/ DropStep
    \/ \E sg \in Signals : SignalCaught(sg) \/ SignalKills(sg)
    \/ ServerStep /\ UNCHANGED appVars

Safe == Init /\ [][Next]_vars

\* The main thread runs, the runtime polls woken tasks, and dropping the
\* runtime gets to every task.  Nobody owes the process a signal, an AppHandle
\* its shutdown, or a server a request.
Fairness ==
    /\ WF_vars(StartStep)
    /\ WF_vars(LoopStep)
    /\ WF_vars(RunReturns)
    /\ WF_vars(HandleCancelsApp)
    /\ WF_vars(HandleSends)
    /\ WF_vars(DropRuntime)
    /\ WF_vars(DropStep)

Spec == Safe /\ Fairness

-----------------------------------------------------------------------------
(* Properties.                                                              *)

\* The shutdown is seen in one order by everybody: whoever finds the App token
\* cancelled finds running false, and a server is told only after both.  The
\* loop task and AppHandle::shutdown do the same two stores concurrently.
ShutdownOrder ==
    /\ appToken => ~running
    /\ \A s \in Servers : cancelled[s] => appToken

\* No server is told to stop without a cause: a signal that was caught, or an
\* AppHandle that was shut down or dropped.
NoShutdownWithoutCause ==
    (\E s \in Servers : cancelled[s]) => caught # {} \/ oneshot # "pending"

\* run returns as soon as the App token is cancelled, which is before the
\* servers are told; yet when the process exits after an Ok both have been,
\* because the drop of the runtime waits for the loop's last poll.
EveryServerTold ==
    main = "exited" /\ result = "ok" => \A s \in Servers : cancelled[s]

\* A start that failed half-way leaves a gRPC server nobody can tell to stop,
\* and leaves running as if it had succeeded.
FailedStartLeavesOrphan ==
    result = "err" => running /\ ~appToken /\ \A s \in Servers : ~cancelled[s]

\* When the process exits, no task, no open connection and no address of a
\* server is left, the orphan of a failed start included.
ExitLeavesNothing ==
    main = "exited" =>
        /\ LoopEnded
        /\ \A s \in Servers : ~Alive(s) /\ Quiet(s) /\ ReportersEnded(s)
        /\ \A a \in Addresses : port[a] \notin Servers

\* A loop that could not install its handlers takes shutdown with it: run never
\* returns, and only a signal without a handler ends the process.
InstallFailureIsDeaf ==
    [][loop = "panicked" /\ main = "waiting"
        => main' = "waiting" \/ (main' = "killed" /\ installed # Signals)]_vars

\* While graceful shutdown is enabled and the loop listens, no signal loses a
\* request: requests are lost only once the runtime is being dropped.
SignalLosesNoRequest ==
    [][graceful /\ loop = "waiting" /\ main \in {"waiting", "holding"}
        => \A s \in Servers, c \in Clients : conn'[s][c] # "lost"]_vars

\* A caught signal ends the process of App::run, whatever the servers' requests
\* are waiting for, unless the loop died while it installed the handlers.
SignalEndsProcess ==
    caught # {} /\ driver = "run" ~> main \in {"exited", "killed"} \/ loop = "panicked"

\* A start that failed or panicked ends the process too: an orphan server does
\* not keep it.
FailedStartEndsProcess ==
    result \in {"err", "panicked"} ~> main \in {"exited", "killed"}

\* AppHandle::shutdown, or its drop, reaches both servers unless the loop dies
\* or the runtime goes first.
HandleShutdownReachesServers ==
    oneshot \in {"sent", "closed"} /\ driver = "handle" /\ result # "err"
        ~> (\A s \in Servers : cancelled[s]) \/ loop \in {"panicked", "aborted"}

\* "Wait for the application to shutdown": run returns Ok once its servers have
\* stopped.
RunWaitsForServers ==
    main \in {"returned", "dropping", "exited"} /\ result = "ok" =>
        \A s \in Servers : task[s] \in {"done", "panicked"}
=============================================================================
