----------------------------- MODULE AppProofs -----------------------------
(***************************************************************************)
(* The safety properties of App for any clients, services and addresses:   *)
(* the inductive invariant AppInv and what follows from it.                *)
(***************************************************************************)
EXTENDS App, ServerProofs

Starting == {"start", "grpc", "rest", "loop"}
Ending == {"returned", "dropping", "exited", "killed"}
Told == {"appCancelled", "grpcTold", "done"}

\* Before start returned there is no loop and nothing is cancelled.
Stages ==
    /\ main \in Starting => loop = "absent" /\ ~appToken /\ result = "none"
    /\ main \in Starting \ {"start"} => running

\* What run returned, and what that says.
Results ==
    /\ result # "none" => main \in Ending
    /\ result = "ok" => appToken
    /\ result = "err" => running /\ ~appToken /\ loop = "absent"

\* The flag is stored before the token is cancelled, by the loop and the handle.
Flags ==
    /\ loop \in {"stored"} \cup Told => ~running
    /\ loop \in Told => appToken
    /\ main = "stored" => ~running

\* If run was woken, the loop woke it and is in the same poll or past it.
Promise ==
    main # "killed" /\ appToken /\ (main = "waiting" \/ result = "ok") => loop \in Told

Telling ==
    /\ loop \in {"grpcTold", "done"} => cancelled[grpc]
    /\ loop = "done" => cancelled[rest]

\* The loop wakes, and servers are told, for a reason.
Causes ==
    (loop \in {"woken", "stored"} \cup Told \/ \E s \in Servers : cancelled[s])
        => caught # {} \/ oneshot # "pending"

Handlers ==
    /\ loop = "panicked" => installed # Signals
    /\ loop = "waiting" /\ graceful => installed = Signals

\* Requests are lost only by dropping the runtime or killing the process.
Losses ==
    \A s \in Servers, c \in Clients :
        conn[s][c] = "lost" => main \in {"dropping", "exited", "killed"}

AtExit ==
    main = "exited" => LoopEnded /\ \A s \in Servers : ~Alive(s) /\ ReportersEnded(s)

\* Everything about the main thread and the loop task that AppInv needs.
ControlInv ==
    /\ Stages
    /\ Results
    /\ Flags
    /\ Promise
    /\ Telling
    /\ Causes
    /\ Handlers
    /\ ShutdownOrder

AppInv ==
    /\ TypeOK
    /\ ServerInv
    /\ ControlInv
    /\ Losses
    /\ AtExit

-----------------------------------------------------------------------------
\* Losing tasks to the drop of the runtime or to a signal keeps the invariant
\* of the servers: what they held is released with them.
LEMMA AbortKeepsServerInv ==
    ASSUME ServerInv, NEW S \in SUBSET Servers, Abort(S), UNCHANGED <<addr, cancelled>>,
           reporter' \in [Servers -> [Services -> {"absent", "running", "done", "aborted"}]]
    PROVE  ServerInv'
<1> USE DEF ServerInv, ServerTypeOK
<1>1. ServerTypeOK'
  <2>1. task' \in [Servers -> TaskState] /\ started' \in [Servers -> {"unsent", "sent", "closed"}]
      BY DEF Abort, TaskState
  <2>2. port' \in [Addresses -> Servers \cup {Free, Foreign}]
      BY DEF Abort
  <2>3. ASSUME NEW s \in Servers, NEW c \in Clients
        PROVE  conn'[s][c] \in {"closed", "idle", "busy", "lost"}
      BY <2>3 DEF Abort
  <2>4. conn' \in [Servers -> [Clients -> {"closed", "idle", "busy", "lost"}]]
      BY <2>3 DEF Abort
  <2> QED
      BY <2>1, <2>2, <2>4
<1>2. Parsed' /\ Owned'
    BY DEF Abort, Parsed, Owned, Alive
<1>3. Held'
    BY ServerAssumption DEF Abort, Held, Listening, Alive
<1>4. Announced' /\ Drained'
    BY DEF Abort, Announced, Drained, Alive
<1>5. QuietUnlessListening'
    BY DEF Abort, QuietUnlessListening, Quiet, Listening, Alive
<1> QED
    BY <1>1, <1>2, <1>3, <1>4, <1>5

\* ServiceHandler::shutdown keeps the invariant of the servers.
LEMMA ShutdownKeepsServerInv ==
    ASSUME ServerInv, NEW s \in Servers, ShutdownServer(s)
    PROVE  ServerInv'
BY DEF ShutdownServer, ServerInv, ServerTypeOK, Parsed, Owned, Held, Announced, Drained,
       QuietUnlessListening, Listening, Quiet

\* So does everything that leaves the servers alone.
LEMMA IdleServers ==
    ASSUME ServerInv, UNCHANGED serverVars
    PROVE  ServerInv'
BY DEF serverVars, ServerInv, ServerTypeOK, Parsed, Owned, Held, Announced, Drained,
       QuietUnlessListening, Listening, Quiet

\* The application has exactly two servers.
LEMMA TwoServers == Servers = {grpc, rest} /\ grpc # rest
BY AppAssumption DEF Servers

-----------------------------------------------------------------------------
\* App::start keeps the invariant.
LEMMA StartKeepsInv ==
    ASSUME AppInv, StartStep
    PROVE  AppInv'
<1> USE DEF AppInv, StartStep, MainMoves, LoopMoves
<1>1. ServerInv'
  <2>1. CASE StartGrpc
      BY <2>1, SpawnKeepsInv, TwoServers DEF StartGrpc
  <2>2. CASE StartRest
      BY <2>2, SpawnKeepsInv, TwoServers DEF StartRest
  <2>3. CASE LoggingPanics \/ BeginStart \/ StartFails \/ SpawnLoop
      BY <2>3, IdleServers DEF LoggingPanics, BeginStart, StartFails, SpawnLoop
  <2> QED
      BY <2>1, <2>2, <2>3
<1>2. TypeOK'
    BY <1>1 DEF ServerInv, TypeOK, MainState, LoopState, LoggingPanics, BeginStart,
                StartGrpc, StartRest, StartFails, SpawnLoop
<1>3. UNCHANGED <<cancelled, conn>>
    BY DEF LoggingPanics, BeginStart, StartGrpc, StartRest, StartFails, SpawnLoop, SpawnGrpc,
           SpawnRest, serverVars
<1>4. ControlInv'
    BY <1>3 DEF ControlInv, Starting, Ending, Told, Stages, Results, Flags, Promise, Telling,
                Causes, Handlers, ShutdownOrder, LoggingPanics, BeginStart, StartGrpc, StartRest,
                StartFails, SpawnLoop
<1>5. Losses' /\ AtExit'
    BY <1>3 DEF Losses, AtExit, LoggingPanics, BeginStart, StartGrpc, StartRest,
                     StartFails, SpawnLoop
<1> QED
    BY <1>1, <1>2, <1>4, <1>5

\* The loop task keeps the invariant.
LEMMA LoopKeepsInv ==
    ASSUME AppInv, LoopStep
    PROVE  AppInv'
<1> USE DEF AppInv, LoopStep, LoopOnly, LoopMoves
<1>1. ServerInv'
  <2>1. CASE LoopTellsGrpc \/ LoopTellsRest
      BY <2>1, ShutdownKeepsServerInv, TwoServers DEF LoopTellsGrpc, LoopTellsRest
  <2>2. CASE ~(LoopTellsGrpc \/ LoopTellsRest)
      BY <2>2, IdleServers DEF LoopPolls, LoopPollsReady, LoopPanics, LoopWakes,
                               LoopStoresRunning, LoopCancelsApp
  <2> QED
      BY <2>1, <2>2
<1>2. TypeOK'
    BY <1>1 DEF ServerInv, TypeOK, LoopState, LoopPolls, LoopPollsReady, LoopPanics, LoopWakes,
                LoopStoresRunning, LoopCancelsApp, LoopTellsGrpc, LoopTellsRest
<1>3. CASE LoopPolls \/ LoopPollsReady \/ LoopPanics \/ LoopWakes
    BY <1>1, <1>2, <1>3
       DEF LoopPolls, LoopPollsReady, LoopPanics, LoopWakes, serverVars, ControlInv, Starting,
           Ending, Told, Stages, Results, Flags, Promise, Telling, Causes, Handlers,
           ShutdownOrder, Losses, AtExit, LoopEnded, Alive, ReportersEnded
<1>4. CASE LoopStoresRunning \/ LoopCancelsApp
    BY <1>1, <1>2, <1>4
       DEF LoopStoresRunning, LoopCancelsApp, serverVars, ControlInv, Starting,
           Ending, Told, Stages, Results, Flags, Promise, Telling, Causes, Handlers,
           ShutdownOrder, Losses, AtExit, LoopEnded, Alive, ReportersEnded
<1>5. CASE LoopTellsGrpc \/ LoopTellsRest
  <2>1. \A s \in Servers : cancelled'[s] => cancelled[s] \/ appToken
      BY <1>5, TwoServers
         DEF LoopTellsGrpc, LoopTellsRest, ShutdownServer, ControlInv, Flags, Told, TypeOK,
             ServerTypeOK
  <2>2. Telling'
      BY <1>5, TwoServers
         DEF LoopTellsGrpc, LoopTellsRest, ShutdownServer, ControlInv, Telling, TypeOK,
             ServerTypeOK
  <2>3. loop \in Told /\ loop' \in Told
      BY <1>5 DEF LoopTellsGrpc, LoopTellsRest, Told
  <2>4. UNCHANGED <<driver, graceful, main, result, oneshot, caught, running, appToken, installed,
                    task, reporter, conn>>
      BY <1>5 DEF LoopTellsGrpc, LoopTellsRest, ShutdownServer
  <2>5. ControlInv'
      BY <2>1, <2>2, <2>3, <2>4
         DEF ControlInv, Starting, Told, Stages, Results, Flags, Promise, Causes, Handlers,
             ShutdownOrder
  <2>6. Losses' /\ AtExit'
    <3>1. loop \notin {"absent", "done", "panicked", "aborted"}
        BY <1>5 DEF LoopTellsGrpc, LoopTellsRest
    <3> QED
        BY <2>4, <3>1 DEF Losses, AtExit, LoopEnded
  <2> QED
      BY <1>1, <1>2, <2>5, <2>6
<1> QED
    BY <1>3, <1>4, <1>5

\* run, the AppHandle and the start of the drop keep the invariant.
LEMMA MainKeepsInv ==
    ASSUME AppInv, RunReturns \/ HandleStep \/ DropRuntime
    PROVE  AppInv'
<1> USE DEF AppInv, HandleStep, MainMoves, RunReturns, HandleStoresRunning, HandleCancelsApp,
            HandleSends, HandleDropped, HandleReturns, DropRuntime
<1>1. UNCHANGED serverVars
    OBVIOUS
<1>2. ServerInv'
    BY <1>1, IdleServers
<1>3. TypeOK'
    BY <1>2 DEF ServerInv, TypeOK, MainState
<1>4. ControlInv'
    BY <1>1 DEF serverVars, ControlInv, Starting, Ending, Told, Stages, Results, Flags, Promise,
                Telling, Causes, Handlers, ShutdownOrder
<1>5. Losses' /\ AtExit'
    BY <1>1 DEF serverVars, Losses, AtExit
<1> QED
    BY <1>2, <1>3, <1>4, <1>5

\* Dropping the runtime keeps the invariant.
LEMMA DropKeepsInv ==
    ASSUME AppInv, DropStep
    PROVE  AppInv'
<1> USE DEF AppInv
<1>1. ASSUME NEW s \in Servers, AbortServer(s)
      PROVE  AppInv'
  <2>1. ServerInv'
      BY <1>1, AbortKeepsServerInv DEF AbortServer, ServerInv, ServerTypeOK
  <2>2. TypeOK' /\ ControlInv' /\ Losses' /\ AtExit'
      BY <1>1, <2>1
         DEF AbortServer, appVars, ServerInv, TypeOK, ControlInv, Stages, Results, Flags, Promise,
             Telling, Causes, Handlers, ShutdownOrder, Losses, AtExit
  <2> QED
      BY <2>1, <2>2
<1>2. ASSUME NEW s \in Servers, NEW v \in Services, AbortReporter(s, v)
      PROVE  AppInv'
  <2>1. ServerInv'
      BY <1>2 DEF AbortReporter, ServerInv, ServerTypeOK, Parsed, Owned, Held, Announced, Drained,
                  QuietUnlessListening, Listening, Quiet
  <2>2. TypeOK' /\ ControlInv' /\ Losses' /\ AtExit'
      BY <1>2, <2>1
         DEF AbortReporter, appVars, ServerInv, TypeOK, ControlInv, Stages, Results, Flags,
             Promise, Telling, Causes, Handlers, ShutdownOrder, Losses, AtExit
  <2> QED
      BY <2>1, <2>2
<1>3. CASE AbortLoop \/ Exit
  <2> USE <1>3 DEF AbortLoop, Exit, LoopOnly, LoopMoves, MainMoves
  <2>1. ServerInv'
      BY IdleServers
  <2>2. TypeOK'
      BY <2>1 DEF ServerInv, TypeOK, MainState, LoopState
  <2>3. ControlInv'
      BY DEF serverVars, ControlInv, Starting, Ending, Told, Stages, Results, Flags, Promise,
             Telling, Causes, Handlers, ShutdownOrder
  <2>4. Losses' /\ AtExit'
      BY DEF serverVars, Losses, AtExit, Alive, ReportersEnded, LoopEnded
  <2> QED
      BY <2>1, <2>2, <2>3, <2>4
<1> QED
    BY <1>1, <1>2, <1>3 DEF DropStep

\* Signals keep the invariant.
LEMMA SignalKeepsInv ==
    ASSUME AppInv, NEW sg \in Signals, SignalCaught(sg) \/ SignalKills(sg)
    PROVE  AppInv'
<1> USE DEF AppInv
<1>1. CASE SignalCaught(sg)
  <2>1. ServerInv'
      BY <1>1, IdleServers DEF SignalCaught
  <2>2. TypeOK' /\ ControlInv' /\ Losses' /\ AtExit'
      BY <1>1, <2>1
         DEF SignalCaught, serverVars, InProcess, ServerInv, TypeOK, ControlInv, Stages, Results,
             Flags, Promise, Telling, Causes, Handlers, ShutdownOrder, Losses, AtExit
  <2> QED
      BY <2>1, <2>2
<1>2. CASE SignalKills(sg)
  <2>1. reporter' \in [Servers -> [Services -> {"absent", "running", "done", "aborted"}]]
      BY <1>2 DEF SignalKills, TypeOK, ServerTypeOK
  <2>2. ServerInv'
      BY <1>2, <2>1, AbortKeepsServerInv DEF SignalKills
  <2>3. TypeOK'
      BY <1>2, <2>2 DEF SignalKills, ServerInv, TypeOK, MainState, LoopState
  <2>4. ControlInv'
      BY <1>2 DEF SignalKills, LoopEnded, ControlInv, Starting, Ending, Told, Stages, Results,
                  Flags, Promise, Telling, Causes, Handlers, ShutdownOrder
  <2>5. Losses' /\ AtExit'
      BY <1>2 DEF SignalKills, Losses, AtExit
  <2> QED
      BY <2>2, <2>3, <2>4, <2>5
<1> QED
    BY <1>1, <1>2

\* The server tasks and their surroundings keep the invariant.
LEMMA ServersKeepInv ==
    ASSUME AppInv, ServerStep, UNCHANGED appVars
    PROVE  AppInv'
<1> USE DEF AppInv, appVars
<1>1. ServerInv'
    BY ServerStepKeepsInv
<1>2. TypeOK'
    BY <1>1 DEF ServerInv, TypeOK
<1>3. UNCHANGED cancelled
    BY DEF ServerStep, TaskStep, Bind, GrpcBindFails, RestBindFails, AnnounceStart, BeginDrain,
           FinishDrain, Report, ConnectionStep, Accept, Request, Respond, CloseIdle, Disconnect,
           PortTaken, PortReleased
<1>4. ControlInv'
    BY <1>3 DEF ControlInv, Stages, Results, Flags, Promise, Telling, Causes, Handlers,
                ShutdownOrder
<1>5. Losses'
  <2>1. ASSUME NEW s \in Servers, NEW c \in Clients, conn'[s][c] = "lost"
        PROVE  conn[s][c] = "lost"
    <3>1. CASE \E t \in Servers : ConnectionStep(t)
      <4>1. PICK t \in Servers, d \in Clients, k \in {"closed", "idle", "busy"} :
                conn' = [conn EXCEPT ![t][d] = k]
          BY <3>1 DEF ConnectionStep, Accept, Request, Respond, CloseIdle, Disconnect
      <4> QED
          BY <2>1, <4>1 DEF TypeOK, ServerTypeOK
    <3>2. CASE ~\E t \in Servers : ConnectionStep(t)
        BY <2>1, <3>2 DEF ServerStep, TaskStep, Bind, GrpcBindFails, RestBindFails,
                          AnnounceStart, BeginDrain, FinishDrain, Report, PortTaken, PortReleased
    <3> QED
        BY <3>1, <3>2
  <2> QED
      BY <2>1 DEF Losses
<1>6. AtExit'
  <2>1. \A s \in Servers : ~Alive(s) => ~Alive(s)'
      BY DEF Alive, TypeOK, ServerTypeOK, ServerStep, TaskStep, Bind, GrpcBindFails,
             RestBindFails, BindRefused, AnnounceStart, BeginDrain, FinishDrain, Report,
             ConnectionStep, Accept, Request, Respond, CloseIdle, Disconnect, PortTaken,
             PortReleased
  <2>2. \A s \in Servers : ReportersEnded(s) => ReportersEnded(s)'
      BY DEF ReportersEnded, TypeOK, ServerTypeOK, ServerStep, TaskStep, Bind, GrpcBindFails,
             RestBindFails, AnnounceStart, BeginDrain, FinishDrain, Report, ConnectionStep,
             Accept, Request, Respond, CloseIdle, Disconnect, PortTaken, PortReleased
  <2> QED
      BY <2>1, <2>2 DEF AtExit, LoopEnded
<1> QED
    BY <1>1, <1>2, <1>4, <1>5, <1>6

\* AppInv holds in every state of every behaviour.
THEOREM AppInvariance == Safe => []AppInv
<1>1. Init => AppInv
  <2> SUFFICES ASSUME Init PROVE AppInv
      OBVIOUS
  <2>1. ServerInv
      BY ServerInitInv DEF Init
  <2>2. TypeOK
      BY <2>1 DEF Init, TypeOK, ServerInv, MainState, LoopState
  <2>3. ControlInv /\ Losses /\ AtExit
      BY DEF Init, ServerInit, ControlInv, Starting, Told, Stages, Results, Flags, Promise,
             Telling, Causes, Handlers, ShutdownOrder, Losses, AtExit
  <2> QED
      BY <2>1, <2>2, <2>3 DEF AppInv
<1>2. AppInv /\ [Next]_vars => AppInv'
  <2> SUFFICES ASSUME AppInv, [Next]_vars PROVE AppInv'
      OBVIOUS
  <2>1. CASE UNCHANGED vars
    <3>1. ServerInv'
        BY <2>1, IdleServers DEF AppInv, vars
    <3> QED
        BY <2>1, <3>1
           DEF vars, serverVars, appVars, AppInv, TypeOK, ServerInv, ControlInv, Stages, Results,
               Flags, Promise, Telling, Causes, Handlers, ShutdownOrder, Losses, AtExit,
               LoopEnded, Alive, ReportersEnded
  <2> QED
      BY <2>1, StartKeepsInv, LoopKeepsInv, MainKeepsInv, DropKeepsInv, SignalKeepsInv,
         ServersKeepInv DEF Next
<1> QED
    BY <1>1, <1>2, PTL DEF Safe

-----------------------------------------------------------------------------
\* The state always has its type.
THEOREM AppTypeCorrect == Safe => []TypeOK
<1>1. AppInv => TypeOK
    BY DEF AppInv
<1> QED
    BY <1>1, AppInvariance, PTL

\* Flag, token, servers: the shutdown is seen in this order by everybody.
THEOREM ShutdownIsOrdered == Safe => []ShutdownOrder
<1>1. AppInv => ShutdownOrder
    BY DEF AppInv, ControlInv
<1> QED
    BY <1>1, AppInvariance, PTL

\* Servers are told to stop only after a caught signal or for the AppHandle.
THEOREM ShutdownHasCause == Safe => []NoShutdownWithoutCause
<1>1. AppInv => NoShutdownWithoutCause
    BY DEF AppInv, ControlInv, Causes, NoShutdownWithoutCause
<1> QED
    BY <1>1, AppInvariance, PTL

\* When the process exits after run returned Ok, both servers were told to
\* stop, although run does not wait for that.
THEOREM NoServerForgotten == Safe => []EveryServerTold
<1>1. AppInv => EveryServerTold
    BY TwoServers DEF AppInv, ControlInv, Results, Promise, Telling, AtExit, LoopEnded, Told,
                      EveryServerTold
<1> QED
    BY <1>1, AppInvariance, PTL

\* A start that failed tells nobody to stop and leaves running set.
THEOREM FailedStartOrphans == Safe => []FailedStartLeavesOrphan
<1>1. AppInv => FailedStartLeavesOrphan
    BY DEF AppInv, ControlInv, Results, ShutdownOrder, FailedStartLeavesOrphan
<1> QED
    BY <1>1, AppInvariance, PTL

\* Nothing of the servers is left when the process exits.
THEOREM ExitIsClean == Safe => []ExitLeavesNothing
<1>1. AppInv => ExitLeavesNothing
    BY DEF AppInv, ServerInv, Held, QuietUnlessListening, Listening, Alive, AtExit,
           ExitLeavesNothing
<1> QED
    BY <1>1, AppInvariance, PTL

\* A loop that could not install its handlers leaves run waiting for ever.
THEOREM DeafForGood == Safe => InstallFailureIsDeaf
<1>1. AppInv /\ [Next]_vars =>
        [loop = "panicked" /\ main = "waiting"
            => main' = "waiting" \/ (main' = "killed" /\ installed # Signals)]_vars
  <2> SUFFICES ASSUME AppInv, Next, loop = "panicked", main = "waiting"
               PROVE  main' = "waiting" \/ (main' = "killed" /\ installed # Signals)
      OBVIOUS
  <2>1. ~appToken /\ installed # Signals
      BY DEF AppInv, ControlInv, Promise, Handlers, Told
  <2> QED
      BY <2>1 DEF Next, StartStep, LoggingPanics, BeginStart, StartGrpc, StartRest, StartFails,
                  SpawnLoop, MainMoves, LoopStep, LoopOnly, LoopPolls, LoopPollsReady, LoopPanics,
                  LoopWakes, LoopStoresRunning, LoopCancelsApp, LoopTellsGrpc, LoopTellsRest,
                  RunReturns, HandleStep, HandleStoresRunning, HandleCancelsApp, HandleSends,
                  HandleDropped, HandleReturns, DropRuntime, DropStep, AbortServer, AbortReporter, AbortLoop,
                  Exit, SignalCaught, SignalKills, appVars
<1> QED
    BY <1>1, AppInvariance, PTL DEF Safe, InstallFailureIsDeaf

\* A signal loses no request while the application listens for signals.
THEOREM SignalsAreGraceful == Safe => SignalLosesNoRequest
<1>1. AppInv /\ AppInv' /\ [Next]_vars =>
        [graceful /\ loop = "waiting" /\ main \in {"waiting", "holding"}
            => \A s \in Servers, c \in Clients : conn'[s][c] # "lost"]_vars
  <2> SUFFICES ASSUME AppInv, AppInv', Next, graceful, loop = "waiting",
                      main \in {"waiting", "holding"}
               PROVE  main' \notin {"dropping", "exited", "killed"}
      BY DEF AppInv, Losses
  <2>1. installed = Signals
      BY DEF AppInv, ControlInv, Handlers
  <2> QED
      BY <2>1 DEF Next, StartStep, LoggingPanics, BeginStart, StartGrpc, StartRest, StartFails,
                  SpawnLoop, MainMoves, LoopStep, LoopOnly, LoopPolls, LoopPollsReady, LoopPanics,
                  LoopWakes, LoopStoresRunning, LoopCancelsApp, LoopTellsGrpc, LoopTellsRest,
                  RunReturns, HandleStep, HandleStoresRunning, HandleCancelsApp, HandleSends,
                  HandleDropped, HandleReturns, DropRuntime, DropStep, AbortServer, AbortReporter, AbortLoop,
                  Exit, SignalCaught, SignalKills, appVars
<1> QED
    BY <1>1, AppInvariance, PTL DEF Safe, SignalLosesNoRequest
=============================================================================
