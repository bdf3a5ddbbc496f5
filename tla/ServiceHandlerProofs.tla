------------------------ MODULE ServiceHandlerProofs ------------------------
(***************************************************************************)
(* The safety properties of ServiceHandler for any number of servers,      *)
(* owners, clients, services and addresses, and the proof that its steps   *)
(* are steps of GracefulServer.                                            *)
(***************************************************************************)
EXTENDS ServiceHandler, ServerProofs

\* Nothing in this specification aborts a task.
NeverAborted == \A s \in Servers : task[s] # "aborted"

\* A task exists exactly when its owner was given a handle.
Handed == \A s \in Servers : owner[s] \in {"none", "error"} <=> task[s] = "absent"

\* An owner who learned of the start was sent it.
Seen == \A s \in Servers : startSeen[s] => started[s] = "sent"

\* wait_for_stop returned after the tasks it joins.
Joined == \A s \in Servers : owner[s] = "stopped" => Ended(s) /\ ReportersEnded(s)

IInv ==
    /\ TypeOK
    /\ ServerInv
    /\ NeverAborted
    /\ Handed
    /\ Seen
    /\ Joined

-----------------------------------------------------------------------------
\* Every call of an owner keeps the types.
LEMMA OwnerTyping ==
    ASSUME TypeOK, NEW s \in Servers, OwnerStep(s)
    PROVE  TypeOK'
<1> USE DEF TypeOK, OwnerState, OwnerMoves
<1>1. CASE StartGrpc(s) \/ StartRest(s)
    BY <1>1, SpawnTyping DEF StartGrpc, StartRest
<1>2. CASE StartRejected(s)
    BY <1>2 DEF StartRejected, serverVars, ServerTypeOK
<1>3. CASE CallWaitForStart(s) \/ CallWaitForStartAgain(s)
    BY <1>3 DEF CallWaitForStart, CallWaitForStartAgain, serverVars, ServerTypeOK
<1>4. CASE WaitForStartOk(s) \/ WaitForStartPanics(s) \/ GiveUpWaitForStart(s)
    BY <1>4 DEF WaitForStartOk, WaitForStartPanics, GiveUpWaitForStart, serverVars, ServerTypeOK
<1>5. CASE Shutdown(s)
    BY <1>5 DEF Shutdown, handleVars, ServerTypeOK, TaskState
<1>6. CASE CallWaitForStop(s) \/ WaitForStopOk(s) \/ DropHandle(s)
    BY <1>6 DEF CallWaitForStop, WaitForStopOk, DropHandle, serverVars, ServerTypeOK
<1> QED
    BY <1>1, <1>2, <1>3, <1>4, <1>5, <1>6 DEF OwnerStep

\* The calls that only move the owner keep the invariant of the servers.
LEMMA UnchangedServers ==
    ASSUME ServerInv, UNCHANGED serverVars
    PROVE  ServerInv'
BY DEF serverVars, ServerInv, ServerTypeOK, Parsed, Owned, Held, Announced, Drained,
       QuietUnlessListening, Listening, Quiet

\* Every call of an owner keeps the invariant of the servers.
LEMMA OwnerKeepsServerInv ==
    ASSUME IInv, NEW s \in Servers, OwnerStep(s)
    PROVE  ServerInv'
<1>1. CASE StartGrpc(s) \/ StartRest(s)
    BY <1>1, SpawnKeepsInv DEF IInv, StartGrpc, StartRest
<1>2. CASE Shutdown(s)
  <2>1. /\ cancelled' = [cancelled EXCEPT ![s] = TRUE]
        /\ UNCHANGED <<addr, task, started, reporter, port, conn>>
      BY <1>2 DEF Shutdown
  <2>2. ServerTypeOK'
      BY OwnerTyping DEF IInv, TypeOK
  <2> QED
      BY <2>1, <2>2 DEF IInv, ServerInv, ServerTypeOK, Parsed, Owned, Held, Announced, Drained,
                        QuietUnlessListening, Listening, Quiet
<1>3. CASE ~(StartGrpc(s) \/ StartRest(s) \/ Shutdown(s))
  <2>1. UNCHANGED serverVars
      BY <1>3 DEF OwnerStep, StartRejected, CallWaitForStart, CallWaitForStartAgain,
                  WaitForStartOk, WaitForStartPanics, GiveUpWaitForStart,
                  CallWaitForStop, WaitForStopOk, DropHandle
  <2> QED
      BY <2>1, UnchangedServers DEF IInv
<1> QED
    BY <1>1, <1>2, <1>3

\* The invariant is inductive for the calls of an owner.
LEMMA OwnerKeepsInv ==
    ASSUME IInv, NEW s \in Servers, OwnerStep(s)
    PROVE  IInv'
<1>1. TypeOK'
    BY OwnerTyping DEF IInv
<1>2. ServerInv'
    BY OwnerKeepsServerInv
<1> USE DEF IInv, TypeOK, OwnerMoves
<1>3. CASE StartGrpc(s) \/ StartRest(s)
  <2>1. /\ owner' = [owner EXCEPT ![s] = "held"]
        /\ task' = [task EXCEPT ![s] = "spawned"]
        /\ owner[s] = "none"
        /\ UNCHANGED <<started, startSeen>>
      BY <1>3 DEF StartGrpc, StartRest, SpawnGrpc, SpawnRest
  <2>2. \A t \in Servers : t # s => reporter'[t] = reporter[t]
      BY <1>3 DEF StartGrpc, StartRest, SpawnGrpc, SpawnRest, ServerTypeOK
  <2>3. NeverAborted' /\ Handed' /\ Seen'
      BY <2>1 DEF NeverAborted, Handed, Seen, ServerTypeOK
  <2>4. Joined'
      BY <2>1, <2>2 DEF Joined, Ended, ReportersEnded, ServerTypeOK
  <2> QED
      BY <1>1, <1>2, <2>3, <2>4
<1>4. CASE ~(StartGrpc(s) \/ StartRest(s))
  <2>1. UNCHANGED <<task, started, reporter>>
      BY <1>4 DEF OwnerStep, StartRejected, CallWaitForStart, CallWaitForStartAgain,
                  WaitForStartOk, WaitForStartPanics, GiveUpWaitForStart, Shutdown,
                  CallWaitForStop, WaitForStopOk, DropHandle, serverVars
  <2>2. NeverAborted'
      BY <2>1 DEF NeverAborted
  <2>3. Handed'
      BY <1>4, <2>1
         DEF Handed, OwnerStep, StartRejected, CallWaitForStart, CallWaitForStartAgain,
             WaitForStartOk, WaitForStartPanics, GiveUpWaitForStart, Shutdown, handleVars,
             CallWaitForStop, WaitForStopOk, DropHandle
  <2>4. Seen'
      BY <1>4, <2>1
         DEF Seen, OwnerStep, StartRejected, CallWaitForStart, CallWaitForStartAgain,
             WaitForStartOk, WaitForStartPanics, GiveUpWaitForStart, Shutdown, handleVars,
             CallWaitForStop, WaitForStopOk, DropHandle
  <2>5. Joined'
      BY <1>4, <2>1
         DEF Joined, Ended, ReportersEnded, OwnerStep, StartRejected, CallWaitForStart,
             CallWaitForStartAgain, WaitForStartOk, WaitForStartPanics, GiveUpWaitForStart,
             Shutdown, handleVars, CallWaitForStop, WaitForStopOk, DropHandle
  <2> QED
      BY <1>1, <1>2, <2>2, <2>3, <2>4, <2>5
<1> QED
    BY <1>3, <1>4

\* The invariant is inductive for the servers and their surroundings.
LEMMA ServerStepKeepsIInv ==
    ASSUME IInv, ServerStep, UNCHANGED handleVars
    PROVE  IInv'
<1> USE DEF IInv, handleVars
<1>1. ServerInv'
    BY ServerStepKeepsInv
<1>2. TypeOK'
    BY <1>1 DEF TypeOK, ServerInv
<1>3. CASE \E s \in Servers : TaskStep(s)
  <2> PICK s \in Servers : TaskStep(s)
      BY <1>3
  <2>1. NeverAborted'
      BY DEF NeverAborted, TypeOK, ServerTypeOK, TaskStep, Bind, GrpcBindFails, RestBindFails,
             AnnounceStart, BeginDrain, FinishDrain, Report
  <2>2. Handed'
      BY DEF Handed, TypeOK, ServerTypeOK, TaskStep, Bind, GrpcBindFails, RestBindFails,
             BindRefused, AnnounceStart, BeginDrain, FinishDrain, Report
  <2>3. Seen'
    <3>1. CASE GrpcBindFails(s) \/ RestBindFails(s)
        BY <3>1 DEF Seen, TypeOK, ServerTypeOK, ServerInv, Announced,
                    GrpcBindFails, RestBindFails, BindRefused
    <3>2. CASE ~(GrpcBindFails(s) \/ RestBindFails(s))
        BY <3>2 DEF Seen, TypeOK, ServerTypeOK, TaskStep, Bind, AnnounceStart, BeginDrain,
                    FinishDrain, Report
    <3> QED
        BY <3>1, <3>2
  <2>4. Joined'
    <3>1. \A t \in Servers : Ended(t) => Ended(t)'
        BY DEF Ended, TypeOK, ServerTypeOK, TaskStep, Bind, GrpcBindFails, RestBindFails,
               BindRefused, AnnounceStart, BeginDrain, FinishDrain, Report
    <3>2. \A t \in Servers : ReportersEnded(t) => ReportersEnded(t)'
        BY DEF ReportersEnded, TypeOK, ServerTypeOK, TaskStep, Bind, GrpcBindFails,
               RestBindFails, AnnounceStart, BeginDrain, FinishDrain, Report
    <3> QED
        BY <3>1, <3>2 DEF Joined
  <2> QED
      BY <1>1, <1>2, <2>1, <2>2, <2>3, <2>4
<1>4. CASE ~\E s \in Servers : TaskStep(s)
  <2>1. UNCHANGED <<task, started, reporter>>
      BY <1>4 DEF ServerStep, ConnectionStep, Accept, Request, Respond, CloseIdle, Disconnect,
                  PortTaken, PortReleased
  <2> QED
      BY <1>1, <1>2, <2>1 DEF NeverAborted, Handed, Seen, Joined, Ended, ReportersEnded
<1> QED
    BY <1>3, <1>4

\* IInv holds in every state of every behaviour.
THEOREM Invariance == Safe => []IInv
<1>1. Init => IInv
  <2> SUFFICES ASSUME Init PROVE IInv
      OBVIOUS
  <2>1. ServerInv
      BY ServerInitInv DEF Init
  <2> QED
      BY <2>1 DEF Init, IInv, TypeOK, OwnerState, ServerInv, ServerInit,
                  NeverAborted, Handed, Seen, Joined
<1>2. IInv /\ [Next]_vars => IInv'
  <2> SUFFICES ASSUME IInv, [Next]_vars PROVE IInv'
      OBVIOUS
  <2>1. CASE UNCHANGED vars
    <3>1. ServerInv'
        BY <2>1, UnchangedServers DEF IInv, vars
    <3> QED
        BY <2>1, <3>1 DEF vars, serverVars, IInv, TypeOK, ServerInv, NeverAborted, Handed, Seen,
                          Joined, Ended, ReportersEnded
  <2> QED
      BY <2>1, OwnerKeepsInv, ServerStepKeepsIInv DEF Next
<1> QED
    BY <1>1, <1>2, PTL DEF Safe

-----------------------------------------------------------------------------
\* The state always has its type.
THEOREM TypeCorrect == Safe => []TypeOK
<1>1. IInv => TypeOK
    BY DEF IInv
<1> QED
    BY <1>1, Invariance, PTL

\* What wait_for_start tells an owner stays true until somebody signals
\* shutdown: the server owns its address and serves.
THEOREM StartIsTrue == Safe => []StartedMeansListening
<1>1. IInv => StartedMeansListening
    BY DEF IInv, ServerInv, Seen, Announced, NeverAborted, Owned, StartedMeansListening
<1> QED
    BY <1>1, Invariance, PTL

\* When wait_for_stop returns, no task, connection or address of the server is
\* left.
THEOREM StopIsClean == Safe => []StopLeavesNothing
<1>1. IInv => StopLeavesNothing
    BY DEF IInv, ServerInv, Joined, Held, QuietUnlessListening, Ended, Listening,
           StopLeavesNothing
<1> QED
    BY <1>1, Invariance, PTL

\* Two servers never serve on one address.
THEOREM AddressesAreExclusive == Safe => []NoSharedAddress
<1>1. IInv => NoSharedAddress
    BY DEF IInv, ServerInv, Owned, NoSharedAddress
<1> QED
    BY <1>1, Invariance, PTL

-----------------------------------------------------------------------------
\* A handle that is lost leaves its server serving: no step that loses a handle
\* cancels the token or moves the server out of serving.
THEOREM OrphansServe == Safe => OrphanKeepsServing
<1>1. ASSUME TypeOK, Next, NEW s \in Servers,
             owner'[s] \in {"panicked", "dropped"}, ~cancelled[s], task[s] = "serving"
      PROVE  ~cancelled'[s] /\ task'[s] = "serving"
  <2>1. ASSUME NEW t \in Servers, OwnerStep(t)
        PROVE  ~cancelled'[s] /\ task'[s] = "serving"
    <3>1. CASE StartGrpc(t) \/ StartRest(t)
        BY <1>1, <3>1 DEF StartGrpc, StartRest, SpawnGrpc, SpawnRest, TypeOK, ServerTypeOK
    <3>2. CASE Shutdown(t)
        BY <1>1, <3>2 DEF Shutdown, handleVars, TypeOK, ServerTypeOK
    <3>3. CASE ~(StartGrpc(t) \/ StartRest(t) \/ Shutdown(t))
        BY <1>1, <2>1, <3>3
           DEF OwnerStep, StartRejected, CallWaitForStart, CallWaitForStartAgain, WaitForStartOk,
               WaitForStartPanics, GiveUpWaitForStart, CallWaitForStop, WaitForStopOk,
               DropHandle, serverVars
    <3> QED
        BY <3>1, <3>2, <3>3
  <2>2. ASSUME ServerStep
        PROVE  ~cancelled'[s] /\ task'[s] = "serving"
    <3>1. UNCHANGED cancelled
        BY <2>2 DEF ServerStep, TaskStep, Bind, GrpcBindFails, RestBindFails, AnnounceStart,
                    BeginDrain, FinishDrain, Report, ConnectionStep, Accept, Request, Respond,
                    CloseIdle, Disconnect, PortTaken, PortReleased
    <3>2. CASE \E t \in Servers : TaskStep(t)
        BY <1>1, <3>2 DEF TaskStep, Bind, GrpcBindFails, RestBindFails, BindRefused,
                    AnnounceStart, BeginDrain, FinishDrain, Report, TypeOK, ServerTypeOK
    <3>3. CASE ~\E t \in Servers : TaskStep(t)
        BY <1>1, <2>2, <3>3 DEF ServerStep, ConnectionStep, Accept, Request, Respond,
                    CloseIdle, Disconnect, PortTaken, PortReleased
    <3> QED
        BY <1>1, <3>1, <3>2, <3>3
  <2> QED
      BY <1>1, <2>1, <2>2 DEF Next
<1>2. TypeOK /\ [Next]_vars =>
        [\A s \in Servers :
            owner'[s] \in {"panicked", "dropped"} /\ ~cancelled[s] /\ task[s] = "serving"
                => ~cancelled'[s] /\ task'[s] = "serving"]_vars
    BY <1>1
<1> QED
    BY <1>2, TypeCorrect, PTL DEF Safe, OrphanKeepsServing

\* Once a wait_for_start was given up, the owner is never told of the start.
THEOREM GivenUpIsForGood == Safe => GivenUpWaitLosesStart
<1> DEFINE Lost(s) == owner[s] \notin {"none", "error", "awaitStart"} /\ rxTaken[s] /\ ~startSeen[s]
<1>1. ASSUME NEW s \in Servers
      PROVE  TypeOK /\ Lost(s) /\ [Next]_vars => Lost(s)'
  <2> SUFFICES ASSUME TypeOK, Lost(s), [Next]_vars PROVE Lost(s)'
      OBVIOUS
  <2>1. ASSUME NEW t \in Servers, OwnerStep(t)
        PROVE  Lost(s)'
      BY <2>1 DEF OwnerStep, StartGrpc, StartRest, StartRejected, CallWaitForStart,
                  CallWaitForStartAgain, WaitForStartOk, WaitForStartPanics, GiveUpWaitForStart,
                  Shutdown, handleVars, CallWaitForStop, WaitForStopOk, DropHandle, OwnerMoves,
                  TypeOK
  <2> QED
      BY <2>1 DEF Next, vars, handleVars
<1>2. ASSUME NEW s \in Servers
      PROVE  Safe => [](owner[s] = "held" /\ rxTaken[s] /\ ~startSeen[s] => []~startSeen[s])
  <2>1. owner[s] = "held" /\ rxTaken[s] /\ ~startSeen[s] => Lost(s)
      OBVIOUS
  <2>2. Lost(s) => ~startSeen[s]
      OBVIOUS
  <2>3. TypeOK /\ Lost(s) /\ [Next]_vars => Lost(s)'
      BY <1>1
  <2> HIDE DEF Lost
  <2> QED
      BY <2>1, <2>2, <2>3, TypeCorrect, PTL DEF Safe
<1> QED
    BY <1>2 DEF GivenUpWaitLosesStart

-----------------------------------------------------------------------------
(* Every behaviour of ServiceHandler is, through the refinement mapping of  *)
(* Abstract, a behaviour of the safety part of GracefulServer.              *)

AbstractInflight(s) == {c \in Clients : conn[s][c] = "busy"}

\* The three abstract variables.
PhaseMap == [s \in Servers |-> AbstractPhase(s)]
InflightMap == [s \in Servers |-> AbstractInflight(s)]

\* A step of one task that leaves tokens and connections alone moves the
\* abstract server as far as its phase moves.
LEMMA TaskMoves ==
    ASSUME TypeOK, TypeOK', NEW s \in Servers, UNCHANGED <<cancelled, conn>>,
           \A t \in Servers \ {s} : task'[t] = task[t] /\ started'[t] = started[t]
    PROVE  /\ PhaseMap' = [PhaseMap EXCEPT ![s] = AbstractPhase(s)']
           /\ PhaseMap[s] = AbstractPhase(s)
           /\ UNCHANGED <<cancelled, InflightMap>>
BY DEF PhaseMap, InflightMap, AbstractInflight, AbstractPhase

\* A step that touches no task leaves every phase where it is.
LEMMA PhasesStay ==
    ASSUME UNCHANGED <<task, started>>
    PROVE  UNCHANGED PhaseMap
BY DEF PhaseMap, AbstractPhase

\* A change of one connection changes the requests of its server at most.
LEMMA InflightMoves ==
    ASSUME TypeOK, NEW s \in Servers, NEW c \in Clients, NEW k,
           conn' = [conn EXCEPT ![s][c] = k]
    PROVE  InflightMap' = [InflightMap EXCEPT ![s] =
               IF k = "busy" THEN @ \cup {c} ELSE @ \ {c}]
<1> USE DEF TypeOK, ServerTypeOK
<1>1. ASSUME NEW t \in Servers, NEW d \in Clients
      PROVE  conn'[t][d] = IF t = s /\ d = c THEN k ELSE conn[t][d]
    OBVIOUS
<1>2. ASSUME NEW t \in Servers \ {s}
      PROVE  AbstractInflight(t)' = AbstractInflight(t)
    BY <1>1, <1>2 DEF AbstractInflight
<1>3. AbstractInflight(s)' =
          IF k = "busy" THEN AbstractInflight(s) \cup {c} ELSE AbstractInflight(s) \ {c}
    BY <1>1 DEF AbstractInflight
<1> QED
    BY <1>2, <1>3 DEF InflightMap

\* Launching, opening, failing, closing and stopping.
LEMMA TaskStepRefines ==
    ASSUME IInv, IInv', NEW s \in Servers,
           TaskStep(s) \/ SpawnGrpc(s) \/ SpawnRest(s)
    PROVE  [Abstract!Next]_(Abstract!vars)
<1> USE DEF IInv, TypeOK, ServerTypeOK, PhaseMap, InflightMap, AbstractInflight
<1>0. ASSUME NEW from, NEW to,
             AbstractPhase(s) = from, AbstractPhase(s)' = to, UNCHANGED <<cancelled, conn>>,
             \A t \in Servers \ {s} : task'[t] = task[t] /\ started'[t] = started[t]
      PROVE  Abstract!Move(s, from, to)
    BY <1>0, TaskMoves DEF Abstract!Move
<1>1. CASE SpawnGrpc(s) \/ SpawnRest(s)
  <2>1. Abstract!Move(s, "down", "starting")
      BY <1>0, <1>1 DEF SpawnGrpc, SpawnRest, AbstractPhase
  <2> QED
      BY <2>1 DEF Abstract!Next, Abstract!Launch
<1>2. CASE Bind(s)
  <2>1. Abstract!Move(s, "starting", "up")
      BY <1>0, <1>2 DEF Bind, AbstractPhase
  <2> QED
      BY <2>1 DEF Abstract!Next, Abstract!Progress, Abstract!Open
<1>3. CASE GrpcBindFails(s) \/ RestBindFails(s)
  <2>1. Abstract!Move(s, "starting", "failed")
      BY <1>0, <1>3 DEF GrpcBindFails, RestBindFails, BindRefused, AbstractPhase
  <2> QED
      BY <2>1 DEF Abstract!Next, Abstract!Progress, Abstract!Fail
<1>4. CASE BeginDrain(s)
  <2>1. Abstract!Move(s, "up", "closing")
      BY <1>0, <1>4 DEF BeginDrain, AbstractPhase
  <2> QED
      BY <1>4, <2>1 DEF BeginDrain, Abstract!Next, Abstract!Progress, Abstract!Close
<1>5. CASE FinishDrain(s)
  <2>1. started[s] = "sent"
      BY <1>5 DEF ServerInv, Drained, FinishDrain
  <2>2. Abstract!Move(s, "closing", "stopped")
      BY <1>0, <1>5, <2>1 DEF FinishDrain, AbstractPhase
  <2>3. InflightMap[s] = {}
      BY <1>5 DEF FinishDrain, Quiet
  <2> QED
      BY <2>2, <2>3 DEF Abstract!Next, Abstract!Progress, Abstract!Stop
<1>6. CASE AnnounceStart(s)
  <2>1. UNCHANGED <<PhaseMap, cancelled, InflightMap>>
      BY <1>6 DEF AnnounceStart, AbstractPhase
  <2> QED
      BY <2>1 DEF Abstract!vars
<1>7. CASE \E v \in Services : Report(s, v)
  <2>1. UNCHANGED <<PhaseMap, cancelled, InflightMap>>
      BY <1>7 DEF Report, AbstractPhase
  <2> QED
      BY <2>1 DEF Abstract!vars
<1> QED
    BY <1>1, <1>2, <1>3, <1>4, <1>5, <1>6, <1>7 DEF TaskStep

\* Requests entering and leaving.
LEMMA ConnectionStepRefines ==
    ASSUME IInv, NEW s \in Servers, ConnectionStep(s)
    PROVE  [Abstract!Next]_(Abstract!vars)
<1> USE DEF IInv, TypeOK, ServerTypeOK, PhaseMap, InflightMap, AbstractInflight
<1>1. PICK c \in Clients :
          Accept(s, c) \/ Request(s, c) \/ Respond(s, c) \/ CloseIdle(s, c) \/ Disconnect(s, c)
    BY DEF ConnectionStep
<1>2. UNCHANGED <<PhaseMap, cancelled>>
    BY <1>1, PhasesStay DEF Accept, Request, Respond, CloseIdle, Disconnect
<1>3. CASE Request(s, c)
  <2>1. InflightMap' = [InflightMap EXCEPT ![s] = @ \cup {c}]
      BY <1>3, InflightMoves DEF Request
  <2>2. PhaseMap[s] \in {"up", "closing"}
      BY <1>3 DEF Request, Listening, AbstractPhase
  <2>3. Abstract!Enter(s, c)
      BY <1>2, <2>1, <2>2 DEF Abstract!Enter
  <2> QED
      BY <2>3 DEF Abstract!Next
<1>4. CASE ~Request(s, c)
  <2>1. \E k \in {"closed", "idle"} : conn' = [conn EXCEPT ![s][c] = k]
      BY <1>1, <1>4 DEF Accept, Respond, CloseIdle, Disconnect
  <2>2. InflightMap' = [InflightMap EXCEPT ![s] = @ \ {c}]
      BY <2>1, InflightMoves
  <2>3. Abstract!Leave(s, c)
      BY <1>2, <2>2 DEF Abstract!Leave
  <2> QED
      BY <2>3 DEF Abstract!Next
<1> QED
    BY <1>3, <1>4

\* The calls of an owner: starting launches, shutdown asks, the others are
\* invisible.
LEMMA OwnerStepRefines ==
    ASSUME IInv, IInv', NEW s \in Servers, OwnerStep(s)
    PROVE  [Abstract!Next]_(Abstract!vars)
<1> USE DEF PhaseMap, InflightMap, AbstractInflight
<1>1. CASE StartGrpc(s) \/ StartRest(s)
    BY <1>1, TaskStepRefines DEF StartGrpc, StartRest
<1>2. CASE Shutdown(s)
  <2>1. UNCHANGED <<PhaseMap, InflightMap>>
      BY <1>2, PhasesStay DEF Shutdown
  <2>2. task[s] # "absent"
      BY <1>2 DEF Shutdown, IInv, Handed
  <2>3. PhaseMap[s] # "down"
      BY <2>2 DEF AbstractPhase, IInv, TypeOK, ServerTypeOK, TaskState
  <2>4. Abstract!Ask(s)
      BY <1>2, <2>1, <2>3 DEF Shutdown, Abstract!Ask
  <2> QED
      BY <2>4 DEF Abstract!Next
<1>3. CASE ~(StartGrpc(s) \/ StartRest(s) \/ Shutdown(s))
  <2>1. UNCHANGED serverVars
      BY <1>3 DEF OwnerStep, StartRejected, CallWaitForStart, CallWaitForStartAgain,
                  WaitForStartOk, WaitForStartPanics, GiveUpWaitForStart,
                  CallWaitForStop, WaitForStopOk, DropHandle
  <2>2. UNCHANGED <<PhaseMap, cancelled, InflightMap>>
      BY <2>1, PhasesStay DEF serverVars
  <2> QED
      BY <2>2 DEF Abstract!vars
<1> QED
    BY <1>1, <1>2, <1>3

\* ServiceHandler implements the safety part of GracefulServer: a server fails
\* before it served or serves until it is asked to stop, and stops only once
\* its requests in flight are gone.
THEOREM ImplementsSafety == Safe => Abstract!Safe
<1>1. Init => Abstract!Init
    BY DEF Init, ServerInit, Abstract!Init, AbstractPhase
<1>2. IInv /\ IInv' /\ [Next]_vars => [Abstract!Next]_(Abstract!vars)
  <2> SUFFICES ASSUME IInv, IInv', [Next]_vars PROVE [Abstract!Next]_(Abstract!vars)
      OBVIOUS
  <2>1. CASE UNCHANGED <<task, started, cancelled, conn>>
    <3>1. UNCHANGED <<PhaseMap, cancelled, InflightMap>>
        BY <2>1, PhasesStay DEF InflightMap, AbstractInflight
    <3> QED
        BY <3>1 DEF Abstract!vars, PhaseMap, InflightMap, AbstractInflight
  <2>2. CASE \E s \in Servers : OwnerStep(s)
      BY <2>2, OwnerStepRefines
  <2>3. CASE ServerStep
    <3>1. CASE \E a \in Addresses : PortTaken(a) \/ PortReleased(a)
        BY <2>1, <3>1 DEF PortTaken, PortReleased
    <3> QED
        BY <2>3, <3>1, TaskStepRefines, ConnectionStepRefines DEF ServerStep
  <2> QED
      BY <2>1, <2>2, <2>3 DEF Next, vars, serverVars
<1> QED
    BY <1>1, <1>2, Invariance, PTL DEF Safe, Abstract!Safe
=============================================================================
