--------------------------- MODULE ServiceHandler ---------------------------
(***************************************************************************)
(* ServiceHandler of crates/server/src/lib.rs: the handle a caller of      *)
(* start_grpc_server or start_rest_server owns, with any owner that uses   *)
(* it as the borrow checker allows: one call at a time, wait_for_stop      *)
(* last, and any pending wait given up (its future dropped) at any point.  *)
(***************************************************************************)
EXTENDS Server

VARIABLES
    owner,      \* what the owner of each handle is doing
    rxTaken,    \* started_rx is None: wait_for_start has consumed it
    startSeen   \* a wait_for_start returned Ok to the owner

vars == <<serverVars, owner, rxTaken, startSeen>>

handleVars == <<owner, rxTaken, startSeen>>

\* "error": start_*_server returned Err, there is no handle.
\* "stopped": wait_for_stop returned Ok.  "panicked" and "dropped": the handle
\* was dropped, by an unwinding owner or otherwise.
OwnerState == {"none", "error", "held", "awaitStart", "awaitStop",
               "stopped", "panicked", "dropped"}

TypeOK ==
    /\ ServerTypeOK
    /\ owner \in [Servers -> OwnerState]
    /\ rxTaken \in [Servers -> BOOLEAN]
    /\ startSeen \in [Servers -> BOOLEAN]

Init ==
    /\ ServerInit
    /\ owner = [s \in Servers |-> "none"]
    /\ rxTaken = [s \in Servers |-> FALSE]
    /\ startSeen = [s \in Servers |-> FALSE]

OwnerMoves(s, from, to) ==
    /\ owner[s] = from
    /\ owner' = [owner EXCEPT ![s] = to]

-----------------------------------------------------------------------------
(* start_grpc_server and start_rest_server.                                 *)

StartGrpc(s) ==
    /\ OwnerMoves(s, "none", "held")
    /\ SpawnGrpc(s)
    /\ UNCHANGED <<rxTaken, startSeen>>

StartRest(s) ==
    /\ OwnerMoves(s, "none", "held")
    /\ SpawnRest(s)
    /\ UNCHANGED <<rxTaken, startSeen>>

\* The `?` after parse: nothing has been spawned yet.
StartRejected(s) ==
    /\ ~AddressParses(s)
    /\ OwnerMoves(s, "none", "error")
    /\ UNCHANGED <<serverVars, rxTaken, startSeen>>

-----------------------------------------------------------------------------
(* wait_for_start: take() the receiver, await it, expect twice.             *)

\* Mutant of CallWaitForStart: a second call awaits a receiver again.
CallWaitForStartTwice(s) ==
    /\ OwnerMoves(s, "held", "awaitStart")
    /\ rxTaken' = [rxTaken EXCEPT ![s] = TRUE]
    /\ UNCHANGED <<serverVars, startSeen>>

CallWaitForStart(s) ==
    /\ ~rxTaken[s]
    /\ OwnerMoves(s, "held", "awaitStart")
    /\ rxTaken' = [rxTaken EXCEPT ![s] = TRUE]
    /\ UNCHANGED <<serverVars, startSeen>>

\* expect("Server start signal already consumed").
CallWaitForStartAgain(s) ==
    /\ rxTaken[s]
    /\ OwnerMoves(s, "held", "panicked")
    /\ UNCHANGED <<serverVars, rxTaken, startSeen>>

WaitForStartOk(s) ==
    /\ started[s] = "sent"
    /\ OwnerMoves(s, "awaitStart", "held")
    /\ startSeen' = [startSeen EXCEPT ![s] = TRUE]
    /\ UNCHANGED <<serverVars, rxTaken>>

\* expect("Failed to receive server start signal").
WaitForStartPanics(s) ==
    /\ started[s] = "closed"
    /\ OwnerMoves(s, "awaitStart", "panicked")
    /\ UNCHANGED <<serverVars, rxTaken, startSeen>>

\* A timeout around wait_for_start drops its future, and the receiver in it.
GiveUpWaitForStart(s) ==
    /\ OwnerMoves(s, "awaitStart", "held")
    /\ UNCHANGED <<serverVars, rxTaken, startSeen>>

-----------------------------------------------------------------------------
(* shutdown, wait_for_stop, and dropping the handle.                        *)

Shutdown(s) ==
    /\ owner[s] = "held"
    /\ cancelled' = [cancelled EXCEPT ![s] = TRUE]
    /\ UNCHANGED <<addr, task, started, reporter, port, conn, handleVars>>

CallWaitForStop(s) ==
    /\ OwnerMoves(s, "held", "awaitStop")
    /\ UNCHANGED <<serverVars, rxTaken, startSeen>>

\* Mutant of WaitForStopOk: only the reporters are joined.
WaitForStopReportersOnly(s) ==
    /\ ReportersEnded(s)
    /\ OwnerMoves(s, "awaitStop", "stopped")
    /\ UNCHANGED <<serverVars, rxTaken, startSeen>>

\* join_all over the reporters and the server task; what they returned, a
\* panic included, is dropped and the result is Ok.
WaitForStopOk(s) ==
    /\ Ended(s)
    /\ ReportersEnded(s)
    /\ OwnerMoves(s, "awaitStop", "stopped")
    /\ UNCHANGED <<serverVars, rxTaken, startSeen>>

\* Mutant of DropHandle: the handle holds a drop guard of its token.
DropHandleCancels(s) ==
    /\ owner[s] \in {"held", "awaitStop"}
    /\ owner' = [owner EXCEPT ![s] = "dropped"]
    /\ cancelled' = [cancelled EXCEPT ![s] = TRUE]
    /\ UNCHANGED <<addr, task, started, reporter, port, conn, rxTaken, startSeen>>

\* Neither a JoinHandle nor a CancellationToken stops its task when dropped.
DropHandle(s) ==
    /\ owner[s] \in {"held", "awaitStop"}
    /\ owner' = [owner EXCEPT ![s] = "dropped"]
    /\ UNCHANGED <<serverVars, rxTaken, startSeen>>

-----------------------------------------------------------------------------
OwnerStep(s) ==
    \/ StartGrpc(s)
    \/ StartRest(s)
    \/ StartRejected(s)
    \/ CallWaitForStart(s)
    \/ CallWaitForStartAgain(s)
    \/ WaitForStartOk(s)
    \/ WaitForStartPanics(s)
    \/ GiveUpWaitForStart(s)
    \/ Shutdown(s)
    \/ CallWaitForStop(s)
    \/ WaitForStopOk(s)
    \/ DropHandle(s)

Next ==
    \/ \E s \in Servers : OwnerStep(s)
    \/ ServerStep /\ UNCHANGED handleVars

Safe == Init /\ [][Next]_vars

\* The runtime polls a woken task sooner or later.  Owners, peers and other
\* processes owe nobody a step, and a request may stay unanswered for as long
\* as its peer stalls.
Fairness ==
    \A s \in Servers :
        /\ WF_vars(UNCHANGED handleVars /\ (Bind(s) \/ GrpcBindFails(s) \/ RestBindFails(s)))
        /\ WF_vars(UNCHANGED handleVars /\ AnnounceStart(s))
        /\ WF_vars(UNCHANGED handleVars /\ BeginDrain(s))
        /\ WF_vars(UNCHANGED handleVars /\ FinishDrain(s))
        /\ \A v \in Services : WF_vars(UNCHANGED handleVars /\ Report(s, v))
        /\ \A c \in Clients : WF_vars(UNCHANGED handleVars /\ CloseIdle(s, c))
        /\ WF_vars(WaitForStartOk(s) \/ WaitForStartPanics(s))
        /\ WF_vars(WaitForStopOk(s))

Spec == Safe /\ Fairness

-----------------------------------------------------------------------------
(* Properties.                                                              *)

\* Once wait_for_start returned Ok, and for as long as nobody signalled
\* shutdown, the server owns its address and accepts connections.  (The start
\* notification is sent from inside the serve future, after the bind.)
StartedMeansListening ==
    \A s \in Servers :
        startSeen[s] /\ ~cancelled[s] => task[s] = "serving" /\ port[addr[s]] = s

\* When wait_for_stop returns, nothing of the server is left: its task and its
\* reporters ended, no connection is open, no address is held.
StopLeavesNothing ==
    \A s \in Servers :
        owner[s] = "stopped" =>
            /\ Ended(s)
            /\ Quiet(s)
            /\ ReportersEnded(s)
            /\ \A a \in Addresses : port[a] # s

\* Two servers configured with one address never accept on it together,
\* however their start-up, their shutdown and other processes interleave.
NoSharedAddress ==
    \A s, t \in Servers :
        s # t /\ task[s] = "serving" /\ task[t] = "serving" => addr[s] # addr[t]

\* A handle that is lost before shutdown leaves a server nobody can stop: it
\* goes on serving.  (Dropping the handle neither aborts nor cancels.)
OrphanKeepsServing ==
    [][\A s \in Servers :
        owner'[s] \in {"panicked", "dropped"} /\ ~cancelled[s] /\ task[s] = "serving"
            => ~cancelled'[s] /\ task'[s] = "serving"]_vars

\* A wait_for_start given up by a timeout has consumed the notification: the
\* owner can never again learn that the server started.
GivenUpWaitLosesStart ==
    \A s \in Servers :
        [](owner[s] = "held" /\ rxTaken[s] /\ ~startSeen[s] => []~startSeen[s])

\* wait_for_start never hangs: a server that cannot bind drops started_tx.
WaitForStartReturns ==
    \A s \in Servers : owner[s] = "awaitStart" ~> owner[s] # "awaitStart"

\* No peer keeps a request of s unanswered for ever.
NoStall(s) == \A c \in Clients : []<>(conn[s][c] # "busy")

\* A shutdown signal is never lost, even one sent before the server is bound:
\* the server ends unless a request in flight stalls for ever.
ShutdownEndsServer ==
    \A s \in Servers : NoStall(s) => (cancelled[s] ~> Ended(s))

\* shutdown followed by wait_for_stop returns, under the same condition.
WaitForStopReturns ==
    \A s \in Servers :
        NoStall(s) => (owner[s] = "awaitStop" /\ cancelled[s] ~> owner[s] # "awaitStop")

\* wait_for_stop never returns Ok for a server whose task panicked: what its
\* doc comment says ("Panics if the server task panicked during execution").
StopReportsPanic ==
    \A s \in Servers : owner[s] = "stopped" => task[s] # "panicked"

-----------------------------------------------------------------------------
(* The handle's server implements the abstract one.                         *)

AbstractPhase(s) ==
    CASE task[s] = "absent"   -> "down"
      [] task[s] = "spawned"  -> "starting"
      [] task[s] = "serving"  -> "up"
      [] task[s] = "draining" -> "closing"
      [] task[s] = "done" /\ started[s] = "sent" -> "stopped"
      [] OTHER -> "failed"

Abstract == INSTANCE GracefulServer WITH
    phase <- [s \in Servers |-> AbstractPhase(s)],
    asked <- cancelled,
    inflight <- [s \in Servers |-> {c \in Clients : conn[s][c] = "busy"}]

ImplementsGracefulServer == Abstract!Spec
=============================================================================
