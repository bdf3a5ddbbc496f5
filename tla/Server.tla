------------------------------- MODULE Server -------------------------------
(***************************************************************************)
(* The tasks that start_grpc_server (crates/server/src/grpc.rs) and        *)
(* start_rest_server (crates/server/src/http.rs) spawn on the tokio        *)
(* runtime, what the network does to them, and what dropping the runtime   *)
(* does to them.                                                           *)
(*                                                                         *)
(* A server is one tokio task.  It binds its address, serves connections,  *)
(* and runs the graceful-shutdown future handed to tonic or axum.  That    *)
(* future sends the start notification and then waits for the server's     *)
(* CancellationToken.  Who calls start, shutdown and the rest is the       *)
(* business of the modules that extend this one: ServiceHandler (any owner *)
(* of a handle) and App (the application of crates/app).                   *)
(***************************************************************************)
EXTENDS FiniteSets

CONSTANTS
    GrpcServers,   \* servers started with start_grpc_server
    RestServers,   \* servers started with start_rest_server
    Services,      \* the services passed to start_grpc_server
    Clients,       \* peers, each with at most one connection per server
    Addresses,     \* socket addresses a bind_address string can parse to
    BadAddress,    \* a bind_address string that does not parse
    Free,          \* nobody listens on an address
    Foreign        \* another process listens on an address

Servers == GrpcServers \cup RestServers

ASSUME ServerAssumption ==
    /\ GrpcServers \cap RestServers = {}
    /\ BadAddress \notin Addresses
    /\ Free \notin Servers
    /\ Foreign \notin Servers
    /\ Free # Foreign

VARIABLES
    addr,        \* the bind_address of each server's configuration
    task,        \* the life of the task behind join_handle
    started,     \* the oneshot channel started_tx / started_rx
    cancelled,   \* the server's CancellationToken
    reporter,    \* the readiness-reporting task of each service
    port,        \* who listens on each address
    conn         \* the connection of each client to each server

serverVars == <<addr, task, started, cancelled, reporter, port, conn>>

\* "serving" and "draining" are the two halves of the serve future: before and
\* after the shutdown future completed.
TaskState == {"absent", "spawned", "serving", "draining",
              "done", "panicked", "aborted"}

Ended(s) == task[s] \in {"done", "panicked", "aborted"}

Listening(s) == task[s] \in {"serving", "draining"}

\* No connection to s is open any more.
Quiet(s) == \A c \in Clients : conn[s][c] \in {"closed", "lost"}

\* Every task whose JoinHandle is in reporter_handles of s has finished.
ReportersEnded(s) ==
    \A v \in Services : reporter[s][v] \in {"absent", "done", "aborted"}

ServerTypeOK ==
    /\ addr \in [Servers -> Addresses \cup {BadAddress}]
    /\ task \in [Servers -> TaskState]
    /\ started \in [Servers -> {"unsent", "sent", "closed"}]
    /\ cancelled \in [Servers -> BOOLEAN]
    /\ reporter \in [Servers -> [Services -> {"absent", "running", "done", "aborted"}]]
    /\ port \in [Addresses -> Servers \cup {Free, Foreign}]
    /\ conn \in [Servers -> [Clients -> {"closed", "idle", "busy", "lost"}]]

\* Any configuration, and any set of addresses already in use on the machine.
ServerInit ==
    /\ addr \in [Servers -> Addresses \cup {BadAddress}]
    /\ task = [s \in Servers |-> "absent"]
    /\ started = [s \in Servers |-> "unsent"]
    /\ cancelled = [s \in Servers |-> FALSE]
    /\ reporter = [s \in Servers |-> [v \in Services |-> "absent"]]
    /\ port \in [Addresses -> {Free, Foreign}]
    /\ conn = [s \in Servers |-> [c \in Clients |-> "closed"]]

-----------------------------------------------------------------------------
(* Spawning.  start_*_server runs to its end without waiting for anything   *)
(* it spawned: when it returns Ok the address is parsed but not bound.      *)

AddressParses(s) == addr[s] \in Addresses

SpawnGrpc(s) ==
    /\ s \in GrpcServers
    /\ AddressParses(s)
    /\ task[s] = "absent"
    /\ task' = [task EXCEPT ![s] = "spawned"]
    /\ reporter' = [reporter EXCEPT ![s] = [v \in Services |-> "running"]]
    /\ UNCHANGED <<addr, started, cancelled, port, conn>>

\* REST handles carry an empty reporter_handles.
SpawnRest(s) ==
    /\ s \in RestServers
    /\ AddressParses(s)
    /\ task[s] = "absent"
    /\ task' = [task EXCEPT ![s] = "spawned"]
    /\ UNCHANGED <<addr, started, cancelled, reporter, port, conn>>

-----------------------------------------------------------------------------
(* The server task.                                                         *)

\* Mutant of Bind: the address is taken whether or not it is in use.
BindAnyway(s) ==
    /\ task[s] = "spawned"
    /\ port' = [port EXCEPT ![addr[s]] = s]
    /\ task' = [task EXCEPT ![s] = "serving"]
    /\ UNCHANGED <<addr, started, cancelled, reporter, conn>>

Bind(s) ==
    /\ task[s] = "spawned"
    /\ port[addr[s]] = Free
    /\ port' = [port EXCEPT ![addr[s]] = s]
    /\ task' = [task EXCEPT ![s] = "serving"]
    /\ UNCHANGED <<addr, started, cancelled, reporter, conn>>

BindRefused(s) == task[s] = "spawned" /\ port[addr[s]] # Free

\* Mutant of GrpcBindFails: started_tx outlives the serve future.
GrpcBindFailsSilently(s) ==
    /\ s \in GrpcServers
    /\ BindRefused(s)
    /\ task' = [task EXCEPT ![s] = "done"]
    /\ UNCHANGED <<addr, started, cancelled, reporter, port, conn>>

\* serve_with_shutdown returns the bind error, which is only logged: the task
\* completes normally.  The shutdown future, and started_tx with it, is dropped.
GrpcBindFails(s) ==
    /\ s \in GrpcServers
    /\ BindRefused(s)
    /\ task' = [task EXCEPT ![s] = "done"]
    /\ started' = [started EXCEPT ![s] = "closed"]
    /\ UNCHANGED <<addr, cancelled, reporter, port, conn>>

\* TcpListener::bind(..).await.unwrap() panics; unwinding drops started_tx.
RestBindFails(s) ==
    /\ s \in RestServers
    /\ BindRefused(s)
    /\ task' = [task EXCEPT ![s] = "panicked"]
    /\ started' = [started EXCEPT ![s] = "closed"]
    /\ UNCHANGED <<addr, cancelled, reporter, port, conn>>

\* Mutant of AnnounceStart: the notification is sent before the bind.
AnnounceStartEarly(s) ==
    /\ task[s] \in {"spawned", "serving"}
    /\ started[s] = "unsent"
    /\ started' = [started EXCEPT ![s] = "sent"]
    /\ UNCHANGED <<addr, task, cancelled, reporter, port, conn>>

\* First poll of the shutdown future: started_tx.send(()).
AnnounceStart(s) ==
    /\ task[s] = "serving"
    /\ started[s] = "unsent"
    /\ started' = [started EXCEPT ![s] = "sent"]
    /\ UNCHANGED <<addr, task, cancelled, reporter, port, conn>>

\* cancelled().await returns: the shutdown future completes and the library
\* stops accepting.  It closes the listening socket now or when the task ends.
BeginDrain(s) ==
    /\ task[s] = "serving"
    /\ started[s] = "sent"
    /\ cancelled[s]
    /\ task' = [task EXCEPT ![s] = "draining"]
    /\ port' \in {port, [port EXCEPT ![addr[s]] = Free]}
    /\ UNCHANGED <<addr, started, cancelled, reporter, conn>>

\* The address no longer belongs to s, if it still did.
ReleasePort(s) ==
    port' = [a \in Addresses |-> IF port[a] = s THEN Free ELSE port[a]]

\* Mutant of FinishDrain: it does not wait for the requests in flight.
FinishDrainAtOnce(s) ==
    /\ task[s] = "draining"
    /\ task' = [task EXCEPT ![s] = "done"]
    /\ ReleasePort(s)
    /\ UNCHANGED <<addr, started, cancelled, reporter, conn>>

\* The serve future resolves once no connection is open; the task logs the
\* result and completes.
FinishDrain(s) ==
    /\ task[s] = "draining"
    /\ Quiet(s)
    /\ task' = [task EXCEPT ![s] = "done"]
    /\ ReleasePort(s)
    /\ UNCHANGED <<addr, started, cancelled, reporter, conn>>

\* Mutants of Report: the reporter keeps the health status it set; it waits for
\* its server to serve.
ReportServing(s, v) ==
    /\ reporter[s][v] = "running"
    /\ reporter' = [reporter EXCEPT ![s][v] = "serving"]
    /\ UNCHANGED <<addr, task, started, cancelled, port, conn>>

ReportWhenServing(s, v) ==
    /\ reporter[s][v] = "running"
    /\ task[s] = "serving"
    /\ reporter' = [reporter EXCEPT ![s][v] = "done"]
    /\ UNCHANGED <<addr, task, started, cancelled, port, conn>>

\* readiness_reporting sets the health status of the service and returns.
Report(s, v) ==
    /\ reporter[s][v] = "running"
    /\ reporter' = [reporter EXCEPT ![s][v] = "done"]
    /\ UNCHANGED <<addr, task, started, cancelled, port, conn>>

-----------------------------------------------------------------------------
(* Connections, as tonic and axum keep them.                                *)

Accept(s, c) ==
    /\ task[s] = "serving"
    /\ conn[s][c] = "closed"
    /\ conn' = [conn EXCEPT ![s][c] = "idle"]
    /\ UNCHANGED <<addr, task, started, cancelled, reporter, port>>

\* A request can still arrive on a connection the drain has not closed yet.
Request(s, c) ==
    /\ Listening(s)
    /\ conn[s][c] = "idle"
    /\ conn' = [conn EXCEPT ![s][c] = "busy"]
    /\ UNCHANGED <<addr, task, started, cancelled, reporter, port>>

\* The handler answers.  A draining server closes the connection after it.
Respond(s, c) ==
    /\ Listening(s)
    /\ conn[s][c] = "busy"
    /\ conn' = [conn EXCEPT ![s][c] = IF task[s] = "draining" THEN "closed" ELSE "idle"]
    /\ UNCHANGED <<addr, task, started, cancelled, reporter, port>>

\* Mutant of CloseIdle: the drain leaves kept-alive connections open.
CloseIdleWhileServing(s, c) ==
    /\ task[s] = "serving"
    /\ conn[s][c] = "idle"
    /\ conn' = [conn EXCEPT ![s][c] = "closed"]
    /\ UNCHANGED <<addr, task, started, cancelled, reporter, port>>

CloseIdle(s, c) ==
    /\ task[s] = "draining"
    /\ conn[s][c] = "idle"
    /\ conn' = [conn EXCEPT ![s][c] = "closed"]
    /\ UNCHANGED <<addr, task, started, cancelled, reporter, port>>

\* The peer goes away, with or without its answer.
Disconnect(s, c) ==
    /\ conn[s][c] \in {"idle", "busy"}
    /\ conn' = [conn EXCEPT ![s][c] = "closed"]
    /\ UNCHANGED <<addr, task, started, cancelled, reporter, port>>

-----------------------------------------------------------------------------
(* Other processes of the machine.                                          *)

PortTaken(a) ==
    /\ port[a] = Free
    /\ port' = [port EXCEPT ![a] = Foreign]
    /\ UNCHANGED <<addr, task, started, cancelled, reporter, conn>>

PortReleased(a) ==
    /\ port[a] = Foreign
    /\ port' = [port EXCEPT ![a] = Free]
    /\ UNCHANGED <<addr, task, started, cancelled, reporter, conn>>

-----------------------------------------------------------------------------
TaskStep(s) ==
    \/ Bind(s)
    \/ GrpcBindFails(s)
    \/ RestBindFails(s)
    \/ AnnounceStart(s)
    \/ BeginDrain(s)
    \/ FinishDrain(s)
    \/ \E v \in Services : Report(s, v)

ConnectionStep(s) ==
    \E c \in Clients :
        Accept(s, c) \/ Request(s, c) \/ Respond(s, c) \/ CloseIdle(s, c) \/ Disconnect(s, c)

ServerStep ==
    \/ \E s \in Servers : TaskStep(s) \/ ConnectionStep(s)
    \/ \E a \in Addresses : PortTaken(a) \/ PortReleased(a)
=============================================================================
