---------------------------- MODULE ServerProofs ----------------------------
(***************************************************************************)
(* Invariants of the server tasks that every specification built on Server *)
(* keeps, with the proofs that starting a server and ServerStep keep them. *)
(***************************************************************************)
EXTENDS Server, TLAPS

\* Only a server whose bind_address parsed gets a task.
Parsed == \A s \in Servers : task[s] # "absent" => addr[s] \in Addresses

\* A serving server owns its address.
Owned == \A s \in Servers : task[s] = "serving" => port[addr[s]] = s

\* A server owns no address but its own, and that only while it listens.
Held == \A s \in Servers, a \in Addresses : port[a] = s => Listening(s) /\ a = addr[s]

\* A server that announced its start serves, or left that state because it
\* was told to or because its runtime was dropped.
Announced ==
    \A s \in Servers :
        started[s] = "sent" =>
            \/ task[s] \in {"serving", "aborted"}
            \/ task[s] \in {"draining", "done"} /\ cancelled[s]

\* A draining server has announced its start.
Drained == \A s \in Servers : task[s] = "draining" => started[s] = "sent"

\* Connections are open only at a server that listens.
QuietUnlessListening == \A s \in Servers : Listening(s) \/ Quiet(s)

ServerInv ==
    /\ ServerTypeOK
    /\ Parsed
    /\ Owned
    /\ Held
    /\ Announced
    /\ Drained
    /\ QuietUnlessListening

-----------------------------------------------------------------------------
\* The initial states of the servers satisfy the invariant.
LEMMA ServerInitInv == ServerInit => ServerInv
<1> SUFFICES ASSUME ServerInit PROVE ServerInv
    OBVIOUS
<1> USE DEF ServerInit
<1>1. ServerTypeOK
    BY DEF ServerTypeOK, TaskState
<1>2. Parsed /\ Owned /\ Announced /\ Drained
    BY DEF Parsed, Owned, Announced, Drained
<1>3. Held
    BY ServerAssumption DEF Held, Listening
<1>4. QuietUnlessListening
    BY DEF QuietUnlessListening, Quiet
<1> QED
    BY <1>1, <1>2, <1>3, <1>4 DEF ServerInv

\* start_grpc_server and start_rest_server keep the types.
LEMMA SpawnTyping ==
    ASSUME ServerTypeOK, NEW s \in Servers, SpawnGrpc(s) \/ SpawnRest(s)
    PROVE  ServerTypeOK'
<1>1. CASE SpawnGrpc(s)
    BY <1>1 DEF ServerTypeOK, TaskState, SpawnGrpc
<1>2. CASE SpawnRest(s)
    BY <1>2 DEF ServerTypeOK, TaskState, SpawnRest
<1> QED
    BY <1>1, <1>2

\* A step of a server task keeps the types.
LEMMA TaskTyping ==
    ASSUME ServerTypeOK, NEW s \in Servers, TaskStep(s)
    PROVE  ServerTypeOK'
<1> USE DEF ServerTypeOK, TaskState
<1>1. CASE Bind(s)
    BY <1>1 DEF Bind
<1>2. CASE GrpcBindFails(s)
    BY <1>2 DEF GrpcBindFails
<1>3. CASE RestBindFails(s)
    BY <1>3 DEF RestBindFails
<1>4. CASE AnnounceStart(s)
    BY <1>4 DEF AnnounceStart
<1>5. CASE BeginDrain(s)
    BY <1>5 DEF BeginDrain
<1>6. CASE FinishDrain(s)
    BY <1>6 DEF FinishDrain, ReleasePort
<1>7. ASSUME NEW v \in Services, Report(s, v)
      PROVE  ServerTypeOK'
    BY <1>7 DEF Report
<1> QED
    BY <1>1, <1>2, <1>3, <1>4, <1>5, <1>6, <1>7 DEF TaskStep

\* A step of a connection keeps the types.
LEMMA ConnectionTyping ==
    ASSUME ServerTypeOK, NEW s \in Servers, ConnectionStep(s)
    PROVE  ServerTypeOK'
<1> PICK c \in Clients :
        Accept(s, c) \/ Request(s, c) \/ Respond(s, c) \/ CloseIdle(s, c) \/ Disconnect(s, c)
    BY DEF ConnectionStep
<1> USE DEF ServerTypeOK, TaskState
<1>1. CASE Accept(s, c)
    BY <1>1 DEF Accept
<1>2. CASE Request(s, c)
    BY <1>2 DEF Request
<1>3. CASE Respond(s, c)
    BY <1>3 DEF Respond
<1>4. CASE CloseIdle(s, c)
    BY <1>4 DEF CloseIdle
<1>5. CASE Disconnect(s, c)
    BY <1>5 DEF Disconnect
<1> QED
    BY <1>1, <1>2, <1>3, <1>4, <1>5

-----------------------------------------------------------------------------
\* Starting a server keeps the invariant: the new task holds nothing yet.
LEMMA SpawnKeepsInv ==
    ASSUME ServerInv, NEW s \in Servers, SpawnGrpc(s) \/ SpawnRest(s)
    PROVE  ServerInv'
<1> USE DEF ServerInv
<1>1. /\ AddressParses(s)
      /\ task[s] = "absent"
      /\ task' = [task EXCEPT ![s] = "spawned"]
      /\ UNCHANGED <<addr, started, cancelled, port, conn>>
    BY DEF SpawnGrpc, SpawnRest
<1>2. ServerTypeOK'
    BY SpawnTyping
<1>3. Parsed' /\ Owned'
    BY <1>1 DEF Parsed, Owned, AddressParses, ServerTypeOK
<1>4. Held'
    BY <1>1 DEF Held, Listening, ServerTypeOK
<1>5. Announced' /\ Drained'
    BY <1>1 DEF Announced, Drained, ServerTypeOK
<1>6. QuietUnlessListening'
    BY <1>1 DEF QuietUnlessListening, Listening, Quiet, ServerTypeOK
<1> QED
    BY <1>2, <1>3, <1>4, <1>5, <1>6

\* Binding keeps the invariant: the address was free, so nobody loses it.
LEMMA BindKeepsInv ==
    ASSUME ServerInv, NEW s \in Servers, Bind(s)
    PROVE  ServerInv'
<1> USE DEF ServerInv, Bind
<1>1. ServerTypeOK'
    BY TaskTyping DEF TaskStep
<1>2. Parsed'
    BY DEF Parsed, ServerTypeOK
<1>3. Owned'
    BY ServerAssumption DEF Owned, Parsed, ServerTypeOK
<1>4. Held'
    BY ServerAssumption DEF Held, Listening, Parsed, ServerTypeOK
<1>5. Announced' /\ Drained'
    BY DEF Announced, Drained, ServerTypeOK
<1>6. QuietUnlessListening'
    BY DEF QuietUnlessListening, Listening, Quiet, ServerTypeOK
<1> QED
    BY <1>1, <1>2, <1>3, <1>4, <1>5, <1>6

\* A refused bind keeps the invariant: the task ends without having held
\* anything.
LEMMA BindFailsKeepsInv ==
    ASSUME ServerInv, NEW s \in Servers, GrpcBindFails(s) \/ RestBindFails(s)
    PROVE  ServerInv'
<1> USE DEF ServerInv
<1>1. /\ task[s] = "spawned"
      /\ task' = [task EXCEPT ![s] = IF s \in GrpcServers THEN "done" ELSE "panicked"]
      /\ started' = [started EXCEPT ![s] = "closed"]
      /\ UNCHANGED <<addr, cancelled, reporter, port, conn>>
    BY ServerAssumption DEF GrpcBindFails, RestBindFails, BindRefused
<1>2. ServerTypeOK'
    BY TaskTyping DEF TaskStep
<1>3. Parsed' /\ Owned'
    BY <1>1 DEF Parsed, Owned, ServerTypeOK
<1>4. Held'
    BY <1>1 DEF Held, Listening, ServerTypeOK
<1>5. Announced' /\ Drained'
    BY <1>1 DEF Announced, Drained, ServerTypeOK
<1>6. QuietUnlessListening'
    BY <1>1 DEF QuietUnlessListening, Listening, Quiet, ServerTypeOK
<1> QED
    BY <1>2, <1>3, <1>4, <1>5, <1>6

\* The start notification keeps the invariant: its sender serves.
LEMMA AnnounceKeepsInv ==
    ASSUME ServerInv, NEW s \in Servers, AnnounceStart(s)
    PROVE  ServerInv'
<1> USE DEF ServerInv, AnnounceStart
<1>1. ServerTypeOK'
    BY TaskTyping DEF TaskStep
<1>2. Parsed' /\ Owned'
    BY DEF Parsed, Owned
<1>3. Held' /\ QuietUnlessListening'
    BY DEF Held, QuietUnlessListening, Listening, Quiet
<1>4. Announced' /\ Drained'
    BY DEF Announced, Drained, ServerTypeOK
<1> QED
    BY <1>1, <1>2, <1>3, <1>4

\* Entering the drain keeps the invariant: the server was told to, and an
\* address it gives up early is its own.
LEMMA BeginDrainKeepsInv ==
    ASSUME ServerInv, NEW s \in Servers, BeginDrain(s)
    PROVE  ServerInv'
<1> USE DEF ServerInv, BeginDrain
<1>1. ServerTypeOK'
    BY TaskTyping DEF TaskStep
<1>2. port[addr[s]] = s /\ addr[s] \in Addresses
    BY DEF Owned, Parsed
<1>3. Parsed'
    BY DEF Parsed, ServerTypeOK
<1>4. ASSUME NEW t \in Servers, task'[t] = "serving"
      PROVE  port'[addr'[t]] = t
  <2>1. t # s /\ task[t] = "serving"
      BY <1>4 DEF ServerTypeOK
  <2>2. port[addr[t]] = t /\ addr[t] \in Addresses
      BY <2>1 DEF Owned, Parsed
  <2> QED
      BY <1>2, <2>1, <2>2 DEF ServerTypeOK
<1>5. Held'
    BY <1>2, ServerAssumption DEF Held, Listening, ServerTypeOK
<1>6. Announced' /\ Drained'
    BY DEF Announced, Drained, ServerTypeOK
<1>7. QuietUnlessListening'
    BY DEF QuietUnlessListening, Listening, Quiet, ServerTypeOK
<1> QED
    BY <1>1, <1>3, <1>4, <1>5, <1>6, <1>7 DEF Owned

\* The end of the drain keeps the invariant: no connection is open, and the
\* address is released.
LEMMA FinishDrainKeepsInv ==
    ASSUME ServerInv, NEW s \in Servers, FinishDrain(s)
    PROVE  ServerInv'
<1> USE DEF ServerInv, FinishDrain, ReleasePort
<1>1. ServerTypeOK'
    BY TaskTyping DEF TaskStep
<1>2. Parsed'
    BY DEF Parsed, ServerTypeOK
<1>3. Owned'
    BY DEF Owned, Parsed, ServerTypeOK
<1>4. Held'
    BY ServerAssumption DEF Held, Listening, ServerTypeOK
<1>5. Announced' /\ Drained'
    BY DEF Announced, Drained, ServerTypeOK
<1>6. QuietUnlessListening'
    BY DEF QuietUnlessListening, Listening, Quiet, ServerTypeOK
<1> QED
    BY <1>1, <1>2, <1>3, <1>4, <1>5, <1>6

\* A readiness report keeps the invariant: it only touches its reporter.
LEMMA ReportKeepsInv ==
    ASSUME ServerInv, NEW s \in Servers, NEW v \in Services, Report(s, v)
    PROVE  ServerInv'
<1>1. ServerTypeOK'
    BY TaskTyping DEF TaskStep, ServerInv
<1> QED
    BY <1>1 DEF ServerInv, Report, Parsed, Owned, Held, Announced, Drained,
                QuietUnlessListening, Listening, Quiet

\* Every step of a connection keeps the invariant: it is a connection of a
\* listening server, or it closes one.
LEMMA ConnectionKeepsInv ==
    ASSUME ServerInv, NEW s \in Servers, ConnectionStep(s)
    PROVE  ServerInv'
<1> USE DEF ServerInv
<1>1. ServerTypeOK'
    BY ConnectionTyping
<1>2. UNCHANGED <<addr, task, started, cancelled, reporter, port>>
    BY DEF ConnectionStep, Accept, Request, Respond, CloseIdle, Disconnect
<1>3. Parsed' /\ Owned' /\ Held' /\ Announced' /\ Drained'
    BY <1>2 DEF Parsed, Owned, Held, Announced, Drained, Listening
<1>4. ASSUME NEW t \in Servers, ~Listening(t), NEW d \in Clients
      PROVE  conn'[t][d] \in {"closed", "lost"}
  <2>1. conn[t][d] \in {"closed", "lost"}
      BY <1>4 DEF QuietUnlessListening, Quiet
  <2>2. PICK c \in Clients :
            Accept(s, c) \/ Request(s, c) \/ Respond(s, c) \/ CloseIdle(s, c) \/ Disconnect(s, c)
      BY DEF ConnectionStep
  <2>3. CASE Listening(s)
      BY <1>4, <2>1, <2>2, <2>3
         DEF Accept, Request, Respond, CloseIdle, Disconnect, ServerTypeOK
  <2>4. CASE ~Listening(s)
    <3>1. Disconnect(s, c)
        BY <2>2, <2>4 DEF Listening, Accept, Request, Respond, CloseIdle
    <3> QED
        BY <2>1, <3>1 DEF Disconnect, ServerTypeOK
  <2> QED
      BY <2>3, <2>4
<1>5. QuietUnlessListening'
    BY <1>2, <1>4 DEF QuietUnlessListening, Listening, Quiet
<1> QED
    BY <1>1, <1>3, <1>5

\* Other processes keep the invariant: they take free addresses only, and
\* release only their own.
LEMMA OthersKeepInv ==
    ASSUME ServerInv, NEW a \in Addresses, PortTaken(a) \/ PortReleased(a)
    PROVE  ServerInv'
<1> USE DEF ServerInv
<1>1. /\ port[a] \in {Free, Foreign}
      /\ \E o \in {Free, Foreign} : port' = [port EXCEPT ![a] = o]
      /\ UNCHANGED <<addr, task, started, cancelled, reporter, conn>>
    BY DEF PortTaken, PortReleased
<1>2. ServerTypeOK'
    BY <1>1 DEF ServerTypeOK
<1>3. Owned'
    BY <1>1, ServerAssumption DEF Owned, Parsed, ServerTypeOK
<1>4. Held'
    BY <1>1, ServerAssumption DEF Held, Listening, ServerTypeOK
<1>5. Parsed' /\ Announced' /\ Drained' /\ QuietUnlessListening'
    BY <1>1 DEF Parsed, Announced, Drained, QuietUnlessListening, Listening, Quiet
<1> QED
    BY <1>2, <1>3, <1>4, <1>5

\* Every step of the server tasks and their surroundings keeps the invariant.
LEMMA ServerStepKeepsInv ==
    ASSUME ServerInv, ServerStep
    PROVE  ServerInv'
<1>1. ASSUME NEW s \in Servers, TaskStep(s)
      PROVE  ServerInv'
    BY <1>1, BindKeepsInv, BindFailsKeepsInv, AnnounceKeepsInv, BeginDrainKeepsInv,
       FinishDrainKeepsInv, ReportKeepsInv DEF TaskStep
<1>2. ASSUME NEW s \in Servers, ConnectionStep(s)
      PROVE  ServerInv'
    BY <1>2, ConnectionKeepsInv
<1>3. ASSUME NEW a \in Addresses, PortTaken(a) \/ PortReleased(a)
      PROVE  ServerInv'
    BY <1>3, OthersKeepInv
<1> QED
    BY <1>1, <1>2, <1>3 DEF ServerStep
=============================================================================
