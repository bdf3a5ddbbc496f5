--------------------------- MODULE GracefulServer ---------------------------
(***************************************************************************)
(* What a ServiceHandler promises its owner (the doc comment of            *)
(* ServiceHandler in crates/server/src/lib.rs), without tasks, channels,   *)
(* ports or tokens: a server that was launched either fails before it ever *)
(* served, or serves until it is asked to stop, and then stops only after  *)
(* the requests in flight left.                                            *)
(***************************************************************************)
CONSTANTS Servers, Clients

VARIABLES
    phase,      \* where each server is in its life
    asked,      \* whether its owner signalled shutdown
    inflight    \* the clients whose request it is working on

vars == <<phase, asked, inflight>>

Phase == {"down", "starting", "up", "closing", "stopped", "failed"}

TypeOK ==
    /\ phase \in [Servers -> Phase]
    /\ asked \in [Servers -> BOOLEAN]
    /\ inflight \in [Servers -> SUBSET Clients]

Init ==
    /\ phase = [s \in Servers |-> "down"]
    /\ asked = [s \in Servers |-> FALSE]
    /\ inflight = [s \in Servers |-> {}]

Move(s, from, to) ==
    /\ phase[s] = from
    /\ phase' = [phase EXCEPT ![s] = to]
    /\ UNCHANGED <<asked, inflight>>

Launch(s) == Move(s, "down", "starting")
Open(s) == Move(s, "starting", "up")
Fail(s) == Move(s, "starting", "failed")
Close(s) == asked[s] /\ Move(s, "up", "closing")
Stop(s) == inflight[s] = {} /\ Move(s, "closing", "stopped")

Ask(s) ==
    /\ phase[s] # "down"
    /\ asked' = [asked EXCEPT ![s] = TRUE]
    /\ UNCHANGED <<phase, inflight>>

Enter(s, c) ==
    /\ phase[s] \in {"up", "closing"}
    /\ inflight' = [inflight EXCEPT ![s] = @ \cup {c}]
    /\ UNCHANGED <<phase, asked>>

Leave(s, c) ==
    /\ inflight' = [inflight EXCEPT ![s] = @ \ {c}]
    /\ UNCHANGED <<phase, asked>>

Progress(s) == Open(s) \/ Fail(s) \/ Close(s) \/ Stop(s)

Next ==
    \E s \in Servers :
        \/ Launch(s)
        \/ Ask(s)
        \/ Progress(s)
        \/ \E c \in Clients : Enter(s, c) \/ Leave(s, c)

Safe == Init /\ [][Next]_vars

\* Open, Fail, Close and Stop happen unless something keeps them from it.
Spec == Safe /\ \A s \in Servers : WF_vars(Progress(s))
=============================================================================
