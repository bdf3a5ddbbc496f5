----------------------------- MODULE StartOnce -----------------------------
(***************************************************************************)
(* What the start of logging promises its callers                          *)
(* (crates/common/src/telemetry/logging.rs), without Onces, layers or a    *)
(* static: one call decides for all, once; every other call is told what   *)
(* was decided; and the workers that write the logs belong to the call     *)
(* that decided, which hands them over only when it succeeded, for good.   *)
(***************************************************************************)
CONSTANT Callers

VARIABLES
    answer,     \* what each call was told
    verdict,    \* what was decided
    holders     \* who holds the workers: nobody yet, a caller, the static, or
                \* nobody any more

vars == <<answer, verdict, holders>>

Init ==
    /\ answer = [t \in Callers |-> "idle"]
    /\ verdict = "open"
    /\ holders = {}

Ask(t) ==
    /\ answer[t] = "idle"
    /\ answer' = [answer EXCEPT ![t] = "asking"]
    /\ UNCHANGED <<verdict, holders>>

\* Nothing is decided, and no other call has opened workers.
Deciding(t) ==
    /\ answer[t] = "asking"
    /\ verdict = "open"
    /\ holders \subseteq {t}

Open(t) ==
    /\ Deciding(t)
    /\ holders' = {t}
    /\ UNCHANGED <<answer, verdict>>

Succeed(t) ==
    /\ Deciding(t)
    /\ verdict' = "returned"
    /\ answer' = [answer EXCEPT ![t] = "returned"]
    /\ UNCHANGED holders

Fail(t) ==
    /\ Deciding(t)
    /\ verdict' = "panicked"
    /\ UNCHANGED <<answer, holders>>

\* The workers of a call that failed end before it is over.
Release(t) ==
    /\ verdict = "panicked"
    /\ holders = {t}
    /\ holders' = {"dropped"}
    /\ UNCHANGED <<answer, verdict>>

Learn(t) ==
    /\ answer[t] = "asking"
    /\ verdict # "open"
    /\ t \notin holders
    /\ answer' = [answer EXCEPT ![t] = verdict]
    /\ UNCHANGED <<verdict, holders>>

\* The caller that started logging keeps the workers for the process, or ends them.
HandOver(t) ==
    /\ answer[t] = "returned"
    /\ holders = {t}
    /\ holders' \in {{"static"}, {"dropped"}}
    /\ UNCHANGED <<answer, verdict>>

Next ==
    \E t \in Callers :
        \/ Ask(t) \/ Open(t) \/ Succeed(t) \/ Fail(t)
        \/ Release(t) \/ Learn(t) \/ HandOver(t)

Spec == Init /\ [][Next]_vars
=============================================================================
