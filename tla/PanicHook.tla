----------------------------- MODULE PanicHook ------------------------------
(***************************************************************************)
(* The process-wide panic hook under set_panic_hook                        *)
(* (crates/common/src/telemetry/panic_hook.rs): threads install it while   *)
(* others panic.  The hook in force is a chain: each call of               *)
(* set_panic_hook puts one layer, which logs and counts, around the hook   *)
(* it took; at the bottom is the hook of the embedding program or of the   *)
(* standard library.                                                       *)
(*                                                                         *)
(* The standard library is external: it keeps the hook under a             *)
(* readers-writer lock, held for reading while a hook runs and for writing *)
(* by take_hook and set_hook; take_hook leaves the library's own hook.     *)
(***************************************************************************)
EXTENDS Integers, FiniteSets

CONSTANTS
    Installers,   \* threads that call set_panic_hook, once each
    Panickers,    \* threads that panic, once each
    original,     \* the hook the embedding program installed before
    std           \* the hook of the standard library

ASSUME HookAssumption == IsFiniteSet(Installers)

VARIABLES
    hook,        \* the hook in force: its bottom and the layers around it
    pc,          \* where each installer stands in set_panic_hook
    taken,       \* default_hook of each installer
    panic,       \* where each panicking thread stands
    left,        \* the layers it has yet to run
    counts,      \* its increments of PANIC_COUNTER
    covered,     \* history: it began with a call returned and none under way
    overlapped   \* history: a call began while another was between take and set

vars == <<hook, pc, taken, panic, left, counts, covered, overlapped>>

Hook == [bottom: {original, std}, layers: Nat]
StdHook == [bottom |-> std, layers |-> 0]

Installing == {i \in Installers : pc[i] = "taken"}
Installed == {i \in Installers : pc[i] = "returned"}

\* The lock is held for reading.
Running == {t \in Panickers : panic[t] = "hook"}

TypeOK ==
    /\ hook \in Hook
    /\ pc \in [Installers -> {"idle", "taken", "returned"}]
    /\ taken \in [Installers -> Hook]
    /\ panic \in [Panickers -> {"no", "hook", "ended"}]
    /\ left \in [Panickers -> Nat]
    /\ counts \in [Panickers -> Nat]
    /\ covered \in [Panickers -> BOOLEAN]
    /\ overlapped \in BOOLEAN

Init ==
    /\ hook = [bottom |-> original, layers |-> 0]
    /\ pc = [i \in Installers |-> "idle"]
    /\ taken = [i \in Installers |-> StdHook]
    /\ panic = [t \in Panickers |-> "no"]
    /\ left = [t \in Panickers |-> 0]
    /\ counts = [t \in Panickers |-> 0]
    /\ covered = [t \in Panickers |-> FALSE]
    /\ overlapped = FALSE

-----------------------------------------------------------------------------
(* set_panic_hook.  The lock is free between its two steps.                 *)

TakeHook(i) ==
    /\ pc[i] = "idle"
    /\ Running = {}
    /\ taken' = [taken EXCEPT ![i] = hook]
    /\ hook' = StdHook
    /\ pc' = [pc EXCEPT ![i] = "taken"]
    /\ overlapped' = (overlapped \/ Installing # {})
    /\ UNCHANGED <<panic, left, counts, covered>>

\* Mutant of SetHook: the new hook does not call the one it replaces.
SetHookAlone(i) ==
    /\ pc[i] = "taken"
    /\ Running = {}
    /\ hook' = [bottom |-> std, layers |-> 1]
    /\ pc' = [pc EXCEPT ![i] = "returned"]
    /\ UNCHANGED <<taken, panic, left, counts, covered, overlapped>>

\* The hook that is in force meanwhile is dropped.
SetHook(i) ==
    /\ pc[i] = "taken"
    /\ Running = {}
    /\ hook' = [taken[i] EXCEPT !.layers = @ + 1]
    /\ pc' = [pc EXCEPT ![i] = "returned"]
    /\ UNCHANGED <<taken, panic, left, counts, covered, overlapped>>

-----------------------------------------------------------------------------
(* A panic runs the hook in force from the outermost layer to the bottom.   *)

BeginPanic(t) ==
    /\ panic[t] = "no"
    /\ panic' = [panic EXCEPT ![t] = "hook"]
    /\ left' = [left EXCEPT ![t] = hook.layers]
    /\ covered' = [covered EXCEPT ![t] = Installed # {} /\ Installing = {}]
    /\ UNCHANGED <<hook, pc, taken, counts, overlapped>>

\* Mutants of RunLayer: it runs whatever is left; it calls itself instead of the
\* hook inside; the count is made in both branches and after them.
RunLayerAnyway(t) ==
    /\ panic[t] = "hook"
    /\ left' = [left EXCEPT ![t] = @ - 1]
    /\ counts' = [counts EXCEPT ![t] = @ + 1]
    /\ UNCHANGED <<hook, pc, taken, panic, covered, overlapped>>

RunLayerAgain(t) ==
    /\ panic[t] = "hook"
    /\ left[t] > 0
    /\ UNCHANGED vars

RunLayerTwice(t) ==
    /\ panic[t] = "hook"
    /\ left[t] > 0
    /\ left' = [left EXCEPT ![t] = @ - 1]
    /\ counts' = [counts EXCEPT ![t] = @ + 2]
    /\ UNCHANGED <<hook, pc, taken, panic, covered, overlapped>>

\* A layer logs, counts and calls the hook inside.
RunLayer(t) ==
    /\ panic[t] = "hook"
    /\ left[t] > 0
    /\ left' = [left EXCEPT ![t] = @ - 1]
    /\ counts' = [counts EXCEPT ![t] = @ + 1]
    /\ UNCHANGED <<hook, pc, taken, panic, covered, overlapped>>

\* The bottom returns, and the lock is released.
EndPanic(t) ==
    /\ panic[t] = "hook"
    /\ left[t] = 0
    /\ panic' = [panic EXCEPT ![t] = "ended"]
    /\ UNCHANGED <<hook, pc, taken, left, counts, covered, overlapped>>

-----------------------------------------------------------------------------
HookStep(t) == RunLayer(t) \/ EndPanic(t)

Done ==
    /\ Installed = Installers
    /\ \A t \in Panickers : panic[t] = "ended"
    /\ UNCHANGED vars

Next ==
    \/ \E i \in Installers : TakeHook(i) \/ SetHook(i)
    \/ \E t \in Panickers : BeginPanic(t) \/ HookStep(t)
    \/ Done

\* The operating system runs every thread; nobody has to install or to panic.
Fairness ==
    /\ \A i \in Installers : WF_vars(SetHook(i))
    /\ \A t \in Panickers : WF_vars(HookStep(t))

Spec == Init /\ [][Next]_vars /\ Fairness

-----------------------------------------------------------------------------
\* "Increments panic counter metrics": a panic that begins when some call of
\* set_panic_hook has returned, and none is between its two steps, is counted,
\* whatever calls ran into each other before; and no interleaving counts a panic
\* more often than calls have returned (panic_hook.rs:39, :43-60).
PanicsCounted ==
    \A t \in Panickers :
        /\ panic[t] = "ended" /\ covered[t] => counts[t] >= 1
        /\ counts[t] <= Cardinality(Installed)

\* Calls that do not run into each other lose nothing: between them the hook in
\* force has a layer of every call and still ends in the program's own hook
\* (panic_hook.rs:43, :59).
SerialCallsKeepHooks ==
    ~overlapped /\ Installing = {} =>
        hook = [bottom |-> original, layers |-> Cardinality(Installed)]

\* Every hook that runs comes to its end, and with it every call that waits for
\* the lock (panic_hook.rs:43-60).
HooksEnd ==
    /\ \A t \in Panickers : panic[t] = "hook" ~> panic[t] = "ended"
    /\ \A i \in Installers : pc[i] = "taken" ~> pc[i] = "returned"
=============================================================================
