--------------------------- MODULE PanicHookProofs ---------------------------
(***************************************************************************)
(* The safety properties of PanicHook, for any finite number of calls of   *)
(* set_panic_hook and any number of panics.                                *)
(***************************************************************************)
EXTENDS PanicHook, FiniteSetTheorems, TLAPS

\* How many calls have returned.
Calls == Cardinality(Installed)

\* No chain is longer than the calls that have returned: neither the one in
\* force, nor one that a call has taken, nor what a panic runs of it.
Chains ==
    /\ hook.layers <= Calls
    /\ \A i \in Installing : taken[i].layers <= Calls
    /\ \A t \in Panickers : counts[t] + left[t] <= Calls

\* A hook with a layer is in force unless a call is under way, and is what a
\* covered panic got.
Cover ==
    /\ Installed # {} /\ Installing = {} => hook.layers >= 1
    /\ \A t \in Panickers :
           /\ covered[t] => counts[t] + left[t] >= 1
           /\ panic[t] = "no" => counts[t] = 0 /\ ~covered[t]
           /\ panic[t] = "ended" => left[t] = 0

\* Without overlap the complete chain is in force or in the hands of one call.
Serial ==
    ~overlapped =>
        /\ Installing = {} => hook = [bottom |-> original, layers |-> Calls]
        /\ \A i \in Installing :
               /\ Installing = {i}
               /\ taken[i] = [bottom |-> original, layers |-> Calls]

HookInv == TypeOK /\ Chains /\ Cover /\ Serial

-----------------------------------------------------------------------------
\* The calls that have returned are finitely many.
LEMMA CallsType == Calls \in Nat
<1>1. IsFiniteSet(Installed)
  BY HookAssumption, FS_Subset DEF HookAssumption, Installed
<1> QED
  BY <1>1, FS_CardinalityType DEF Calls

\* A call that returns is one more.
LEMMA OneMoreCall ==
    ASSUME NEW i \in Installers, TypeOK, SetHook(i)
    PROVE  /\ Installed' = Installed \cup {i}
           /\ Installing' = Installing \ {i}
           /\ i \in Installing
           /\ Calls' = Calls + 1
<1>1. Installed' = Installed \cup {i} /\ i \notin Installed
  BY DEF TypeOK, SetHook, Installed
<1>2. Installing' = Installing \ {i} /\ i \in Installing
  BY DEF TypeOK, SetHook, Installing
<1>3. IsFiniteSet(Installed)
  BY HookAssumption, FS_Subset DEF HookAssumption, Installed
<1>4. Cardinality(Installed \cup {i}) = Cardinality(Installed) + 1
  BY <1>1, <1>3, FS_AddElement
<1> QED
  BY <1>1, <1>2, <1>4 DEF Calls

\* Taking the hook, and panics, leave the calls that returned as they are.
LEMMA SameCalls ==
    ASSUME TypeOK,
           \/ pc' = pc
           \/ \E i \in Installers : TakeHook(i)
    PROVE  Installed' = Installed /\ Calls' = Calls
<1>1. Installed' = Installed
  BY DEF TypeOK, TakeHook, Installed
<1> QED
  BY <1>1 DEF Calls

\* No panic begins with a chain, and only a hook of the standard library or of
\* the program is in force.
LEMMA InitHookInv == Init => HookInv
<1> SUFFICES ASSUME Init PROVE HookInv
  OBVIOUS
<1>1. Installed = {} /\ Installing = {}
  BY DEF Init, Installed, Installing
<1>2. Calls = 0
  BY <1>1, FS_EmptySet DEF Calls
<1>3. TypeOK
  BY DEF Init, TypeOK, Hook, StdHook
<1>4. Chains
  BY <1>1, <1>2 DEF Init, Chains
<1>5. Cover
  BY <1>1 DEF Init, Cover
<1>6. Serial
  BY <1>1, <1>2 DEF Init, Serial
<1> QED
  BY <1>3, <1>4, <1>5, <1>6 DEF HookInv

\* TypeOK is inductive on its own.
LEMMA StepKeepsType == TypeOK /\ [Next]_vars => TypeOK'
<1> SUFFICES ASSUME TypeOK, [Next]_vars PROVE TypeOK'
  OBVIOUS
<1> USE DEF TypeOK, Hook
<1>1. ASSUME NEW i \in Installers, TakeHook(i) PROVE TypeOK'
  BY <1>1 DEF TakeHook, StdHook, Installing
<1>2. ASSUME NEW i \in Installers, SetHook(i) PROVE TypeOK'
  <2>1. [taken[i] EXCEPT !.layers = @ + 1] \in Hook
    OBVIOUS
  <2> QED
    BY <1>2, <2>1 DEF SetHook
<1>3. ASSUME NEW t \in Panickers, BeginPanic(t) PROVE TypeOK'
  <2>1. (Installed # {} /\ Installing = {}) \in BOOLEAN
    OBVIOUS
  <2>2. covered' \in [Panickers -> BOOLEAN]
    BY <1>3, <2>1 DEF BeginPanic
  <2> QED
    BY <1>3, <2>2 DEF BeginPanic
<1>4. ASSUME NEW t \in Panickers, RunLayer(t) PROVE TypeOK'
  BY <1>4 DEF RunLayer
<1>5. ASSUME NEW t \in Panickers, EndPanic(t) PROVE TypeOK'
  BY <1>5 DEF EndPanic
<1>6. CASE UNCHANGED vars
  BY <1>6 DEF vars
<1> QED
  BY <1>1, <1>2, <1>3, <1>4, <1>5, <1>6 DEF Next, HookStep, Done

\* A step of set_panic_hook.
LEMMA TakeKeepsInv ==
    ASSUME HookInv, NEW i \in Installers, TakeHook(i)
    PROVE  Chains' /\ Cover' /\ Serial'
<1> USE DEF HookInv
<1>1. Installed' = Installed /\ Calls' = Calls /\ Calls \in Nat
  BY SameCalls, CallsType
<1>2. Installing' = Installing \cup {i} /\ i \notin Installing
  BY DEF TypeOK, TakeHook, Installing
<1>3. /\ hook' = StdHook
      /\ taken'[i] = hook
      /\ \A j \in Installing : taken'[j] = taken[j]
  BY <1>2 DEF TypeOK, TakeHook, Installing
<1>4. UNCHANGED <<panic, left, counts, covered>>
  BY DEF TakeHook
<1>5. Chains'
  BY <1>1, <1>2, <1>3, <1>4 DEF Chains, StdHook
<1>6. Cover'
  BY <1>2, <1>4 DEF Cover
<1>7. Serial'
  <2> SUFFICES ASSUME ~overlapped' PROVE Installing' = {i} /\ taken'[i] = [bottom |-> original, layers |-> Calls]
    BY <1>1, <1>2 DEF Serial
  <2>1. ~overlapped /\ Installing = {}
    BY DEF TakeHook, TypeOK
  <2> QED
    BY <2>1, <1>2, <1>3 DEF Serial
<1> QED
  BY <1>5, <1>6, <1>7

LEMMA SetKeepsInv ==
    ASSUME HookInv, NEW i \in Installers, SetHook(i)
    PROVE  Chains' /\ Cover' /\ Serial'
<1> USE DEF HookInv
<1>1. /\ Installed' = Installed \cup {i}
      /\ Installing' = Installing \ {i}
      /\ i \in Installing
      /\ Calls' = Calls + 1
      /\ Calls \in Nat
  BY OneMoreCall, CallsType
<1>2. UNCHANGED <<taken, panic, left, counts, covered, overlapped>>
  BY DEF SetHook
<1>3. taken[i] \in Hook
  BY DEF TypeOK
<1>4. hook' = [bottom |-> taken[i].bottom, layers |-> taken[i].layers + 1]
  BY <1>3 DEF SetHook, Hook
<1>5. taken[i].layers \in Nat /\ \A j \in Installers : taken[j].layers \in Nat
  BY DEF TypeOK, Hook
<1>6. \A t \in Panickers : counts[t] \in Nat /\ left[t] \in Nat
  BY DEF TypeOK
<1>7. Chains'
  <2>1. hook'.layers <= Calls'
    BY <1>1, <1>4, <1>5 DEF Chains
  <2>2. \A j \in Installing' : taken'[j].layers <= Calls'
    BY <1>1, <1>2, <1>5 DEF Chains, Installing
  <2>3. \A t \in Panickers : counts'[t] + left'[t] <= Calls'
    BY <1>1, <1>2, <1>6 DEF Chains
  <2> QED
    BY <2>1, <2>2, <2>3 DEF Chains
<1>8. Cover'
  BY <1>2, <1>4, <1>5 DEF Cover
<1>9. Serial'
  <2> SUFFICES ASSUME ~overlapped'
               PROVE  /\ hook' = [bottom |-> original, layers |-> Calls']
                      /\ Installing' = {}
    BY DEF Serial
  <2>1. Installing = {i} /\ taken[i] = [bottom |-> original, layers |-> Calls]
    BY <1>1, <1>2 DEF Serial
  <2> QED
    BY <2>1, <1>1, <1>4
<1> QED
  BY <1>7, <1>8, <1>9

\* A step of a panic changes no hook and no call.
LEMMA PanicKeepsInv ==
    ASSUME HookInv, NEW t \in Panickers, BeginPanic(t) \/ RunLayer(t) \/ EndPanic(t)
    PROVE  Chains' /\ Cover' /\ Serial'
<1> USE DEF HookInv
<1>1. UNCHANGED <<hook, pc, taken, overlapped>>
  BY DEF BeginPanic, RunLayer, EndPanic
<1>2. Installed' = Installed /\ Calls' = Calls /\ Calls \in Nat /\ Installing' = Installing
  BY <1>1, SameCalls, CallsType DEF Installing
<1>3. Serial'
  BY <1>1, <1>2 DEF Serial
<1>4. hook.layers \in Nat
  BY DEF TypeOK, Hook
<1>5. CASE BeginPanic(t)
  <2>1. /\ counts'[t] = 0 /\ left'[t] = hook.layers /\ panic'[t] = "hook"
        /\ covered'[t] => Installed # {} /\ Installing = {}
    BY <1>5 DEF BeginPanic, TypeOK, Cover
  <2>2. \A u \in Panickers \ {t} :
            /\ counts'[u] = counts[u] /\ left'[u] = left[u] /\ panic'[u] = panic[u]
            /\ covered'[u] = covered[u]
    BY <1>5 DEF BeginPanic, TypeOK
  <2>3. Chains'
    BY <1>1, <1>2, <1>4, <2>1, <2>2 DEF Chains
  <2>4. Cover'
    BY <1>1, <1>2, <1>4, <2>1, <2>2 DEF Cover
  <2> QED
    BY <1>3, <2>3, <2>4
<1>6. CASE RunLayer(t) \/ EndPanic(t)
  <2>1. \A u \in Panickers :
            /\ counts'[u] + left'[u] = counts[u] + left[u]
            /\ panic'[u] = "no" => panic[u] = "no" /\ counts'[u] = counts[u]
            /\ panic'[u] = "ended" => left'[u] = 0
            /\ covered'[u] = covered[u]
    BY <1>6 DEF RunLayer, EndPanic, TypeOK, Cover
  <2>2. Chains'
    BY <1>1, <1>2, <2>1 DEF Chains
  <2>3. Cover'
    BY <1>1, <1>2, <2>1 DEF Cover
  <2> QED
    BY <1>3, <2>2, <2>3
<1> QED
  BY <1>5, <1>6

\* Every step keeps the invariant.
LEMMA StepKeepsHookInv == HookInv /\ [Next]_vars => HookInv'
<1> SUFFICES ASSUME HookInv, [Next]_vars PROVE HookInv'
  OBVIOUS
<1>1. TypeOK'
  BY StepKeepsType DEF HookInv
<1>2. CASE UNCHANGED vars
  BY <1>2, <1>1 DEF vars, HookInv, Chains, Cover, Serial, Calls, Installing, Installed
<1>3. CASE Next /\ ~UNCHANGED vars
  BY <1>1, <1>3, TakeKeepsInv, SetKeepsInv, PanicKeepsInv DEF Next, HookStep, Done, HookInv
<1> QED
  BY <1>2, <1>3

-----------------------------------------------------------------------------
\* HookInv holds in every behaviour of the panic hook.
THEOREM HookInvariant == Spec => []HookInv
  BY InitHookInv, StepKeepsHookInv, PTL DEF Spec

\* The variables keep their types.
THEOREM HookTypes == Spec => []TypeOK
  BY HookInvariant, PTL DEF HookInv

\* A covered panic is counted, whatever calls ran into each other before it, and
\* none is counted more often than set_panic_hook has returned.
THEOREM PanicsAreCounted == Spec => []PanicsCounted
<1>1. HookInv => PanicsCounted
  <2> SUFFICES ASSUME HookInv, NEW t \in Panickers
               PROVE  /\ panic[t] = "ended" /\ covered[t] => counts[t] >= 1
                      /\ counts[t] <= Calls
    BY DEF PanicsCounted, Calls
  <2>1. counts[t] \in Nat /\ left[t] \in Nat /\ Calls \in Nat
    BY CallsType DEF HookInv, TypeOK
  <2>2. panic[t] = "ended" /\ covered[t] => counts[t] >= 1
    BY <2>1 DEF HookInv, Cover
  <2>3. counts[t] <= Calls
    BY <2>1 DEF HookInv, Chains
  <2> QED
    BY <2>2, <2>3
<1> QED
  BY <1>1, HookInvariant, PTL

\* Calls that do not overlap keep each other's hook and the program's own.
THEOREM SerialCallsAreSafe == Spec => []SerialCallsKeepHooks
<1>1. HookInv => SerialCallsKeepHooks
  BY DEF HookInv, Serial, SerialCallsKeepHooks, Calls
<1> QED
  BY <1>1, HookInvariant, PTL
=============================================================================
