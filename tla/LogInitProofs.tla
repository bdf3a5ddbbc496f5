---------------------------- MODULE LogInitProofs ---------------------------
(***************************************************************************)
(* The safety properties of LogInit for any threads: the two Onces decide  *)
(* once, and what the winner of each did is what every caller relies on.   *)
(* And the refinement: what callers see of it is StartOnce.                *)
(***************************************************************************)
EXTENDS LogInit, TLAPS

\* Where a thread can be depends on what it calls.
Kinds ==
    \A t \in Threads :
        /\ t \in Tests => pc[t] \in {"idle", "testing", "testLogger", "quit"}
        /\ t \notin Tests => pc[t] \notin {"testing", "testLogger", "quit"}
        /\ t \notin Uts => pc[t] \notin {"utInside", "utStored"}

\* One thread at a time is inside each Once, and the Once says so.
Exclusive ==
    /\ \A t \in Threads : InGlobal(t) => global = "running"
    /\ \A t \in Threads : InUt(t) => ut = "running"
    /\ \A t, u \in Threads : InGlobal(t) /\ InGlobal(u) => t = u
    /\ \A t, u \in Threads : InUt(t) /\ InUt(u) => t = u

\* A panic is on its way out of t.
Unwinding(t) == pc[t] \in {"unwinding", "unwound"}

\* A call ends as the Once of init_global_logging ended.
Verdicts ==
    /\ \A t \in Threads : Returned(t) => global = "done"
    /\ \A t \in Threads : Panicked(t) \/ Unwinding(t) => global = "poisoned"
    /\ ut = "done" => global = "done"
    /\ ut = "poisoned" => global = "poisoned"

\* What the closure has set, by the step it is at, and after it.
Installed ==
    /\ global = "new" => ~reload
    /\ global = "new" /\ logger => \E h \in Tests : pc[h] = "quit"
    /\ global = "done" => logger /\ subscriber = "ours" /\ reload
    /\ \A t \in Threads :
        /\ pc[t] = "tracer" /\ logger => \E h \in Tests : pc[h] = "quit"
        /\ InGlobal(t) /\ pc[t] # "tracer" => logger
        /\ pc[t] \in {"tracer", "stdout", "file", "errFile", "level", "reload"} => ~reload
        /\ pc[t] \in {"otlp", "exporter", "subscriber", "leaving"} => reload
        /\ pc[t] = "leaving" => subscriber = "ours"

\* What the closure has opened, and who holds it.
Opened ==
    /\ global = "new" => \A w \in Workers : guard[w] = "none"
    /\ \A t \in Threads :
        /\ pc[t] \in {"tracer", "stdout"} => \A w \in Workers : guard[w] = "none"
        /\ pc[t] = "file" => guard["file"] = "none" /\ guard["errFile"] = "none"
        /\ pc[t] = "errFile" => guard["errFile"] = "none"
    /\ \A w \in Workers : guard[w] \in Threads =>
            InGlobal(guard[w]) \/ pc[guard[w]] \in {"returned", "unwinding"}
    /\ \A w \in Workers : guard[w] = "static" =>
            global = "done" /\ (ut = "done" \/ \E u \in Uts : pc[u] = "utStored")

LogInv ==
    /\ TypeOK
    /\ Kinds
    /\ Exclusive
    /\ Verdicts
    /\ Installed
    /\ Opened

LEMMA MarkersAreNoThreads ==
    /\ "none" \notin Threads
    /\ "static" \notin Threads
    /\ "dropped" \notin Threads
BY NoThreadIsAMarker

LEMMA InitLogInv == Init => LogInv
BY MarkersAreNoThreads
   DEF Init, LogInv, TypeOK, PcState, OnceState, GlobalStep, Endpoints, Kinds, Exclusive,
       Verdicts, Installed, Opened, InGlobal, InUt, Returned, Panicked, Unwinding, Workers

-----------------------------------------------------------------------------
\* Every step keeps the types.
LEMMA TypesKept ==
    ASSUME TypeOK, [Next]_vars
    PROVE  TypeOK'
<1> USE DEF TypeOK, PcState, GlobalStep, OnceState, Moves, DropsGuards
<1>1. ASSUME NEW t \in Threads, Panics(t)
      PROVE  TypeOK'
    BY <1>1 DEF Panics
<1>2. CASE \E t \in Threads : Call(t) \/ EnterOnce(t)
    BY <1>2 DEF Call, EnterOnce, EnterUt, SkipUt, FindUtPoisoned, EnterGlobal, SkipGlobal,
                FindGlobalPoisoned
<1>3. ASSUME NEW t \in Threads, RunGlobal(t)
      PROVE  TypeOK'
  <2>1. CASE StdoutLayer(t) \/ FileLayer(t)
      BY <2>1 DEF StdoutLayer, FileLayer, Opens, Workers
  <2>2. CASE BuildExporter(t) /\ ~Panics(t)
    <3>1. /\ pc' = [pc EXCEPT ![t] = "subscriber"] /\ endpoint' \in Endpoints
          /\ UNCHANGED <<global, ut, logger, subscriber, reload, propagator, guard>>
        BY <2>2 DEF BuildExporter, Endpoint, Endpoints
    <3> QED
        BY <3>1
  <2>3. CASE ~Panics(t) /\ (InitTracer(t) \/ NoDir(t) \/ AppenderFails(t) \/ ParseLevel(t))
    <3>1. /\ \E x \in GlobalStep : pc' = [pc EXCEPT ![t] = x]
          /\ logger' \in BOOLEAN
          /\ UNCHANGED <<global, ut, subscriber, reload, propagator, endpoint, guard>>
        BY <2>3 DEF InitTracer, NoDir, AppenderFails, ParseLevel
    <3> QED
        BY <3>1
  <2>4. CASE SetReload(t) \/ NoOtlp(t) \/ Otlp(t) \/ LeaveGlobal(t)
    <3>1. /\ \E x \in GlobalStep \cup {"returned"} : pc' = [pc EXCEPT ![t] = x]
          /\ global' \in OnceState /\ reload' \in BOOLEAN /\ propagator' \in BOOLEAN
          /\ UNCHANGED <<ut, logger, subscriber, endpoint, guard>>
        BY <2>4 DEF SetReload, NoOtlp, Otlp, LeaveGlobal
    <3> QED
        BY <3>1
  <2>5. CASE SetSubscriber(t) /\ ~Panics(t)
      BY <2>5 DEF SetSubscriber
  <2> QED
      BY <1>3, <1>1, <2>1, <2>2, <2>3, <2>4, <2>5 DEF RunGlobal
<1>4. CASE \E t \in Threads : LeaveUt(t) \/ ReturnFromStart(t) \/ ReturnFromMain(t)
    BY <1>4 DEF LeaveUt, ReturnFromStart, ReturnFromMain
<1>8. ASSUME NEW t \in Threads, UnwindInit(t) \/ UnwindCaller(t)
      PROVE  TypeOK'
  <2>1. CASE UnwindInit(t)
      BY <2>1 DEF UnwindInit
  <2>2. CASE UnwindCaller(t)
      BY <2>2 DEF UnwindCaller
  <2> QED
      BY <1>8, <2>1, <2>2
<1>5. ASSUME NEW t \in Threads, TestInit(t)
      PROVE  TypeOK'
  <2>1. /\ \E x \in {"testing", "testLogger", "quit"} : pc' = [pc EXCEPT ![t] = x]
        /\ logger' \in BOOLEAN /\ subscriber' \in {"none", "ours", "foreign"}
        /\ UNCHANGED <<global, ut, reload, propagator, endpoint, guard>>
      BY <1>5 DEF TestInit
  <2> QED
      BY <2>1
<1>6. ASSUME NEW t \in Threads, StoreGuards(t)
      PROVE  TypeOK'
  <2>1. ASSUME NEW w \in Workers
        PROVE  (CASE guard[w] = t -> "static"
                  [] guard[w] = "static" -> "dropped"
                  [] OTHER -> guard[w]) \in Threads \cup {"none", "static", "dropped"}
      BY DEF TypeOK
  <2>2. guard' \in [Workers -> Threads \cup {"none", "static", "dropped"}]
      BY <1>6, <2>1 DEF StoreGuards
  <2> QED
      BY <1>6, <2>2 DEF StoreGuards
<1>7. CASE UNCHANGED vars
    BY <1>7 DEF vars
<1> QED
    BY <1>2, <1>3, <1>4, <1>5, <1>6, <1>7, <1>8 DEF Next, Step, Terminated

\* A panic in the closure of init_global_logging keeps the invariant.
LEMMA PanicKeepsInv ==
    ASSUME LogInv, NEW t \in Callers, Panics(t), TypeOK', InGlobal(t)
    PROVE  LogInv'
<1> USE MarkersAreNoThreads DEF LogInv, Panics, InGlobal, InUt, GlobalStep
<1>1. t \in Threads /\ global = "running" /\ \A u \in Threads : InGlobal(u) => u = t
    BY DEF Threads, Exclusive
<1>2. pc' = [pc EXCEPT ![t] = "unwinding"] /\ pc \in [Threads -> PcState]
    BY DEF TypeOK
<1>3. Kinds'
    BY <1>1, <1>2, KindsAreDisjoint DEF Kinds, Callers
<1>4. Exclusive'
    BY <1>1, <1>2 DEF Exclusive
<1>5. global' = "poisoned"
    OBVIOUS
<1>6. Verdicts'
    BY <1>1, <1>2, <1>5 DEF Verdicts, Returned, Panicked, Unwinding
<1>7. Installed'
    BY <1>1, <1>2, <1>5 DEF Installed
<1>8. Opened'
  <2>1. \A w \in Workers : guard[w] # "static"
      BY <1>1 DEF Opened
  <2> QED
      BY <1>1, <1>2, <1>5, <2>1 DEF Opened, Workers
<1> QED
    BY <1>3, <1>4, <1>6, <1>7, <1>8

\* So does the unwinding.
LEMMA UnwindKeepsInv ==
    ASSUME LogInv, NEW t \in Threads, UnwindInit(t) \/ UnwindCaller(t), TypeOK'
    PROVE  LogInv'
<1> USE MarkersAreNoThreads
    DEF LogInv, InGlobal, InUt, GlobalStep, Moves, UnwindInit, UnwindCaller
<1>1. /\ pc \in [Threads -> PcState] /\ Threads = Callers \cup Tests /\ Callers \cap Tests = {}
      /\ guard \in [Workers -> Threads \cup {"none", "static", "dropped"}]
    BY KindsAreDisjoint DEF TypeOK, Threads, Callers
<1>2. /\ pc[t] \in {"unwinding", "unwound"} /\ pc'[t] \in {"unwound", "panicked"}
      /\ \A u \in Threads \ {t} : pc'[u] = pc[u]
      /\ global = "poisoned" /\ global' = "poisoned" /\ t \in Callers
    BY <1>1 DEF Verdicts, Unwinding, Kinds
<1>3. Kinds'
    BY <1>1, <1>2 DEF Kinds
<1>4. Exclusive'
    BY <1>1, <1>2 DEF Exclusive
<1>5. Verdicts'
    BY <1>1, <1>2 DEF Verdicts, Returned, Panicked, Unwinding
<1>6. Installed'
    BY <1>1, <1>2 DEF Installed
<1>7. Opened'
  <2>1. \A w \in Workers : guard[w] # "static"
      BY <1>2 DEF Opened
  <2>2. \A u \in Threads : pc'[u] \notin GlobalStep
      BY <1>1, <1>2 DEF Exclusive
  <2>3. ASSUME NEW w \in Workers
        PROVE  guard'[w] # "static" /\ (guard'[w] \in Threads => guard'[w] = guard[w])
      BY <1>1, <2>1 DEF DropsGuards
  <2>4. ASSUME NEW w \in Workers, guard'[w] \in Threads
        PROVE  pc'[guard'[w]] \in {"returned", "unwinding"}
    <3>1. guard[w] \in Threads /\ guard[w] = guard'[w]
        BY <2>3, <2>4
    <3>2. pc[guard[w]] \in {"returned", "unwinding"}
        BY <1>2, <3>1 DEF Exclusive, Opened
    <3>3. guard[w] # t
        BY <1>1, <2>4, <3>1, <3>2 DEF DropsGuards
    <3> QED
        BY <1>2, <3>1, <3>2, <3>3
  <2> QED
      BY <1>2, <2>2, <2>3, <2>4 DEF Opened
<1> QED
    BY <1>3, <1>4, <1>5, <1>6, <1>7

\* Entering, skipping or being refused by a Once keeps the invariant.
LEMMA OnceKeepsInv ==
    ASSUME LogInv, NEW t \in Threads, Call(t) \/ EnterOnce(t), TypeOK'
    PROVE  LogInv'
<1> USE MarkersAreNoThreads DEF LogInv, InGlobal, InUt, GlobalStep, Moves, AtGlobal
<1>1. pc \in [Threads -> PcState] /\ Threads = Callers \cup Tests /\ Callers \cap Tests = {}
    BY KindsAreDisjoint DEF TypeOK, Threads, Callers
<1>2. CASE FindUtPoisoned(t) \/ FindGlobalPoisoned(t)
  <2> USE <1>2 DEF FindUtPoisoned, FindGlobalPoisoned
  <2>1. /\ t \in Callers /\ pc[t] \in {"calling", "utInside"} /\ pc'[t] \in {"unwound", "panicked"}
        /\ \A u \in Threads \ {t} : pc'[u] = pc[u]
        /\ global = "poisoned" /\ UNCHANGED <<global, ut, logger, subscriber, reload, guard>>
      BY <1>1 DEF Verdicts, Callers
  <2>2. Kinds' /\ Exclusive'
      BY <1>1, <2>1 DEF Kinds, Exclusive, Callers
  <2>3. Verdicts'
      BY <1>1, <2>1 DEF Verdicts, Returned, Panicked, Unwinding
  <2>4. Installed'
      BY <1>1, <2>1 DEF Installed
  <2>5. Opened'
      BY <1>1, <2>1 DEF Opened, Workers
  <2> QED
      BY <2>2, <2>3, <2>4, <2>5
<1>3. CASE Call(t) \/ EnterUt(t) \/ SkipUt(t) \/ EnterGlobal(t) \/ SkipGlobal(t)
  <2> USE <1>3 DEF Call, EnterUt, SkipUt, EnterGlobal, SkipGlobal
  <2>1. Kinds'
      BY <1>1 DEF Kinds, Callers
  <2>2. Exclusive'
      BY <1>1 DEF Exclusive
  <2>3. Verdicts'
      BY <1>1 DEF Verdicts, Returned, Panicked, Unwinding, Exclusive
  <2>4. Installed'
      BY <1>1 DEF Installed, Exclusive
  <2>5. Opened'
    <3>1. UNCHANGED guard /\ pc'[t] \in {"calling", "utInside", "tracer", "returned", "ended"}
        BY <1>1
    <3>2. \A u \in Threads \ {t} : pc'[u] = pc[u]
        BY <1>1
    <3>3. pc'[t] = "tracer" => global = "new" /\ global' = "running"
        BY <1>1
    <3>4. \A w \in Workers : guard'[w] = "static" =>
                global' = "done" /\ (ut' = "done" \/ \E u \in Uts : pc'[u] = "utStored")
      <4>1. ASSUME NEW w \in Workers, guard[w] = "static"
            PROVE  global = "done" /\ global' = "done"
          BY <3>1, <4>1, <1>1 DEF Opened
      <4>2. ut = "done" => ut' = "done"
          BY <1>1
      <4>3. pc[t] # "utStored"
          BY <1>1
      <4>4. Uts \subseteq Threads
          BY DEF Threads, Callers
      <4> QED
          BY <3>1, <3>2, <4>1, <4>2, <4>3, <4>4 DEF Opened
    <3>5. global' = "new" => global = "new"
        BY <1>1
    <3>6. \A w \in Workers : guard[w] # t
      <4>1. pc[t] \notin GlobalStep \cup {"returned"}
          BY <1>1
      <4> QED
          BY <4>1 DEF Opened
    <3> QED
        BY <3>1, <3>2, <3>3, <3>4, <3>5, <3>6 DEF Opened, Workers
  <2> QED
      BY <2>1, <2>2, <2>3, <2>4, <2>5
<1> QED
    BY <1>2, <1>3 DEF EnterOnce

\* The closure of init_global_logging keeps the invariant.
LEMMA ClosureKeepsInv ==
    ASSUME LogInv, NEW t \in Threads, RunGlobal(t), TypeOK'
    PROVE  LogInv'
<1> USE MarkersAreNoThreads DEF LogInv, InGlobal, InUt, GlobalStep, Moves
<1>1. /\ pc \in [Threads -> PcState]
      /\ guard \in [Workers -> Threads \cup {"none", "static", "dropped"}]
    BY DEF TypeOK
<1>2. pc[t] \in GlobalStep
    BY DEF RunGlobal, InitTracer, StdoutLayer, NoDir, FileLayer, AppenderFails, ParseLevel,
           SetReload, NoOtlp, Otlp, BuildExporter, SetSubscriber, LeaveGlobal
<1>3. t \in Callers
    BY <1>2 DEF Kinds, Threads
<1>4. global = "running" /\ (\A u \in Threads : InGlobal(u) => u = t)
    BY <1>2 DEF Exclusive
<1>5. CASE Panics(t)
    BY <1>2, <1>3, <1>5, PanicKeepsInv
<1>6. CASE ~Panics(t)
  <2> USE <1>6
  <2>1. Kinds' /\ Exclusive'
      BY <1>1, <1>2, <1>3, <1>4, KindsAreDisjoint
         DEF Kinds, Exclusive, Callers, RunGlobal, InitTracer, StdoutLayer, NoDir, FileLayer,
             AppenderFails, ParseLevel, SetReload, NoOtlp, Otlp, BuildExporter, SetSubscriber,
             LeaveGlobal
  <2>2. Verdicts'
      BY <1>1, <1>2, <1>3, <1>4
         DEF Verdicts, Returned, Panicked, Unwinding, RunGlobal, InitTracer, StdoutLayer, NoDir, FileLayer,
             AppenderFails, ParseLevel, SetReload, NoOtlp, Otlp, BuildExporter, SetSubscriber,
             LeaveGlobal
  <2>3. Installed'
      BY <1>1, <1>2, <1>3, <1>4
         DEF Installed, RunGlobal, InitTracer, StdoutLayer, NoDir, FileLayer,
             AppenderFails, ParseLevel, SetReload, NoOtlp, Otlp, BuildExporter, SetSubscriber,
             LeaveGlobal
  <2>4. \A w \in Workers : guard[w] # "static"
      BY <1>4 DEF Opened
  <2>5. Opened'
    <3>1. CASE StdoutLayer(t) \/ FileLayer(t)
      <4>1. guard' = guard \/ \E w \in Workers : guard' = [guard EXCEPT ![w] = t]
          BY <3>1 DEF StdoutLayer, FileLayer, Opens, Workers
      <4> QED
          BY <1>1, <1>2, <1>4, <2>4, <3>1, <4>1 DEF Opened, StdoutLayer, FileLayer, Opens, Workers
    <3>2. CASE ~(StdoutLayer(t) \/ FileLayer(t))
        BY <1>1, <1>2, <1>4, <2>4, <3>2
           DEF Opened, RunGlobal, InitTracer, NoDir, AppenderFails, ParseLevel,
               SetReload, NoOtlp, Otlp, BuildExporter, SetSubscriber, LeaveGlobal
    <3> QED
        BY <3>1, <3>2
  <2> QED
      BY <2>1, <2>2, <2>3, <2>5
<1> QED
    BY <1>5, <1>6

\* So does what follows it.
LEMMA ReturnKeepsInv ==
    ASSUME LogInv, NEW t \in Threads, TypeOK',
           StoreGuards(t) \/ LeaveUt(t) \/ ReturnFromStart(t) \/ ReturnFromMain(t) \/ TestInit(t)
    PROVE  LogInv'
<1> USE MarkersAreNoThreads
    DEF LogInv, InGlobal, InUt, GlobalStep, Moves, DropsGuards, StoreGuards, LeaveUt,
        ReturnFromStart, ReturnFromMain, TestInit
<1>1. /\ pc \in [Threads -> PcState] /\ Threads = Callers \cup Tests /\ Callers \cap Tests = {}
      /\ Callers = Direct \cup Apps \cup Uts
      /\ guard \in [Workers -> Threads \cup {"none", "static", "dropped"}]
    BY KindsAreDisjoint DEF TypeOK, Threads, Callers
<1>2. Kinds'
    BY <1>1, KindsAreDisjoint DEF Kinds
<1>3. Exclusive'
    BY <1>1, KindsAreDisjoint DEF Exclusive
<1>4. Verdicts'
    BY <1>1, KindsAreDisjoint DEF Verdicts, Returned, Panicked, Unwinding
<1>5. Installed'
    BY <1>1, KindsAreDisjoint DEF Installed
<1>6. Opened'
  <2>1. CASE StoreGuards(t)
    <3>1. global = "done" /\ global' = "done" /\ t \in Uts /\ pc'[t] = "utStored"
        BY <1>1, <2>1 DEF Verdicts, Returned
    <3>2. \A u \in Threads : pc'[u] \notin GlobalStep
        BY <1>1, <2>1, <3>1 DEF Exclusive
    <3>3. \A w \in Workers : guard'[w] \in Threads => guard'[w] # t /\ guard[w] = guard'[w]
        BY <1>1, <2>1
    <3> QED
        BY <1>1, <2>1, <3>1, <3>2, <3>3 DEF Opened
  <2>2. CASE LeaveUt(t) \/ TestInit(t)
      BY <1>1, <2>2 DEF Opened
  <2>3. CASE ReturnFromStart(t) \/ ReturnFromMain(t)
    <3>1. \A w \in Workers : guard'[w] \in Threads => guard'[w] # t /\ guard[w] = guard'[w]
        BY <1>1, <2>3
    <3>2. global = "done" /\ global' = "done"
        BY <1>1, <2>3 DEF Verdicts, Returned
    <3>3. \A w \in Workers : guard'[w] = "static" => guard[w] = "static"
        BY <1>1, <2>3
    <3>4. \A u \in Uts : u # t
        BY <2>3, KindsAreDisjoint
    <3>5. \A u \in Threads : pc'[u] \notin GlobalStep
        BY <1>1, <2>3, <3>2 DEF Exclusive
    <3> QED
        BY <1>1, <2>3, <3>1, <3>2, <3>3, <3>4, <3>5 DEF Opened
  <2> QED
      BY <2>1, <2>2, <2>3
<1> QED
    BY <1>2, <1>3, <1>4, <1>5, <1>6

LEMMA NextKeepsLogInv == LogInv /\ [Next]_vars => LogInv'
<1> SUFFICES ASSUME LogInv, [Next]_vars PROVE LogInv'
    OBVIOUS
<1>1. TypeOK'
    BY TypesKept DEF LogInv
<1>2. CASE UNCHANGED vars
    BY <1>2 DEF vars, LogInv, TypeOK, Kinds, Exclusive, Verdicts, Installed, Opened, InGlobal,
                InUt, Returned, Panicked, Unwinding
<1>3. ASSUME NEW t \in Threads, Call(t) \/ Step(t) \/ ReturnFromMain(t) \/ TestInit(t)
      PROVE  LogInv'
    BY <1>1, <1>3, OnceKeepsInv, ClosureKeepsInv, UnwindKeepsInv, ReturnKeepsInv DEF Step
<1> QED
    BY <1>2, <1>3 DEF Next, Terminated

THEOREM LogInvariant == Safe => []LogInv
BY InitLogInv, NextKeepsLogInv, PTL DEF Safe

-----------------------------------------------------------------------------
\* The variables keep their types, for any threads.
THEOREM LogTypeCorrect == Safe => []TypeOK
BY LogInvariant, PTL DEF LogInv

\* All calls agree on whether logging started.
THEOREM CallsAgree == Safe => []OneVerdict
<1>1. LogInv => OneVerdict
    BY DEF LogInv, Verdicts, OneVerdict
<1> QED
    BY <1>1, LogInvariant, PTL

\* A call that returns has logging installed, whoever installed it.
THEOREM ReturnIsTrue == Safe => []ReturnedMeansInstalled
<1>1. LogInv => ReturnedMeansInstalled
    BY DEF LogInv, Verdicts, Installed, ReturnedMeansInstalled
<1> QED
    BY <1>1, LogInvariant, PTL

\* The closure finds everything it expects to be first at.
THEOREM ClosureIsFirst == Safe => []ClosureRunsOnce
<1>1. LogInv => ClosureRunsOnce
    BY DEF LogInv, Installed, Opened, ClosureRunsOnce, Workers
<1> QED
    BY <1>1, LogInvariant, PTL

\* No worker thread outlives the call that failed to start logging.
THEOREM NoGuardIsLost == Safe => []GuardsAreHeld
<1>1. ASSUME LogInv PROVE GuardsAreHeld
  <2>1. ASSUME global = "poisoned", NEW w \in Workers
        PROVE  guard[w] \in {"none", "dropped"} \/ pc[guard[w]] = "unwinding"
    <3>1. guard[w] \in Threads => pc[guard[w]] = "unwinding"
      <4>1. \A t \in Callers : ~InGlobal(t) /\ pc[t] # "returned"
          BY <1>1, <2>1 DEF LogInv, Exclusive, Verdicts, Returned, Threads
      <4>2. \A t \in Tests : ~InGlobal(t) /\ pc[t] # "returned"
          BY <1>1 DEF LogInv, Kinds, InGlobal, GlobalStep, Threads
      <4> QED
          BY <1>1, <4>1, <4>2 DEF LogInv, Opened, Threads
    <3>2. guard[w] # "static"
        BY <1>1, <2>1 DEF LogInv, Opened
    <3> QED
        BY <1>1, <3>1, <3>2 DEF LogInv, TypeOK
  <2> QED
      BY <1>1, <2>1 DEF LogInv, Opened, GuardsAreHeld
<1> QED
    BY <1>1, LogInvariant, PTL

\* Once the static has guards, nobody stores any.
LEMMA StaticIsStored ==
    ASSUME LogInv, NEW t \in Threads, StoreGuards(t), NEW w \in Workers
    PROVE  guard[w] # "static"
<1>1. SUFFICES ASSUME guard[w] = "static" PROVE FALSE
    OBVIOUS
<1>2. t \in Uts /\ pc[t] = "returned" /\ ut = "running"
    BY DEF StoreGuards, Moves, LogInv, Exclusive, InUt
<1>3. PICK u \in Uts : pc[u] = "utStored"
    BY <1>1, <1>2 DEF LogInv, Opened
<1> QED
    BY <1>2, <1>3 DEF LogInv, Exclusive, InUt, Threads, Callers

\* The guards of the unit tests are never dropped.
THEOREM StaticGuardsAreKept == Safe => StaticGuardsStay
<1>1. ASSUME LogInv, [Next]_vars, NEW w \in Workers, guard[w] = "static"
      PROVE  guard'[w] = "static"
  <2> USE MarkersAreNoThreads DEF LogInv
  <2>1. guard \in [Workers -> Threads \cup {"none", "static", "dropped"}] /\ global = "done"
      BY <1>1 DEF TypeOK, Opened
  <2>2. ASSUME NEW t \in Threads, DropsGuards(t) PROVE guard'[w] = "static"
      BY <1>1, <2>1, <2>2 DEF DropsGuards
  <2>3. ASSUME NEW t \in Threads, Call(t) \/ EnterOnce(t) PROVE guard'[w] = "static"
      BY <1>1, <2>2, <2>3 DEF Call, EnterOnce, EnterUt, SkipUt, FindUtPoisoned, EnterGlobal,
                              SkipGlobal, FindGlobalPoisoned
  <2>4. ASSUME NEW t \in Threads PROVE ~RunGlobal(t)
    <3>1. pc[t] \notin GlobalStep
        BY <2>1, <1>1 DEF Exclusive, InGlobal
    <3> QED
        BY <3>1 DEF GlobalStep, Moves, RunGlobal, InitTracer, StdoutLayer, NoDir, FileLayer,
                    AppenderFails, ParseLevel, SetReload, NoOtlp, Otlp, BuildExporter,
                    SetSubscriber, LeaveGlobal
  <2>5. ASSUME NEW t \in Threads PROVE ~StoreGuards(t)
      BY <1>1, StaticIsStored
  <2>6. ASSUME NEW t \in Threads, LeaveUt(t) \/ ReturnFromStart(t) \/ ReturnFromMain(t)
                              \/ TestInit(t) \/ UnwindInit(t) \/ UnwindCaller(t)
        PROVE  guard'[w] = "static"
      BY <1>1, <2>2, <2>6 DEF LeaveUt, ReturnFromStart, ReturnFromMain, TestInit,
                              UnwindInit, UnwindCaller
  <2> QED
      BY <1>1, <2>3, <2>4, <2>5, <2>6 DEF Next, Step, Terminated, vars
<1>2. LogInv /\ [Next]_vars =>
        [\A w \in Workers : guard[w] = "static" => guard'[w] = "static"]_vars
    BY <1>1
<1> QED
    BY <1>2, LogInvariant, PTL DEF Safe, StaticGuardsStay

-----------------------------------------------------------------------------
(* The start of logging implements StartOnce.                               *)

\* All workers that were opened have one holder, and none is dropped before the
\* closure is left.
OneHolder ==
    /\ \A v, w \in Workers : guard[v] # "none" /\ guard[w] # "none" => guard[v] = guard[w]
    /\ global \in {"new", "running"} => \A w \in Workers : guard[w] # "dropped"

OnceInv == LogInv /\ OneHolder

\* Inside the closure the workers that are open are in the hands of the thread
\* that runs it.
LEMMA ClosureHolds ==
    ASSUME OnceInv, NEW t \in Threads, InGlobal(t)
    PROVE  global = "running" /\ (\A w \in Workers : guard[w] \in {"none", t})
<1>1. global = "running"
    BY DEF OnceInv, LogInv, Exclusive
<1>2. ASSUME NEW w \in Workers PROVE guard[w] \in {"none", t}
  <2>1. guard[w] \in Threads \cup {"none", "static", "dropped"}
      BY DEF OnceInv, LogInv, TypeOK
  <2>2. guard[w] # "static" /\ guard[w] # "dropped"
      BY <1>1 DEF OnceInv, LogInv, Opened, OneHolder
  <2>3. ASSUME guard[w] \in Threads PROVE guard[w] = t
    <3>1. InGlobal(guard[w]) \/ pc[guard[w]] = "returned"
        BY <1>1, <2>3 DEF OnceInv, LogInv, Opened, Verdicts, Unwinding
    <3>2. guard[w] \in Callers => pc[guard[w]] # "returned"
        BY <1>1, <2>3 DEF OnceInv, LogInv, Verdicts, Returned
    <3>3. guard[w] \notin Callers => pc[guard[w]] # "returned"
        BY <2>3 DEF OnceInv, LogInv, Kinds, Threads
    <3> QED
        BY <2>3, <3>1, <3>2, <3>3 DEF OnceInv, LogInv, Exclusive
  <2> QED
      BY <2>1, <2>2, <2>3
<1> QED
    BY <1>1, <1>2

\* What a thread holds is dropped; what it does not hold stays.
LEMMA DroppedHolders ==
    ASSUME TypeOK, NEW t \in Threads, DropsGuards(t)
    PROVE  /\ (\A w \in Workers : guard[w] # t) => guard' = guard
           /\ Holders \subseteq {t} => Holders' = IF Holders = {} THEN {} ELSE {"dropped"}
<1>1. (\A w \in Workers : guard[w] # t) => guard' = guard
    BY DEF TypeOK, DropsGuards
<1>2. ASSUME Holders \subseteq {t} PROVE Holders' = IF Holders = {} THEN {} ELSE {"dropped"}
  <2>1. \A w \in Workers : guard[w] \in {"none", t}
      BY <1>2 DEF Holders
  <2>2. \A w \in Workers : guard'[w] = IF guard[w] = t THEN "dropped" ELSE "none"
      BY <2>1, MarkersAreNoThreads DEF DropsGuards
  <2>3. CASE Holders = {}
    <3>1. \A w \in Workers : guard[w] # t
        BY <2>3, MarkersAreNoThreads DEF Holders
    <3> QED
        BY <1>1, <2>3, <3>1 DEF Holders
  <2>4. CASE Holders # {}
    <3>1. PICK w \in Workers : guard[w] = t
        BY <2>1, <2>4 DEF Holders
    <3> QED
        BY <2>2, <2>4, <3>1 DEF Holders
  <2> QED
      BY <2>3, <2>4
<1> QED
    BY <1>1, <1>2

-----------------------------------------------------------------------------
\* Every step leaves the open workers with one holder.
LEMMA StepKeepsOneHolder == OnceInv /\ [Next]_vars => OneHolder'
<1> SUFFICES ASSUME OnceInv, [Next]_vars PROVE OneHolder'
    OBVIOUS
<1> USE MarkersAreNoThreads
<1>1. /\ pc \in [Threads -> PcState]
      /\ guard \in [Workers -> Threads \cup {"none", "static", "dropped"}]
      /\ global \in OnceState
    BY DEF OnceInv, LogInv, TypeOK
<1>2. ASSUME NEW t \in Threads, DropsGuards(t), global' \notin {"new", "running"}
      PROVE  OneHolder'
    BY <1>1, <1>2 DEF DropsGuards, OnceInv, OneHolder
<1>3. ASSUME UNCHANGED guard, global' \in {"new", "running"} => global \in {"new", "running"}
      PROVE  OneHolder'
    BY <1>3 DEF OnceInv, OneHolder
<1>4. ASSUME NEW t \in Threads, Call(t) \/ EnterOnce(t)
      PROVE  OneHolder'
  <2>1. CASE FindUtPoisoned(t) \/ FindGlobalPoisoned(t)
      BY <1>3, <2>1 DEF FindUtPoisoned, FindGlobalPoisoned
  <2>2. CASE Call(t) \/ EnterUt(t) \/ SkipUt(t) \/ EnterGlobal(t) \/ SkipGlobal(t)
      BY <1>3, <2>2 DEF Call, EnterUt, SkipUt, EnterGlobal, SkipGlobal
  <2> QED
      BY <1>4, <2>1, <2>2 DEF EnterOnce
<1>5. ASSUME NEW t \in Threads, RunGlobal(t)
      PROVE  OneHolder'
  <2>1. InGlobal(t)
      BY <1>5 DEF RunGlobal, InGlobal, GlobalStep, Moves, InitTracer, StdoutLayer, NoDir,
                  FileLayer, AppenderFails, ParseLevel, SetReload, NoOtlp, Otlp, BuildExporter,
                  SetSubscriber, LeaveGlobal
  <2>2. global = "running" /\ (\A w \in Workers : guard[w] \in {"none", t})
      BY <2>1, ClosureHolds
  <2>3. CASE Panics(t)
      BY <1>3, <2>3 DEF Panics
  <2>4. CASE StdoutLayer(t) \/ FileLayer(t)
    <3>1. /\ global' = global
          /\ (guard' = guard \/ \E w \in Workers : guard' = [guard EXCEPT ![w] = t])
        BY <2>4 DEF StdoutLayer, FileLayer, Opens, Workers
    <3>2. \A w \in Workers : guard'[w] \in {"none", t}
        BY <1>1, <2>2, <3>1
    <3> QED
        BY <3>2 DEF OneHolder
  <2>5. CASE ~Panics(t) /\ ~StdoutLayer(t) /\ ~FileLayer(t)
    <3>1. UNCHANGED guard
        BY <1>5, <2>5 DEF RunGlobal, InitTracer, NoDir, AppenderFails, ParseLevel, SetReload,
                          NoOtlp, Otlp, BuildExporter, SetSubscriber, LeaveGlobal
    <3> QED
        BY <1>3, <2>2, <3>1
  <2> QED
      BY <2>3, <2>4, <2>5
<1>6. ASSUME NEW t \in Threads, StoreGuards(t)
      PROVE  OneHolder'
  <2>1. \A w \in Workers : guard[w] # "static"
      BY <1>6, StaticIsStored DEF OnceInv
  <2>2. \A w \in Workers : guard'[w] = IF guard[w] = t THEN "static" ELSE guard[w]
      BY <1>1, <1>6, <2>1 DEF StoreGuards
  <2>3. global' = global
      BY <1>6 DEF StoreGuards
  <2> QED
      BY <1>1, <2>2, <2>3 DEF OnceInv, OneHolder
<1>7. ASSUME NEW t \in Threads, ReturnFromStart(t) \/ ReturnFromMain(t)
      PROVE  OneHolder'
  <2>1. global = "done" /\ global' = "done" /\ DropsGuards(t)
      BY <1>7 DEF ReturnFromStart, ReturnFromMain, Moves, OnceInv, LogInv,
                  Verdicts, Returned, Callers
  <2> QED
      BY <1>2, <2>1
<1>8. ASSUME NEW t \in Threads, LeaveUt(t) \/ TestInit(t) \/ UnwindCaller(t)
      PROVE  OneHolder'
    BY <1>3, <1>8 DEF LeaveUt, TestInit, UnwindCaller
<1>10. ASSUME NEW t \in Threads, UnwindInit(t)
      PROVE  OneHolder'
  <2>1. global = "poisoned" /\ global' = "poisoned" /\ DropsGuards(t)
      BY <1>10 DEF UnwindInit, Moves, OnceInv, LogInv, Verdicts, Unwinding
  <2> QED
      BY <1>2, <2>1
<1>9. CASE UNCHANGED vars
    BY <1>3, <1>9 DEF vars
<1> QED
    BY <1>4, <1>5, <1>6, <1>7, <1>8, <1>9, <1>10 DEF Next, Step, Terminated

THEOREM OnceInvariant == Safe => []OnceInv
<1>1. Init => OneHolder
    BY DEF Init, OneHolder
<1>2. OnceInv /\ [Next]_vars => OneHolder'
    BY StepKeepsOneHolder
<1>3. OnceInv /\ LogInv' /\ [Next]_vars => OnceInv'
    BY <1>2 DEF OnceInv
<1>4. Init /\ LogInv => OnceInv
    BY <1>1 DEF OnceInv
<1> QED
    BY <1>3, <1>4, LogInvariant, PTL DEF Safe

-----------------------------------------------------------------------------
\* A step that moves one caller changes one answer.
LEMMA AnswerOf ==
    ASSUME TypeOK, NEW t \in Callers, NEW x \in PcState, pc' = [pc EXCEPT ![t] = x]
    PROVE  /\ pc'[t] = x
           /\ Answers' = [Answers EXCEPT ![t] = Told(t)']
           /\ Told(t)' = Told(t) => Answers' = Answers
<1>1. \A u \in Callers : u # t => pc'[u] = pc[u]
    BY DEF TypeOK, Threads
<1>2. pc'[t] = x
    BY DEF TypeOK, Threads
<1>3. \A u \in Callers : u # t => Told(u)' = Told(u)
    BY <1>1 DEF Told, Returned
<1>4. Answers' = [u \in Callers |-> Told(u)']
    BY DEF Answers
<1>5. Answers' = [Answers EXCEPT ![t] = Told(t)']
    BY <1>3, <1>4 DEF Answers
<1>6. ASSUME Told(t)' = Told(t) PROVE Answers' = Answers
    BY <1>3, <1>4, <1>6 DEF Answers
<1> QED
    BY <1>2, <1>5, <1>6

\* Only who is in the closure, or comes out of it, holds workers.
LEMMA NoHolder ==
    ASSUME OnceInv, NEW t \in Callers, ~InGlobal(t), pc[t] \notin {"returned", "unwinding"}
    PROVE  t \notin Holders
<1>1. t \in Threads
    BY DEF Threads
<1>2. \A w \in Workers : guard[w] # t
    BY <1>1 DEF OnceInv, LogInv, Opened
<1> QED
    BY <1>2 DEF Holders

\* A panic inside the closure decides.
LEMMA PanicRefines ==
    ASSUME OnceInv, NEW t \in Callers, Panics(t), InGlobal(t)
    PROVE  Once!Fail(t)
<1> USE DEF Panics
<1>1. TypeOK /\ t \in Threads /\ "unwinding" \in PcState
    BY DEF OnceInv, LogInv, Threads, PcState
<1>2. /\ global = "running" /\ global' = "poisoned"
      /\ (\A w \in Workers : guard[w] \in {"none", t})
    BY <1>1, ClosureHolds
<1>3. Holders \subseteq {t} /\ Holders' = Holders
    BY <1>2 DEF Holders
<1>4. Told(t) = "asking" /\ Told(t)' = "asking"
    BY <1>1, AnswerOf DEF Told, Returned, InGlobal, GlobalStep
<1>5. Answers[t] = "asking" /\ Answers' = Answers
    BY <1>1, <1>4, AnswerOf DEF Answers
<1>6. Decided = "open" /\ Decided' = "panicked"
    BY <1>2 DEF Decided
<1> QED
    BY <1>3, <1>5, <1>6 DEF Once!Fail, Once!Deciding

\* The call that panicked ends its workers, and then is over.
LEMMA UnwindRefines ==
    ASSUME OnceInv, NEW t \in Callers, UnwindInit(t) \/ UnwindCaller(t)
    PROVE  [\E u \in Callers : Once!Release(u) \/ Once!Learn(u)]_(Once!vars)
<1>1. /\ TypeOK /\ t \in Threads /\ "unwound" \in PcState /\ "panicked" \in PcState
      /\ t # "none"
    BY MarkersAreNoThreads DEF OnceInv, LogInv, Threads, PcState
<1>2. global = "poisoned" /\ global' = "poisoned"
    BY <1>1 DEF UnwindInit, UnwindCaller, Moves, OnceInv, LogInv, Verdicts, Unwinding
<1>3. Decided = "panicked" /\ Decided' = "panicked"
    BY <1>2 DEF Decided
<1>4. CASE UnwindInit(t)
  <2>1. /\ pc[t] = "unwinding" /\ pc' = [pc EXCEPT ![t] = "unwound"]
        /\ DropsGuards(t)
      BY <1>4 DEF UnwindInit, Moves
  <2>2. Told(t) = "asking" /\ Told(t)' = "asking"
      BY <1>1, <2>1, AnswerOf DEF Told, Returned
  <2>3. Answers' = Answers
      BY <1>1, <2>1, <2>2, AnswerOf
  <2>4. CASE \A w \in Workers : guard[w] # t
    <3>1. guard' = guard
        BY <1>1, <2>1, <2>4, DroppedHolders
    <3> QED
        BY <1>3, <2>3, <3>1 DEF Once!vars, Holders
  <2>5. CASE \E w \in Workers : guard[w] = t
    <3>1. \A w \in Workers : guard[w] \in {"none", t}
        BY <1>1, <2>5 DEF OnceInv, OneHolder
    <3>2. Holders = {t}
        BY <1>1, <2>5, <3>1 DEF Holders
    <3>3. Holders' = {"dropped"}
        BY <1>1, <2>1, <3>2, DroppedHolders
    <3> QED
        BY <1>3, <2>3, <3>2, <3>3 DEF Once!Release
  <2> QED
      BY <2>4, <2>5
<1>5. CASE UnwindCaller(t)
  <2>1. pc[t] = "unwound" /\ pc' = [pc EXCEPT ![t] = "panicked"] /\ UNCHANGED guard
      BY <1>5 DEF UnwindCaller, Moves
  <2>2. Answers' = [Answers EXCEPT ![t] = "panicked"]
      BY <1>1, <2>1, AnswerOf DEF Told, Returned
  <2>3. t \notin Holders
      BY <2>1, NoHolder DEF InGlobal, GlobalStep
  <2>4. Answers[t] = "asking" /\ Holders' = Holders
      BY <2>1 DEF Answers, Told, Returned, Holders
  <2> QED
      BY <1>3, <2>2, <2>3, <2>4 DEF Once!Learn
<1> QED
    BY <1>4, <1>5

\* What a caller finds at a Once.
LEMMA OnceRefines ==
    ASSUME OnceInv, NEW t \in Callers, Call(t) \/ EnterOnce(t)
    PROVE  [\E u \in Callers : Once!Ask(u) \/ Once!Learn(u)]_(Once!vars)
<1>1. TypeOK /\ {"calling", "utInside", "tracer", "returned", "ended", "unwound", "panicked"}
                   \subseteq PcState
    BY DEF OnceInv, LogInv, PcState, GlobalStep
<1>2. CASE Call(t)
  <2>1. pc[t] = "idle" /\ pc' = [pc EXCEPT ![t] = "calling"] /\ "calling" \in PcState
      BY <1>1, <1>2 DEF Call, Moves
  <2>2. /\ pc'[t] = "calling"
        /\ Answers' = [Answers EXCEPT ![t] = Told(t)']
      BY <1>1, <2>1, AnswerOf
  <2>3. Told(t)' = "asking" /\ Answers[t] = "idle"
      BY <2>1, <2>2 DEF Told, Returned, Answers
  <2>4. Decided' = Decided /\ Holders' = Holders
      BY <1>2 DEF Call, Decided, Holders
  <2> QED
      BY <2>2, <2>3, <2>4 DEF Once!Ask
<1>3. CASE EnterUt(t) \/ EnterGlobal(t)
  <2>1. /\ pc[t] \in {"calling", "utInside"}
        /\ \E x \in {"utInside", "tracer"} : pc' = [pc EXCEPT ![t] = x]
      BY <1>3 DEF EnterUt, EnterGlobal, AtGlobal, Moves
  <2>2. Told(t)' = Told(t)
      BY <1>1, <2>1, AnswerOf DEF Told, Returned
  <2>3. Answers' = Answers
      BY <1>1, <2>1, <2>2, AnswerOf
  <2>4. Decided' = Decided /\ Holders' = Holders
      BY <1>3 DEF EnterUt, EnterGlobal, Decided, Holders
  <2> QED
      BY <2>3, <2>4 DEF Once!vars
<1>4. CASE SkipUt(t) \/ SkipGlobal(t)
  <2>1. global = "done" /\ global' = "done"
      BY <1>4 DEF SkipUt, SkipGlobal, OnceInv, LogInv, Verdicts
  <2>2. /\ pc[t] \in {"calling", "utInside"}
        /\ \E x \in {"returned", "ended"} : pc' = [pc EXCEPT ![t] = x]
      BY <1>4 DEF SkipUt, SkipGlobal, AtGlobal, Moves
  <2>3. PICK x \in {"returned", "ended"} : pc' = [pc EXCEPT ![t] = x]
      BY <2>2
  <2>4. pc'[t] = x /\ Answers' = [Answers EXCEPT ![t] = Told(t)']
      BY <1>1, <2>3, AnswerOf
  <2>5. Told(t)' = "returned" /\ Answers[t] = "asking"
      BY <2>2, <2>3, <2>4 DEF Told, Returned, Answers
  <2>6. Decided = "returned" /\ Decided' = "returned" /\ Holders' = Holders
      BY <1>4, <2>1 DEF SkipUt, SkipGlobal, Decided, Holders
  <2>7. t \notin Holders
      BY <2>2, NoHolder DEF InGlobal, GlobalStep
  <2> QED
      BY <2>4, <2>5, <2>6, <2>7 DEF Once!Learn
<1>5. CASE FindUtPoisoned(t)
  <2>1. /\ pc[t] = "calling" /\ pc' = [pc EXCEPT ![t] = "panicked"] /\ UNCHANGED <<global, guard>>
        /\ global = "poisoned"
      BY <1>5 DEF FindUtPoisoned, Moves, OnceInv, LogInv, Verdicts
  <2>2. Answers' = [Answers EXCEPT ![t] = "panicked"]
      BY <1>1, <2>1, AnswerOf DEF Told, Returned
  <2>3. t \notin Holders
      BY <2>1, NoHolder DEF InGlobal, GlobalStep
  <2>4. Answers[t] = "asking" /\ Holders' = Holders /\ Decided = "panicked" /\ Decided' = "panicked"
      BY <2>1 DEF Answers, Told, Returned, Holders, Decided
  <2> QED
      BY <2>2, <2>3, <2>4 DEF Once!Learn
<1>6. CASE FindGlobalPoisoned(t)
  <2>1. /\ pc[t] \in {"calling", "utInside"} /\ pc' = [pc EXCEPT ![t] = "unwound"]
        /\ UNCHANGED <<global, guard>>
      BY <1>6 DEF FindGlobalPoisoned, AtGlobal
  <2>2. Told(t)' = Told(t)
      BY <1>1, <2>1, AnswerOf DEF Told, Returned
  <2>3. Answers' = Answers
      BY <1>1, <2>1, <2>2, AnswerOf
  <2> QED
      BY <2>1, <2>3 DEF Once!vars, Decided, Holders
<1> QED
    BY <1>2, <1>3, <1>4, <1>5, <1>6 DEF EnterOnce

\* The closure opens workers and decides.
LEMMA ClosureRefines ==
    ASSUME OnceInv, NEW t \in Callers, RunGlobal(t)
    PROVE  [\E u \in Callers : Once!Open(u) \/ Once!Succeed(u) \/ Once!Fail(u)]_(Once!vars)
<1>1. TypeOK /\ t \in Threads /\ GlobalStep \cup {"returned"} \subseteq PcState
    BY DEF OnceInv, LogInv, Threads, PcState
<1>2. InGlobal(t)
    BY DEF RunGlobal, InGlobal, GlobalStep, Moves, InitTracer, StdoutLayer, NoDir, FileLayer,
           AppenderFails, ParseLevel, SetReload, NoOtlp, Otlp, BuildExporter, SetSubscriber,
           LeaveGlobal
<1>3. global = "running" /\ (\A w \in Workers : guard[w] \in {"none", t})
    BY <1>1, <1>2, ClosureHolds
<1>4. Once!Deciding(t)
  <2>1. Holders \subseteq {t}
      BY <1>3 DEF Holders
  <2> QED
      BY <1>2, <1>3, <2>1 DEF Once!Deciding, Answers, Told, Returned, Decided,
                            InGlobal, GlobalStep
<1>5. CASE Panics(t)
    BY <1>2, <1>5, PanicRefines
<1>6. CASE LeaveGlobal(t)
  <2>1. Answers' = [Answers EXCEPT ![t] = "returned"]
      BY <1>1, <1>6, AnswerOf DEF LeaveGlobal, Moves, Told, Returned
  <2>2. Decided' = "returned" /\ Holders' = Holders
      BY <1>6 DEF LeaveGlobal, Decided, Holders
  <2> QED
      BY <1>4, <2>1, <2>2 DEF Once!Succeed
<1>7. ASSUME ~Panics(t), ~LeaveGlobal(t)
      PROVE  UNCHANGED <<Answers, Decided>>
  <2>1. global' = global /\ \E x \in GlobalStep : pc' = [pc EXCEPT ![t] = x]
      BY <1>7 DEF RunGlobal, GlobalStep, Moves, InitTracer, StdoutLayer, NoDir, FileLayer,
                  AppenderFails, ParseLevel, SetReload, NoOtlp, Otlp, BuildExporter,
                  SetSubscriber
  <2>2. PICK x \in GlobalStep : pc' = [pc EXCEPT ![t] = x]
      BY <2>1
  <2>3. Told(t) = "asking" /\ Told(t)' = "asking"
      BY <1>1, <1>2, <2>2, AnswerOf DEF Told, Returned, InGlobal, GlobalStep
  <2>4. Answers' = Answers
      BY <1>1, <2>2, <2>3, AnswerOf
  <2> QED
      BY <2>1, <2>4 DEF Decided
<1>8. CASE ~Panics(t) /\ ~LeaveGlobal(t) /\ UNCHANGED guard
    BY <1>7, <1>8 DEF Once!vars, Holders
<1>9. CASE ~Panics(t) /\ ~LeaveGlobal(t) /\ ~UNCHANGED guard
  <2>1. PICK w \in Workers : guard' = [guard EXCEPT ![w] = t]
      BY <1>9 DEF RunGlobal, InitTracer, StdoutLayer, NoDir, FileLayer, AppenderFails,
                  ParseLevel, SetReload, NoOtlp, Otlp, BuildExporter, SetSubscriber, Opens,
                  Workers
  <2>2. \A v \in Workers : guard'[v] \in {"none", t}
      BY <1>1, <1>3, <2>1 DEF TypeOK
  <2>3. guard'[w] = t /\ t # "none"
      BY <1>1, <2>1, MarkersAreNoThreads DEF TypeOK
  <2>4. Holders' = {t}
      BY <2>2, <2>3 DEF Holders
  <2> QED
      BY <1>4, <1>7, <1>9, <2>4 DEF Once!Open
<1> QED
    BY <1>5, <1>6, <1>8, <1>9

\* What a caller does with the workers it was given.
LEMMA ReturnRefines ==
    ASSUME OnceInv, NEW t \in Callers,
           StoreGuards(t) \/ LeaveUt(t) \/ ReturnFromStart(t) \/ ReturnFromMain(t)
    PROVE  [Once!HandOver(t)]_(Once!vars)
<1>1. TypeOK /\ t \in Threads /\ {"utStored", "ended"} \subseteq PcState
    BY DEF OnceInv, LogInv, Threads, PcState
<1>2. /\ pc[t] \in {"returned", "utStored"} /\ global' = global
      /\ \E x \in {"utStored", "ended"} : pc' = [pc EXCEPT ![t] = x]
    BY DEF StoreGuards, LeaveUt, ReturnFromStart, ReturnFromMain, Moves
<1>3. Told(t) = "returned" /\ Told(t)' = "returned"
    BY <1>1, <1>2, AnswerOf DEF Told, Returned
<1>4. Answers' = Answers /\ Answers[t] = "returned" /\ Decided' = Decided
    BY <1>1, <1>2, <1>3, AnswerOf DEF Answers, Decided
<1>5. CASE \A w \in Workers : guard[w] # t
  <2>1. UNCHANGED guard
    <3>1. CASE StoreGuards(t)
      <4>1. \A w \in Workers : guard[w] # "static"
          BY <1>1, <3>1, StaticIsStored DEF OnceInv
      <4> QED
          BY <1>1, <1>5, <3>1, <4>1 DEF StoreGuards, TypeOK
    <3>2. CASE ReturnFromStart(t) \/ ReturnFromMain(t)
        BY <1>1, <1>5, <3>2, DroppedHolders DEF ReturnFromStart, ReturnFromMain
    <3> QED
        BY <3>1, <3>2 DEF LeaveUt
  <2> QED
      BY <1>4, <2>1 DEF Once!vars, Holders
<1>6. CASE \E w \in Workers : guard[w] = t
  <2>1. t # "none" /\ t # "static"
      BY <1>1, MarkersAreNoThreads
  <2>2. \A w \in Workers : guard[w] \in {"none", t}
      BY <1>6, <2>1 DEF OnceInv, OneHolder
  <2>3. Holders = {t}
      BY <1>6, <2>1, <2>2 DEF Holders
  <2>4. pc[t] = "returned"
      BY <1>1, <1>2, <1>6 DEF OnceInv, LogInv, Opened, InGlobal, GlobalStep
  <2>5. CASE StoreGuards(t)
    <3>1. ASSUME NEW w \in Workers
          PROVE  guard'[w] = IF guard[w] = t THEN "static" ELSE "none"
      <4>1. guard'[w] = CASE guard[w] = t -> "static"
                          [] guard[w] = "static" -> "dropped"
                          [] OTHER -> guard[w]
          BY <2>5 DEF StoreGuards
      <4> QED
          BY <2>1, <2>2, <4>1
    <3>2. Holders' = {"static"}
        BY <1>6, <3>1 DEF Holders
    <3> QED
        BY <1>4, <2>3, <3>2 DEF Once!HandOver
  <2>6. CASE ReturnFromStart(t) \/ ReturnFromMain(t)
    <3>1. Holders' = {"dropped"}
        BY <1>1, <2>3, <2>6, DroppedHolders DEF ReturnFromStart, ReturnFromMain
    <3> QED
        BY <1>4, <2>3, <3>1 DEF Once!HandOver
  <2>7. ~LeaveUt(t)
      BY <2>4 DEF LeaveUt, Moves
  <2> QED
      BY <2>5, <2>6, <2>7
<1> QED
    BY <1>5, <1>6

\* A test that starts logging on its own is no caller of ours.
LEMMA TestRefines ==
    ASSUME OnceInv, NEW t \in Threads, TestInit(t)
    PROVE  UNCHANGED (Once!vars)
<1>1. t \notin Callers
    BY KindsAreDisjoint DEF TestInit, Callers
<1>2. \A u \in Callers : pc'[u] = pc[u]
    BY <1>1 DEF TestInit, Moves, OnceInv, LogInv, TypeOK, Threads
<1>3. Answers' = Answers
    BY <1>2 DEF Answers, Told, Returned
<1> QED
    BY <1>3 DEF TestInit, Once!vars, Decided, Holders

\* The start of logging implements StartOnce: whoever calls, in whatever order, and
\* whatever fails, one call decides for all of them, and the workers it opened are
\* dropped with it, or handed over once.
THEOREM StartsOnce == Safe => ImplementsStartOnce
<1>1. Init => Once!Init
    BY DEF Init, Once!Init, Answers, Told, Returned, Decided, Holders, Threads
<1>2. OnceInv /\ [Next]_vars => [Once!Next]_(Once!vars)
  <2> SUFFICES ASSUME OnceInv, [Next]_vars PROVE [Once!Next]_(Once!vars)
      OBVIOUS
  <2>1. ASSUME NEW t \in Callers, Call(t) \/ EnterOnce(t)
        PROVE  [Once!Next]_(Once!vars)
      BY <2>1, OnceRefines DEF Once!Next
  <2>2. ASSUME NEW t \in Callers, RunGlobal(t)
        PROVE  [Once!Next]_(Once!vars)
      BY <2>2, ClosureRefines DEF Once!Next
  <2>3. ASSUME NEW t \in Callers,
               StoreGuards(t) \/ LeaveUt(t) \/ ReturnFromStart(t) \/ ReturnFromMain(t)
        PROVE  [Once!Next]_(Once!vars)
      BY <2>3, ReturnRefines DEF Once!Next
  <2>4. ASSUME NEW t \in Threads, TestInit(t)
        PROVE  [Once!Next]_(Once!vars)
      BY <2>4, TestRefines
  <2>7. ASSUME NEW t \in Callers, UnwindInit(t) \/ UnwindCaller(t)
        PROVE  [Once!Next]_(Once!vars)
      BY <2>7, UnwindRefines DEF Once!Next
  <2>5. ASSUME NEW t \in Threads, t \notin Callers
        PROVE  ~(Call(t) \/ Step(t) \/ ReturnFromMain(t))
    <3>1. t \in Tests /\ pc[t] \notin GlobalStep
        BY <2>5 DEF OnceInv, LogInv, Kinds, GlobalStep, Threads
    <3>2. ~RunGlobal(t)
        BY <3>1 DEF GlobalStep, Moves, RunGlobal, InitTracer, StdoutLayer, NoDir, FileLayer,
                    AppenderFails, ParseLevel, SetReload, NoOtlp, Otlp, BuildExporter,
                    SetSubscriber, LeaveGlobal
    <3>3. ~UnwindInit(t) /\ ~UnwindCaller(t)
        BY <3>1 DEF UnwindInit, UnwindCaller, Moves, OnceInv, LogInv, Kinds
    <3> QED
        BY <2>5, <3>2, <3>3 DEF Call, Step, EnterOnce, EnterUt, SkipUt, FindUtPoisoned, EnterGlobal,
                          SkipGlobal, FindGlobalPoisoned, StoreGuards, LeaveUt,
                          ReturnFromStart, ReturnFromMain, Callers
  <2>6. CASE UNCHANGED vars
      BY <2>6 DEF vars, Once!vars, Answers, Told, Returned, Decided, Holders
  <2> QED
      BY <2>1, <2>2, <2>3, <2>4, <2>5, <2>6, <2>7 DEF Next, Step, Terminated
<1> QED
    BY <1>1, <1>2, OnceInvariant, PTL DEF Safe, Once!Spec, ImplementsStartOnce
=============================================================================
