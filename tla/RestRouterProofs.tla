-------------------------- MODULE RestRouterProofs ---------------------------
(***************************************************************************)
(* What start_rest_server makes of any list of route handlers, whatever    *)
(* the widths of sizes are; and what becomes of a size that is saved or    *)
(* printed.                                                                *)
(***************************************************************************)
EXTENDS RestRouter, NumberProofs, TLAPS

\* The list is one that was passed, and the loop is inside it.
Listed ==
    /\ handlers \in Seq(Handlers)
    /\ next \in 1 .. Len(handlers) + 1
    /\ phase \in {"configuring", "layering", "registering", "spawned", "panicked"}
    /\ phase \in {"configuring", "layering"} => next = 1

\* The router has what is left behind the handlers whose turn is over, none of
\* which wanted a path that was taken.
Collected ==
    phase # "configuring" =>
        /\ \A p : p \in Registered <=> Remains(p, next - 1)
        /\ \A i \in DOMAIN handlers : i < next => ~Clashes(i)

\* The loop ends behind the list or at a path that is taken.
Ending ==
    /\ phase = "spawned" => next = Len(handlers) + 1
    /\ phase = "panicked" =>
           /\ next <= Len(handlers)
           /\ handlers[next].paths \cap KeptPaths(handlers[next], routes) # {}

RouterInv == Listed /\ Collected /\ Ending

-----------------------------------------------------------------------------
\* The paths of the router that a handler returns.
LEMMA AppliedPaths ==
    ASSUME NEW h \in Handlers, NEW rs
    PROVE  DOMAIN Applied(h, rs) = KeptPaths(h, rs) \cup {p \in h.paths \cup {unknown} : Brings(h, p)}
<1> DEFINE own == Own(h)
           kept == Kept(h, rs)
           brought == {p \in h.paths \cup {unknown} : Brings(h, p)}
<1>1. DOMAIN own = brought /\ DOMAIN kept = KeptPaths(h, rs)
  BY DEF Own, Bare, Kept
<1>2. Applied(h, rs) = IF h.whole THEN Limited(Merged(kept, own), h.limit)
                                  ELSE Merged(kept, Limited(own, h.limit))
  BY DEF Applied
<1> HIDE DEF own, kept, brought
<1>3. \A l : DOMAIN Limited(own, l) = brought
  BY <1>1 DEF Limited
<1>4. CASE h.whole
  <2>1. Applied(h, rs) = Limited(Merged(kept, own), h.limit)
    BY <1>2, <1>4
  <2>2. DOMAIN Merged(kept, own) = KeptPaths(h, rs) \cup brought
    BY <1>1 DEF Merged
  <2> QED
    BY <2>1, <2>2 DEF Limited, brought
<1>5. CASE ~h.whole
  <2>1. Applied(h, rs) = Merged(kept, Limited(own, h.limit))
    BY <1>2, <1>5
  <2> QED
    BY <1>1, <1>3, <2>1 DEF Merged, brought
<1> QED
  BY <1>4, <1>5

\* What is left behind one more handler.
LEMMA RemainsBehind ==
    ASSUME handlers \in Seq(Handlers), NEW n \in Nat, n + 1 <= Len(handlers), NEW p
    PROVE  Remains(p, n + 1) <=>
               IF handlers[n + 1].keeps = "nothing" THEN p = unknown \/ p \in handlers[n + 1].paths
               ELSE Remains(p, n) \/ p \in handlers[n + 1].paths
<1> DEFINE h == handlers[n + 1]
<1>1. ASSUME NEW i \in 0 .. n
      PROVE  Lasts(i, n + 1) <=> Lasts(i, n) /\ h.keeps # "nothing"
  <2>1. i + 1 .. n + 1 = (i + 1 .. n) \cup {n + 1}
    OBVIOUS
  <2> QED
    BY <2>1 DEF Lasts
<1>2. Lasts(n + 1, n + 1)
  <2>1. (n + 1) + 1 .. n + 1 = {}
    OBVIOUS
  <2> QED
    BY <2>1 DEF Lasts
<1>3. 1 .. n + 1 = (1 .. n) \cup {n + 1} /\ 1 .. n \subseteq 0 .. n /\ 0 \in 0 .. n
  OBVIOUS
<1> HIDE DEF h
<1>4. (\E i \in 1 .. n + 1 : p \in handlers[i].paths /\ Lasts(i, n + 1)) <=>
         \/ p \in h.paths
         \/ \E i \in 1 .. n : p \in handlers[i].paths /\ Lasts(i, n) /\ h.keeps # "nothing"
  BY <1>1, <1>2, <1>3 DEF h
<1> QED
  BY <1>1, <1>3, <1>4 DEF Remains, h

\* A handler wants a taken path just when the list tells so.
LEMMA ClashIsSeen ==
    ASSUME RouterInv, phase # "configuring", next <= Len(handlers)
    PROVE  Clashes(next) <=> handlers[next].paths \cap KeptPaths(handlers[next], routes) # {}
<1> DEFINE h == handlers[next]
           n == next - 1
<1>1. /\ handlers \in Seq(Handlers) /\ n \in Nat /\ next = n + 1 /\ n + 1 <= Len(handlers)
      /\ h \in Handlers
  BY DEF RouterInv, Listed
<1>2. \A p : p \in Registered <=> Remains(p, n)
  BY DEF RouterInv, Collected
<1>3. unknown \notin h.paths /\ h.keeps \in {"all", "routes", "nothing"}
  BY <1>1, RouterAssumption DEF RouterAssumption, Handlers
<1>4. \A p \in h.paths : p \in KeptPaths(h, routes) <=> p \in Registered /\ h.keeps # "nothing"
  BY <1>3 DEF KeptPaths, Registered
<1>5. \A p \in h.paths : p \in Registered <=>
          \/ p = health /\ Lasts(0, n)
          \/ \E i \in 1 .. n : p \in handlers[i].paths /\ Lasts(i, n)
  BY <1>2, <1>3 DEF Remains
<1>6. ASSUME NEW i \in 0 .. n
      PROVE  Lasts(i, next) <=> Lasts(i, n) /\ h.keeps # "nothing"
  <2>1. i + 1 .. n + 1 = (i + 1 .. n) \cup {n + 1}
    BY <1>1
  <2> QED
    BY <1>1, <2>1 DEF Lasts
<1>7. 1 .. n \subseteq 0 .. n /\ 0 \in 0 .. n
  BY <1>1
<1> HIDE DEF n, h
<1>8. Clashes(next) <=>
          \/ health \in h.paths /\ Lasts(0, next)
          \/ \E j \in 1 .. n : handlers[j].paths \cap h.paths # {} /\ Lasts(j, next)
  BY DEF Clashes, n, h
<1>9. Clashes(next) <=>
          /\ h.keeps # "nothing"
          /\ \/ health \in h.paths /\ Lasts(0, n)
             \/ \E j \in 1 .. n : handlers[j].paths \cap h.paths # {} /\ Lasts(j, n)
  BY <1>6, <1>7, <1>8
<1>10. Clashes(next) <=> h.keeps # "nothing" /\ \E p \in h.paths : p \in Registered
  BY <1>5, <1>9
<1> QED
  BY <1>4, <1>10 DEF h

\* Before the configuration is complete there is no router.
LEMMA InitRouterInv == Init => RouterInv
<1> SUFFICES ASSUME Init PROVE RouterInv
  OBVIOUS
<1>1. handlers \in Seq(Handlers) /\ Len(handlers) = 0
  BY DEF Init
<1> QED
  BY <1>1 DEF Init, RouterInv, Listed, Collected, Ending

\* The routes of a handler join the router, or are all of it.
LEMMA RegisterKeepsInv ==
    ASSUME RouterInv, Register
    PROVE  RouterInv'
<1> DEFINE h == handlers[next]
           n == next - 1
<1> USE DEF RouterInv
<1>1. /\ handlers \in Seq(Handlers) /\ n \in Nat /\ next = n + 1 /\ n + 1 <= Len(handlers)
      /\ next <= Len(handlers) /\ DOMAIN handlers = 1 .. Len(handlers) /\ Len(handlers) \in Nat
      /\ h \in Handlers /\ h.paths \cap KeptPaths(h, routes) = {}
  BY DEF Listed, Register
<1>2. /\ handlers' = handlers /\ next' = next + 1 /\ routes' = Applied(h, routes)
      /\ phase' = "registering" /\ phase = "registering"
  BY DEF Register
<1>3. Registered' = KeptPaths(h, routes) \cup {p \in h.paths \cup {unknown} : Brings(h, p)}
  BY <1>1, <1>2, AppliedPaths DEF Registered
<1>4. Listed'
  BY <1>1, <1>2 DEF Listed
<1>5. \A p : p \in Registered <=> Remains(p, n)
  BY <1>2 DEF Collected
<1>6. unknown \in Registered /\ h.keeps \in {"all", "routes", "nothing"}
  BY <1>1, <1>5 DEF Remains, Handlers
<1>7. ASSUME NEW p PROVE p \in Registered' <=> Remains(p, n + 1)
  <2>1. Remains(p, n + 1) <=>
            IF h.keeps = "nothing" THEN p = unknown \/ p \in h.paths
            ELSE Remains(p, n) \/ p \in h.paths
    BY <1>1, RemainsBehind
  <2>2. p \in Registered' <=>
            \/ p \in Registered /\ (h.keeps = "all" \/ (h.keeps = "routes" /\ p # unknown))
            \/ p \in h.paths
            \/ p = unknown /\ h.keeps # "all"
    BY <1>3 DEF KeptPaths, Brings, Registered
  <2> HIDE DEF h, n
  <2> QED
    BY <1>5, <1>6, <2>1, <2>2
<1>8. ~Clashes(next)
  BY <1>1, <1>2, ClashIsSeen
<1>9. Collected'
  <2>1. \A i : Clashes(i)' <=> Clashes(i)
    BY <1>2 DEF Clashes, Lasts
  <2>2. \A p, m : Remains(p, m)' <=> Remains(p, m)
    BY <1>2 DEF Remains, Lasts
  <2>3. next' - 1 = n + 1
    BY <1>1, <1>2
  <2>4. \A p : p \in Registered' <=> Remains(p, next - 1)'
    BY <1>7, <2>2, <2>3, <1>2
  <2>5. \A i \in DOMAIN handlers : i < next + 1 => ~Clashes(i)
    <3>1. \A i \in DOMAIN handlers : i < next + 1 => i < next \/ i = next
      BY <1>1
    <3> QED
      BY <1>2, <1>8, <3>1 DEF Collected
  <2> QED
    BY <1>2, <2>1, <2>4, <2>5 DEF Collected
<1>10. Ending'
  BY <1>2 DEF Ending
<1> QED
  BY <1>4, <1>9, <1>10

\* Every step keeps the invariant.
LEMMA StepKeepsRouterInv == RouterInv /\ [Next]_vars => RouterInv'
<1> SUFFICES ASSUME RouterInv, [Next]_vars PROVE RouterInv'
  OBVIOUS
<1> USE DEF RouterInv
<1>1. CASE UNCHANGED routerVars
  BY <1>1 DEF routerVars, Listed, Collected, Ending, Remains, Clashes, Lasts, KeptPaths, Registered
<1>2. CASE Build
  <2>1. /\ handlers' \in Seq(Handlers) /\ next' = 1
        /\ phase' = "layering" /\ Len(handlers') \in Nat
        /\ DOMAIN handlers' = 1 .. Len(handlers')
    BY <1>2, RouterAssumption DEF Build, RouterAssumption, Listed
  <2>2. Registered' = {health, unknown}
    BY <1>2 DEF Build, Registered, Limited, Bare
  <2>3. \A p : Remains(p, 0)' <=> p \in {health, unknown}
    BY DEF Remains, Lasts
  <2>4. \A p : p \in Registered' <=> Remains(p, next - 1)'
    <3>1. next' - 1 = 0
      BY <2>1
    <3> QED
      BY <2>2, <2>3, <3>1
  <2>5. Collected'
    BY <2>1, <2>4 DEF Collected
  <2> QED
    BY <2>1, <2>5 DEF Listed, Ending
<1>3. CASE AddCors
  <2>1. Registered' = Registered
    BY <1>3 DEF AddCors, Registered
  <2> QED
    BY <1>3, <2>1 DEF AddCors, Listed, Collected, Ending, Remains, Clashes, Lasts
<1>4. CASE Register
  BY <1>4, RegisterKeepsInv
<1>5. CASE RegisterPanics
  BY <1>5 DEF RegisterPanics, Listed, Collected, Ending, Remains, Clashes, Lasts, KeptPaths, Registered
<1>6. CASE Spawn
  BY <1>6 DEF Spawn, Listed, Collected, Ending, Remains, Clashes, Lasts, KeptPaths, Registered
<1> QED
  BY <1>1, <1>2, <1>3, <1>4, <1>5, <1>6 DEF Next, Configure, Done, vars, routerVars

\* RouterInv holds in every behaviour of start_rest_server.
THEOREM RouterInvariant == Spec => []RouterInv
  BY InitRouterInv, StepKeepsRouterInv, PTL DEF Spec

\* A server is spawned with the routes of all its handlers, but for those that a
\* handler threw away, or a taken path is wanted and start_rest_server panics
\* before it spawned anything.
THEOREM AllOrPanic == Spec => []AllHandlersOrPanic
<1>1. RouterInv => AllHandlersOrPanic
  <2> SUFFICES ASSUME RouterInv PROVE AllHandlersOrPanic
    OBVIOUS
  <2>1. handlers \in Seq(Handlers) /\ DOMAIN handlers = 1 .. Len(handlers) /\ Len(handlers) \in Nat
    BY DEF RouterInv, Listed
  <2>2. ASSUME phase = "spawned"
        PROVE  /\ \A i \in DOMAIN handlers : ~Clashes(i)
               /\ Registered = {p \in Paths \cup {health, unknown} : Remains(p, Len(handlers))}
    <3>1. next - 1 = Len(handlers) /\ \A i \in DOMAIN handlers : i < next
      BY <2>1, <2>2 DEF RouterInv, Ending
    <3>2. \A p : Remains(p, Len(handlers)) => p \in Paths \cup {health, unknown}
      <4>1. \A i \in 1 .. Len(handlers) : handlers[i].paths \subseteq Paths
        <5>1. \A i \in 1 .. Len(handlers) : handlers[i] \in Handlers
          BY <2>1
        <5> QED
          BY <5>1 DEF Handlers
      <4> QED
        BY <4>1 DEF Remains
    <3>3. \A p : p \in Registered <=> Remains(p, Len(handlers))
      BY <2>2, <3>1 DEF RouterInv, Collected
    <3>4. Registered = {p \in Paths \cup {health, unknown} : Remains(p, Len(handlers))}
      BY <3>2, <3>3
    <3> QED
      BY <2>2, <3>1, <3>4 DEF RouterInv, Collected
  <2>3. ASSUME phase = "panicked" PROVE \E i \in DOMAIN handlers : Clashes(i)
    <3>1. next \in DOMAIN handlers /\ next <= Len(handlers)
      BY <2>1, <2>3 DEF RouterInv, Listed, Ending
    <3>2. Clashes(next)
      BY <2>3, <3>1, ClashIsSeen DEF RouterInv, Ending
    <3> QED
      BY <3>1, <3>2
  <2> QED
    BY <2>2, <2>3 DEF AllHandlersOrPanic
<1> QED
  BY <1>1, RouterInvariant, PTL

-----------------------------------------------------------------------------
(* Sizes are words.                                                         *)

\* The widths, and what depends on them.
LEMMA Widths ==
    /\ UnitBits \in Nat \ {0} /\ FloatBits \in Nat /\ WordBits \in Nat
    /\ 5 * UnitBits <= FloatBits /\ WordBits = FloatBits + UnitBits + 1
    /\ MaxSize \in Nat /\ MaxSize + 1 = 2 ^ WordBits /\ Words = 0 .. MaxSize
    /\ \A u \in Units : Bytes(u) \in Nat \ {0}
<1>1. /\ UnitBits \in Nat \ {0} /\ FloatBits \in Nat /\ WordBits \in Nat
      /\ 5 * UnitBits <= FloatBits /\ WordBits = FloatBits + UnitBits + 1
  BY WidthAssumption DEF WidthAssumption, PIB
<1>2. 2 ^ WordBits \in Nat \ {0}
  BY <1>1, PowerType
<1>3. ASSUME NEW u \in Units PROVE Bytes(u) \in Nat \ {0}
  <2>1. UnitBits * u \in Nat
    BY <1>1 DEF Units, B, PIB
  <2> QED
    BY <2>1, PowerType DEF Bytes
<1> QED
  BY <1>1, <1>2, <1>3 DEF MaxSize, Words

\* Rounding gives an integer.
LEMMA RoundType ==
    ASSUME NEW a \in Int, NEW b \in Nat \ {0}
    PROVE  RoundHalfEven(a, b) \in Int
  BY DEF RoundHalfEven

\* The exponent that FloatFloor takes is a natural number, its result an integer.
LEMMA FloatType ==
    ASSUME NEW a \in Int, NEW b \in Nat \ {0}
    PROVE  FloatFloor(a, b) \in Int
<1> DEFINE scaled == a * 2 ^ FloatBits
           last == WordBits + UnitBits
           T == {last} \cup {x \in 0 .. last : scaled < b * 2 ^ (FloatBits + x)}
           e == Min(T)
<1>1. 2 ^ FloatBits \in Nat \ {0} /\ scaled \in Int /\ last \in Nat
  <2>1. 2 ^ FloatBits \in Nat \ {0}
    BY Widths, PowerType
  <2> QED
    BY <2>1, Widths
<1>2. e \in Nat
  <2>1. T \subseteq Nat /\ T # {}
    BY <1>1
  <2> HIDE DEF T
  <2> QED
    BY <2>1, MinOfNaturals
<1> HIDE DEF e
<1>3. 2 ^ e \in Nat \ {0}
  BY <1>2, PowerType
<1>4. b * 2 ^ e \in Nat \ {0}
  BY <1>3
<1> HIDE DEF scaled
<1>5. RoundHalfEven(scaled, b * 2 ^ e) \in Int
  BY <1>1, <1>4, RoundType
<1>6. RoundHalfEven(scaled, b * 2 ^ e) * 2 ^ e \in Int
  BY <1>3, <1>5
<1>7. (RoundHalfEven(scaled, b * 2 ^ e) * 2 ^ e) \div 2 ^ FloatBits \in Int
  BY <1>1, <1>6, DivMod
<1> QED
  BY <1>7 DEF FloatFloor, scaled, e

\* The cast gives a word.
LEMMA CastType ==
    ASSUME NEW n \in Int
    PROVE  /\ SaturatingCast(n) \in Words
           /\ SaturatingCast(n) = IF n < 0 THEN 0 ELSE IF n <= MaxSize THEN n ELSE MaxSize
<1>1. ASSUME n >= 0 PROVE Min({n, MaxSize}) = IF n <= MaxSize THEN n ELSE MaxSize
  <2>1. {n, MaxSize} \subseteq Nat
    BY <1>1, Widths
  <2>2. Min({n, MaxSize}) \in {n, MaxSize} /\ \A k \in {n, MaxSize} : Min({n, MaxSize}) <= k
    BY <2>1, MinOfNaturals
  <2> QED
    BY <2>1, <2>2
<1> QED
  BY <1>1, Widths DEF SaturatingCast

\* The largest unit in a set of units is in it.
LEMMA LargestUnit ==
    ASSUME NEW S, S \subseteq Units, S # {}
    PROVE  Max(S) \in S /\ Max(S) \in Units /\ \A u \in S : u <= Max(S)
<1>1. S \subseteq 0 .. 5
  BY DEF Units, B, PIB
<1> QED
  BY <1>1, MaxOfNaturals

\* A text with a unit reads as a word.
LEMMA TextType ==
    ASSUME NEW t, t.kind = "string", t.tenths \in Int, t.unit \in Units
    PROVE  Deserialized(t) \in Words
<1>1. Bytes(t.unit) \in Nat \ {0}
  BY Widths
<1>2. t.tenths * Bytes(t.unit) \in Int
  BY <1>1
<1>3. FloatFloor(t.tenths * Bytes(t.unit), 10) \in Int
  BY <1>2, FloatType
<1> QED
  BY <1>3, CastType DEF Deserialized, FromStr

\* What a word is saved as.
LEMMA SavedAs ==
    ASSUME NEW n \in Words
    PROVE  \/ n = 0 /\ Serialized(n) = Sized(0, KIB)
           \/ n # 0 /\ Serialized(n) = Plain(n) /\ \A u \in KIB .. PIB : n % Bytes(u) # 0
           \/ \E u \in KIB .. PIB :
                 n # 0 /\ n % Bytes(u) = 0 /\ Serialized(n) = Sized(10 * (n \div Bytes(u)), u)
<1> DEFINE exact == {u \in KIB .. PIB : n % Bytes(u) = 0}
<1>1. CASE n = 0
  BY <1>1 DEF Serialized
<1>2. CASE n # 0 /\ exact = {}
  BY <1>2 DEF Serialized
<1>3. CASE n # 0 /\ exact # {}
  <2>1. Serialized(n) = Sized(10 * (n \div Bytes(Max(exact))), Max(exact))
    BY <1>3 DEF Serialized
  <2>2. exact \subseteq Units
    BY DEF Units, B, KIB, PIB
  <2> HIDE DEF exact
  <2>3. Max(exact) \in exact
    BY <1>3, <2>2, LargestUnit
  <2> QED
    BY <1>3, <2>1, <2>3 DEF exact
<1> QED
  BY <1>1, <1>2, <1>3

\* What a word is printed as: with the largest unit that is not above it.
LEMMA PrintedAs ==
    ASSUME NEW n \in Words
    PROVE  \E u \in Units :
              /\ u # B => n >= Bytes(u)
              /\ \A v \in Units : n >= Bytes(v) => v <= u
              /\ Displayed(n) =
                    Sized(IF u = B THEN 10 * n
                                   ELSE RoundHalfEven(10 * FloatFloor(n, 1), Bytes(u)), u)
<1> DEFINE S == {B} \cup {u \in Units : n >= Bytes(u)}
<1>1. S \subseteq Units /\ S # {}
  BY DEF Units, B, PIB
<1>2. Displayed(n) = Sized(IF Max(S) = B THEN 10 * n
                           ELSE RoundHalfEven(10 * FloatFloor(n, 1), Bytes(Max(S))), Max(S))
  BY DEF Displayed
<1>3. Max(S) \in S /\ Max(S) \in Units /\ \A u \in S : u <= Max(S)
  <2> HIDE DEF S
  <2> QED
    BY <1>1, LargestUnit
<1> QED
  BY <1>2, <1>3

\* Whatever is done to the configuration leaves a word in it.
LEMMA StepGivesWord == SizeTypeOK /\ SizeStep => SizeTypeOK'
<1> SUFFICES ASSUME SizeTypeOK, SizeStep PROVE size' \in Words
  BY DEF SizeTypeOK
<1> USE DEF SizeTypeOK
<1>1. \A n \in Int : n % 2 ^ WordBits \in Words
  <2>1. 2 ^ WordBits \in Nat \ {0}
    BY Widths, PowerType
  <2> QED
    BY <2>1 DEF Words, MaxSize
<1>2. size \in Nat /\ \A count \in Counts : count \in Nat \ {0}
  BY Widths, CountsAssumption DEF CountsAssumption
<1>3. CASE Make
  <2>1. PICK count \in Counts, unit \in {KIB, MIB, GIB} : size' = Made(count, unit)
    BY <1>3 DEF Make
  <2>2. unit \in Units
    BY DEF Units, B, KIB, MIB, GIB, PIB
  <2>3. Bytes(unit) \in Nat
    BY <2>2, Widths
  <2>4. count * Bytes(unit) \in Int
    BY <1>2, <2>3
  <2> QED
    BY <1>1, <2>1, <2>4 DEF Made
<1>4. CASE Multiply
  <2>1. PICK factor \in Counts : size' = (size * factor) % 2 ^ WordBits
    BY <1>4 DEF Multiply
  <2>2. size * factor \in Int
    BY <1>2
  <2> QED
    BY <1>1, <2>1, <2>2
<1>5. CASE Divide
  <2>1. PICK divisor \in Counts : size' = size \div divisor
    BY <1>5 DEF Divide
  <2>2. size \in Nat /\ divisor \in Nat \ {0}
    BY <1>2
  <2>3. size \div divisor \in 0 .. size
    BY <2>2, QuotientBelow
  <2> QED
    BY <2>1, <2>3, Widths
<1>6. CASE Reload
  <2>1. KIB .. PIB \subseteq Units /\ KIB \in Units
    BY DEF Units, B, KIB, PIB
  <2>2. CASE Serialized(size) = Plain(size)
    BY <1>6, <2>2 DEF Reload, Plain, Deserialized
  <2>3. ASSUME NEW m \in Int, NEW u \in Units, Serialized(size) = Sized(m, u)
         PROVE  size' \in Words
    BY <1>6, <2>3, TextType DEF Reload, Sized
  <2>4. \A u \in KIB .. PIB : 10 * (size \div Bytes(u)) \in Int
    <3> TAKE u \in KIB .. PIB
    <3>1. Bytes(u) \in Nat \ {0}
      BY <2>1, Widths
    <3>2. size \div Bytes(u) \in Int
      BY <1>2, <3>1, DivMod
    <3> QED
      BY <3>2
  <2> QED
    BY <2>1, <2>2, <2>3, <2>4, SavedAs
<1>7. CASE LoadDisplayed
  <2>1. PICK u \in Units :
          Displayed(size) = Sized(IF u = B THEN 10 * size
                                  ELSE RoundHalfEven(10 * FloatFloor(size, 1), Bytes(u)), u)
    BY PrintedAs
  <2>2. FloatFloor(size, 1) \in Int
    BY <1>2, FloatType
  <2>3. Bytes(u) \in Nat \ {0}
    BY Widths
  <2>4. RoundHalfEven(10 * FloatFloor(size, 1), Bytes(u)) \in Int
    BY <2>2, <2>3, RoundType
  <2> QED
    BY <1>2, <1>7, <2>1, <2>4, TextType DEF LoadDisplayed, Sized
<1>8. CASE LoadTyped
  <2>1. PICK t \in Typed : Accepted(t) /\ size' = Deserialized(t)
    BY <1>8 DEF LoadTyped
  <2>2. IsText(t)
    BY TypedAssumption DEF TypedAssumption
  <2>3. CASE t.kind = "number"
    BY <2>1, <2>3 DEF Accepted, Deserialized
  <2>4. CASE t.kind = "string"
    BY <2>1, <2>2, <2>4, TextType DEF IsText, Malformed
  <2> QED
    BY <2>1, <2>3, <2>4 DEF Accepted
<1> QED
  BY <1>3, <1>4, <1>5, <1>6, <1>7, <1>8 DEF SizeStep

\* A default is a word.
LEMMA InitGivesWord == SizeInit => SizeTypeOK
<1> SUFFICES ASSUME NEW count \in Counts PROVE Made(count, MIB) \in Words
  BY DEF SizeInit, SizeTypeOK
<1>1. Bytes(MIB) \in Nat /\ count \in Nat
  BY Widths, CountsAssumption DEF Units, B, MIB, PIB, CountsAssumption
<1>2. 2 ^ WordBits \in Nat \ {0} /\ count * Bytes(MIB) \in Int
  BY <1>1, Widths, PowerType
<1> QED
  BY <1>2 DEF Made, Words, MaxSize

-----------------------------------------------------------------------------
(* Routes.                                                                  *)

\* The route a handler's router gives each path: what it was, with the handler's
\* limit if it wraps the whole router and the path had none; what it brings new.
LEMMA AppliedRoutes ==
    ASSUME NEW h \in Handlers, NEW rs, rs \in [DOMAIN rs -> Route]
    PROVE  LET new == Applied(h, rs)
           IN  /\ new \in [DOMAIN new -> Route]
               /\ \A p \in DOMAIN new :
                     IF p \in KeptPaths(h, rs)
                     THEN new[p] = [limit |-> IF h.whole /\ rs[p].limit = NoLimit
                                              THEN h.limit ELSE rs[p].limit,
                                    cors |-> rs[p].cors]
                     ELSE new[p] = [limit |-> h.limit, cors |-> FALSE]
<1> DEFINE kept == Kept(h, rs)
           keptPaths == KeptPaths(h, rs)
           own == Own(h)
           mine == Limited(own, h.limit)
           all == Merged(kept, own)
           some == Merged(kept, mine)
           new == Applied(h, rs)
           Becomes(p) ==
               IF p \in keptPaths
               THEN new[p] = [limit |-> IF h.whole /\ rs[p].limit = NoLimit
                                        THEN h.limit ELSE rs[p].limit,
                              cors |-> rs[p].cors]
               ELSE new[p] = [limit |-> h.limit, cors |-> FALSE]
<1>1. /\ h.limit \in Words \cup {NoLimit} /\ h.whole \in BOOLEAN
      /\ \A p \in DOMAIN rs : /\ rs[p] = [limit |-> rs[p].limit, cors |-> rs[p].cors]
                              /\ rs[p].limit \in Words \cup {NoLimit} /\ rs[p].cors \in BOOLEAN
  BY DEF Handlers, Route
<1>2. \A p \in DOMAIN own : own[p].limit = NoLimit /\ own[p].cors = FALSE
  BY DEF Own, Bare
<1>3. /\ keptPaths \subseteq DOMAIN rs /\ DOMAIN kept = keptPaths
      /\ \A p \in keptPaths : kept[p] = rs[p]
  BY DEF Kept, KeptPaths
<1>4. new = IF h.whole THEN Limited(all, h.limit) ELSE some
  BY DEF Applied
<1> HIDE DEF own, kept, keptPaths, new
<1>5. DOMAIN mine = DOMAIN own /\ \A p \in DOMAIN own : mine[p] = [limit |-> h.limit, cors |-> FALSE]
  <2>1. DOMAIN mine = DOMAIN own
    BY DEF Limited
  <2>2. ASSUME NEW p \in DOMAIN own PROVE mine[p] = [limit |-> h.limit, cors |-> FALSE]
    <3>1. mine[p] = [limit |-> IF own[p].limit = NoLimit THEN h.limit ELSE own[p].limit,
                     cors |-> own[p].cors]
      BY DEF Limited
    <3>2. own[p].limit = NoLimit /\ own[p].cors = FALSE
      BY <1>2
    <3> QED
      BY <3>1, <3>2
  <2> QED
    BY <2>1, <2>2
<1> HIDE DEF mine
<1>6. /\ all = [p \in keptPaths \cup DOMAIN own |-> IF p \in keptPaths THEN kept[p] ELSE own[p]]
      /\ some = [p \in keptPaths \cup DOMAIN own |-> IF p \in keptPaths THEN kept[p] ELSE mine[p]]
  BY <1>3, <1>5 DEF Merged
<1> HIDE DEF all, some
<1>7. ASSUME h.whole
      PROVE  new = [p \in DOMAIN new |-> new[p]] /\ \A p \in DOMAIN new : Becomes(p)
  <2>1. new = [p \in DOMAIN all |-> [limit |-> IF all[p].limit = NoLimit THEN h.limit ELSE all[p].limit,
                                     cors |-> all[p].cors]]
    BY <1>4, <1>7 DEF Limited
  <2>2. ASSUME NEW p \in DOMAIN new, p \in keptPaths
        PROVE  new[p] = [limit |-> IF h.whole /\ rs[p].limit = NoLimit THEN h.limit ELSE rs[p].limit,
                         cors |-> rs[p].cors]
    <3>1. p \in DOMAIN all /\ all[p] = rs[p]
      BY <1>3, <1>6, <2>1, <2>2
    <3> QED
      BY <1>7, <2>1, <3>1
  <2>3. ASSUME NEW p \in DOMAIN new, p \notin keptPaths
        PROVE  new[p] = [limit |-> h.limit, cors |-> FALSE]
    <3>1. p \in DOMAIN all /\ p \in DOMAIN own /\ all[p] = own[p]
      BY <1>6, <2>1, <2>3
    <3>2. all[p].limit = NoLimit /\ all[p].cors = FALSE
      BY <1>2, <3>1
    <3> QED
      BY <2>1, <3>1, <3>2
  <2>4. new = [p \in DOMAIN new |-> new[p]]
    BY <2>1
  <2> QED
    BY <2>2, <2>3, <2>4
<1>8. ASSUME ~h.whole
      PROVE  new = [p \in DOMAIN new |-> new[p]] /\ \A p \in DOMAIN new : Becomes(p)
  <2>1. new = some /\ new = [p \in DOMAIN new |-> new[p]]
    BY <1>4, <1>6, <1>8
  <2>2. \A p \in DOMAIN new : p \in keptPaths => new[p] = rs[p] /\ p \in DOMAIN rs
    BY <1>3, <1>6, <2>1
  <2>3. \A p \in DOMAIN new : p \notin keptPaths => new[p] = [limit |-> h.limit, cors |-> FALSE]
    BY <1>5, <1>6, <2>1
  <2> QED
    BY <1>1, <1>8, <2>1, <2>2, <2>3
<1>9. new = [p \in DOMAIN new |-> new[p]] /\ \A p \in DOMAIN new : Becomes(p)
  BY <1>7, <1>8
<1>10. ASSUME NEW p \in DOMAIN new PROVE new[p] \in Route
  <2>1. CASE p \in keptPaths
    <3> DEFINE l == IF h.whole /\ rs[p].limit = NoLimit THEN h.limit ELSE rs[p].limit
    <3>1. l \in Words \cup {NoLimit} /\ rs[p].cors \in BOOLEAN
      BY <1>1, <1>3, <2>1
    <3>2. new[p] = [limit |-> l, cors |-> rs[p].cors]
      BY <1>9, <2>1
    <3> HIDE DEF l
    <3> QED
      BY <3>1, <3>2 DEF Route
  <2>2. CASE p \notin keptPaths
    <3>1. new[p] = [limit |-> h.limit, cors |-> FALSE]
      BY <1>9, <2>2
    <3> QED
      BY <1>1, <3>1 DEF Route
  <2> QED
    BY <2>1, <2>2
<1>11. new \in [DOMAIN new -> Route]
  BY <1>9, <1>10
<1> QED
  BY <1>9, <1>11 DEF new, keptPaths

\* What was there before the handlers has the configured limit, and the configured
\* CORS headers once they are added; what handler i brought has the limit of the
\* first handler so far that put one on it.
Guarded ==
    /\ phase = "layering" =>
           /\ Registered = {health, unknown}
           /\ \A p \in Registered : routes[p] = [limit |-> size, cors |-> FALSE]
    /\ phase \in {"registering", "spawned", "panicked"} =>
           \A p \in Registered, i \in 0 .. next - 1 :
               IsOrigin(i, p, next - 1) =>
                   routes[p] = IF i = 0 THEN [limit |-> size, cors |-> cors]
                               ELSE [limit |-> LimitBy(i, next - 1), cors |-> FALSE]

RoutesInv == TypeOK /\ RouterInv /\ Guarded

\* One more handler changes the limit of a route only if there was none.
LEMMA OneMoreLimiter ==
    ASSUME handlers \in Seq(Handlers), NEW n \in Nat, n + 1 <= Len(handlers),
           NEW i \in 1 .. n + 1
    PROVE  LimitBy(i, n + 1) =
               IF LimitBy(i, n) = NoLimit /\ (i = n + 1 \/ handlers[n + 1].whole)
               THEN handlers[n + 1].limit ELSE LimitBy(i, n)
<1> DEFINE old == Limiting(i, n)
           new == Limiting(i, n + 1)
           joins == handlers[n + 1].limit # NoLimit /\ (i = n + 1 \/ handlers[n + 1].whole)
<1>1. old \subseteq Nat /\ \A j \in old : j <= n /\ handlers[j].limit # NoLimit
  BY DEF Limiting
<1>2. new = IF joins THEN old \cup {n + 1} ELSE old
  <2>1. n + 1 \in 1 .. n + 1 /\ \A j \in 1 .. n + 1 : j \in 1 .. n \/ j = n + 1
    OBVIOUS
  <2>2. i \in Int /\ (n + 1 = i \/ n + 1 > i)
    OBVIOUS
  <2> QED
    BY <2>1, <2>2 DEF Limiting
<1> HIDE DEF old, new
<1>3. CASE old = {}
  <2>1. LimitBy(i, n) = NoLimit
    BY <1>3 DEF LimitBy, old
  <2>2. CASE joins
    <3>1. new = {n + 1}
      BY <1>2, <1>3, <2>2
    <3>2. Min(new) = n + 1
      BY <3>1, MinOfNaturals
    <3> QED
      BY <2>1, <2>2, <3>1, <3>2 DEF LimitBy, new
  <2>3. CASE ~joins
    BY <1>2, <1>3, <2>1, <2>3 DEF LimitBy, new
  <2> QED
    BY <2>2, <2>3
<1>4. CASE old # {}
  <2>1. Min(old) \in old /\ \A j \in old : Min(old) <= j
    BY <1>1, <1>4, MinOfNaturals
  <2>2. new \subseteq Nat /\ new # {}
    BY <1>1, <1>2, <1>4
  <2>3. Min(new) \in new /\ \A j \in new : Min(new) <= j
    BY <2>2, MinOfNaturals
  <2>4. Min(new) = Min(old)
    <3>1. Min(old) \in new /\ Min(old) \in Nat /\ Min(new) \in Nat
      BY <1>1, <1>2, <2>1, <2>2, <2>3
    <3>2. Min(old) <= Min(new)
      <4>1. Min(new) \in old \/ Min(new) = n + 1
        BY <1>2, <2>3
      <4>2. Min(old) <= n
        BY <1>1, <2>1
      <4> QED
        BY <2>1, <3>1, <4>1, <4>2
    <3> QED
      BY <2>3, <3>1, <3>2
  <2>5. LimitBy(i, n) = handlers[Min(old)].limit /\ LimitBy(i, n) # NoLimit
    BY <1>1, <1>4, <2>1 DEF LimitBy, old
  <2>6. LimitBy(i, n + 1) = handlers[Min(new)].limit
    BY <2>2 DEF LimitBy, new
  <2> QED
    BY <2>4, <2>5, <2>6
<1> QED
  BY <1>3, <1>4

LEMMA InitRoutesInv == Init => RoutesInv
<1> SUFFICES ASSUME Init PROVE RoutesInv
  OBVIOUS
<1>1. RouterInv
  BY InitRouterInv
<1>2. SizeTypeOK
  BY InitGivesWord DEF Init
<1>3. Registered = {} /\ routes \in [Registered -> Route] /\ Len(handlers) = 0
  BY DEF Init, Registered
<1>4. TypeOK
  BY <1>2, <1>3 DEF Init, TypeOK
<1>5. Guarded
  BY DEF Init, Guarded
<1> QED
  BY <1>1, <1>4, <1>5 DEF RoutesInv

\* What a new handler brings has its own limit, and its limit on the whole router
\* is on every route that had none.
LEMMA RegisterKeepsRoutes ==
    ASSUME RoutesInv, RouterInv', Register
    PROVE  RoutesInv'
<1> DEFINE h == handlers[next]
           n == next - 1
<1> USE DEF RoutesInv
<1>1. /\ handlers \in Seq(Handlers) /\ n \in Nat /\ next = n + 1 /\ n + 1 <= Len(handlers)
      /\ DOMAIN handlers = 1 .. Len(handlers) /\ Len(handlers) \in Nat /\ h \in Handlers
      /\ h.paths \cap KeptPaths(h, routes) = {} /\ routes' = Applied(h, routes) /\ next' = next + 1
      /\ UNCHANGED <<size, phase, cors, handlers>> /\ phase = "registering"
  BY DEF RouterInv, Listed, Register
<1>2. /\ routes' \in [Registered' -> Route]
      /\ \A p \in Registered' :
            IF p \in KeptPaths(h, routes)
            THEN routes'[p] = [limit |-> IF h.whole /\ routes[p].limit = NoLimit
                                         THEN h.limit ELSE routes[p].limit,
                               cors |-> routes[p].cors]
            ELSE routes'[p] = [limit |-> h.limit, cors |-> FALSE]
  <2>1. routes \in [DOMAIN routes -> Route] /\ h \in Handlers
    BY <1>1 DEF TypeOK, Registered
  <2> HIDE DEF h
  <2>2. routes' = Applied(h, routes)
    BY <1>1
  <2> QED
    BY <2>1, <2>2, AppliedRoutes DEF Registered
<1>3. Registered' = KeptPaths(h, routes) \cup {p \in h.paths \cup {unknown} : Brings(h, p)}
  BY <1>1, AppliedPaths DEF Registered
<1>4. KeptPaths(h, routes) \subseteq Registered
  BY DEF KeptPaths, Registered
<1>5. TypeOK'
  <2>1. h.paths \subseteq Paths
    BY <1>1 DEF Handlers
  <2>2. SizeTypeOK'
    BY <1>1 DEF TypeOK, SizeTypeOK
  <2>3. Registered' \subseteq Paths \cup {health, unknown}
    BY <1>3, <1>4, <2>1 DEF TypeOK
  <2> QED
    BY <1>1, <1>2, <2>2, <2>3 DEF TypeOK
<1>6. \A p : p \in KeptPaths(h, routes) => ~Brings(h, p)
  BY <1>1 DEF KeptPaths, Brings
<1>7. ASSUME NEW p \in Registered', NEW i \in 0 .. n + 1, IsOrigin(i, p, n + 1)
      PROVE  routes'[p] = IF i = 0 THEN [limit |-> size, cors |-> cors]
                          ELSE [limit |-> LimitBy(i, n + 1), cors |-> FALSE]
  <2>1. CASE i = n + 1
    <3>1. Brings(h, p) /\ i \in 1 .. n + 1 /\ i # 0
      BY <1>1, <1>7, <2>1 DEF IsOrigin
    <3>2. routes'[p] = [limit |-> h.limit, cors |-> FALSE]
      BY <1>2, <1>6, <3>1
    <3>3. LimitBy(i, n) = NoLimit
      <4>1. Limiting(i, n) = {}
        BY <1>1, <2>1 DEF Limiting
      <4> QED
        BY <4>1 DEF LimitBy
    <3>4. LimitBy(i, n + 1) =
               IF LimitBy(i, n) = NoLimit /\ (i = n + 1 \/ handlers[n + 1].whole)
               THEN handlers[n + 1].limit ELSE LimitBy(i, n)
      BY <1>1, <3>1, OneMoreLimiter
    <3>5. handlers[n + 1] = h
      BY <1>1
    <3>6. LimitBy(i, n + 1) = h.limit
      BY <2>1, <3>3, <3>4, <3>5
    <3> QED
      BY <3>1, <3>2, <3>6
  <2>2. CASE i # n + 1
    <3>1. i \in 0 .. n /\ n + 1 \in i + 1 .. n + 1 /\ i + 1 .. n \subseteq i + 1 .. n + 1
      BY <1>1, <2>2
    <3>2. ~Brings(h, p) /\ IsOrigin(i, p, n)
      BY <1>1, <1>7, <3>1 DEF IsOrigin
    <3>3. p \in KeptPaths(h, routes) /\ p \in Registered
      BY <1>3, <1>4, <3>2
    <3>4. routes'[p] = [limit |-> IF h.whole /\ routes[p].limit = NoLimit
                                  THEN h.limit ELSE routes[p].limit,
                        cors |-> routes[p].cors]
      BY <1>2, <3>3
    <3>5. routes[p] = IF i = 0 THEN [limit |-> size, cors |-> cors]
                      ELSE [limit |-> LimitBy(i, n), cors |-> FALSE]
      BY <1>1, <3>1, <3>2, <3>3 DEF Guarded
    <3>6. CASE i = 0
      <4>1. size # NoLimit
        BY RouterAssumption DEF RouterAssumption, TypeOK, SizeTypeOK
      <4>2. routes[p] = [limit |-> size, cors |-> cors]
        BY <3>5, <3>6
      <4>3. routes[p].limit = size /\ routes[p].cors = cors
        BY <4>2
      <4>4. routes'[p] = [limit |-> size, cors |-> cors]
        BY <3>4, <4>1, <4>3
      <4> QED
        BY <3>6, <4>4
    <3>7. CASE i # 0
      <4>1. i \in 1 .. n + 1
        BY <1>1, <3>1, <3>7
      <4>2. LimitBy(i, n + 1) =
               IF LimitBy(i, n) = NoLimit /\ (i = n + 1 \/ handlers[n + 1].whole)
               THEN handlers[n + 1].limit ELSE LimitBy(i, n)
        BY <1>1, <4>1, OneMoreLimiter
      <4>3. routes[p].limit = LimitBy(i, n) /\ routes[p].cors = FALSE
        BY <3>5, <3>7
      <4>4. handlers[n + 1] = h /\ h.whole \in BOOLEAN
        BY <1>1 DEF Handlers
      <4>5. routes'[p] = [limit |-> LimitBy(i, n + 1), cors |-> FALSE]
        BY <2>2, <3>4, <4>2, <4>3, <4>4
      <4> QED
        BY <3>7, <4>5
    <3> QED
      BY <3>6, <3>7
  <2> QED
    BY <2>1, <2>2
<1>8. Guarded'
  <2>1. \A i, m : LimitBy(i, m)' = LimitBy(i, m)
    BY <1>1 DEF LimitBy, Limiting
  <2>2. next' - 1 = n + 1
    BY <1>1
  <2>3. \A i, p, m : IsOrigin(i, p, m)' <=> IsOrigin(i, p, m)
    BY <1>1 DEF IsOrigin, Brings
  <2> QED
    BY <1>1, <1>7, <2>1, <2>2, <2>3 DEF Guarded
<1> QED
  BY <1>5, <1>8

LEMMA StepKeepsRoutes == RoutesInv /\ RouterInv' /\ [Next]_vars => RoutesInv'
<1> SUFFICES ASSUME RoutesInv, RouterInv', [Next]_vars PROVE RoutesInv'
  OBVIOUS
<1> USE DEF RoutesInv
<1>1. CASE Register
  BY <1>1, RegisterKeepsRoutes
<1>2. CASE Configure
  <2>1. SizeTypeOK'
    BY <1>2, StepGivesWord DEF Configure, TypeOK
  <2>2. TypeOK'
    BY <1>2, <2>1 DEF Configure, routerVars, TypeOK, Registered
  <2> QED
    BY <1>2, <2>2 DEF Configure, routerVars, Guarded
<1>3. CASE Build
  <2> DEFINE own == {health, unknown}
  <2>1. routes' = [p \in own |-> [limit |-> size, cors |-> FALSE]]
    BY <1>3 DEF Build, Limited, Bare
  <2>2. size \in Words /\ size' = size /\ handlers' \in HandlerLists /\ cors' \in BOOLEAN
    BY <1>3 DEF Build, TypeOK, SizeTypeOK
  <2> HIDE DEF own
  <2>3. Registered' = own /\ routes' \in [own -> Route]
    BY <2>1, <2>2 DEF Registered, Route
  <2>4. TypeOK'
    BY <1>3, <2>2, <2>3 DEF own, Build, TypeOK, SizeTypeOK, RouterInv, Listed
  <2>5. Guarded'
    BY <1>3, <2>1, <2>2, <2>3 DEF own, Build, Guarded
  <2> QED
    BY <2>4, <2>5
<1>4. CASE AddCors
  <2>1. /\ routes' = [p \in Registered |-> [limit |-> routes[p].limit, cors |-> cors]]
        /\ phase = "layering" /\ phase' = "registering"
        /\ UNCHANGED <<size, cors, handlers, next>>
    BY <1>4 DEF AddCors
  <2>2. \A p \in Registered : routes[p] \in Route
    BY DEF TypeOK
  <2>3. Registered' = Registered /\ routes' \in [Registered -> Route]
    BY <2>1, <2>2 DEF Registered, Route, TypeOK
  <2>4. TypeOK'
    BY <2>1, <2>3 DEF TypeOK, SizeTypeOK
  <2>5. \A i \in 0 .. next' - 1 : i = 0
    BY <2>1 DEF RouterInv, Listed
  <2>6. \A p \in Registered' : routes'[p] = [limit |-> size, cors |-> cors]
    BY <2>1, <2>3 DEF Guarded
  <2>7. Guarded'
    BY <2>1, <2>5, <2>6 DEF Guarded
  <2> QED
    BY <2>4, <2>7
<1>5. CASE RegisterPanics \/ Spawn \/ UNCHANGED vars
  <2>1. UNCHANGED <<size, cors, handlers, next, routes>>
    BY <1>5 DEF RegisterPanics, Spawn, vars
  <2>2. phase' = phase \/ (phase = "registering" /\ phase' \in {"panicked", "spawned"})
    BY <1>5 DEF RegisterPanics, Spawn, vars
  <2>3. TypeOK'
    BY <2>1, <2>2 DEF TypeOK, SizeTypeOK, Registered
  <2>4. \A i, m : LimitBy(i, m)' = LimitBy(i, m)
    BY <2>1 DEF LimitBy, Limiting
  <2>5. \A i, p, m : IsOrigin(i, p, m)' <=> IsOrigin(i, p, m)
    BY <2>1 DEF IsOrigin, Brings
  <2>6. Guarded'
    BY <2>1, <2>2, <2>4, <2>5 DEF Guarded, Registered
  <2> QED
    BY <2>3, <2>6
<1> QED
  BY <1>1, <1>2, <1>3, <1>4, <1>5 DEF Next, Done

THEOREM RoutesInvariant == Spec => []RoutesInv
  BY InitRoutesInv, StepKeepsRoutes, RouterInvariant, PTL DEF Spec

\* The configuration and the router keep their types, whatever the widths, the
\* sizes and the handlers.
THEOREM RouterTypeCorrect == Spec => []TypeOK
  BY RoutesInvariant, PTL DEF RoutesInv

\* The limit and the CORS headers of every route of a spawned server are what the
\* order of the handlers makes them.
THEOREM RoutesAreLayered == Spec => []RoutesAsLayered
<1>1. RoutesInv => RoutesAsLayered
  <2> SUFFICES ASSUME RoutesInv, phase = "spawned" PROVE RoutesAsLayered
    BY DEF RoutesAsLayered
  <2>1. next - 1 = Len(handlers)
    BY DEF RoutesInv, RouterInv, Listed, Ending
  <2> QED
    BY <2>1 DEF RoutesInv, Guarded, RoutesAsLayered
<1> QED
  BY <1>1, RoutesInvariant, PTL

-----------------------------------------------------------------------------
(* Rounding.                                                                *)

\* A multiple is not rounded.
LEMMA RoundExact ==
    ASSUME NEW q \in Nat, NEW b \in Nat \ {0}
    PROVE  RoundHalfEven(q * b, b) = q
<1>1. (q * b) \div b = q /\ (q * b) % b = 0
  BY QuotientExact
<1> QED
  BY <1>1 DEF RoundHalfEven

\* Rounding is off by at most half a unit.
LEMMA RoundNear ==
    ASSUME NEW a \in Nat, NEW b \in Nat \ {0}
    PROVE  /\ RoundHalfEven(a, b) \in Nat
           /\ 2 * a <= 2 * (RoundHalfEven(a, b) * b) + b
           /\ 2 * (RoundHalfEven(a, b) * b) <= 2 * a + b
<1> DEFINE q == a \div b
           r == a % b
<1>1. q \in Nat /\ r \in 0 .. b - 1 /\ a = q * b + r
  BY NatDivMod
<1>2. RoundHalfEven(a, b) = IF 2 * r > b \/ (2 * r = b /\ q % 2 = 1) THEN q + 1 ELSE q
  BY DEF RoundHalfEven
<1> HIDE DEF q, r
<1>3. (q + 1) * b = q * b + b /\ q * b \in Nat
  BY <1>1
<1> QED
  BY <1>1, <1>2, <1>3

\* A larger number is not rounded to less.
LEMMA RoundMonotone ==
    ASSUME NEW a \in Nat, NEW c \in Nat, a <= c, NEW b \in Nat \ {0}
    PROVE  RoundHalfEven(a, b) <= RoundHalfEven(c, b)
<1> DEFINE p == a \div b
           r == a % b
           q == c \div b
           s == c % b
<1>1. /\ p \in Nat /\ r \in 0 .. b - 1 /\ a = p * b + r
      /\ q \in Nat /\ s \in 0 .. b - 1 /\ c = q * b + s
  BY NatDivMod
<1>2. p <= q
  BY DivMonotone
<1>3. /\ RoundHalfEven(a, b) = IF 2 * r > b \/ (2 * r = b /\ p % 2 = 1) THEN p + 1 ELSE p
      /\ RoundHalfEven(c, b) = IF 2 * s > b \/ (2 * s = b /\ q % 2 = 1) THEN q + 1 ELSE q
  BY DEF RoundHalfEven
<1> HIDE DEF p, q, r, s
<1>4. CASE p < q
  BY <1>1, <1>3, <1>4
<1>5. CASE p = q
  <2>1. r <= s
    BY <1>1, <1>5
  <2> QED
    BY <1>1, <1>3, <1>5, <2>1
<1> QED
  BY <1>1, <1>2, <1>4, <1>5

\* A common factor does not change the rounding.
LEMMA RoundScale ==
    ASSUME NEW a \in Nat, NEW b \in Nat \ {0}, NEW c \in Nat \ {0}
    PROVE  RoundHalfEven(a * c, b * c) = RoundHalfEven(a, b)
<1> DEFINE q == a \div b
           r == a % b
<1>1. (a * c) \div (b * c) = q /\ (a * c) % (b * c) = r * c
  BY QuotientScale
<1>2. q \in Nat /\ r \in 0 .. b - 1
  BY NatDivMod
<1>3. /\ RoundHalfEven(a, b) = IF 2 * r > b \/ (2 * r = b /\ q % 2 = 1) THEN q + 1 ELSE q
      /\ RoundHalfEven(a * c, b * c) =
            IF 2 * (r * c) > b * c \/ (2 * (r * c) = b * c /\ q % 2 = 1) THEN q + 1 ELSE q
  BY <1>1 DEF RoundHalfEven
<1> HIDE DEF q, r
<1>4. 2 * (r * c) = (2 * r) * c /\ r \in Nat /\ 2 * r \in Nat /\ b \in Nat
  BY <1>2
<1>5. (2 * r) * c <= b * c <=> 2 * r <= b
  BY <1>4, ProductCancel, ProductMonotone
<1>6. b * c <= (2 * r) * c <=> b <= 2 * r
  BY <1>4, ProductCancel, ProductMonotone
<1>7. (2 * r) * c \in Nat /\ b * c \in Nat
  BY <1>4
<1> QED
  BY <1>3, <1>4, <1>5, <1>6, <1>7

\* The power of two that a / b is below.
Exponent(a, b) == Min({x \in 0 .. WordBits + 1 : a < b * 2 ^ x})

LEMMA ExponentIs ==
    ASSUME NEW a \in Nat, NEW b \in Nat \ {0}, a <= b * 2 ^ WordBits
    PROVE  /\ Exponent(a, b) \in 0 .. WordBits + 1 /\ a < b * 2 ^ Exponent(a, b)
           /\ \A x \in Nat : a < b * 2 ^ x => Exponent(a, b) <= x
<1> DEFINE T == {x \in 0 .. WordBits + 1 : a < b * 2 ^ x}
<1>1. WordBits \in Nat /\ 2 ^ WordBits \in Nat \ {0}
  BY Widths, PowerType
<1>2. 2 ^ (WordBits + 1) = 2 * 2 ^ WordBits
  BY <1>1, PowerStep
<1>3. b * (2 * 2 ^ WordBits) > b * 2 ^ WordBits
  <2> DEFINE p == 2 ^ WordBits
  <2>1. p \in Nat \ {0}
    BY <1>1
  <2> HIDE DEF p
  <2>2. (2 * p) * b > p * b
    BY <2>1, ProductOrder
  <2> QED
    BY <2>1, <2>2 DEF p
<1>4. a < b * (2 * 2 ^ WordBits)
  <2>1. b * 2 ^ WordBits \in Int /\ b * (2 * 2 ^ WordBits) \in Int
    BY <1>1
  <2> QED
    BY <1>3, <2>1
<1>5. WordBits + 1 \in T
  BY <1>1, <1>2, <1>4
<1>6. T \subseteq Nat /\ \A x \in T : x <= WordBits + 1
  BY <1>1
<1>7. Min(T) \in T /\ \A x \in T : Min(T) <= x
  <2> HIDE DEF T
  <2> QED
    BY <1>5, <1>6, MinOfNaturals
<1>8. \A x \in Nat : a < b * 2 ^ x => Min(T) <= x
  <2> TAKE x \in Nat
  <2> HAVE a < b * 2 ^ x
  <2>1. CASE x <= WordBits + 1
    BY <1>1, <1>7, <2>1
  <2>2. CASE x > WordBits + 1
    BY <1>1, <1>6, <1>7, <2>2
  <2> QED
    BY <1>1, <2>1, <2>2
<1> QED
  BY <1>7, <1>8 DEF Exponent

\* FloatFloor tries the same powers of two as Exponent.
LEMMA FloatExponent ==
    ASSUME NEW a \in Nat, NEW b \in Nat \ {0}, a <= b * 2 ^ WordBits
    PROVE  Min({WordBits + UnitBits}
                 \cup {x \in 0 .. WordBits + UnitBits :
                            a * 2 ^ FloatBits < b * 2 ^ (FloatBits + x)})
             = Exponent(a, b)
<1> DEFINE last == WordBits + UnitBits
           S == {x \in 0 .. last : a * 2 ^ FloatBits < b * 2 ^ (FloatBits + x)}
           T == {last} \cup S
           e == Exponent(a, b)
<1>1. /\ WordBits \in Nat /\ UnitBits \in Nat \ {0} /\ FloatBits \in Nat
      /\ 2 ^ FloatBits \in Nat \ {0}
  BY Widths, PowerType
<1>2. e \in Nat /\ e <= last /\ a < b * 2 ^ e /\ \A x \in Nat : a < b * 2 ^ x => e <= x
  BY <1>1, ExponentIs
<1>3. \A x \in Nat : a * 2 ^ FloatBits < b * 2 ^ (FloatBits + x) <=> a < b * 2 ^ x
  <2> TAKE x \in Nat
  <2> DEFINE p == 2 ^ x
             f == 2 ^ FloatBits
  <2>1. 2 ^ (FloatBits + x) = f * p /\ p \in Nat \ {0} /\ f \in Nat \ {0}
    BY <1>1, PowerSum, PowerType
  <2> HIDE DEF p, f
  <2>2. b * (f * p) = (b * p) * f /\ b * p \in Int
    BY <2>1
  <2>3. a * f < (b * p) * f <=> a < b * p
    BY <2>1, <2>2, ProductOrder
  <2> QED
    BY <2>1, <2>2, <2>3 DEF p, f
<1> HIDE DEF e
<1>4. last \in Nat
  BY <1>1
<1>5. e \in S /\ \A x \in S : e <= x
  <2>1. S \subseteq Nat /\ e \in 0 .. last
    BY <1>2, <1>4
  <2> QED
    BY <1>2, <1>3, <2>1
<1>6. T \subseteq Nat /\ e \in T /\ \A x \in T : e <= x
  BY <1>2, <1>4, <1>5
<1> HIDE DEF T
<1>7. Min(T) \in T /\ \A x \in T : Min(T) <= x
  BY <1>6, MinOfNaturals
<1>8. Min(T) = e
  <2>1. Min(T) \in Nat /\ e <= Min(T) /\ Min(T) <= e
    BY <1>6, <1>7
  <2> QED
    BY <1>2, <2>1
<1> QED
  BY <1>8 DEF T, e

\* The float nearest to a / b, by how large a / b is: with FloatBits - e places
\* below the point, or with e - FloatBits places above it rounded away.
LEMMA FloatFloorIs ==
    ASSUME NEW a \in Nat, NEW b \in Nat \ {0}, a <= b * 2 ^ WordBits
    PROVE  LET e == Exponent(a, b)
           IN  /\ e <= FloatBits =>
                     FloatFloor(a, b) =
                        RoundHalfEven(a * 2 ^ (FloatBits - e), b) \div 2 ^ (FloatBits - e)
               /\ e > FloatBits =>
                     FloatFloor(a, b) =
                        RoundHalfEven(a, b * 2 ^ (e - FloatBits)) * 2 ^ (e - FloatBits)
<1> DEFINE e == Exponent(a, b)
           f == 2 ^ FloatBits
           p == 2 ^ e
<1>1. FloatFloor(a, b) = (RoundHalfEven(a * f, b * p) * p) \div f
  BY FloatExponent DEF FloatFloor
<1>2. FloatBits \in Nat /\ e \in Nat
  BY Widths, ExponentIs
<1>3. f \in Nat \ {0} /\ p \in Nat \ {0}
  BY <1>2, PowerType
<1>4. ASSUME e <= FloatBits
      PROVE  FloatFloor(a, b) =
                 RoundHalfEven(a * 2 ^ (FloatBits - e), b) \div 2 ^ (FloatBits - e)
  <2> DEFINE g == 2 ^ (FloatBits - e)
  <2>1. FloatBits - e \in Nat /\ (FloatBits - e) + e = FloatBits
    BY <1>2, <1>4
  <2>2. g \in Nat \ {0} /\ f = g * p
    BY <1>2, <2>1, PowerType, PowerSum
  <2> HIDE DEF e, f, p, g
  <2>3. a * f = (a * g) * p /\ a * g \in Nat
    BY <1>3, <2>2
  <2>4. RoundHalfEven((a * g) * p, b * p) = RoundHalfEven(a * g, b)
    BY <1>3, <2>3, RoundScale
  <2>5. RoundHalfEven(a * g, b) \in Nat
    BY <2>3, RoundNear
  <2>6. (RoundHalfEven(a * g, b) * p) \div (g * p) = RoundHalfEven(a * g, b) \div g
    BY <1>3, <2>2, <2>5, QuotientScale
  <2> QED
    BY <1>1, <2>2, <2>3, <2>4, <2>6 DEF g
<1>5. ASSUME e > FloatBits
      PROVE  FloatFloor(a, b) = RoundHalfEven(a, b * 2 ^ (e - FloatBits)) * 2 ^ (e - FloatBits)
  <2> DEFINE g == 2 ^ (e - FloatBits)
  <2>1. e - FloatBits \in Nat /\ (e - FloatBits) + FloatBits = e
    BY <1>2, <1>5
  <2>2. g \in Nat \ {0} /\ p = g * f
    BY <1>2, <2>1, PowerType, PowerSum
  <2> HIDE DEF e, f, p, g
  <2>3. b * p = (b * g) * f /\ b * g \in Nat \ {0}
    BY <1>3, <2>2
  <2>4. RoundHalfEven(a * f, (b * g) * f) = RoundHalfEven(a, b * g)
    BY <1>3, <2>3, RoundScale
  <2> DEFINE r == RoundHalfEven(a, b * g)
  <2>5. r \in Nat
    BY <2>3, RoundNear
  <2> HIDE DEF r
  <2>6. r * p = (r * g) * f /\ r * g \in Nat
    BY <1>3, <2>2, <2>5
  <2>7. ((r * g) * f) \div f = r * g
    <3> DEFINE y == r * g
    <3> HIDE DEF y
    <3>1. y \in Nat => (y * f) \div f = y
      BY <1>3, QuotientExact
    <3> QED
      BY <2>6, <3>1 DEF y
  <2> QED
    BY <1>1, <2>3, <2>4, <2>6, <2>7 DEF g, r
<1> QED
  BY <1>4, <1>5

\* The float nearest to a whole number.
Nearest(n) ==
    LET e == Exponent(n, 1)
    IN  IF e <= FloatBits THEN n
        ELSE RoundHalfEven(n, 2 ^ (e - FloatBits)) * 2 ^ (e - FloatBits)

\* The numbers that are words, and the one behind them.
Sizes == 0 .. 2 ^ WordBits

LEMMA SizesAreNatural == Sizes \subseteq Nat /\ Words \subseteq Sizes /\ MaxSize + 1 \in Sizes
<1>1. 2 ^ WordBits \in Nat
  BY Widths, PowerType
<1> QED
  BY <1>1, Widths DEF Sizes

LEMMA NearestIs ==
    ASSUME NEW n \in Sizes
    PROVE  \E e \in Nat :
              /\ n < 2 ^ e /\ \A x \in Nat : n < 2 ^ x => e <= x
              /\ e <= FloatBits => Nearest(n) = n
              /\ e > FloatBits =>
                    Nearest(n) = RoundHalfEven(n, 2 ^ (e - FloatBits)) * 2 ^ (e - FloatBits)
<1> DEFINE e == Exponent(n, 1)
<1>1. \A x \in Nat : 1 * 2 ^ x = 2 ^ x
  BY PowerType
<1>2. n \in Nat /\ n <= 1 * 2 ^ WordBits
  BY <1>1, Widths, SizesAreNatural DEF Sizes
<1>3. e \in 0 .. WordBits + 1 /\ n < 1 * 2 ^ e /\ \A x \in Nat : n < 1 * 2 ^ x => e <= x
  BY <1>2, ExponentIs
<1>4. e \in Nat
  BY <1>3, Widths
<1>5. /\ e <= FloatBits => Nearest(n) = n
      /\ e > FloatBits =>
            Nearest(n) = RoundHalfEven(n, 2 ^ (e - FloatBits)) * 2 ^ (e - FloatBits)
  BY <1>4, Widths DEF Nearest
<1> HIDE DEF e
<1> QED
  BY <1>1, <1>3, <1>4, <1>5

\* FloatFloor of a fraction that is a whole number is the float nearest to it.
LEMMA FloatOfWhole ==
    ASSUME NEW n \in Sizes, NEW b \in Nat \ {0}
    PROVE  FloatFloor(b * n, b) = Nearest(n)
<1> DEFINE a == b * n
           e == Exponent(a, b)
           d == Exponent(n, 1)
<1>1. n \in Nat /\ a \in Nat /\ FloatBits \in Nat /\ n <= 2 ^ WordBits /\ 2 ^ WordBits \in Nat
  BY SizesAreNatural, Widths, PowerType DEF Sizes
<1>2. \A x \in Nat : (a < b * 2 ^ x <=> n < 1 * 2 ^ x) /\ 1 * 2 ^ x = 2 ^ x /\ 2 ^ x \in Nat
  <2> TAKE x \in Nat
  <2> DEFINE p == 2 ^ x
  <2>1. p \in Nat /\ n \in Int
    BY <1>1, PowerType
  <2> HIDE DEF p
  <2>2. n * b < p * b <=> n < p
    BY <2>1, ProductOrder
  <2> QED
    BY <2>1, <2>2 DEF p
<1>3. a <= b * 2 ^ WordBits
  <2> DEFINE p == 2 ^ WordBits
  <2>1. p \in Nat /\ n <= p
    BY <1>1
  <2> HIDE DEF p
  <2>2. p * b >= n * b
    BY <1>1, <2>1, ProductMonotone
  <2>3. p * b = b * p /\ n * b = b * n /\ p * b \in Int
    BY <1>1, <2>1
  <2> QED
    BY <2>2, <2>3 DEF p
<1>4. n <= 1 * 2 ^ WordBits
  BY <1>1
<1>5. /\ e \in 0 .. WordBits + 1 /\ a < b * 2 ^ e
      /\ \A x \in Nat : a < b * 2 ^ x => e <= x
  BY <1>1, <1>3, ExponentIs
<1>6. /\ d \in 0 .. WordBits + 1 /\ n < 1 * 2 ^ d
      /\ \A x \in Nat : n < 1 * 2 ^ x => d <= x
  BY <1>1, <1>4, ExponentIs
<1>7. e \in Nat /\ d \in Nat
  BY <1>5, <1>6, Widths
<1>8. e = d
  <2> HIDE DEF a, e, d
  <2>1. e <= d /\ d <= e
    BY <1>2, <1>5, <1>6, <1>7
  <2> QED
    BY <1>7, <2>1
<1>9. CASE e <= FloatBits
  <2> DEFINE g == 2 ^ (FloatBits - e)
  <2>1. FloatFloor(a, b) = RoundHalfEven(a * g, b) \div g
    BY <1>1, <1>3, <1>9, FloatFloorIs
  <2>2. g \in Nat \ {0}
    BY <1>1, <1>7, <1>9, PowerType
  <2> HIDE DEF g
  <2>3. a * g = (n * g) * b /\ n * g \in Nat
    BY <1>1, <2>2
  <2>4. RoundHalfEven((n * g) * b, b) = n * g
    BY <2>3, RoundExact
  <2>5. (n * g) \div g = n
    BY <1>1, <2>2, QuotientExact
  <2> QED
    BY <1>8, <1>9, <2>1, <2>3, <2>4, <2>5 DEF Nearest
<1>10. CASE e > FloatBits
  <2> DEFINE g == 2 ^ (e - FloatBits)
  <2>1. FloatFloor(a, b) = RoundHalfEven(a, b * g) * g
    BY <1>1, <1>3, <1>10, FloatFloorIs
  <2>2. g \in Nat \ {0}
    BY <1>1, <1>7, <1>10, PowerType
  <2>3. Nearest(n) = RoundHalfEven(n, g) * g
    BY <1>1, <1>7, <1>8, <1>10 DEF Nearest
  <2> HIDE DEF g
  <2>4. a = n * b /\ b * g = g * b
    BY <1>1, <2>2
  <2>5. RoundHalfEven(n * b, g * b) = RoundHalfEven(n, g)
    BY <1>1, <2>2, RoundScale
  <2> QED
    BY <2>1, <2>3, <2>4, <2>5
<1> QED
  BY <1>1, <1>7, <1>9, <1>10

\* A number with at most FloatBits significant bits is a float.
LEMMA NearestExact ==
    ASSUME NEW n \in Sizes, NEW q \in Nat, NEW k \in Nat, n = q * 2 ^ k,
           n < 2 ^ (FloatBits + k)
    PROVE  Nearest(n) = n
<1>1. PICK e \in Nat :
              /\ n < 2 ^ e /\ \A x \in Nat : n < 2 ^ x => e <= x
              /\ e <= FloatBits => Nearest(n) = n
              /\ e > FloatBits =>
                    Nearest(n) = RoundHalfEven(n, 2 ^ (e - FloatBits)) * 2 ^ (e - FloatBits)
  BY NearestIs
<1>2. FloatBits \in Nat /\ FloatBits + k \in Nat
  BY Widths
<1>3. e <= FloatBits + k
  BY <1>1, <1>2
<1>4. CASE e > FloatBits
  <2> DEFINE j == e - FloatBits
             g == 2 ^ j
             h == 2 ^ (k - j)
  <2>1. j \in Nat /\ k - j \in Nat /\ (k - j) + j = k
    BY <1>2, <1>3, <1>4
  <2>2. g \in Nat \ {0} /\ h \in Nat \ {0} /\ 2 ^ k = h * g
    BY <2>1, PowerType, PowerSum
  <2>3. Nearest(n) = RoundHalfEven(n, g) * g
    BY <1>1, <1>4
  <2> HIDE DEF g, h
  <2>4. n = (q * h) * g /\ q * h \in Nat
    BY <2>2
  <2>5. RoundHalfEven((q * h) * g, g) = q * h
    BY <2>2, <2>4, RoundExact
  <2> QED
    BY <2>3, <2>4, <2>5
<1> QED
  BY <1>1, <1>2, <1>4

\* Below 2^(FloatBits + k) the nearest float is at most half of 2^k away.
LEMMA NearestNear ==
    ASSUME NEW n \in Sizes, NEW k \in Nat, n < 2 ^ (FloatBits + k)
    PROVE  /\ Nearest(n) \in Nat
           /\ 2 * n <= 2 * Nearest(n) + 2 ^ k /\ 2 * Nearest(n) <= 2 * n + 2 ^ k
<1>1. PICK e \in Nat :
              /\ n < 2 ^ e /\ \A x \in Nat : n < 2 ^ x => e <= x
              /\ e <= FloatBits => Nearest(n) = n
              /\ e > FloatBits =>
                    Nearest(n) = RoundHalfEven(n, 2 ^ (e - FloatBits)) * 2 ^ (e - FloatBits)
  BY NearestIs
<1>2. FloatBits \in Nat /\ FloatBits + k \in Nat /\ n \in Nat /\ 2 ^ k \in Nat
  BY Widths, SizesAreNatural, PowerType
<1>3. e <= FloatBits + k
  BY <1>1, <1>2
<1>4. CASE e > FloatBits
  <2> DEFINE g == 2 ^ (e - FloatBits)
             r == RoundHalfEven(n, g)
  <2>1. e - FloatBits \in Nat /\ e - FloatBits <= k
    BY <1>2, <1>3, <1>4
  <2>2. g \in Nat \ {0} /\ g <= 2 ^ k
    BY <2>1, PowerType, PowerMonotone
  <2>3. Nearest(n) = r * g
    BY <1>1, <1>4
  <2> HIDE DEF g
  <2>4. r \in Nat /\ 2 * n <= 2 * (r * g) + g /\ 2 * (r * g) <= 2 * n + g
    BY <1>2, <2>2, RoundNear
  <2> HIDE DEF r
  <2>5. r * g \in Nat
    BY <2>2, <2>4
  <2> QED
    BY <1>2, <2>2, <2>3, <2>4, <2>5
<1>5. CASE e <= FloatBits
  BY <1>1, <1>2, <1>5
<1> QED
  BY <1>2, <1>4, <1>5

\* From 2^(FloatBits + k - 1) on, the nearest float is a multiple of 2^k.
LEMMA NearestLarge ==
    ASSUME NEW n \in Sizes, NEW k \in Nat \ {0},
           2 ^ (FloatBits + k - 1) <= n, n < 2 ^ (FloatBits + k)
    PROVE  Nearest(n) = RoundHalfEven(n, 2 ^ k) * 2 ^ k
<1>1. PICK e \in Nat :
              /\ n < 2 ^ e /\ \A x \in Nat : n < 2 ^ x => e <= x
              /\ e <= FloatBits => Nearest(n) = n
              /\ e > FloatBits =>
                    Nearest(n) = RoundHalfEven(n, 2 ^ (e - FloatBits)) * 2 ^ (e - FloatBits)
  BY NearestIs
<1>2. /\ FloatBits \in Nat /\ FloatBits + k \in Nat /\ FloatBits + k - 1 \in Nat /\ n \in Nat
      /\ 2 ^ e \in Nat /\ 2 ^ (FloatBits + k - 1) \in Nat
  <2>1. FloatBits \in Nat /\ FloatBits + k \in Nat /\ FloatBits + k - 1 \in Nat /\ n \in Nat
    BY Widths, SizesAreNatural
  <2> QED
    BY <2>1, PowerType
<1>3. e <= FloatBits + k
  BY <1>1, <1>2
<1>4. ~ (e <= FloatBits + k - 1)
  <2> SUFFICES ASSUME e <= FloatBits + k - 1 PROVE FALSE
    OBVIOUS
  <2>1. 2 ^ e <= 2 ^ (FloatBits + k - 1)
    BY <1>2, PowerMonotone
  <2> QED
    BY <1>1, <1>2, <2>1
<1>5. e - FloatBits = k /\ e > FloatBits
  BY <1>2, <1>3, <1>4
<1> QED
  BY <1>1, <1>5

\* A larger number has no smaller nearest float.
LEMMA NearestMonotone ==
    ASSUME NEW n \in Sizes, NEW m \in Sizes, n <= m
    PROVE  Nearest(n) <= Nearest(m)
<1>1. PICK e \in Nat :
              /\ n < 2 ^ e /\ \A x \in Nat : n < 2 ^ x => e <= x
              /\ e <= FloatBits => Nearest(n) = n
              /\ e > FloatBits =>
                    Nearest(n) = RoundHalfEven(n, 2 ^ (e - FloatBits)) * 2 ^ (e - FloatBits)
  BY NearestIs
<1>2. PICK d \in Nat :
              /\ m < 2 ^ d /\ \A x \in Nat : m < 2 ^ x => d <= x
              /\ d <= FloatBits => Nearest(m) = m
              /\ d > FloatBits =>
                    Nearest(m) = RoundHalfEven(m, 2 ^ (d - FloatBits)) * 2 ^ (d - FloatBits)
  BY NearestIs
<1>3. /\ FloatBits \in Nat \ {0} /\ n \in Nat /\ m \in Nat
      /\ 2 ^ e \in Nat \ {0} /\ 2 ^ d \in Nat \ {0}
  BY Widths, SizesAreNatural, PowerType
<1>4. e <= d
  BY <1>1, <1>2, <1>3
<1>5. CASE e = d
  <2>1. CASE e <= FloatBits
    BY <1>1, <1>2, <1>5, <2>1
  <2>2. CASE e > FloatBits
    <3> DEFINE g == 2 ^ (e - FloatBits)
               r == RoundHalfEven(n, g)
               s == RoundHalfEven(m, g)
    <3>1. g \in Nat \ {0}
      BY <1>3, <2>2, PowerType
    <3>2. Nearest(n) = r * g /\ Nearest(m) = s * g
      BY <1>1, <1>2, <1>5, <2>2
    <3> HIDE DEF g
    <3>3. r \in Nat /\ s \in Nat /\ r <= s
      BY <1>3, <3>1, RoundNear, RoundMonotone
    <3> HIDE DEF r, s
    <3>4. s * g >= r * g
      BY <3>1, <3>3, ProductMonotone
    <3>5. s * g \in Int /\ r * g \in Int
      BY <3>1, <3>3
    <3> QED
      BY <3>2, <3>4, <3>5
  <2> QED
    BY <1>3, <2>1, <2>2
<1>6. CASE e < d
  <2>1. Nearest(n) \in Nat /\ Nearest(n) <= 2 ^ e
    <3>1. CASE e <= FloatBits
      BY <1>1, <1>3, <3>1
    <3>2. CASE e > FloatBits
      <4> DEFINE g == 2 ^ (e - FloatBits)
                 f == 2 ^ FloatBits
                 r == RoundHalfEven(n, g)
      <4>1. e - FloatBits \in Nat /\ FloatBits + (e - FloatBits) = e
        BY <1>3, <3>2
      <4>2. g \in Nat \ {0} /\ f \in Nat \ {0} /\ 2 ^ e = f * g
        <5> DEFINE j == e - FloatBits
        <5>1. j \in Nat /\ FloatBits \in Nat /\ FloatBits + j = e
          BY <1>3, <4>1
        <5> HIDE DEF j
        <5>2. 2 ^ j \in Nat \ {0} /\ f \in Nat \ {0} /\ 2 ^ (FloatBits + j) = f * 2 ^ j
          BY <5>1, PowerType, PowerSum
        <5> QED
          BY <5>1, <5>2 DEF j
      <4>3. Nearest(n) = r * g
        BY <1>1, <3>2
      <4>4. n <= f * g
        BY <1>1, <1>3, <4>2
      <4> HIDE DEF g, f
      <4>5. r \in Nat /\ r <= f
        <5>1. f * g \in Nat
          BY <4>2
        <5>2. r \in Nat
          BY <1>3, <4>2, RoundNear
        <5>3. RoundHalfEven(f * g, g) = f
          BY <4>2, RoundExact
        <5>4. r <= RoundHalfEven(f * g, g)
          BY <1>3, <4>2, <4>4, <5>1, RoundMonotone
        <5> QED
          BY <5>2, <5>3, <5>4
      <4> HIDE DEF r
      <4>6. f * g >= r * g /\ r * g \in Nat /\ f * g \in Nat
        BY <4>2, <4>5, ProductMonotone
      <4> QED
        BY <4>2, <4>3, <4>6
    <3> QED
      BY <1>3, <3>1, <3>2
  <2>2. d - 1 \in Nat /\ e <= d - 1
    BY <1>6
  <2>3. 2 ^ (d - 1) <= m /\ 2 ^ (d - 1) \in Nat /\ 2 ^ e <= 2 ^ (d - 1)
    <3>1. 2 ^ (d - 1) \in Nat /\ 2 ^ e <= 2 ^ (d - 1)
      BY <2>2, PowerType, PowerMonotone
    <3>2. ~ (m < 2 ^ (d - 1))
      BY <1>2, <2>2
    <3> QED
      BY <1>3, <3>1, <3>2
  <2>4. Nearest(m) \in Nat /\ 2 ^ (d - 1) <= Nearest(m)
    <3>1. CASE d <= FloatBits
      BY <1>2, <1>3, <2>3, <3>1
    <3>2. CASE d > FloatBits
      <4> DEFINE g == 2 ^ (d - FloatBits)
                 f == 2 ^ (FloatBits - 1)
                 r == RoundHalfEven(m, g)
      <4>1. /\ d - FloatBits \in Nat /\ FloatBits - 1 \in Nat
            /\ (FloatBits - 1) + (d - FloatBits) = d - 1
        BY <1>3, <3>2
      <4>2. g \in Nat \ {0} /\ f \in Nat \ {0} /\ 2 ^ (d - 1) = f * g
        BY <1>3, <4>1, PowerType, PowerSum
      <4>3. Nearest(m) = r * g
        BY <1>2, <3>2
      <4>4. f * g <= m
        BY <2>3, <4>2
      <4> HIDE DEF g, f
      <4>5. r \in Nat /\ f <= r
        <5>1. f * g \in Nat
          BY <4>2
        <5>2. r \in Nat
          BY <1>3, <4>2, RoundNear
        <5>3. RoundHalfEven(f * g, g) = f
          BY <4>2, RoundExact
        <5>4. RoundHalfEven(f * g, g) <= r
          BY <1>3, <4>2, <4>4, <5>1, RoundMonotone
        <5> QED
          BY <5>2, <5>3, <5>4
      <4> HIDE DEF r
      <4>6. r * g >= f * g /\ r * g \in Nat /\ f * g \in Nat
        BY <4>2, <4>5, ProductMonotone
      <4> QED
        BY <4>2, <4>3, <4>6
    <3> QED
      BY <1>3, <3>1, <3>2
  <2> QED
    BY <1>3, <2>1, <2>3, <2>4
<1> QED
  BY <1>4, <1>5, <1>6

\* A power of two is a float, and rounding does not pass it.
LEMMA NearestPower ==
    ASSUME NEW m \in Nat, m <= WordBits, NEW n \in Sizes
    PROVE  /\ Nearest(n) \in Nat
           /\ n <= 2 ^ m => Nearest(n) <= 2 ^ m
           /\ n >= 2 ^ m => Nearest(n) >= 2 ^ m
           /\ 2 ^ m \in Sizes /\ Nearest(2 ^ m) = 2 ^ m
<1>1. /\ FloatBits \in Nat \ {0} /\ WordBits \in Nat
      /\ 2 ^ m \in Nat \ {0} /\ 2 ^ WordBits \in Nat
  BY Widths, PowerType
<1>2. 2 ^ m <= 2 ^ WordBits
  BY <1>1, PowerMonotone
<1>3. 2 ^ m \in Sizes
  BY <1>1, <1>2 DEF Sizes
<1>4. 2 ^ m < 2 ^ (FloatBits + m)
  <2>1. m + 1 \in Nat /\ FloatBits + m \in Nat /\ m + 1 <= FloatBits + m
    BY <1>1
  <2>2. 2 ^ (m + 1) = 2 * 2 ^ m /\ 2 ^ (m + 1) <= 2 ^ (FloatBits + m)
    BY <2>1, PowerStep, PowerMonotone
  <2>3. 2 ^ (FloatBits + m) \in Nat
    BY <2>1, PowerType
  <2> QED
    BY <1>1, <2>2, <2>3
<1>5. Nearest(2 ^ m) = 2 ^ m
  <2>1. 2 ^ m = 1 * 2 ^ m
    BY <1>1
  <2> QED
    BY <1>3, <1>4, <2>1, NearestExact
<1>6. Nearest(n) \in Nat
  <2>1. n < 2 ^ (FloatBits + WordBits)
    <3>1. /\ WordBits + 1 \in Nat /\ FloatBits + WordBits \in Nat
          /\ WordBits + 1 <= FloatBits + WordBits
      BY <1>1
    <3>2. /\ 2 ^ (WordBits + 1) = 2 * 2 ^ WordBits
          /\ 2 ^ (WordBits + 1) <= 2 ^ (FloatBits + WordBits)
      BY <1>1, <3>1, PowerStep, PowerMonotone
    <3>3. 2 ^ (FloatBits + WordBits) \in Nat /\ 2 ^ WordBits \in Nat \ {0} /\ n \in Nat
      BY <1>1, <3>1, PowerType, SizesAreNatural
    <3> QED
      BY <3>2, <3>3 DEF Sizes
  <2> QED
    BY <1>1, <2>1, NearestNear
<1>7. /\ n <= 2 ^ m => Nearest(n) <= Nearest(2 ^ m)
      /\ n >= 2 ^ m => Nearest(2 ^ m) <= Nearest(n)
  <2>1. n \in Nat
    BY SizesAreNatural
  <2> DEFINE p == 2 ^ m
  <2>2. p \in Sizes /\ p \in Nat
    BY <1>1, <1>3
  <2> HIDE DEF p
  <2>3. n >= p => p <= n
    BY <2>1, <2>2
  <2> QED
    BY <2>2, <2>3, NearestMonotone DEF p
<1> QED
  BY <1>1, <1>3, <1>5, <1>6, <1>7

-----------------------------------------------------------------------------
(* Sizes that are saved and loaded.                                         *)

\* A size comes back as it was, or, if a unit divides it, as the nearest float.
LEMMA ReloadCases ==
    ASSUME NEW n \in Words
    PROVE  \/ Reloaded(n) = n
           \/ /\ \E q \in Nat : n = q * 2 ^ UnitBits
              /\ Reloaded(n) = SaturatingCast(Nearest(n))
<1>1. n \in Nat /\ n \in Sizes /\ UnitBits \in Nat /\ 10 \in Nat \ {0}
  BY Widths, SizesAreNatural
<1>2. CASE n = 0 /\ Serialized(n) = Sized(0, KIB)
  <2>1. Bytes(KIB) \in Nat
    BY Widths DEF Units, B, KIB, PIB
  <2>2. 0 * Bytes(KIB) = 10 * n
    BY <1>2, <2>1
  <2>3. FloatFloor(10 * n, 10) = Nearest(n)
    BY <1>1, FloatOfWhole
  <2>4. Nearest(n) = n
    <3>1. n = 0 * 2 ^ 0 /\ n < 2 ^ (FloatBits + 0)
      <4>1. FloatBits + 0 \in Nat /\ 0 \in Nat
        BY Widths
      <4> QED
        BY <1>2, <4>1, PowerType
    <3> QED
      BY <1>1, <3>1, NearestExact
  <2>5. Reloaded(n) = SaturatingCast(FloatFloor(0 * Bytes(KIB), 10))
    BY <1>2 DEF Reloaded, Deserialized, FromStr, Sized
  <2>6. SaturatingCast(n) = n
    BY <1>1, CastType, Widths
  <2> QED
    BY <2>2, <2>3, <2>4, <2>5, <2>6
<1>3. CASE Serialized(n) = Plain(n)
  BY <1>3 DEF Reloaded, Deserialized, Plain
<1>4. ASSUME NEW u \in KIB .. PIB, n % Bytes(u) = 0,
             Serialized(n) = Sized(10 * (n \div Bytes(u)), u)
      PROVE  /\ \E q \in Nat : n = q * 2 ^ UnitBits
             /\ Reloaded(n) = SaturatingCast(Nearest(n))
  <2> DEFINE b == Bytes(u)
             m == n \div b
  <2>1. u \in Units /\ u \in Nat /\ u >= 1
    BY DEF Units, B, KIB, PIB
  <2>2. b \in Nat \ {0}
    BY <2>1, Widths
  <2>3. m \in Nat /\ n = m * b
    <3>1. m \in Nat /\ n = m * b + (n % b)
      BY <1>1, <2>2, NatDivMod
    <3>2. n % b = 0
      BY <1>4
    <3> HIDE DEF m, b
    <3> QED
      BY <2>2, <3>1, <3>2
  <2>4. Reloaded(n) = SaturatingCast(FloatFloor((10 * m) * b, 10))
    BY <1>4 DEF Reloaded, Deserialized, FromStr, Sized
  <2>5. /\ b = 2 ^ (UnitBits * u - UnitBits) * 2 ^ UnitBits
        /\ 2 ^ (UnitBits * u - UnitBits) \in Nat
    <3> DEFINE x == UnitBits * u - UnitBits
    <3>1. u * UnitBits >= 1 * UnitBits
      BY <1>1, <2>1, ProductMonotone
    <3>2. x \in Nat /\ x + UnitBits = UnitBits * u
      BY <1>1, <2>1, <3>1
    <3> HIDE DEF x
    <3>3. 2 ^ (x + UnitBits) = 2 ^ x * 2 ^ UnitBits /\ 2 ^ x \in Nat
      BY <1>1, <3>2, PowerSum, PowerType
    <3> QED
      BY <3>2, <3>3 DEF Bytes, x
  <2> HIDE DEF m, b
  <2>6. (10 * m) * b = 10 * n
    BY <2>2, <2>3
  <2>7. FloatFloor(10 * n, 10) = Nearest(n)
    BY <1>1, FloatOfWhole
  <2>8. \E q \in Nat : n = q * 2 ^ UnitBits
    <3> DEFINE g == 2 ^ (UnitBits * u - UnitBits)
               p == 2 ^ UnitBits
    <3>1. g \in Nat /\ p \in Nat /\ b = g * p
      BY <1>1, <2>5, PowerType
    <3> HIDE DEF g, p
    <3>2. n = (m * g) * p /\ m * g \in Nat
      BY <2>3, <3>1
    <3> QED
      BY <3>2 DEF p
  <2> QED
    BY <2>4, <2>6, <2>7, <2>8
<1> QED
  BY <1>2, <1>3, <1>4, SavedAs

\* A size that is a float comes back as it was.
LEMMA ReloadExact ==
    ASSUME NEW n \in Words, Nearest(n) = n
    PROVE  Reloaded(n) = n
<1>1. n \in Nat /\ n <= MaxSize
  BY Widths
<1>2. SaturatingCast(n) = n
  BY <1>1, CastType
<1> QED
  BY <1>2, ReloadCases

\* The largest size is odd, so it is saved as a plain number.
LEMMA ReloadLargest == Reloaded(MaxSize) = MaxSize
<1>1. MaxSize \in Words /\ UnitBits - 1 \in Nat /\ WordBits - 1 \in Nat
  BY Widths
<1>2. ASSUME NEW q \in Nat, MaxSize = q * 2 ^ UnitBits PROVE FALSE
  <2> DEFINE g == 2 ^ (UnitBits - 1)
             h == 2 ^ (WordBits - 1)
  <2>1. g \in Nat /\ h \in Nat
    BY <1>1, PowerType
  <2>2. 2 ^ UnitBits = 2 * g /\ 2 ^ WordBits = 2 * h
    <3>1. (UnitBits - 1) + 1 = UnitBits /\ (WordBits - 1) + 1 = WordBits
      BY Widths
    <3> QED
      BY <1>1, <3>1, PowerStep
  <2>3. MaxSize + 1 = 2 * h
    BY <2>2, Widths
  <2> HIDE DEF g, h
  <2>4. MaxSize = 2 * (q * g) /\ q * g \in Nat
    BY <1>2, <2>1, <2>2
  <2> HIDE DEF MaxSize
  <2>5. ASSUME NEW y \in Nat, 2 * y + 1 = 2 * h PROVE FALSE
    BY <2>1, <2>5
  <2> QED
    BY <2>3, <2>4, <2>5
<1> QED
  BY <1>1, <1>2, ReloadCases

\* What SavedSizeSurvives says, of any word.
LEMMA SavedWordSurvives ==
    ASSUME NEW n \in Words
    PROVE  /\ n < 2 ^ (FloatBits + UnitBits) => Reloaded(n) = n
           /\ Distance(Reloaded(n), n) <= Bytes(KIB)
           /\ Reloaded(Reloaded(n)) = Reloaded(n)
<1>1. /\ n \in Nat /\ n \in Sizes /\ UnitBits \in Nat /\ FloatBits \in Nat /\ WordBits \in Nat
      /\ WordBits = FloatBits + (UnitBits + 1) /\ n < 2 ^ WordBits /\ n <= MaxSize
      /\ MaxSize \in Nat /\ MaxSize + 1 = 2 ^ WordBits
  BY Widths, SizesAreNatural
<1>2. /\ Bytes(KIB) = 2 ^ UnitBits /\ 2 ^ UnitBits \in Nat
      /\ 2 ^ (UnitBits + 1) = 2 * 2 ^ UnitBits
  BY <1>1, PowerType, PowerStep DEF Bytes, KIB
<1>3. n < 2 ^ (FloatBits + UnitBits) => Reloaded(n) = n
  <2> SUFFICES ASSUME n < 2 ^ (FloatBits + UnitBits), Reloaded(n) # n PROVE FALSE
    OBVIOUS
  <2>1. PICK q \in Nat : n = q * 2 ^ UnitBits
    BY ReloadCases
  <2>2. Nearest(n) = n
    BY <1>1, <2>1, NearestExact
  <2> QED
    BY <2>2, ReloadExact
<1>4. CASE Reloaded(n) = n
  BY <1>1, <1>2, <1>3, <1>4 DEF Distance
<1>5. CASE Reloaded(n) # n
  <2> DEFINE k == UnitBits + 1
             N == Nearest(n)
  <2>1. Reloaded(n) = SaturatingCast(N)
    BY <1>5, ReloadCases
  <2>2. k \in Nat \ {0} /\ FloatBits + k = WordBits /\ FloatBits + k - 1 = FloatBits + UnitBits
    BY <1>1
  <2>3. 2 ^ (FloatBits + k - 1) <= n
    <3>1. 2 ^ (FloatBits + UnitBits) \in Nat
      BY <1>1, PowerType
    <3>2. ~ (n < 2 ^ (FloatBits + UnitBits))
      BY <1>3, <1>5
    <3> QED
      BY <1>1, <2>2, <3>1, <3>2
  <2>4. N = RoundHalfEven(n, 2 ^ k) * 2 ^ k
    BY <1>1, <2>2, <2>3, NearestLarge
  <2>5. N \in Nat /\ 2 * n <= 2 * N + 2 ^ k /\ 2 * N <= 2 * n + 2 ^ k
    BY <1>1, <2>2, NearestNear
  <2>6. N <= 2 ^ WordBits
    BY <1>1, NearestPower
  <2>7. RoundHalfEven(n, 2 ^ k) \in Nat
    <3>1. 2 ^ k \in Nat \ {0}
      BY <2>2, PowerType
    <3> QED
      BY <1>1, <3>1, RoundNear
  <2> HIDE DEF N
  <2>8. n <= N + 2 ^ UnitBits /\ N <= n + 2 ^ UnitBits
    BY <1>1, <1>2, <2>5
  <2>9. CASE N <= MaxSize
    <3>1. SaturatingCast(N) = N /\ N \in Words
      BY <2>5, <2>9, CastType, Widths
    <3>2. Nearest(N) = N
      <4>1. N \in Sizes /\ N < 2 ^ (FloatBits + k)
        BY <1>1, <2>2, <2>5, <2>9, SizesAreNatural, <3>1
      <4> QED
        BY <2>2, <2>4, <2>7, <4>1, NearestExact
    <3>3. Reloaded(N) = N
      BY <3>1, <3>2, ReloadExact
    <3>4. Distance(N, n) <= 2 ^ UnitBits
      BY <1>1, <1>2, <2>5, <2>8 DEF Distance
    <3> QED
      BY <1>2, <1>3, <2>1, <3>1, <3>3, <3>4
  <2>10. CASE N > MaxSize
    <3>1. SaturatingCast(N) = MaxSize
      BY <1>1, <2>5, <2>10, CastType
    <3>2. Distance(MaxSize, n) <= 2 ^ UnitBits
      BY <1>1, <1>2, <2>5, <2>8, <2>10 DEF Distance
    <3> QED
      BY <1>2, <1>3, <2>1, <3>1, <3>2, ReloadLargest
  <2> QED
    BY <1>1, <2>5, <2>9, <2>10
<1> QED
  BY <1>4, <1>5

\* A saved size survives, whatever the widths: the one that is configured and
\* every one it becomes.
THEOREM SavedSizesSurvive == Spec => []SavedSizeSurvives
<1>1. TypeOK => SavedSizeSurvives
  BY SavedWordSurvives DEF TypeOK, SizeTypeOK, SavedSizeSurvives
<1> QED
  BY <1>1, RouterTypeCorrect, PTL

-----------------------------------------------------------------------------
(* Sizes that are printed.                                                  *)

\* A unit is a power of two, within a float.
LEMMA UnitIsPower ==
    ASSUME NEW u \in Units
    PROVE  /\ UnitBits * u \in Nat /\ UnitBits * u <= 5 * UnitBits
           /\ UnitBits * u <= FloatBits /\ UnitBits * u <= WordBits
           /\ Bytes(u) = 2 ^ (UnitBits * u) /\ Bytes(u) \in Nat \ {0}
<1>1. u \in Nat /\ 5 >= u /\ UnitBits \in Nat
  BY Widths DEF Units, B, PIB
<1>2. 5 * UnitBits >= u * UnitBits
  BY <1>1, ProductMonotone
<1>3. u * UnitBits = UnitBits * u /\ UnitBits * u \in Nat
  BY <1>1
<1> QED
  BY <1>2, <1>3, Widths DEF Bytes

\* A larger power of two is a multiple of a unit.
LEMMA UnitDivides ==
    ASSUME NEW u \in Units, NEW j \in Nat, UnitBits * u <= j
    PROVE  \E g \in Nat \ {0} : 2 ^ j = g * Bytes(u)
<1> DEFINE i == UnitBits * u
<1>1. i \in Nat /\ j - i \in Nat /\ (j - i) + i = j /\ Bytes(u) = 2 ^ i
  BY UnitIsPower
<1> HIDE DEF i
<1>2. 2 ^ ((j - i) + i) = 2 ^ (j - i) * 2 ^ i /\ 2 ^ (j - i) \in Nat \ {0}
  BY <1>1, PowerSum, PowerType
<1> QED
  BY <1>1, <1>2

\* What is printed, with the largest unit that is not above the size.
LEMMA PrintedIs ==
    ASSUME NEW n \in Words
    PROVE  \E u \in Units :
              /\ u # B => n >= Bytes(u)
              /\ \A v \in Units : n >= Bytes(v) => v <= u
              /\ Displayed(n) = Sized(RoundHalfEven(10 * Nearest(n), Bytes(u)), u)
<1>1. PICK u \in Units :
          /\ u # B => n >= Bytes(u)
          /\ \A v \in Units : n >= Bytes(v) => v <= u
          /\ Displayed(n) =
                Sized(IF u = B THEN 10 * n
                               ELSE RoundHalfEven(10 * FloatFloor(n, 1), Bytes(u)), u)
  BY PrintedAs
<1>2. n \in Nat /\ n \in Sizes /\ 1 \in Nat \ {0} /\ 1 * n = n
  BY SizesAreNatural
<1>3. FloatFloor(n, 1) = Nearest(n)
  <2>1. FloatFloor(1 * n, 1) = Nearest(n)
    BY <1>2, FloatOfWhole
  <2> QED
    BY <1>2, <2>1
<1>4. CASE u = B
  <2>1. n < Bytes(KIB)
    <3>1. KIB \in Units /\ ~ (KIB <= u) /\ Bytes(KIB) \in Nat
      BY <1>4, Widths DEF Units, B, KIB, PIB
    <3> QED
      BY <1>1, <1>2, <3>1
  <2>2. n < 2 ^ (FloatBits + 0) /\ n = n * 2 ^ 0
    <3>1. KIB \in Units /\ FloatBits \in Nat /\ FloatBits + 0 = FloatBits
      BY Widths DEF Units, B, KIB, PIB
    <3>2. 2 ^ (UnitBits * KIB) <= 2 ^ FloatBits /\ 2 ^ FloatBits \in Nat
      BY <3>1, UnitIsPower, PowerMonotone, PowerType
    <3>3. Bytes(KIB) = 2 ^ (UnitBits * KIB) /\ Bytes(KIB) \in Nat
      BY <3>1, UnitIsPower
    <3>4. n < 2 ^ FloatBits
      BY <1>2, <2>1, <3>2, <3>3
    <3> QED
      BY <1>2, <3>1, <3>4, PowerStep
  <2>3. Nearest(n) = n
    BY <1>2, <2>2, NearestExact
  <2>4. Bytes(u) = 1
    <3>1. UnitBits * 0 = 0
      BY Widths
    <3> QED
      BY <1>4, <3>1, PowerStep DEF Bytes, B
  <2>5. RoundHalfEven(10 * n, 1) = 10 * n
    <3>1. 10 * n \in Nat /\ (10 * n) * 1 = 10 * n
      BY <1>2
    <3>2. RoundHalfEven((10 * n) * 1, 1) = 10 * n
      BY <3>1, RoundExact
    <3> QED
      BY <3>1, <3>2
  <2> QED
    BY <1>1, <1>4, <2>3, <2>4, <2>5
<1>5. CASE u # B
  BY <1>1, <1>3, <1>5
<1> QED
  BY <1>4, <1>5

\* Rounding to a tenth of a unit is off by at most half of it, and does not pass a
\* power of two that is not below the unit.
LEMMA PrintedNear ==
    ASSUME NEW m \in Nat, NEW u \in Units
    PROVE  LET x == RoundHalfEven(10 * m, Bytes(u)) * Bytes(u)
           IN  /\ RoundHalfEven(10 * m, Bytes(u)) \in Nat /\ x \in Nat
               /\ 2 * x <= 20 * m + Bytes(u) /\ 20 * m <= 2 * x + Bytes(u)
               /\ \A j \in Nat : UnitBits * u <= j =>
                     /\ m <= 2 ^ j => x <= 10 * 2 ^ j
                     /\ m >= 2 ^ j => x >= 10 * 2 ^ j
<1> DEFINE b == Bytes(u)
           t == RoundHalfEven(10 * m, b)
           x == t * b
<1>1. b \in Nat \ {0} /\ 10 * m \in Nat
  BY UnitIsPower
<1>2. t \in Nat /\ 2 * (10 * m) <= 2 * x + b /\ 2 * x <= 2 * (10 * m) + b
  BY <1>1, RoundNear
<1>3. x \in Nat
  BY <1>1, <1>2
<1>4. ASSUME NEW j \in Nat, UnitBits * u <= j
      PROVE  /\ m <= 2 ^ j => x <= 10 * 2 ^ j
             /\ m >= 2 ^ j => x >= 10 * 2 ^ j
  <2>1. PICK g \in Nat \ {0} : 2 ^ j = g * b
    BY <1>4, UnitDivides
  <2> DEFINE p == g * b
             s == 10 * g
  <2>2. p \in Nat /\ s \in Nat /\ 10 * p = s * b /\ s * b \in Nat
    BY <1>1
  <2>3. RoundHalfEven(s * b, b) = s
    BY <1>1, <2>2, RoundExact
  <2> HIDE DEF p, s, b, x
  <2>4. ASSUME m <= p PROVE x <= 10 * p
    <3>1. 10 * m <= s * b
      BY <2>2, <2>4
    <3>2. t <= s
      BY <1>1, <2>2, <2>3, <3>1, RoundMonotone
    <3> HIDE DEF t
    <3>3. s * b >= t * b
      BY <1>1, <1>2, <2>2, <3>2, ProductMonotone
    <3> QED
      BY <1>3, <2>2, <3>3 DEF x
  <2>5. ASSUME m >= p PROVE x >= 10 * p
    <3>1. s * b <= 10 * m
      BY <2>2, <2>5
    <3>2. s <= t
      BY <1>1, <2>2, <2>3, <3>1, RoundMonotone
    <3> HIDE DEF t
    <3>3. t * b >= s * b
      BY <1>1, <1>2, <2>2, <3>2, ProductMonotone
    <3> QED
      BY <1>3, <2>2, <3>3 DEF x
  <2> QED
    BY <2>1, <2>4, <2>5 DEF p
<1> QED
  BY <1>2, <1>3, <1>4

\* The next size is not printed as less.
LEMMA PrintedMonotone ==
    ASSUME NEW n \in Words, n < MaxSize
    PROVE  PrintedValue(n) <= PrintedValue(n + 1)
<1> DEFINE m == n + 1
<1>1. n \in Nat /\ m \in Words /\ m \in Nat /\ n \in Sizes /\ m \in Sizes /\ n <= m
  BY Widths, SizesAreNatural
<1>2. PICK u \in Units :
          /\ u # B => n >= Bytes(u)
          /\ \A v \in Units : n >= Bytes(v) => v <= u
          /\ Displayed(n) = Sized(RoundHalfEven(10 * Nearest(n), Bytes(u)), u)
  BY PrintedIs
<1>3. PICK v \in Units :
          /\ v # B => m >= Bytes(v)
          /\ \A w \in Units : m >= Bytes(w) => w <= v
          /\ Displayed(m) = Sized(RoundHalfEven(10 * Nearest(m), Bytes(v)), v)
  BY <1>1, PrintedIs
<1>4. /\ PrintedValue(n) = RoundHalfEven(10 * Nearest(n), Bytes(u)) * Bytes(u)
      /\ PrintedValue(m) = RoundHalfEven(10 * Nearest(m), Bytes(v)) * Bytes(v)
  BY <1>2, <1>3 DEF PrintedValue, Sized
<1>5. Nearest(n) \in Nat /\ Nearest(m) \in Nat /\ Nearest(n) <= Nearest(m)
  <2>1. 0 \in Nat /\ 0 <= WordBits
    BY Widths
  <2> QED
    BY <1>1, <2>1, NearestPower, NearestMonotone
<1>6. Bytes(u) \in Nat \ {0} /\ Bytes(v) \in Nat \ {0} /\ u \in Nat /\ v \in Nat
  BY UnitIsPower DEF Units, B, PIB
<1>7. u <= v
  <2>1. CASE u = B
    BY <1>6, <2>1 DEF B
  <2>2. CASE u # B
    <3>1. m >= Bytes(u)
      BY <1>1, <1>2, <1>6, <2>2
    <3> QED
      BY <1>3, <3>1
  <2> QED
    BY <2>1, <2>2
<1>8. CASE u = v
  <2> DEFINE r == RoundHalfEven(10 * Nearest(n), Bytes(u))
             s == RoundHalfEven(10 * Nearest(m), Bytes(u))
  <2>1. 10 * Nearest(n) \in Nat /\ 10 * Nearest(m) \in Nat /\ 10 * Nearest(n) <= 10 * Nearest(m)
    BY <1>5
  <2>2. r \in Nat /\ s \in Nat /\ r <= s
    BY <1>6, <2>1, RoundNear, RoundMonotone
  <2> HIDE DEF r, s
  <2>3. s * Bytes(u) >= r * Bytes(u) /\ s * Bytes(u) \in Int /\ r * Bytes(u) \in Int
    BY <1>6, <2>2, ProductMonotone
  <2> QED
    BY <1>4, <1>8, <2>3 DEF r, s
<1>9. CASE u < v
  <2> DEFINE j == UnitBits * v
  <2>1. j \in Nat /\ j <= WordBits /\ Bytes(v) = 2 ^ j
    BY UnitIsPower
  <2>2. UnitBits * u <= j
    <3>1. v * UnitBits >= u * UnitBits
      BY <1>6, <1>9, ProductMonotone, Widths
    <3>2. v * UnitBits = UnitBits * v /\ u * UnitBits = UnitBits * u
      BY <1>6, Widths
    <3>3. UnitBits * v \in Nat /\ UnitBits * u \in Nat
      BY UnitIsPower
    <3> QED
      BY <3>1, <3>2, <3>3
  <2>3. n <= Bytes(v) /\ m >= Bytes(v)
    <3>1. v # B /\ ~ (v <= u)
      BY <1>6, <1>9 DEF B
    <3> QED
      BY <1>1, <1>2, <1>3, <1>6, <3>1
  <2>4. Nearest(n) <= 2 ^ j /\ Nearest(m) >= 2 ^ j
    BY <1>1, <2>1, <2>3, NearestPower
  <2>5. PrintedValue(n) \in Nat /\ PrintedValue(n) <= 10 * 2 ^ j
    BY <1>4, <1>5, <2>1, <2>2, <2>4, PrintedNear
  <2>6. PrintedValue(m) \in Nat /\ PrintedValue(m) >= 10 * 2 ^ j
    <3>1. UnitBits * v <= j
      BY <2>1
    <3> QED
      BY <1>4, <1>5, <2>1, <2>4, <3>1, PrintedNear
  <2>7. 10 * 2 ^ j \in Nat
    BY <1>6, <2>1
  <2> QED
    BY <2>5, <2>6, <2>7
<1> QED
  BY <1>6, <1>7, <1>8, <1>9

\* Below 2^FloatBits the whole part of the nearest float is less than 1 away.
LEMMA FloatBetween ==
    ASSUME NEW a \in Nat, NEW b \in Nat \ {0}, a < b * 2 ^ FloatBits
    PROVE  /\ FloatFloor(a, b) \in Nat
           /\ b * FloatFloor(a, b) < a + b /\ a < b * FloatFloor(a, b) + b
<1> DEFINE e == Exponent(a, b)
           g == 2 ^ (FloatBits - e)
           R == RoundHalfEven(a * g, b)
           V == FloatFloor(a, b)
           q == a \div b
           r == a % b
<1>1. a <= b * 2 ^ WordBits
  <2> DEFINE f == 2 ^ FloatBits
             w == 2 ^ WordBits
  <2>1. f \in Nat /\ w \in Nat /\ w >= f
    BY Widths, PowerType, PowerMonotone
  <2>2. a < b * f
    OBVIOUS
  <2> HIDE DEF f, w
  <2>3. w * b >= f * b /\ w * b = b * w /\ f * b = b * f /\ b * w \in Nat /\ b * f \in Nat
    BY <2>1, ProductMonotone
  <2>4. a <= b * w
    BY <2>2, <2>3
  <2> QED
    BY <2>4 DEF w
<1>2. e \in Nat /\ FloatBits \in Nat /\ e <= FloatBits
  BY <1>1, ExponentIs, Widths
<1>3. g \in Nat \ {0}
  BY <1>2, PowerType
<1>4. V = R \div g
  BY <1>1, <1>2, FloatFloorIs
<1>5. q \in Nat /\ r \in 0 .. b - 1 /\ a = q * b + r
  BY NatDivMod
<1> HIDE DEF e, g, q, r
<1>6. R \in Nat /\ a * g \in Nat
  <2>1. a * g \in Nat
    BY <1>3
  <2> QED
    BY <2>1, RoundNear
<1>7. q * g \in Nat /\ (q * g) * b = (q * b) * g /\ q * b \in Nat /\ b \in Nat
  BY <1>3, <1>5
<1>8. q * g <= R
  <2>1. a * g >= (q * b) * g
    BY <1>3, <1>5, <1>7, ProductMonotone
  <2>2. (q * g) * b <= a * g /\ (q * g) * b \in Nat
    BY <1>6, <1>7, <2>1
  <2>3. RoundHalfEven((q * g) * b, b) <= RoundHalfEven(a * g, b)
    BY <1>6, <2>2, RoundMonotone
  <2>4. RoundHalfEven((q * g) * b, b) = q * g
    BY <1>7, RoundExact
  <2> QED
    BY <2>3, <2>4
<1>9. q <= V
  <2>1. (q * g) \div g = q
    BY <1>3, <1>5, QuotientExact
  <2>2. (q * g) \div g <= R \div g
    BY <1>3, <1>6, <1>7, <1>8, DivMonotone
  <2> QED
    BY <1>4, <2>1, <2>2
<1>10. V \in Nat
  BY <1>3, <1>4, <1>6, NatDivMod
<1>11. CASE r = 0
  <2>1. a * g = (q * g) * b
    BY <1>3, <1>5, <1>7, <1>11
  <2>2. R = q * g
    BY <1>7, <2>1, RoundExact
  <2>3. V = q
    BY <1>3, <1>4, <1>5, <2>2, QuotientExact
  <2>4. b * q = q * b
    BY <1>5
  <2> QED
    BY <1>5, <1>7, <1>10, <1>11, <2>3, <2>4
<1>12. CASE r # 0
  <2> DEFINE s == q + 1
  <2>1. s \in Nat /\ s * b = q * b + b
    BY <1>5
  <2> HIDE DEF s
  <2>2. s * g \in Nat /\ (s * g) * b = (s * b) * g /\ (s * g) * b \in Nat
    BY <1>3, <2>1
  <2>3. (s * b) * g >= a * g
    <3>1. s * b >= a /\ s * b \in Int
      BY <1>5, <1>7, <2>1
    <3> QED
      BY <1>3, <3>1, ProductMonotone
  <2>4. a * g <= (s * g) * b
    BY <1>6, <2>2, <2>3
  <2>5. RoundHalfEven(a * g, b) <= RoundHalfEven((s * g) * b, b)
    BY <1>6, <2>2, <2>4, RoundMonotone
  <2>6. RoundHalfEven((s * g) * b, b) = s * g
    BY <2>2, RoundExact
  <2>7. R <= s * g
    BY <2>5, <2>6
  <2> HIDE DEF R, V
  <2>8. R \div g <= (s * g) \div g
    BY <1>3, <1>6, <2>2, <2>7, DivMonotone
  <2>9. (s * g) \div g = s
    BY <1>3, <2>1, QuotientExact
  <2>10. V <= s
    BY <1>4, <2>8, <2>9
  <2>11. s * b >= V * b /\ V * b >= q * b /\ V * b = b * V /\ b * V \in Nat
    BY <1>5, <1>9, <1>10, <2>1, <2>10, ProductMonotone
  <2>12. b * V < a + b /\ a < b * V + b
    BY <1>5, <1>7, <1>12, <2>1, <2>11
  <2> QED
    BY <1>10, <2>12 DEF V
<1> QED
  BY <1>11, <1>12

\* From 2^(FloatBits + k - 1) on, the float nearest to a / b is a multiple of 2^k.
LEMMA FloatLarge ==
    ASSUME NEW a \in Nat, NEW b \in Nat \ {0}, NEW k \in Nat \ {0}, FloatBits + k <= WordBits,
           b * 2 ^ (FloatBits + k - 1) <= a, a < b * 2 ^ (FloatBits + k)
    PROVE  FloatFloor(a, b) = RoundHalfEven(a, b * 2 ^ k) * 2 ^ k
<1> DEFINE e == Exponent(a, b)
<1>1. /\ FloatBits \in Nat /\ WordBits \in Nat
      /\ FloatBits + k \in Nat /\ FloatBits + k - 1 \in Nat
  BY Widths
<1>2. \A i, j \in Nat : i <= j => b * 2 ^ i <= b * 2 ^ j /\ b * 2 ^ i \in Nat
  <2> TAKE i, j \in Nat
  <2> HAVE i <= j
  <2> DEFINE p == 2 ^ i
             s == 2 ^ j
  <2>1. p \in Nat /\ s \in Nat /\ s >= p
    BY PowerType, PowerMonotone
  <2> HIDE DEF p, s
  <2>2. s * b >= p * b /\ s * b = b * s /\ p * b = b * p /\ b * p \in Nat /\ b * s \in Nat
    BY <2>1, ProductMonotone
  <2>3. b * p <= b * s /\ b * p \in Nat
    BY <2>2
  <2> QED
    BY <2>3 DEF p, s
<1>3. /\ b * 2 ^ (FloatBits + k) <= b * 2 ^ WordBits /\ b * 2 ^ WordBits \in Nat
      /\ b * 2 ^ (FloatBits + k) \in Nat
  BY <1>1, <1>2
<1>4. a <= b * 2 ^ WordBits
  BY <1>3
<1>5. e \in Nat /\ a < b * 2 ^ e /\ e <= FloatBits + k
  BY <1>1, <1>4, ExponentIs
<1>6. ~ (e <= FloatBits + k - 1)
  <2> SUFFICES ASSUME e <= FloatBits + k - 1 PROVE FALSE
    OBVIOUS
  <2>1. b * 2 ^ e <= b * 2 ^ (FloatBits + k - 1) /\ b * 2 ^ e \in Nat
    BY <1>1, <1>2, <1>5
  <2>2. b * 2 ^ (FloatBits + k - 1) \in Nat
    BY <1>1, <1>2
  <2> QED
    BY <1>5, <2>1, <2>2
<1>7. e > FloatBits /\ e - FloatBits = k
  <2>1. e \in Nat /\ e <= FloatBits + k /\ ~ (e <= FloatBits + k - 1)
    BY <1>5, <1>6
  <2> HIDE DEF e
  <2>2. e = FloatBits + k
    BY <1>1, <2>1
  <2> QED
    BY <1>1, <2>2
<1> QED
  BY <1>4, <1>7, FloatFloorIs

\* The cast brings a number no further away from a word.
LEMMA CastNear ==
    ASSUME NEW n \in Words, NEW V \in Nat, NEW b \in Nat, NEW s \in Nat,
           20 * V < 20 * n + 20 * s + 20 + b, 20 * n < 20 * V + 20 * s + 20 + b
    PROVE  Distance(SaturatingCast(V), n) <= (b \div 20 + 1) + s
<1> DEFINE q == b \div 20
           D == Distance(SaturatingCast(V), n)
<1>1. n \in Nat /\ n <= MaxSize /\ MaxSize \in Nat
  BY Widths
<1>2. q \in Nat /\ b < 20 * q + 20
  <2>1. q \in Nat /\ (b % 20) \in 0 .. 20 - 1 /\ b = q * 20 + (b % 20)
    BY NatDivMod
  <2> HIDE DEF q
  <2> QED
    BY <2>1
<1>3. SaturatingCast(V) = IF V <= MaxSize THEN V ELSE MaxSize
  BY <1>1, CastType
<1>4. D \in Nat /\ 20 * D < 20 * s + 20 + b
  BY <1>1, <1>3 DEF Distance
<1> HIDE DEF q, D
<1>5. D <= q + 1 + s
  BY <1>2, <1>4
<1>6. q + 1 + s = (q + 1) + s
  BY <1>2
<1> QED
  BY <1>5, <1>6 DEF q, D

\* A printed size that a float can hold is read back to within the rounding.
LEMMA ReadSmall ==
    ASSUME NEW n \in Words, n < 2 ^ FloatBits, NEW u \in Units
    PROVE  LET V == FloatFloor(RoundHalfEven(10 * Nearest(n), Bytes(u)) * Bytes(u), 10)
           IN  V \in Nat /\ 20 * V < 20 * n + 20 + Bytes(u) /\ 20 * n < 20 * V + 20 + Bytes(u)
<1> DEFINE b == Bytes(u)
           x == RoundHalfEven(10 * n, b) * b
           V == FloatFloor(x, 10)
           f == 2 ^ FloatBits
<1>1. /\ n \in Nat /\ n \in Sizes /\ FloatBits \in Nat /\ f \in Nat /\ b \in Nat
      /\ UnitBits * u <= FloatBits /\ FloatBits <= WordBits /\ 10 \in Nat \ {0}
  BY Widths, SizesAreNatural, PowerType, UnitIsPower
<1>2. Nearest(n) = n
  <2>1. FloatBits + 0 = FloatBits /\ n = n * 2 ^ 0
    BY <1>1, PowerStep
  <2> QED
    BY <1>1, <2>1, NearestExact
<1>3. x \in Nat /\ 2 * x <= 20 * n + b /\ 20 * n <= 2 * x + b /\ x <= 10 * f
  BY <1>1, PrintedNear
<1> HIDE DEF x, b
<1>4. CASE x < 10 * f
  <2>1. V \in Nat /\ 10 * V < x + 10 /\ x < 10 * V + 10
    BY <1>1, <1>3, <1>4, FloatBetween
  <2> QED
    BY <1>1, <1>2, <1>3, <2>1 DEF b, x
<1>5. CASE x = 10 * f
  <2>1. f \in Sizes /\ Nearest(f) = f
    BY <1>1, NearestPower
  <2>2. V = f
    BY <1>1, <1>5, <2>1, FloatOfWhole
  <2> QED
    BY <1>1, <1>2, <1>3, <1>5, <2>2 DEF b, x
<1> QED
  BY <1>1, <1>3, <1>4, <1>5

\* At the last exponent of a word floats are 2 KiB apart, and a twentieth of a PiB
\* is nearer to a whole number of those below it than above: reading back the
\* rounded count of tenths does not add a rounding of its own.
LEMMA ReadLargest ==
    ASSUME NEW M \in Nat, NEW g \in Nat, NEW y \in Nat,
           2 * y <= 20 * M + 4 * (5 * g + 2), 20 * M <= 2 * y + 4 * (5 * g + 2)
    PROVE  RoundHalfEven(y, 10) <= M + g /\ M <= RoundHalfEven(y, 10) + g
<1> DEFINE v == RoundHalfEven(y, 10)
<1>1. v \in Nat /\ 2 * y <= 2 * (v * 10) + 10 /\ 2 * (v * 10) <= 2 * y + 10
  <2>1. 10 \in Nat \ {0}
    OBVIOUS
  <2> QED
    BY <2>1, RoundNear
<1> HIDE DEF v
<1>2. 2 * (v * 10) <= 20 * M + 20 * g + 18
  <2>1. 2 * (v * 10) <= 20 * M + 4 * (5 * g + 2) + 10
    BY <1>1
  <2> QED
    BY <1>1, <2>1
<1>3. 20 * M <= 2 * (v * 10) + 20 * g + 18
  <2>1. 20 * M <= 2 * (v * 10) + 10 + 4 * (5 * g + 2)
    BY <1>1
  <2> QED
    BY <1>1, <2>1
<1> QED
  BY <1>1, <1>2, <1>3 DEF v

\* A PiB in the distance of floats at the last exponent.
LEMMA LargestUnitInFloats ==
    \E g \in Nat : Bytes(PIB) = (4 * (5 * g + 2)) * 2 ^ (UnitBits + 1)
<1> DEFINE i == UnitBits - 1
           j == 4 * i + 1
<1>1. UnitBits \in Nat \ {0} /\ i \in Nat /\ j \in Nat /\ j + 1 \in Nat /\ j + 1 + 1 \in Nat
      /\ (j + 1 + 1) + (UnitBits + 1) = UnitBits * 5 /\ UnitBits + 1 \in Nat
  BY Widths
<1>2. PICK g \in Nat : 2 ^ j = 5 * g + 2
  BY <1>1, PowerModFive
<1> HIDE DEF i, j
<1>3. 2 ^ (j + 1 + 1) = 2 * (2 * 2 ^ j)
  BY <1>1, PowerStep
<1>4. 2 ^ (j + 1 + 1) = 4 * (5 * g + 2)
  BY <1>2, <1>3
<1>5. 2 ^ ((j + 1 + 1) + (UnitBits + 1)) = 2 ^ (j + 1 + 1) * 2 ^ (UnitBits + 1)
  BY <1>1, PowerSum
<1>6. Bytes(PIB) = (4 * (5 * g + 2)) * 2 ^ (UnitBits + 1)
  BY <1>1, <1>4, <1>5 DEF Bytes, PIB
<1> QED
  BY <1>6

\* A printed size too large for a float is read back to within the rounding and
\* that of the float.
LEMMA ReadLarge ==
    ASSUME NEW n \in Words, 2 ^ FloatBits <= n
    PROVE  LET b == Bytes(PIB)
               V == FloatFloor(RoundHalfEven(10 * Nearest(n), b) * b, 10)
               s == 2 ^ UnitBits
           IN  V \in Nat /\ 20 * V <= 20 * n + 20 * s + b /\ 20 * n <= 20 * V + 20 * s + b
<1> DEFINE b == Bytes(PIB)
           N == Nearest(n)
           t == RoundHalfEven(10 * N, b)
           x == t * b
           V == FloatFloor(x, 10)
           s == 2 ^ UnitBits
<1>1. /\ n \in Nat /\ n \in Sizes /\ FloatBits \in Nat /\ UnitBits \in Nat /\ b \in Nat \ {0}
      /\ WordBits = FloatBits + UnitBits + 1 /\ s \in Nat /\ n < 2 ^ WordBits /\ PIB \in Units
      /\ 10 \in Nat \ {0} /\ 2 ^ FloatBits \in Nat
  BY Widths, SizesAreNatural, PowerType DEF Units, B, PIB
\* Where n is.
<1>2. PICK k \in Nat \ {0} :
          k <= UnitBits + 1 /\ 2 ^ (FloatBits + k - 1) <= n /\ n < 2 ^ (FloatBits + k)
  <2>1. PICK e \in Nat : n < 2 ^ e /\ \A j \in Nat : n < 2 ^ j => e <= j
    BY <1>1, NearestIs
  <2>2. ~ (e <= FloatBits)
    <3> SUFFICES ASSUME e <= FloatBits PROVE FALSE
      OBVIOUS
    <3>1. 2 ^ e <= 2 ^ FloatBits /\ 2 ^ e \in Nat
      BY <1>1, PowerMonotone, PowerType
    <3> QED
      BY <1>1, <2>1, <3>1
  <2>3. e <= WordBits
    BY <1>1, <2>1
  <2> DEFINE k == e - FloatBits
  <2>4. k \in Nat \ {0} /\ FloatBits + k = e /\ FloatBits + k - 1 = e - 1 /\ e - 1 \in Nat
    BY <1>1, <2>2
  <2>5. 2 ^ (e - 1) <= n
    <3>1. ~ (n < 2 ^ (e - 1)) /\ 2 ^ (e - 1) \in Nat
      BY <2>1, <2>4, PowerType
    <3> QED
      BY <1>1, <3>1
  <2>6. k <= UnitBits + 1
    BY <1>1, <2>3
  <2> HIDE DEF k
  <2>7. 2 ^ (FloatBits + k - 1) <= n /\ n < 2 ^ (FloatBits + k)
    BY <2>1, <2>4, <2>5
  <2> QED
    BY <2>4, <2>6, <2>7
<1> DEFINE p == 2 ^ k
           h == 2 ^ (FloatBits + k)
           l == 2 ^ (FloatBits + k - 1)
<1>3. /\ FloatBits + k \in Nat /\ FloatBits + k - 1 \in Nat /\ FloatBits + k <= WordBits
      /\ FloatBits + k - 1 <= WordBits
      /\ UnitBits * PIB <= FloatBits + k /\ UnitBits * PIB <= FloatBits + k - 1
      /\ p \in Nat \ {0} /\ h \in Nat /\ l \in Nat
  <2>1. UnitBits * PIB \in Nat /\ UnitBits * PIB <= FloatBits
    BY <1>1, UnitIsPower
  <2>2. /\ FloatBits + k \in Nat /\ FloatBits + k - 1 \in Nat /\ FloatBits + k <= WordBits
        /\ FloatBits + k - 1 <= WordBits
    BY <1>1, <1>2
  <2> QED
    BY <1>1, <2>1, <2>2, PowerType
\* Its nearest float, and what is printed of that.
<1>4. N = RoundHalfEven(n, p) * p /\ RoundHalfEven(n, p) \in Nat
  BY <1>1, <1>2, <1>3, NearestLarge, RoundNear
<1>5. N \in Nat /\ 2 * n <= 2 * N + p /\ 2 * N <= 2 * n + p
  BY <1>1, <1>2, NearestNear
<1>6. l <= N /\ N <= h
  BY <1>1, <1>2, <1>3, NearestPower
<1> HIDE DEF N
<1>7. t \in Nat /\ x \in Nat /\ 2 * x <= 20 * N + b /\ 20 * N <= 2 * x + b
  BY <1>1, <1>5, PrintedNear
<1>8. 10 * l <= x /\ x <= 10 * h
  BY <1>1, <1>3, <1>5, <1>6, PrintedNear
<1>9. p <= 2 * s
  <2>1. 2 ^ k <= 2 ^ (UnitBits + 1) /\ 2 ^ (UnitBits + 1) = 2 * 2 ^ UnitBits
    BY <1>1, <1>2, PowerMonotone, PowerStep
  <2> QED
    BY <2>1
\* What it is read as.
<1>10. CASE x = 10 * h
  <2>1. h \in Sizes /\ Nearest(h) = h
    BY <1>1, <1>3, NearestPower
  <2>2. V = h
    BY <1>1, <1>10, <2>1, FloatOfWhole
  <2> HIDE DEF x, b, s, p, h, l, V
  <2>3. 20 * V <= 20 * n + 10 * p + b /\ 20 * n <= 20 * V + 10 * p + b
    BY <1>1, <1>3, <1>5, <1>7, <1>10, <2>2
  <2> QED
    BY <1>1, <1>3, <1>9, <2>2, <2>3 DEF V, x, b, s, N, t
<1>11. CASE x < 10 * h
  <2> DEFINE v == RoundHalfEven(x, 10 * p)
  <2>1. V = v * p
    BY <1>1, <1>2, <1>3, <1>7, <1>8, <1>11, FloatLarge
  <2>2. /\ v \in Nat
        /\ 2 * x <= 2 * (v * (10 * p)) + 10 * p /\ 2 * (v * (10 * p)) <= 2 * x + 10 * p
    <3>1. 10 * p \in Nat \ {0}
      BY <1>3
    <3> QED
      BY <1>7, <3>1, RoundNear
  <2>3. v * (10 * p) = 10 * (v * p) /\ v * p \in Nat
    <3> HIDE DEF v, p
    <3> QED
      BY <1>3, <2>2
  <2>4. V \in Nat /\ 2 * x <= 20 * V + 10 * p /\ 20 * V <= 2 * x + 10 * p
    <3> HIDE DEF v, p, x, V
    <3> QED
      BY <1>3, <1>7, <2>1, <2>2, <2>3
  <2>5. CASE k <= UnitBits
    <3>1. p <= s
      BY <1>1, <2>5, PowerMonotone
    <3> HIDE DEF x, b, s, p, h, l, V
    <3>2. 20 * V <= 20 * n + 20 * p + b /\ 20 * n <= 20 * V + 20 * p + b
      BY <1>1, <1>3, <1>5, <1>7, <2>4
    <3> QED
      BY <1>1, <1>3, <2>4, <3>1, <3>2 DEF V, x, b, s, N, t
  <2>6. CASE k = UnitBits + 1
    <3>1. PICK g \in Nat : b = (4 * (5 * g + 2)) * p
      BY <2>6, LargestUnitInFloats
    <3> DEFINE M == RoundHalfEven(n, p)
               c == 4 * (5 * g + 2)
               y == t * c
    <3>2. c \in Nat /\ y \in Nat /\ x = y * p /\ N = M * p /\ M \in Nat /\ b = c * p
      <4>1. c \in Nat /\ b = c * p /\ N = M * p /\ M \in Nat
        BY <1>4, <3>1
      <4> HIDE DEF c, M, p, t, b
      <4>2. y \in Nat /\ t * (c * p) = y * p
        BY <1>3, <1>7, <4>1
      <4> QED
        BY <4>1, <4>2
    <3>3. v = RoundHalfEven(y, 10)
      <4> HIDE DEF y, p
      <4> QED
        BY <1>3, <3>2, RoundScale
    <3>4. 2 * y <= 20 * M + c /\ 20 * M <= 2 * y + c
      <4> HIDE DEF y, p, c, M, x, b
      <4>1. (2 * y) * p = 2 * x /\ (20 * M + c) * p = 20 * N + b
        BY <1>3, <3>2
      <4>2. (20 * M) * p = 20 * N /\ (2 * y + c) * p = 2 * x + b
        BY <1>3, <3>2
      <4>3. (2 * y) * p <= (20 * M + c) * p /\ (20 * M) * p <= (2 * y + c) * p
        BY <1>7, <4>1, <4>2
      <4>4. 2 * y \in Int /\ 20 * M + c \in Int /\ 20 * M \in Int /\ 2 * y + c \in Int
        BY <3>2
      <4> QED
        BY <1>3, <4>3, <4>4, ProductCancel
    <3>5. v <= M + g /\ M <= v + g
      <4> HIDE DEF M, y, v
      <4> QED
        BY <3>2, <3>3, <3>4, ReadLargest
    <3>6. V <= N + g * p /\ N <= V + g * p /\ g * p \in Nat
      <4> HIDE DEF v, M, p, V
      <4>1. (M + g) * p >= v * p /\ (v + g) * p >= M * p
        BY <1>3, <2>2, <3>2, <3>5, ProductMonotone
      <4>2. (M + g) * p = N + g * p /\ (v + g) * p = V + g * p /\ g * p \in Nat
        BY <1>3, <2>1, <2>2, <3>2
      <4> QED
        BY <2>1, <3>2, <4>1, <4>2
    <3>7. 20 * (g * p) <= b
      <4> HIDE DEF p, b
      <4>1. (4 * (5 * g + 2)) * p = 20 * (g * p) + 8 * p
        BY <1>3
      <4> QED
        BY <1>3, <3>1, <3>6, <4>1
    <3> HIDE DEF x, b, s, p, h, l, V
    <3>8. 20 * V <= 20 * n + 10 * p + b /\ 20 * n <= 20 * V + 10 * p + b
      <4> DEFINE z == g * p
      <4>1. z \in Nat /\ V <= N + z /\ N <= V + z /\ 20 * z <= b
        BY <3>6, <3>7
      <4> HIDE DEF z
      <4> QED
        BY <1>1, <1>3, <1>5, <2>4, <4>1
    <3> QED
      BY <1>1, <1>3, <1>9, <2>4, <3>8 DEF V, x, b, s, N, t
  <2> QED
    BY <1>1, <1>2, <2>5, <2>6
<1> QED
  BY <1>3, <1>7, <1>8, <1>10, <1>11

\* A printed size is read back to within its rounding and that of the float.
LEMMA PrintedClose ==
    ASSUME NEW n \in Words
    PROVE  LET rounding == Bytes(Displayed(n).unit) \div 20 + 1
               float == IF n < 2 ^ FloatBits THEN 0 ELSE Bytes(KIB)
           IN  Distance(FromStr(Displayed(n)), n) <= rounding + float
<1>1. PICK u \in Units :
          /\ u # B => n >= Bytes(u)
          /\ \A v \in Units : n >= Bytes(v) => v <= u
          /\ Displayed(n) = Sized(RoundHalfEven(10 * Nearest(n), Bytes(u)), u)
  BY PrintedIs
<1> DEFINE b == Bytes(u)
           V == FloatFloor(RoundHalfEven(10 * Nearest(n), b) * b, 10)
<1>2. Displayed(n).unit = u /\ FromStr(Displayed(n)) = SaturatingCast(V)
  BY <1>1 DEF FromStr, Sized
<1>3. n \in Nat /\ b \in Nat /\ 2 ^ FloatBits \in Nat
  BY Widths, UnitIsPower, PowerType, SizesAreNatural
<1>4. CASE n < 2 ^ FloatBits
  <2>1. V \in Nat /\ 20 * V < 20 * n + 20 + b /\ 20 * n < 20 * V + 20 + b
    BY <1>4, ReadSmall
  <2> HIDE DEF V, b
  <2>2. 20 * V < 20 * n + 20 * 0 + 20 + b /\ 20 * n < 20 * V + 20 * 0 + 20 + b
    BY <1>3, <2>1
  <2>3. Distance(SaturatingCast(V), n) <= (b \div 20 + 1) + 0
    BY <1>3, <2>1, <2>2, CastNear
  <2> QED
    BY <1>2, <1>4, <2>3 DEF b
<1>5. CASE ~ (n < 2 ^ FloatBits)
  <2>1. 2 ^ FloatBits <= n
    BY <1>3, <1>5
  <2>2. u = PIB
    <3>1. PIB \in Units /\ u <= PIB /\ u \in Nat /\ PIB \in Nat
      BY DEF Units, B, PIB
    <3>2. Bytes(PIB) \in Nat /\ Bytes(PIB) <= 2 ^ FloatBits
      <4>1. UnitBits * PIB \in Nat /\ UnitBits * PIB <= FloatBits /\ FloatBits \in Nat
        BY <3>1, UnitIsPower, Widths
      <4>2. 2 ^ (UnitBits * PIB) <= 2 ^ FloatBits
        BY <4>1, PowerMonotone
      <4> QED
        BY <3>1, <4>2, UnitIsPower
    <3>3. n >= Bytes(PIB)
      BY <1>3, <2>1, <3>2
    <3>4. PIB <= u
      BY <1>1, <3>1, <3>3
    <3> QED
      BY <3>1, <3>4
  <2> DEFINE s == 2 ^ UnitBits
  <2>3. V \in Nat /\ 20 * V <= 20 * n + 20 * s + b /\ 20 * n <= 20 * V + 20 * s + b
    BY <2>1, <2>2, ReadLarge
  <2>4. s \in Nat /\ Bytes(KIB) = s
    <3>1. UnitBits \in Nat /\ UnitBits * 1 = UnitBits
      BY Widths
    <3> QED
      BY <3>1, PowerType DEF Bytes, KIB
  <2> HIDE DEF V, b, s
  <2>5. 20 * V < 20 * n + 20 * s + 20 + b /\ 20 * n < 20 * V + 20 * s + 20 + b
    BY <1>3, <2>3, <2>4
  <2>6. Distance(SaturatingCast(V), n) <= (b \div 20 + 1) + s
    BY <1>3, <2>3, <2>4, <2>5, CastNear
  <2> QED
    BY <1>2, <1>5, <2>4, <2>6 DEF b
<1> QED
  BY <1>4, <1>5

\* What is printed of a size can be compared and read back, whatever the widths.
THEOREM DisplaysAreFaithful == Spec => []DisplayIsFaithful
<1>1. TypeOK => DisplayIsFaithful
  BY PrintedMonotone, PrintedClose DEF TypeOK, SizeTypeOK, DisplayIsFaithful
<1> QED
  BY <1>1, RouterTypeCorrect, PTL
=============================================================================
