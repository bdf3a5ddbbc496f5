---------------------------- MODULE SamplingProofs ---------------------------
(***************************************************************************)
(* A trace has one decision, the first rule that applies makes it, and a   *)
(* ratio samples its share, for any services, options and attributes.      *)
(***************************************************************************)
EXTENDS Sampling, NumberProofs, TLAPS

\* A carrier says of a trace what its spans were decided.
CarriersAreTrue == \A c \in carriers : \E x \in spans : c = ToJson(x)

TraceInv ==
    /\ TypeOK
    /\ OneDecisionPerTrace
    /\ CarriersAreTrue

\* Ids are numbers that neither of the two non-contexts has.
LEMMA IdsAreNatural == Ids \subseteq Int /\ -1 \notin Ids /\ -2 \notin Ids
BY SamplingAssumption DEF Ids

LEMMA NoContextIsNone == NoContext \notin Contexts /\ Garbled \notin Contexts
BY IdsAreNatural DEF NoContext, Garbled, Contexts

\* A new span keeps the invariant if its parent, when it has one, is the context
\* of a span.
LEMMA NewSpanKeepsInv ==
    ASSUME TraceInv, NEW s \in Services, NEW parent, NEW attrs \in Attributes,
           parent = NoContext \/ \E x \in spans : parent = ToJson(x),
           NewSpan(s, parent, attrs)
    PROVE  TraceInv'
<1> DEFINE New(id) == [service |-> s, id |-> id, root |-> parent = NoContext, attrs |-> attrs,
                       sampled |-> Decide(options[s], parent, id, attrs)]
<1>1. PICK id \in IF parent = NoContext THEN Ids \ {x.id : x \in spans} ELSE {parent.id} :
            spans' = spans \cup {New(id)}
    BY DEF NewSpan
<1>2. UNCHANGED <<options, carriers>>
    BY DEF NewSpan
<1>3. CASE parent = NoContext
  <2>1. id \in Ids /\ \A x \in spans : x.id # id
      BY <1>1, <1>3
  <2>2. Decide(options[s], parent, id, attrs) \in BOOLEAN
      BY <1>3 DEF Decide, Sampled
  <2>3. New(id) \in Spans
      BY <2>1, <2>2 DEF Spans
  <2> QED
      BY <1>1, <1>2, <2>1, <2>3 DEF TraceInv, TypeOK, OneDecisionPerTrace, CarriersAreTrue, ToJson
<1>4. CASE parent # NoContext
  <2>1. PICK x \in spans : parent = ToJson(x)
      BY <1>4
  <2>2. id = x.id /\ x \in Spans
      BY <1>1, <1>4, <2>1 DEF ToJson, TraceInv, TypeOK
  <2>3. Decide(options[s], parent, id, attrs) = x.sampled
      BY <1>4, <2>1 DEF Decide, ToJson
  <2>4. New(id) \in Spans /\ New(id).id = x.id /\ New(id).sampled = x.sampled
      BY <2>2, <2>3 DEF Spans
  <2> QED
      BY <1>1, <1>2, <2>4 DEF TraceInv, TypeOK, OneDecisionPerTrace, CarriersAreTrue, ToJson
<1> QED
    BY <1>3, <1>4

LEMMA InitTraceInv == Init => TraceInv
BY DEF Init, TraceInv, TypeOK, OneDecisionPerTrace, CarriersAreTrue

LEMMA NextKeepsTraceInv == TraceInv /\ [Next]_vars => TraceInv'
<1> SUFFICES ASSUME TraceInv, [Next]_vars PROVE TraceInv'
    OBVIOUS
<1>1. ASSUME NEW s \in Services, NEW attrs \in Attributes, Root(s, attrs)
      PROVE  TraceInv'
    BY <1>1, NewSpanKeepsInv DEF Root
<1>2. ASSUME NEW s \in Services, NEW attrs \in Attributes, NEW c \in carriers \cup {Garbled},
             Receive(s, c, attrs)
      PROVE  TraceInv'
  <2>1. FromJson(c) = NoContext \/ \E x \in spans : FromJson(c) = ToJson(x)
      BY NoContextIsNone DEF FromJson, TraceInv, CarriersAreTrue
  <2> QED
      BY <1>2, <2>1, NewSpanKeepsInv DEF Receive
<1>3. ASSUME NEW x \in spans, NEW attrs \in Attributes, Child(x, attrs)
      PROVE  TraceInv'
  <2>1. x.service \in Services
      BY DEF TraceInv, TypeOK, Spans
  <2> QED
      BY <1>3, <2>1, NewSpanKeepsInv DEF Child
<1>4. ASSUME NEW x \in spans, Send(x)
      PROVE  TraceInv'
  <2>1. ToJson(x) \in Contexts
      BY DEF TraceInv, TypeOK, Spans, ToJson, Contexts
  <2> QED
      BY <1>4, <2>1 DEF Send, TraceInv, TypeOK, OneDecisionPerTrace, CarriersAreTrue, ToJson
<1>5. CASE UNCHANGED vars
    BY <1>5 DEF vars, TraceInv, TypeOK, OneDecisionPerTrace, CarriersAreTrue
<1> QED
    BY <1>1, <1>2, <1>3, <1>4, <1>5 DEF Next

THEOREM TraceInvariant == Spec => []TraceInv
BY InitTraceInv, NextKeepsTraceInv, PTL DEF Spec

\* Spans and contexts keep their types, for any services and options.
THEOREM SamplingTypeCorrect == Spec => []TypeOK
BY TraceInvariant, PTL DEF TraceInv

\* A trace is sampled as a whole or not at all.
THEOREM TracesAreWhole == Spec => []OneDecisionPerTrace
BY TraceInvariant, PTL DEF TraceInv

-----------------------------------------------------------------------------
\* A service with a higher ratio keeps every trace that one with a lower keeps.
THEOREM HigherRatioKeepsMore ==
    ASSUME NEW low \in Int, NEW high \in Int, low <= high, NEW id \in Ids, Sampled(low, id)
    PROVE  Sampled(high, id)
<1> DEFINE Clamp(r) == IF r > 0 THEN r ELSE 0
<1>1. Unit \in Nat \ {0} /\ Half \in Nat
    BY SamplingAssumption
<1>2. Clamp(low) \in Nat /\ Clamp(high) \in Nat /\ Clamp(low) <= Clamp(high)
    OBVIOUS
<1> HIDE DEF Clamp
<1>3. /\ Clamp(low) * Half <= Clamp(high) * Half
      /\ Clamp(low) * Half \in Int /\ Clamp(high) * Half \in Int
    BY <1>1, <1>2
<1>4. (Clamp(low) * Half) \div Unit <= (Clamp(high) * Half) \div Unit
    BY <1>1, <1>3, DivMonotone
<1>5. (Clamp(low) * Half) \div Unit \in Int /\ (Clamp(high) * Half) \div Unit \in Int
    BY <1>1, <1>3
<1>6. id \div 2 \in Int
    BY IdsAreNatural
<1>7. low >= Unit \/ id \div 2 < (Clamp(low) * Half) \div Unit
    BY DEF Sampled, Clamp
<1>8. high >= Unit \/ id \div 2 < (Clamp(high) * Half) \div Unit
    BY <1>1, <1>4, <1>5, <1>6, <1>7
<1> QED
    BY <1>8 DEF Sampled, Clamp

-----------------------------------------------------------------------------
(* The rule that decides.                                                   *)

\* Every entry of a list of attributes is a pair.
LEMMA AttributesArePairs ==
    ASSUME NEW attrs \in Attributes
    PROVE  /\ Len(attrs) \in Nat /\ DOMAIN attrs = 1 .. Len(attrs)
           /\ \A i \in DOMAIN attrs : attrs[i] = <<attrs[i][1], attrs[i][2]>>
<1>1. attrs \in Seq(Range(attrs)) /\ \A kv \in Range(attrs) : kv = <<kv[1], kv[2]>>
  BY SamplingAssumption DEF SamplingAssumption
<1>2. Len(attrs) \in Nat /\ DOMAIN attrs = 1 .. Len(attrs)
  BY <1>1
<1>3. \A i \in DOMAIN attrs : attrs[i] \in Range(attrs)
  BY DEF Range
<1> QED
  BY <1>1, <1>2, <1>3

\* The loop over the attributes finds what they say of a key.
LEMMA AttributeIsSaid ==
    ASSUME NEW attrs \in Attributes, NEW key, NEW value
    PROVE  Says(attrs, key, value) <=> Attribute(attrs, key) = value
<1> DEFINE I == {i \in 1 .. Len(attrs) : attrs[i][1] = key}
           n == Len(attrs)
<1>1. /\ n \in Nat /\ DOMAIN attrs = 1 .. n
      /\ \A i \in DOMAIN attrs : attrs[i] = <<attrs[i][1], attrs[i][2]>>
  BY AttributesArePairs
<1>2. Attribute(attrs, key) = LET i == IF I # {} THEN Max(I) ELSE 0
                              IN  IF i = 0 THEN Absent ELSE attrs[i][2]
  BY DEF Attribute, SelectLastInSeq
<1>3. I \subseteq 0 .. n /\ I \subseteq DOMAIN attrs /\ 0 \notin I
  BY <1>1
<1>4. CASE I = {}
  <2>1. \A i \in DOMAIN attrs : attrs[i][1] # key
    BY <1>1, <1>4
  <2>2. Attribute(attrs, key) = Absent
    BY <1>2, <1>4
  <2> QED
    BY <1>1, <2>1, <2>2 DEF Says
<1>5. CASE I # {}
  <2> DEFINE m == Max(I)
  <2>1. m \in I /\ \A i \in I : i <= m
    BY <1>1, <1>3, <1>5, MaxOfNaturals
  <2>2. Attribute(attrs, key) = attrs[m][2]
    BY <1>2, <1>3, <1>5, <2>1
  <2> HIDE DEF m
  <2>3. m \in DOMAIN attrs /\ attrs[m] = <<key, attrs[m][2]>>
    BY <1>1, <1>3, <2>1
  <2>4. \A j \in DOMAIN attrs : j > m => attrs[j][1] # key
    BY <1>1, <2>1
  <2>5. ASSUME NEW i \in DOMAIN attrs, attrs[i] = <<key, value>>,
               \A j \in DOMAIN attrs : j > i => attrs[j][1] # key
        PROVE  i = m
    <3>1. i \in I
      BY <1>1, <2>5
    <3> QED
      BY <1>1, <2>1, <2>3, <2>5, <3>1
  <2>6. Says(attrs, key, value) => attrs[m][2] = value
    BY <2>3, <2>5 DEF Says
  <2>7. attrs[m][2] = value => Says(attrs, key, value)
    BY <2>3, <2>4 DEF Says
  <2> QED
    BY <2>2, <2>6, <2>7
<1> QED
  BY <1>4, <1>5

\* The ratio the sampler settles on is the one the options give, by the first
\* rule that applies or by default.
LEMMA RatioIsGiven ==
    ASSUME NEW opt \in Options, NEW attrs \in Attributes
    PROVE  /\ RatioFor(opt, attrs) \in {opt.default} \cup {r.ratio : r \in Range(opt.rules)}
           /\ Gives(opt, attrs, RatioFor(opt, attrs))
<1> DEFINE protocol == Attribute(attrs, "protocol")
           type == Attribute(attrs, "request_type")
           M(r) == Matches(r, protocol, type)
           A(r) == /\ Says(attrs, "protocol", r.protocol)
                   /\ r.types # {} => \E t \in r.types : Says(attrs, "request_type", t)
           n == Len(opt.rules)
           I == {i \in 1 .. n : M(opt.rules[i])}
<1>1. n \in Nat /\ DOMAIN opt.rules = 1 .. n
  <2>1. opt.rules \in Seq(Range(opt.rules))
    BY SamplingAssumption DEF SamplingAssumption
  <2> QED
    BY <2>1
<1>2. \A r : M(r) <=> A(r)
  BY AttributeIsSaid DEF Matches
<1>3. RatioFor(opt, attrs) = LET i == IF I # {} THEN Min(I) ELSE 0
                             IN  IF i = 0 THEN opt.default ELSE opt.rules[i].ratio
  BY DEF RatioFor, SelectInSeq
<1>4. \A ratio : Gives(opt, attrs, ratio) <=>
          \/ \E i \in DOMAIN opt.rules :
                /\ A(opt.rules[i]) /\ ratio = opt.rules[i].ratio
                /\ \A j \in 1 .. i - 1 : ~A(opt.rules[j])
          \/ ratio = opt.default /\ \A i \in DOMAIN opt.rules : ~A(opt.rules[i])
  BY DEF Gives
<1> HIDE DEF M, A
<1>5. CASE I = {}
  <2>1. RatioFor(opt, attrs) = opt.default
    BY <1>3, <1>5
  <2>2. \A i \in DOMAIN opt.rules : ~A(opt.rules[i])
    BY <1>1, <1>2, <1>5
  <2> QED
    BY <1>4, <2>1, <2>2
<1>6. CASE I # {}
  <2> DEFINE m == Min(I)
  <2>1. I \subseteq Nat /\ 0 \notin I
    OBVIOUS
  <2>2. m \in I /\ \A i \in I : m <= i
    BY <1>6, <2>1, MinOfNaturals
  <2>3. RatioFor(opt, attrs) = opt.rules[m].ratio
    BY <1>3, <1>6, <2>1, <2>2
  <2> HIDE DEF m
  <2>4. m \in DOMAIN opt.rules /\ A(opt.rules[m]) /\ \A j \in 1 .. m - 1 : ~A(opt.rules[j])
    BY <1>1, <1>2, <2>2
  <2>5. opt.rules[m] \in Range(opt.rules)
    BY <2>4 DEF Range
  <2> QED
    BY <1>4, <2>3, <2>4, <2>5
<1> QED
  BY <1>5, <1>6

\* Root spans were decided by the ratio their options give.
RootsAreDecided ==
    \A x \in spans : x.root =>
        x.sampled = Sampled(RatioFor(options[x.service], x.attrs), x.id)

RootInv == TypeOK /\ RootsAreDecided

\* A new span is a root exactly if it has no parent, and then the sampler of its
\* service decides.
LEMMA NewSpanKeepsRootInv ==
    ASSUME RootInv, TypeOK', NEW s \in Services, NEW parent, NEW attrs \in Attributes,
           NewSpan(s, parent, attrs)
    PROVE  RootInv'
<1>1. PICK id : spans' = spans \cup
            {[service |-> s, id |-> id, root |-> parent = NoContext, attrs |-> attrs,
              sampled |-> Decide(options[s], parent, id, attrs)]}
  BY DEF NewSpan
<1>2. options' = options
  BY DEF NewSpan
<1>3. parent = NoContext =>
          Decide(options[s], parent, id, attrs) = Sampled(RatioFor(options[s], attrs), id)
  BY DEF Decide
<1>4. ASSUME NEW x \in spans', x.root
      PROVE  x.sampled = Sampled(RatioFor(options[x.service], x.attrs), x.id)
  <2>1. CASE x \in spans
    BY <1>4, <2>1 DEF RootInv, RootsAreDecided
  <2>2. CASE x \notin spans
    <3> DEFINE d == Decide(options[s], parent, id, attrs)
    <3>1. x = [service |-> s, id |-> id,
               root |-> parent = NoContext, attrs |-> attrs, sampled |-> d]
      BY <1>1, <2>2
    <3> HIDE DEF d
    <3>2. /\ x.service = s /\ x.id = id /\ x.attrs = attrs /\ x.sampled = d
          /\ x.root = (parent = NoContext)
      BY <3>1
    <3>3. d = Sampled(RatioFor(options[s], attrs), id)
      BY <1>3, <1>4, <3>2 DEF d
    <3> QED
      BY <3>2, <3>3
  <2> QED
    BY <2>1, <2>2
<1> QED
  BY <1>2, <1>4 DEF RootInv, RootsAreDecided

LEMMA NextKeepsRootInv == RootInv /\ TypeOK' /\ [Next]_vars => RootInv'
<1> SUFFICES ASSUME RootInv, TypeOK', [Next]_vars PROVE RootInv'
  OBVIOUS
<1>1. ASSUME NEW s \in Services, NEW attrs \in Attributes, Root(s, attrs)
      PROVE  RootInv'
  BY <1>1, NewSpanKeepsRootInv DEF Root
<1>2. ASSUME NEW s \in Services, NEW attrs \in Attributes, NEW c, Receive(s, c, attrs)
      PROVE  RootInv'
  BY <1>2, NewSpanKeepsRootInv DEF Receive
<1>3. ASSUME NEW x \in spans, NEW attrs \in Attributes, Child(x, attrs)
      PROVE  RootInv'
  <2>1. x.service \in Services
    BY DEF RootInv, TypeOK, Spans
  <2> QED
    BY <1>3, <2>1, NewSpanKeepsRootInv DEF Child
<1>4. ASSUME NEW x, Send(x)
      PROVE  RootInv'
  BY <1>4 DEF Send, RootInv, RootsAreDecided
<1>5. CASE UNCHANGED vars
  BY <1>5 DEF vars, RootInv, RootsAreDecided
<1> QED
  BY <1>1, <1>2, <1>3, <1>4, <1>5 DEF Next

\* The first rule that applies to a root span decides on it, whatever the rules
\* and the attributes.
THEOREM FirstRulesDecide == Spec => []FirstRuleDecides
<1>1. Init /\ TypeOK => RootInv
  BY DEF Init, RootInv, RootsAreDecided
<1>2. RootInv => FirstRuleDecides
  <2> SUFFICES ASSUME RootInv, NEW x \in spans, x.root
               PROVE  \E ratio \in {options[x.service].default}
                                    \cup {r.ratio : r \in Range(options[x.service].rules)} :
                          /\ Gives(options[x.service], x.attrs, ratio)
                          /\ x.sampled <=> Sampled(ratio, x.id)
    BY DEF FirstRuleDecides
  <2> DEFINE opt == options[x.service]
  <2>1. opt \in Options /\ x.attrs \in Attributes
    BY DEF RootInv, TypeOK, Spans
  <2>2. x.sampled = Sampled(RatioFor(opt, x.attrs), x.id)
    BY DEF RootInv, RootsAreDecided
  <2> HIDE DEF opt
  <2> SUFFICES \E ratio \in {opt.default} \cup {r.ratio : r \in Range(opt.rules)} :
                   Gives(opt, x.attrs, ratio) /\ (x.sampled <=> Sampled(ratio, x.id))
    BY DEF opt
  <2> QED
    BY <2>1, <2>2, RatioIsGiven
<1> QED
  BY <1>1, <1>2, NextKeepsRootInv, SamplingTypeCorrect, PTL DEF Spec

-----------------------------------------------------------------------------
(* The share that is sampled.                                               *)

\* The numbers below 2n are 2n numbers.
LEMMA PairsBelow ==
    ASSUME NEW n \in Nat
    PROVE  Cardinality(0 .. 2 * n - 1) = 2 * n
<1>1. 2 * n - 1 \in Int /\ (0 > 2 * n - 1 => n = 0)
  OBVIOUS
<1> DEFINE m == 2 * n - 1
<1>2. Cardinality(0 .. m) = IF 0 > m THEN 0 ELSE m - 0 + 1
  <2> HIDE DEF m
  <2> QED
    BY <1>1, FS_Interval DEF m
<1> QED
  BY <1>1, <1>2

\* Of the trace ids a ratio samples as many as it says, rounded down to pairs.
LEMMA ShareOfRatio ==
    ASSUME NEW ratio \in Int
    PROVE  LET share == Cardinality({id \in Ids : Sampled(ratio, id)})
           IN  IF ratio >= Unit THEN share = 2 * Half
               ELSE IF ratio <= 0 THEN share = 0
               ELSE share * Unit <= ratio * 2 * Half /\ ratio * 2 * Half < (share + 2) * Unit
<1> DEFINE kept == {id \in Ids : Sampled(ratio, id)}
<1>1. Half \in Nat \ {0} /\ Unit \in Nat \ {0} /\ 2 * Half - 1 \in Int /\ Ids \subseteq Int
  BY SamplingAssumption DEF SamplingAssumption, Ids
<1>2. CASE ratio >= Unit
  <2>1. kept = 0 .. 2 * Half - 1
    BY <1>2 DEF Sampled, Ids
  <2>2. Cardinality(kept) = 2 * Half
    BY <1>1, <2>1, PairsBelow
  <2> QED
    BY <1>2, <2>2
<1>3. CASE ratio <= 0
  <2>1. 0 \div Unit = 0 /\ 0 * Half = 0 /\ ~(ratio > 0) /\ ~(ratio >= Unit)
    BY <1>1, <1>3
  <2>2. \A id \in Ids : ~(id \div 2 < 0)
    BY <1>1 DEF Ids
  <2>3. kept = {}
    BY <2>1, <2>2 DEF Sampled
  <2> QED
    BY <1>3, <2>1, <2>3, FS_EmptySet
<1>4. CASE ratio > 0 /\ ratio < Unit
  <2> DEFINE p == ratio * Half
             bound == p \div Unit
  <2>1. p \in Nat /\ p < Unit * Half
    <3>1. ratio * Half >= 0 * Half /\ (Unit - 1) * Half >= ratio * Half
      BY <1>1, <1>4, ProductMonotone
    <3> QED
      BY <1>1, <3>1
  <2> HIDE DEF p
  <2>2. /\ bound \in Int /\ bound >= 0
        /\ bound * Unit <= p /\ p < bound * Unit + Unit
    BY <1>1, <2>1, DivMod
  <2> HIDE DEF bound
  <2>3. bound < Half
    <3> SUFFICES ASSUME bound >= Half PROVE FALSE
      BY <1>1, <2>2
    <3>1. bound * Unit >= Half * Unit
      BY <1>1, <2>2, ProductMonotone
    <3> QED
      BY <1>1, <2>1, <2>2, <3>1
  <2>4. \A id \in Ids : Sampled(ratio, id) <=> id \div 2 < bound
    BY <1>1, <1>4 DEF Sampled, p, bound
  <2>5. \A id \in Int : id \div 2 < bound <=> id <= 2 * bound - 1
    BY <2>2
  <2>6. kept = 0 .. 2 * bound - 1
    BY <1>1, <2>2, <2>3, <2>4, <2>5 DEF Ids
  <2>7. Cardinality(kept) = 2 * bound
    <3> HIDE DEF kept
    <3> QED
      BY <2>2, <2>6, PairsBelow
  <2>8. 2 * bound * Unit <= ratio * 2 * Half /\ ratio * 2 * Half < (2 * bound + 2) * Unit
    BY <1>1, <2>2 DEF p
  <2> QED
    BY <1>1, <1>4, <2>7, <2>8
<1> QED
  BY <1>1, <1>2, <1>3, <1>4

\* Every service samples the share of the traces that its ratio names.
THEOREM SharesAreRatios == Spec => []ShareIsRatio
<1>1. TypeOK => ShareIsRatio
  <2> SUFFICES ASSUME TypeOK PROVE ShareIsRatio
    OBVIOUS
  <2>1. \A s \in Services : options[s].default \in Int
    BY SamplingAssumption DEF SamplingAssumption, TypeOK
  <2> QED
    BY <2>1, ShareOfRatio DEF ShareIsRatio
<1> QED
  BY <1>1, SamplingTypeCorrect, PTL
=============================================================================
