------------------------------ MODULE Sampling ------------------------------
(***************************************************************************)
(* Trace sampling across services: the sampler of                          *)
(* crates/common/src/telemetry/tracing_sampler.rs, which                   *)
(* init_global_logging makes the root sampler of a parent-based one, and   *)
(* the context that TracingContext (tracing_context.rs) carries from a     *)
(* span of one service to a span of another.                               *)
(*                                                                         *)
(* Every service has options of its own.  Text that carries a context may  *)
(* be delivered late, more than once or damaged.                           *)
(***************************************************************************)
EXTENDS Integers, Sequences, FiniteSets, SequencesExt

CONSTANTS
    Services,
    Options,      \* the tracing_sample_ratio a service may be configured with
    Attributes,   \* the attribute lists a root span may carry
    Absent,       \* no such attribute
    Half,         \* half the number of values of a trace id, 2^63 in the code
    Unit,         \* ratios are integers, in units of 1/Unit
    MaxSpans      \* bound: how many spans are observed

ASSUME SamplingAssumption ==
    /\ Half \in Nat \ {0}
    /\ Unit \in Nat \ {0}
    /\ MaxSpans \in Nat
    /\ \A opt \in Options :
          /\ opt.default \in Int
          /\ opt.rules \in Seq(Range(opt.rules))
          /\ \A i \in DOMAIN opt.rules :
                opt.rules[i].protocol # Absent /\ Absent \notin opt.rules[i].types
    /\ \A attrs \in Attributes :
          /\ attrs \in Seq(Range(attrs))
          /\ \A kv \in Range(attrs) : kv = <<kv[1], kv[2]>>

\* Trace ids by their low half, which alone the sampler looks at.
Ids == 0 .. 2 * Half - 1

\* Two contexts that are no context: an empty one, and text that does not parse.
NoContext == [id |-> -1, sampled |-> FALSE]
Garbled == [id |-> -2, sampled |-> FALSE]

Contexts == [id : Ids, sampled : BOOLEAN]

VARIABLES
    options,   \* the options of each service
    spans,     \* the spans so far
    carriers   \* the contexts written out by to_json

vars == <<options, spans, carriers>>

-----------------------------------------------------------------------------
(* The sampler.                                                             *)

\* TracingSampleRule::match_rule
Matches(rule, protocol, type) ==
    /\ protocol = rule.protocol
    /\ rule.types = {} \/ type \in rule.types

\* The loop over the attributes: a later one replaces an earlier one.
Attribute(attrs, key) ==
    LET i == SelectLastInSeq(attrs, LAMBDA kv : kv[1] = key)
    IN  IF i = 0 THEN Absent ELSE attrs[i][2]

\* Mutant of RatioFor: the last rule that matches wins.
RatioForLast(opt, attrs) ==
    LET protocol == Attribute(attrs, "protocol")
        type == Attribute(attrs, "request_type")
        i == SelectLastInSeq(opt.rules, LAMBDA r : Matches(r, protocol, type))
    IN  IF i = 0 THEN opt.default ELSE opt.rules[i].ratio

\* The ratio should_sample settles on; without a protocol no rule is tried.
RatioFor(opt, attrs) ==
    LET protocol == Attribute(attrs, "protocol")
        type == Attribute(attrs, "request_type")
        i == SelectInSeq(opt.rules, LAMBDA r : Matches(r, protocol, type))
    IN  IF i = 0 THEN opt.default ELSE opt.rules[i].ratio

\* Mutant of Sampled: the bound itself is sampled.
SampledInclusive(ratio, id) ==
    LET bound == ((IF ratio > 0 THEN ratio ELSE 0) * Half) \div Unit
    IN  ratio >= Unit \/ id \div 2 <= bound

\* sample_based_on_probability: a negative ratio counts as 0.
Sampled(ratio, id) ==
    LET bound == ((IF ratio > 0 THEN ratio ELSE 0) * Half) \div Unit
    IN  ratio >= Unit \/ id \div 2 < bound

-----------------------------------------------------------------------------
(* Contexts on their way.                                                   *)

\* to_json of the context of a span.
ToJson(span) == [id |-> span.id, sampled |-> span.sampled]

\* Mutant of FromJson: what was read is taken for a context, whatever it is.
FromJsonUnchecked(carrier) == carrier

\* from_json: text that does not parse gives an empty context.
FromJson(carrier) == IF carrier \in Contexts THEN carrier ELSE NoContext

\* Mutant of Decide: the sampler of the options is not wrapped.
DecideAlone(opt, parent, id, attrs) == Sampled(RatioFor(opt, attrs), id)

\* Sampler::ParentBased around create_sampler: a span with a parent follows it.
\* Without rules create_sampler takes the sampler of the SDK, which decides alike.
Decide(opt, parent, id, attrs) ==
    IF parent = NoContext THEN Sampled(RatioFor(opt, attrs), id) ELSE parent.sampled

-----------------------------------------------------------------------------
(* The services.                                                            *)

Spans == [service : Services, id : Ids, root : BOOLEAN, attrs : Attributes, sampled : BOOLEAN]

TypeOK ==
    /\ options \in [Services -> Options]
    /\ spans \subseteq Spans
    /\ carriers \subseteq Contexts

Init ==
    /\ options \in [Services -> Options]
    /\ spans = {}
    /\ carriers = {}

\* A span of service s under the given context.  Without a parent the SDK draws
\* a trace id nobody has.
NewSpan(s, parent, attrs) ==
    /\ Cardinality(spans) < MaxSpans
    /\ \E id \in IF parent = NoContext THEN Ids \ {x.id : x \in spans} ELSE {parent.id} :
            spans' = spans \cup
                {[service |-> s, id |-> id, root |-> parent = NoContext, attrs |-> attrs,
                  sampled |-> Decide(options[s], parent, id, attrs)]}
    /\ UNCHANGED <<options, carriers>>

\* A span without a parent: TracingContext::new.
Root(s, attrs) == NewSpan(s, NoContext, attrs)

\* A span within a span of the same service: from_current_span, attach.
Child(span, attrs) == NewSpan(span.service, ToJson(span), attrs)

\* The context of a span is written out: from_span, to_w3c, to_json.
Send(span) ==
    /\ carriers' = carriers \cup {ToJson(span)}
    /\ UNCHANGED <<options, spans>>

\* A service reads a context, intact or not: from_json, from_w3c, attach.
Receive(s, carrier, attrs) == NewSpan(s, FromJson(carrier), attrs)

Next ==
    \/ \E s \in Services, attrs \in Attributes :
          \/ Root(s, attrs)
          \/ \E carrier \in carriers \cup {Garbled} : Receive(s, carrier, attrs)
    \/ \E span \in spans :
          \/ Send(span)
          \/ \E attrs \in Attributes : Child(span, attrs)

Spec == Init /\ [][Next]_vars

-----------------------------------------------------------------------------
(* Properties.                                                              *)

\* A trace is sampled as a whole or not at all, however many services with
\* whatever options it crosses, and however its contexts are delivered.
OneDecisionPerTrace ==
    \A x, y \in spans : x.id = y.id => x.sampled = y.sampled

\* What a list of attributes says of a key: the value of its last entry.
Says(attrs, key, value) ==
    \/ \E i \in DOMAIN attrs :
          /\ attrs[i] = <<key, value>>
          /\ \A j \in DOMAIN attrs : j > i => attrs[j][1] # key
    \/ value = Absent /\ \A i \in DOMAIN attrs : attrs[i][1] # key

\* Whether the options give the attributes this ratio: by a rule that applies
\* and that no rule before it pre-empts, or because no rule applies.
Gives(opt, attrs, ratio) ==
    LET Applies(r) ==
            /\ Says(attrs, "protocol", r.protocol)
            /\ r.types # {} => \E type \in r.types : Says(attrs, "request_type", type)
    IN  \/ \E i \in DOMAIN opt.rules :
              /\ Applies(opt.rules[i]) /\ ratio = opt.rules[i].ratio
              /\ \A j \in 1 .. i - 1 : ~Applies(opt.rules[j])
        \/ ratio = opt.default /\ \A i \in DOMAIN opt.rules : ~Applies(opt.rules[i])

\* The decision on a root span is by the first rule that applies to it, else by
\* the default: rules that are shadowed by a broader one have no effect.
FirstRuleDecides ==
    \A x \in spans : x.root =>
        \E ratio \in {options[x.service].default}
                        \cup {r.ratio : r \in Range(options[x.service].rules)} :
            /\ Gives(options[x.service], x.attrs, ratio)
            /\ x.sampled <=> Sampled(ratio, x.id)

\* A service samples the share of the trace ids that its ratio names, to within
\* the one id in each pair that the shift makes alike; ratios beyond 0 and 1
\* mean none and all.
ShareIsRatio ==
    \A s \in Services :
        LET ratio == options[s].default
            share == Cardinality({id \in Ids : Sampled(ratio, id)})
        IN  IF ratio >= Unit THEN share = 2 * Half
            ELSE IF ratio <= 0 THEN share = 0
            ELSE share * Unit <= ratio * 2 * Half /\ ratio * 2 * Half < (share + 2) * Unit
=============================================================================
