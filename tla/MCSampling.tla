------------------------------ MODULE MCSampling ----------------------------
(***************************************************************************)
(* Services with options of every kind, for TLC.                       *)
(***************************************************************************)
EXTENDS Sampling, TLC

CONSTANTS http, mysql, get

Rule(protocol, types, ratio) == [protocol |-> protocol, types |-> types, ratio |-> ratio]

\* No rules, with ratios inside, outside and at the ends of their range; a
\* narrow rule before a broad one, a broad one that shadows a narrow one, and
\* rules for two protocols.  The unit is a third: bounds are rounded.
MCOptions ==
    {[default |-> r, rules |-> <<>>] : r \in -1 .. 4}
    \cup {[default |-> 1, rules |-> <<Rule(http, {get}, 3), Rule(http, {}, 0)>>],
          [default |-> 2, rules |-> <<Rule(http, {}, 0), Rule(http, {get}, 3)>>],
          [default |-> 0, rules |-> <<Rule(mysql, {}, 3), Rule(http, {get}, 1)>>]}

MCAttributes ==
    {<<>>,
     <<<<"protocol", http>>>>,
     <<<<"request_type", get>>>>,
     <<<<"protocol", http>>, <<"request_type", get>>>>,
     <<<<"protocol", mysql>>, <<"protocol", http>>>>}

Symmetry == Permutations(Services)
=============================================================================
