---------------------------- MODULE MCRestRouter ----------------------------
(***************************************************************************)
(* Configurations and handler lists of a REST server, for TLC.             *)
(***************************************************************************)
EXTENDS RestRouter

CONSTANTS apiHealth, goodbye

MCPaths == {apiHealth, goodbye, health}

\* The handlers of the test with two (the application has the first of them), and
\* some that limit bodies on their own routes or on the whole router, that want a
\* taken path, that merge a router of their own or return nothing else.
Adds(paths) == [paths |-> paths, limit |-> NoLimit, whole |-> FALSE, keeps |-> "all"]
Limits(p, limit) == [paths |-> {p}, limit |-> limit, whole |-> FALSE, keeps |-> "all"]
Wrapping(p, limit) == [paths |-> {p}, limit |-> limit, whole |-> TRUE, keeps |-> "all"]
Wrapper(limit) == [paths |-> {}, limit |-> limit, whole |-> TRUE, keeps |-> "all"]
Merges(p, limit) == [paths |-> {p}, limit |-> limit, whole |-> FALSE, keeps |-> "routes"]
Replaces(paths) == [paths |-> paths, limit |-> NoLimit, whole |-> FALSE, keeps |-> "nothing"]

MCHandlerLists ==
    {<<>>,
     <<Adds({apiHealth}), Adds({goodbye})>>,
     <<Adds({apiHealth}), Adds({apiHealth, goodbye})>>,
     <<Adds({health})>>,
     <<Adds({apiHealth}), Wrapper(9), Limits(goodbye, 7), Wrapper(11)>>,
     <<Wrapping(apiHealth, 9), Adds({goodbye}), Wrapper(0), Limits(goodbye, 7)>>,
     <<Merges(apiHealth, 7), Wrapper(9), Merges(goodbye, NoLimit), Wrapper(11)>>,
     <<Wrapping(apiHealth, 7), Merges(apiHealth, 9)>>,
     <<Limits(goodbye, 7), Replaces({goodbye}), Wrapping(health, 9)>>,
     <<Adds({apiHealth}), Replaces({health}), Adds({health, apiHealth})>>}

\* Negative, zero, fractional and saturating sizes, a number that is no word, and
\* a text that is no size.
MCTyped ==
    {Malformed, Plain(-1), Plain(0), Plain(MaxSize), Plain(MaxSize + 1),
     Sized(-15, KIB), Sized(3, KIB), Sized(13, MIB), Sized(15, GIB),
     Sized(19, PIB), Sized(90, PIB)}
=============================================================================
