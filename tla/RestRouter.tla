----------------------------- MODULE RestRouter -----------------------------
(***************************************************************************)
(* What start_rest_server (crates/server/src/http.rs) builds before it     *)
(* spawns the server task of module Server: the router, its middleware and *)
(* the routes of the handlers it is given, from a RestServerConfig whose   *)
(* max_body_size is a ReadableSize.  axum is external: a layer wraps the   *)
(* routes that exist when it is added, of two body limits on a route the   *)
(* inner one counts, a body is measured where a handler reads it, and      *)
(* without any limit axum has one of its own.                              *)
(***************************************************************************)
EXTENDS ReadableSize, Sequences, SequencesExt

CONSTANTS
    Paths,          \* paths route handlers register, each with its method
    HandlerLists,   \* sequences passed as route_handlers
    NoLimit         \* no DefaultBodyLimit on a route: axum's own limit counts

health == "/health"
unknown == "unknown path"

\* A handler registers its paths and may add a body limit, to all that it returns
\* or to its own routes only.  It returns the router it was given with its routes
\* in it; or that router merged with one of its own, whose fallback replaces the
\* given one; or a router of its own alone.
Handlers == [paths: SUBSET Paths, limit: Words \cup {NoLimit}, whole: BOOLEAN,
             keeps: {"all", "routes", "nothing"}]

ASSUME RouterAssumption ==
    /\ unknown \notin Paths
    /\ HandlerLists \subseteq Seq(Handlers)
    /\ NoLimit \notin Words

VARIABLES
    phase,       \* where start_rest_server is
    cors,        \* enable_cors
    handlers,    \* route_handlers
    next,        \* the handler whose turn it is
    routes       \* the router: body limit and CORS headers of each path

routerVars == <<phase, cors, handlers, next, routes>>
vars == <<size, phase, cors, handlers, next, routes>>

Route == [limit: Words \cup {NoLimit}, cors: BOOLEAN]
Registered == DOMAIN routes

TypeOK ==
    /\ SizeTypeOK
    /\ phase \in {"configuring", "layering", "registering", "spawned", "panicked"}
    /\ cors \in BOOLEAN
    /\ handlers \in HandlerLists \cup {<<>>}
    /\ next \in 1 .. Len(handlers) + 1
    /\ Registered \subseteq Paths \cup {health, unknown}
    /\ routes \in [Registered -> Route]

Init ==
    /\ SizeInit
    /\ phase = "configuring"
    /\ cors = TRUE
    /\ handlers = <<>>
    /\ next = 1
    /\ routes = <<>>

-----------------------------------------------------------------------------
\* Mutant of Limited: the limit added last is in force.
LimitedOutermost(rs, limit) ==
    [p \in DOMAIN rs |->
        [limit |-> IF limit = NoLimit THEN rs[p].limit ELSE limit, cors |-> rs[p].cors]]

\* A new limit wraps every given path; a limit further inside stays in force.
Limited(rs, limit) ==
    [p \in DOMAIN rs |->
        [limit |-> IF rs[p].limit = NoLimit THEN limit ELSE rs[p].limit, cors |-> rs[p].cors]]

Bare(paths) == [p \in paths |-> [limit |-> NoLimit, cors |-> FALSE]]

\* The router is created with /health and a fallback, and gets the body limit.
Build ==
    /\ phase = "configuring"
    /\ cors' \in BOOLEAN
    /\ handlers' \in HandlerLists
    /\ phase' = "layering"
    /\ routes' = Limited(Bare({health, unknown}), size)
    /\ UNCHANGED <<size, next>>

AddCors ==
    /\ phase = "layering"
    /\ routes' = [p \in Registered |-> [limit |-> routes[p].limit, cors |-> cors]]
    /\ phase' = "registering"
    /\ UNCHANGED <<size, cors, handlers, next>>

\* What is left of the given router, and what the handler brings.
KeptPaths(handler, rs) ==
    {p \in DOMAIN rs : handler.keeps = "all" \/ (handler.keeps = "routes" /\ p # unknown)}
Kept(handler, rs) == [p \in KeptPaths(handler, rs) |-> rs[p]]
Brings(handler, p) == p \in handler.paths \/ (p = unknown /\ handler.keeps # "all")
Own(handler) == Bare({p \in handler.paths \cup {unknown} : Brings(handler, p)})

\* Routes are only ever added under new paths.
Merged(rs, own) ==
    [p \in DOMAIN rs \cup DOMAIN own |-> IF p \in DOMAIN rs THEN rs[p] ELSE own[p]]

\* The router a handler returns.
Applied(handler, rs) ==
    IF handler.whole THEN Limited(Merged(Kept(handler, rs), Own(handler)), handler.limit)
                     ELSE Merged(Kept(handler, rs), Limited(Own(handler), handler.limit))

\* One turn of the loop over route_handlers.
Register ==
    /\ phase = "registering"
    /\ next <= Len(handlers)
    /\ handlers[next].paths \cap KeptPaths(handlers[next], routes) = {}
    /\ routes' = Applied(handlers[next], routes)
    /\ next' = next + 1
    /\ UNCHANGED <<size, phase, cors, handlers>>

\* A path that is taken makes axum panic, in the caller of start_rest_server.
RegisterPanics ==
    /\ phase = "registering"
    /\ next <= Len(handlers)
    /\ handlers[next].paths \cap KeptPaths(handlers[next], routes) # {}
    /\ phase' = "panicked"
    /\ UNCHANGED <<size, cors, handlers, next, routes>>

\* Mutant of Spawn: the last handler is left out.
SpawnEarly ==
    /\ phase = "registering"
    /\ next >= Len(handlers)
    /\ phase' = "spawned"
    /\ UNCHANGED <<size, cors, handlers, next, routes>>

\* tokio::spawn takes the finished router; see Server for what follows.
Spawn ==
    /\ phase = "registering"
    /\ next > Len(handlers)
    /\ phase' = "spawned"
    /\ UNCHANGED <<size, cors, handlers, next, routes>>

Configure ==
    /\ phase = "configuring"
    /\ SizeStep
    /\ UNCHANGED routerVars

Done == phase \in {"spawned", "panicked"} /\ UNCHANGED vars

Next == Configure \/ Build \/ AddCors \/ Register \/ RegisterPanics \/ Spawn \/ Done

Spec == Init /\ [][Next]_vars

-----------------------------------------------------------------------------
\* What handler i returned is still in the router behind handler n; 0 stands for
\* the router that was built.
Lasts(i, n) == \A k \in i + 1 .. n : handlers[k].keeps # "nothing"

\* Handler i wants a path of the router it is given.
Clashes(i) ==
    \/ health \in handlers[i].paths /\ Lasts(0, i)
    \/ \E j \in 1 .. i - 1 : handlers[j].paths \cap handlers[i].paths # {} /\ Lasts(j, i)

\* A path of the router behind handler n.
Remains(p, n) ==
    \/ p = unknown
    \/ p = health /\ Lasts(0, n)
    \/ \E i \in 1 .. n : p \in handlers[i].paths /\ Lasts(i, n)

\* The server is spawned with the routes of all handlers or not at all: a path
\* that is taken ends start_rest_server in a panic, before anything was spawned,
\* and nothing else does; and only a handler that returns a router of its own
\* takes away the routes of those before it (http.rs:99-154).
AllHandlersOrPanic ==
    /\ phase = "spawned" =>
           /\ \A i \in DOMAIN handlers : ~Clashes(i)
           /\ Registered = {p \in Paths \cup {health, unknown} : Remains(p, Len(handlers))}
    /\ phase = "panicked" => \E i \in DOMAIN handlers : Clashes(i)

\* The last handler of the first n that brought p, if any; and the first of them
\* that limits bodies on what handler i brought.
IsOrigin(i, p, n) ==
    /\ i = 0 \/ Brings(handlers[i], p)
    /\ \A k \in i + 1 .. n : ~Brings(handlers[k], p)
Limiting(i, n) ==
    {j \in 1 .. n : handlers[j].limit # NoLimit /\ (j = i \/ (j > i /\ handlers[j].whole))}
LimitBy(i, n) ==
    IF Limiting(i, n) = {} THEN NoLimit ELSE handlers[Min(Limiting(i, n))].limit

\* What guards a route in the end, told from the list alone: the limit of the
\* handler that brought it, else that of the first later handler that wraps the
\* whole router, else axum's.  The configured limit and CORS are on what was there
\* before the handlers, and on unknown paths only as long as no handler merges a
\* router of its own into the given one (http.rs:99-121).
RoutesAsLayered ==
    phase = "spawned" =>
        \A p \in Registered, i \in 0 .. Len(handlers) :
            IsOrigin(i, p, Len(handlers)) =>
                routes[p] = IF i = 0 THEN [limit |-> size, cors |-> cors]
                            ELSE [limit |-> LimitBy(i, Len(handlers)), cors |-> FALSE]

\* "Sets up the Axum router with middleware (CORS, body size limits)" and
\* "Maximum HTTP request body size": every route of the server has the configured
\* limit and the configured CORS headers (http.rs:42, :53).
MiddlewareOnEveryRoute ==
    phase = "spawned" =>
        \A p \in Registered : routes[p].cors = cors /\ routes[p].limit = size
=============================================================================
