SPECIFICATION Spec
CONSTANTS
    apiHealth = apiHealth
    goodbye = goodbye
    Paths <- MCPaths
    HandlerLists <- MCHandlerLists
    NoLimit = NoLimit
    WordBits = 13
    FloatBits = 10
    UnitBits = 2
    Counts = {1, 2, 3, 5}
    Typed <- MCTyped
INVARIANT MiddlewareOnEveryRoute
