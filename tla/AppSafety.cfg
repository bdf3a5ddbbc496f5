SPECIFICATION Safe
CONSTANTS
    grpc = grpc
    rest = rest
    GrpcServers = {grpc}
    RestServers = {rest}
    Services = {hello}
    Clients = {c1}
    Addresses = {a1,a2}
    BadAddress = BadAddress
    Free = Free
    Foreign = Foreign
    Drivers = {"run", "handle"}
    InstallCanFail = TRUE
SYMMETRY Symmetry
INVARIANTS
    TypeOK
    ShutdownOrder
    NoShutdownWithoutCause
    EveryServerTold
    FailedStartLeavesOrphan
    ExitLeavesNothing
PROPERTIES
    InstallFailureIsDeaf
    SignalLosesNoRequest
