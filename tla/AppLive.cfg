SPECIFICATION Spec
CONSTANTS
    grpc = grpc
    rest = rest
    GrpcServers = {grpc}
    RestServers = {rest}
    Services = {hello}
    Clients = {c1}
    Addresses = {a1}
    BadAddress = BadAddress
    Free = Free
    Foreign = Foreign
    Drivers = {"run", "handle"}
    InstallCanFail = TRUE
PROPERTIES
    SignalEndsProcess
    FailedStartEndsProcess
    HandleShutdownReachesServers
