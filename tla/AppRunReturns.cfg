SPECIFICATION Safe
CONSTANTS
    grpc = grpc
    rest = rest
    GrpcServers = {grpc}
    RestServers = {rest}
    Services = {hello}
    Clients = {c1}
    Addresses = {a1,a2}
    BadAddress = BadAddress
    Free = Free
    Foreign = Foreign
    Drivers = {"run"}
    InstallCanFail = FALSE
INVARIANT RunWaitsForServers
