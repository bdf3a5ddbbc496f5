SPECIFICATION Safe
CONSTANTS
    GrpcServers = {grpc}
    RestServers = {rest}
    Services = {hello}
    Clients = {c1}
    Addresses = {a1}
    BadAddress = BadAddress
    Free = Free
    Foreign = Foreign
INVARIANT StopReportsPanic
