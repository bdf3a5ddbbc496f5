SPECIFICATION Spec
CONSTANTS
    GrpcServers = {grpc}
    RestServers = {rest}
    Services = {hello}
    Clients = {c1}
    Addresses = {a1}
    BadAddress = BadAddress
    Free = Free
    Foreign = Foreign
PROPERTIES
    GivenUpWaitLosesStart
    WaitForStartReturns
    ShutdownEndsServer
    WaitForStopReturns
    ImplementsGracefulServer
    OrphanKeepsServing
INVARIANTS
    TypeOK
    StartedMeansListening
    StopLeavesNothing
    NoSharedAddress
