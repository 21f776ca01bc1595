\* Every fault: clients die, are interrupted or run out of memory, messages have
\* entries that do not decode, and a write to a closed socket kills the writer.
CONSTANTS
    Clients = {c1, c2}
    MaxQueries = 1
    RequestTypes = {10, 11}
    NoType = 0
    Services = {10}
    HandlerCodes = {0}
    Garbage = {65535}
    RequestParts = {1}
    ResponseParts = {1, 2}
    EmptyEntries = {TRUE, FALSE}
    Capacity = 1
    QueueSize = 1
    Faults = {"conf", "crash", "signal", "malloc", "insert"}
    SigPipe = "default"
    None = None
SPECIFICATION FairSpec
INVARIANTS
    TypeOK
    ClientsKeptApart
    SuccessIsComplete
    GoodRequestsAnswered
PROPERTIES
    KeepsPromise
    QueriesReturn
    ServerComesBack
CHECK_DEADLOCK FALSE
