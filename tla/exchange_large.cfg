\* No faults, requests of more parts than a read returns.
CONSTANTS
    Clients = {c1, c2}
    MaxQueries = 1
    RequestTypes = {10, 11}
    NoType = 0
    Services = {10}
    HandlerCodes = {0, 2}
    Garbage = {0, 65535}
    RequestParts = {1, 2}
    ResponseParts = {1}
    EmptyEntries = {FALSE}
    Capacity = 2
    QueueSize = 1
    Faults = {}
    SigPipe = "ignored"
    None = None
SPECIFICATION Spec
INVARIANT GoodRequestsAnswered
CHECK_DEADLOCK FALSE
