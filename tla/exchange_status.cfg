\* Small packets and no faults; a handler may add an entry of size 0.
CONSTANTS
    Clients = {c1, c2}
    MaxQueries = 1
    RequestTypes = {10, 11}
    NoType = 0
    Services = {10}
    HandlerCodes = {0, 2}
    Garbage = {0, 65535}
    RequestParts = {1}
    ResponseParts = {1}
    EmptyEntries = {TRUE, FALSE}
    Capacity = 1
    QueueSize = 1
    Faults = {}
    SigPipe = "ignored"
    None = None
SPECIFICATION Spec
INVARIANT SuccessStatusMeansSuccess
CHECK_DEADLOCK FALSE
