SPECIFICATION CacheSpec
CONSTANTS
    Callers = {c1, c2, c3}
    Server = Server
    CommandLine = CommandLine
    Single = c3
    Processes = {Server, CommandLine}
    ProcessOf <- MCProcessOf
    Urls = {u, v}
    NoUrl = NoUrl
    Garbled = Garbled
    MaxRequests = 3
INVARIANTS
    LaterServesRequested
CHECK_DEADLOCK FALSE
