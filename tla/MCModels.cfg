SPECIFICATION ModelsSpec
CONSTANTS
    Handlers = {h1, h2, h3}
    Callers = {c1, c2, c3}
    Workers = {w1, w2}
    Nobody = Nobody
    None = None
    MaxLoads = 2
    Server = Server
    CommandLine = CommandLine
    Single = c3
    Processes = {Server, CommandLine}
    ProcessOf <- MCProcessOf
    Urls = {u, v}
    NoUrl = NoUrl
    Garbled = Garbled
    MaxRequests = 3
INVARIANTS
    OneCallBesideDisclaimer
    ServesWhatItReports
    ByReferenceIsCurrent
    OnlyWholeFiles
    ServesRequested
    NoLitter
PROPERTIES
    SwapsOutsideCalls
    ComesBack
