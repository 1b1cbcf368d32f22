SPECIFICATION ServerSpec
CONSTANTS
    Handlers = {h1, h2, h3}
    Workers = {w1, w2}
    Nobody = Nobody
    None = None
    MaxLoads = 1
INVARIANTS
    OneCallPerBackend
