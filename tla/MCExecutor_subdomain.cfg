SPECIFICATION Spec
CONSTANTS
    b1 = b1
    b2 = b2
    t1 = t1
    t2 = t2
    None = None
    Backend = {b1, b2}
    Addr = {a1, a2}
    Task = {t1, t2}
    BackendOf <- OnePerBackend
    ShardOf <- OneShard
    Faults = {}
    MaxSpawns = 1
    MaxWaiting = 0
INVARIANT SubdomainReachesOwnInstance
