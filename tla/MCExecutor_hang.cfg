SPECIFICATION FairSpec
CONSTANTS
    b1 = b1
    b2 = b2
    t1 = t1
    t2 = t2
    None = None
    Backend = {b1}
    Addr = {a1}
    Task = {t1}
    BackendOf <- OneBackend
    ShardOf <- OneShard
    Faults = {}
    MaxSpawns = 1
    MaxWaiting = 1
PROPERTY WaitingKillIsDelivered
CHECK_DEADLOCK FALSE
