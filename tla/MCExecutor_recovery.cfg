\* One backend in the long run; nothing but crashes and dropped calls goes wrong.
SPECIFICATION FairSpec
CONSTANTS
    b1 = b1
    b2 = b2
    t1 = t1
    t2 = t2
    None = None
    Backend = {b1}
    Addr = {a1}
    Task = {t1}
    BackendOf <- OneBackend
    ShardOf <- OneShard
    Faults = {"crash", "late"}
    MaxSpawns = 1
    MaxWaiting = 2
INVARIANTS StreamNeverAhead NeverStranded OrphansHaveACause
PROPERTIES TerminateTakesEffect SweptIsRemoved TerminalIsReclaimed
    RestartReclaims
