SPECIFICATION Spec
CONSTANTS
    b1 = b1
    b2 = b2
    t1 = t1
    t2 = t2
    None = None
    Backend = {b1}
    Addr = {a1}
    Task = {t1}
    BackendOf <- OneBackend
    ShardOf <- OneShard
    Faults = {"engine", "port", "db", "nats", "events", "clock", "crash", "late"}
    MaxSpawns = 1
    MaxWaiting = 2
INVARIANTS TypeOK MonitorHasTask RunningIsMonitored ReadyIsRouted
    TasksAreIndependent
PROPERTY FollowsLifecycle
