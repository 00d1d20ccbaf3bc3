\* DNS records with the constants of the code, publishing and delivery as slow as
\* the buffer allows; a stream of three messages; two lines and two monitors.
\* A backend that has exited leaves nothing to do, so the system may stop.
SPECIFICATION FairSpec
CONSTANTS
    Ttl = 60
    Buffer = 10
    MaxPublish = 3
    MaxDelay = 4
    MaxErrors = 1
    MaxOutages = 2
    MaxMonitors = 2
    Name = {1, 2}
    Subject = {1, 2}
    SubjectOf <- OwnSubject
    Filter = {1}
    Writer = {w1}
    PerSubject = TRUE
    Batch = 1
    MaxMessages = 3
    MaxCopies = 2
    MaxLosses = 2
    Capacity = 2
    MaxLines = 2
    MaxEvents = 1
    MaxFailures = 1
    MaxLoops = 2
INVARIANTS NoGap RecordExpires ListIsCurrent
PROPERTIES RecordReturns InOrder StatusIsComplete StatsKeepComing LinesAreForwarded
           TraceComesToRest
CHECK_DEADLOCK FALSE
