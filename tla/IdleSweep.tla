----------------------------- MODULE IdleSweep ------------------------------
(***************************************************************************)
(* How an idle backend is found and swept: the proxy's request handlers    *)
(* and ConnectionTracker (drone/src/proxy), record_connections, which      *)
(* writes route.last_active once a second, and the idle loop of the        *)
(* executor's Ready step, which reads it.  One backend, in the state Ready *)
(* until the loop returns.  Time passes in half seconds, because           *)
(* last_active is cut to whole seconds and the executor's clock is not.    *)
(***************************************************************************)
EXTENDS Naturals, FiniteSets

CONSTANTS Conn,        \* client connections
          MaxIdle,     \* max_idle_secs
          MaxWrite,    \* half seconds reset_last_active_times may take
          MaxErrors,   \* bound: database errors while recording
          ClockRace    \* may next_check pass between the two Utc::now()?

ASSUME IdleAssumption ==
    /\ IsFiniteSet(Conn)
    /\ {MaxIdle, MaxWrite, MaxErrors} \subseteq Nat
    /\ ClockRace \in BOOLEAN

MaxLag == MaxIdle + 1
FlushPeriod == 2
Rounds(n) == (FlushPeriod + MaxWrite) * n
RecordGap == Rounds(1 + MaxErrors) + 2
Established == Rounds(1 + MaxErrors) + MaxWrite + 1
MaxQuiet == 2 * MaxIdle + FlushPeriod + 2 * MaxWrite + 2

VARIABLES
    half,      \* 0 or 1: the half of the present second
    lag,       \* whole seconds from last_active to now, up to MaxLag
    idle,      \* the idle loop: "Read", "Decide", "Sleep", "Swept", "Error"
    seen,      \* lag of the last_active it has read
    wake,      \* half seconds it still sleeps
    conn,      \* [Conn -> "None", "Request", "Upgrading", "Open"]
    openFor,   \* [Conn -> 0..Established]  half seconds as an open connection
    request_events,          \* is the backend in the set?
    long_lived_connections,  \* its count in the multiset
    flush,     \* record_connections: "Collect", "Write", "Sleep"
    active,    \* is the backend in the list it is writing?
    timer,     \* half seconds spent in Write, or left to sleep
    errors,
    quiet      \* half seconds without any connection, up to MaxQuiet

execVars == <<idle, seen, wake>>
proxyVars == <<conn, openFor, request_events, long_lived_connections>>
flushVars == <<flush, active, timer, errors>>
vars == <<half, lag, idle, seen, wake, conn, openFor, request_events,
          long_lived_connections, flush, active, timer, errors, quiet>>

TypeOK ==
    /\ half \in 0..1
    /\ {lag, seen} \subseteq 0..MaxLag
    /\ idle \in {"Read", "Decide", "Sleep", "Swept", "Error"}
    /\ wake \in 0..2 * MaxIdle
    /\ conn \in [Conn -> {"None", "Request", "Upgrading", "Open"}]
    /\ openFor \in [Conn -> 0..Established]
    /\ {request_events, active} \subseteq BOOLEAN
    /\ long_lived_connections \in 0..Cardinality(Conn)
    /\ flush \in {"Collect", "Write", "Sleep"}
    /\ timer \in 0..FlushPeriod + MaxWrite
    /\ errors \in 0..MaxErrors
    /\ quiet \in 0..MaxQuiet

\* insert_proxy_route has just set last_active.
Init ==
    /\ half \in 0..1 /\ lag = 0
    /\ idle = "Read" /\ seen = 0 /\ wake = 0
    /\ conn = [c \in Conn |-> "None"] /\ openFor = [c \in Conn |-> 0]
    /\ request_events = FALSE /\ long_lived_connections = 0
    /\ flush \in {"Collect", "Sleep"} /\ active = FALSE
    /\ timer \in 0..FlushPeriod
    /\ errors = 0 /\ quiet = 0

-----------------------------------------------------------------------------
(* The executor: wait for idle *)

ReadLastActive ==
    /\ idle = "Read"
    /\ idle' = "Decide"
    /\ seen' = lag
    /\ UNCHANGED <<half, lag, wake, proxyVars, flushVars, quiet>>

\* Half seconds from the last_active that was read to now; of the present one,
\* any part may have passed.
IdleTime == 2 * seen + half

\* next_check < Utc::now()
Sweep ==
    /\ idle = "Decide"
    /\ IdleTime >= 2 * MaxIdle
    /\ idle' = "Swept"
    /\ UNCHANGED <<half, lag, seen, wake, proxyVars, flushVars, quiet>>

\* Mutated form: it sleeps for max_idle_secs from now.
MutSleepOn ==
    /\ idle = "Decide"
    /\ IdleTime <= 2 * MaxIdle
    /\ idle' = "Sleep"
    /\ wake' = 2 * MaxIdle
    /\ UNCHANGED <<half, lag, seen, proxyVars, flushVars, quiet>>

SleepOn ==
    /\ idle = "Decide"
    /\ IdleTime <= 2 * MaxIdle
    /\ idle' = "Sleep"
    /\ wake' = 2 * MaxIdle - IdleTime
    /\ UNCHANGED <<half, lag, seen, proxyVars, flushVars, quiet>>

\* The second Utc::now() is later than next_check: to_std() is an error.
DeadlineRace ==
    /\ ClockRace
    /\ idle = "Decide"
    /\ IdleTime = 2 * MaxIdle
    /\ idle' = "Error"
    /\ UNCHANGED <<half, lag, seen, wake, proxyVars, flushVars, quiet>>

WakeUp ==
    /\ idle = "Sleep" /\ wake = 0
    /\ idle' = "Read"
    /\ UNCHANGED <<half, lag, seen, wake, proxyVars, flushVars, quiet>>

-----------------------------------------------------------------------------
(* The proxy's handlers.  get_proxy_route finds a route while the row says *)
(* Ready, and track_request follows without an await.                      *)

Request(c) ==
    /\ conn[c] = "None"
    /\ idle # "Swept"
    /\ request_events' = TRUE
    /\ conn' = [conn EXCEPT ![c] = "Request"]
    /\ quiet' = 0
    /\ UNCHANGED <<half, lag, execVars, openFor, long_lived_connections,
                   flushVars>>

Leave(c) ==
    /\ conn' = [conn EXCEPT ![c] = "None"]
    /\ openFor' = [openFor EXCEPT ![c] = 0]

\* The backend has answered (or failed to): the request is over.
Respond(c) ==
    /\ conn[c] = "Request"
    /\ Leave(c)
    /\ UNCHANGED <<half, lag, execVars, request_events, long_lived_connections,
                   flushVars, quiet>>

\* It answered an upgrade with 101; the client's side is upgraded by a task.
SwitchProtocols(c) ==
    /\ conn[c] = "Request"
    /\ conn' = [conn EXCEPT ![c] = "Upgrading"]
    /\ UNCHANGED <<half, lag, execVars, openFor, request_events,
                   long_lived_connections, flushVars, quiet>>

UpgradeFails(c) ==
    /\ conn[c] = "Upgrading"
    /\ Leave(c)
    /\ UNCHANGED <<half, lag, execVars, request_events, long_lived_connections,
                   flushVars, quiet>>

increment_connections(c) ==
    /\ conn[c] = "Upgrading"
    /\ conn' = [conn EXCEPT ![c] = "Open"]
    /\ long_lived_connections' = long_lived_connections + 1
    /\ UNCHANGED <<half, lag, execVars, openFor, request_events, flushVars,
                   quiet>>

decrement_connections(c) ==
    /\ conn[c] = "Open"
    /\ Leave(c)
    /\ long_lived_connections' = long_lived_connections - 1
    /\ UNCHANGED <<half, lag, execVars, request_events, flushVars, quiet>>

-----------------------------------------------------------------------------
(* record_connections *)

\* Mutated form: only requests are collected.
Mut_get_and_clear_active_backends ==
    /\ active' = request_events
    /\ request_events' = FALSE

get_and_clear_active_backends ==
    /\ active' = (request_events \/ long_lived_connections > 0)
    /\ request_events' = FALSE

Collect ==
    /\ flush = "Collect"
    /\ get_and_clear_active_backends
    /\ flush' = "Write" /\ timer' = 0
    /\ UNCHANGED <<half, lag, execVars, conn, openFor, long_lived_connections,
                   errors, quiet>>

\* reset_last_active_times, or an error after which what was collected is lost.
Write ==
    /\ flush = "Write"
    /\ flush' = "Sleep" /\ timer' = FlushPeriod
    /\ \/ /\ lag' = IF active THEN 0 ELSE lag
          /\ UNCHANGED errors
       \/ /\ active /\ errors < MaxErrors
          /\ errors' = errors + 1
          /\ UNCHANGED lag
    /\ active' = FALSE
    /\ UNCHANGED <<half, execVars, proxyVars, quiet>>

NextRound ==
    /\ flush = "Sleep" /\ timer = 0
    /\ flush' = "Collect"
    /\ UNCHANGED <<half, lag, execVars, proxyVars, active, timer, errors, quiet>>

-----------------------------------------------------------------------------
(* Time: what is due comes first; only the write may take its time *)

Older(n) == IF half = 1 /\ n < MaxLag THEN n + 1 ELSE n

HalfSecond ==
    /\ idle \notin {"Read", "Decide"}
    /\ idle = "Sleep" /\ wake = 0 => IdleTime <= 2 * MaxIdle
    /\ flush # "Collect"
    /\ IF flush = "Write" THEN timer < MaxWrite ELSE timer > 0
    /\ half' = 1 - half
    /\ lag' = Older(lag)
    /\ seen' = Older(seen)
    /\ wake' = IF wake > 0 THEN wake - 1 ELSE 0
    /\ timer' = IF flush = "Write" THEN timer + 1 ELSE timer - 1
    /\ openFor' = [c \in Conn |-> IF conn[c] = "Open" /\ openFor[c] < Established
                                  THEN openFor[c] + 1 ELSE openFor[c]]
    /\ quiet' = IF \E c \in Conn : conn[c] # "None" THEN 0
                ELSE IF quiet < MaxQuiet THEN quiet + 1 ELSE quiet
    /\ UNCHANGED <<idle, conn, request_events, long_lived_connections, flush,
                   active, errors>>

Executor == ReadLastActive \/ Sweep \/ SleepOn \/ DeadlineRace \/ WakeUp
Recorder == Collect \/ Write \/ NextRound

Next ==
    \/ Executor
    \/ Recorder
    \/ \E c \in Conn :
           \/ Request(c) \/ Respond(c) \/ SwitchProtocols(c) \/ UpgradeFails(c)
           \/ increment_connections(c) \/ decrement_connections(c)
    \/ HalfSecond

Spec == Init /\ [][Next]_vars

\* The two tasks run and the clock does, also while the idle loop spins at its
\* deadline; clients and backends may do nothing.
FairSpec ==
    Spec /\ WF_vars(Executor) /\ WF_vars(Recorder) /\ SF_vars(HalfSecond)

-----------------------------------------------------------------------------
(* Properties *)

\* A backend with an upgraded connection that has been open for long enough to
\* be recorded is not swept, if max_idle_secs covers the time between two
\* records: a round of record_connections, for every round that fails one
\* more, and the second that last_active may be cut by.
EstablishedIsNotSwept ==
    [][Sweep /\ 2 * MaxIdle >= RecordGap =>
           \A c \in Conn : openFor[c] < Established]_vars

\* A backend without connections is swept at the latest max_idle_secs, a
\* round of record_connections with two writes, and the granularity of the
\* clock after the last one was closed, if the idle loop does not end with an
\* error.
SweptOnTime ==
    idle \notin {"Swept", "Error"} => quiet < MaxQuiet

-----------------------------------------------------------------------------
(* What comments and documents say, and the code does not do *)

\* core/src/messages/agent.rs:394, BackendState::Swept: "The container was
\* terminated because all connections were closed."
SweptMeansDisconnected ==
    [][Sweep => \A c \in Conn : conn[c] = "None"]_vars

\* docs/docs/api.md:30, max_idle_secs: "How long a process can have no
\* connections before Plane shuts it down."
IdleIsSwept ==
    <>[](\A c \in Conn : conn[c] = "None") => <>(idle = "Swept")
=============================================================================
