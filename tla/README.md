# A TLA+ model of Plane

Plane runs session backends: containers that are started on request, reached
through a subdomain of their own, and stopped when nobody is connected any more.
This directory holds TLA+ modules for the parts of Plane that keep state, the TLC
configurations that check them, and proofs of their safety properties. Paths below are
relative to the repository (`src/`).

## 1. The system

| Part | Source | What it does | Module |
|---|---|---|---|
| Executor | `drone/src/agent/executor.rs` | one task per backend, a state machine over Docker, sqlite and NATS | `Executor` |
| Docker engine | `drone/src/agent/engine.rs`, `engines/docker/` | create, start, inspect, stop, remove a container; "die" events | `Engine` |
| Drone database | `drone/src/database.rs` | tables `backend` and `route`, shared by agent and proxy | `Executor`, `IdleSweep` |
| Agent loops | `drone/src/agent/mod.rs` | spawn, termination and drain requests; status messages | `Scheduler`, `Executor` |
| Backend monitor | `drone/src/agent/backend.rs` | re-announces a backend's DNS record; forwards logs and stats | `DnsRecords`, `Telemetry` |
| Proxy | `drone/src/proxy/` | routes requests, counts connections, writes `last_active` | `IdleSweep` |
| Certificates | `drone/src/cert/mod.rs`, `proxy/certs.rs`, `keys.rs` | issue, write, watch and load a key pair | `CertRefresh`, `AcmeChallenge` |
| Scheduler | `controller/src/scheduler.rs`, `lib.rs` | picks a drone for a request and asks it | `Scheduler` |
| DNS server | `controller/src/dns/`, `ttl_store/` | keeps records for a minute and answers queries | `DnsServer`, `TtlStore`, `DnsRecords` |
| NATS wrapper | `core/src/nats.rs` | typed subjects, requests, JetStream | `Jetstream`; requests in the modules that use them |
| Logging | `core/src/logging.rs` | sends trace events to NATS | `Telemetry` |
| Command line | `cli/src/main.rs` | spawn, drain, terminate; status and lists from JetStream | `Jetstream`; its requests in `Scheduler` and `Executor` |

How they interact. A client sends a `ScheduleRequest`; the scheduler picks a drone
whose last status is recent and forwards a `SpawnRequest`; the drone answers and
starts a task. The task loads and starts a container, waits for its port, inserts
a route and goes to Ready. While the backend runs, its monitor sends DNS records
to the controller, the proxy follows its route and records activity, and the task
waits for idleness. Exits of the container, termination requests and restarts of
the drone come in at any time.

The drone and the controller each run on a single-threaded tokio runtime
(`drone/src/run.rs:91`, `controller/src/run.rs:58`). Tasks therefore interleave
only at an `.await`, and the modules take an await as the unit of atomicity. The
one exception is the certificate watcher, which runs on a thread of the `notify`
library.

## 2. Modules

### BackendState, BackendLifecycle

The ten states with `terminal()` and `running()`, and the abstract specification
of the state column: which state may follow which. A constant says whether a row
may miss a state, because a write to the database failed.

### Engine, Executor

`Engine` has one container per backend (`cont`), its address (`addr`), and the die
events nobody has read (`dies`). Docker gives a starting container any address no
running one has, so addresses are reused. A call whose caller has given up stays at
Docker (`late`) and may be carried out at any later time or never; `belated` remembers
which containers were created or started in this way.

`Executor` has a fixed set of task slots. `pc[t]` names the await at which a
`run_backend` call is suspended; an action is the completion of that await with
everything the task then does up to the next one.

| Code | Model |
|---|---|
| local `state`, the channel of capacity 1, `backend_addr` | `st`, `chan`, `seen` |
| `backend_to_listener`, `backend_to_monitor` | `listener`, `monitor` |
| `kill_backend` suspended in `send()` with a DashMap guard | `waiting`; a writer of that shard sets `hung` |
| tables `backend`, `route`; the state stream | `db`, `route`; `published` |
| `start_backend` | `Spawn`, `InsertBackend`, `Announce` |
| `step()` in Loading | `PullImage`, `CreateContainer`, `StartContainer`, `LoadReturns` |
| in Starting | `StatusWhenStarting`, `WaitPortReady`, `InsertProxyRoute`, `RouteReturns` |
| in Ready | `StatusWhenReady`, `IdleExpires`, `IdleCheckFails` |
| in a terminal state | `StopContainer`, `RemoveContainer`, `StopReturns` |
| the other branch of `select!`, which drops the step | `Interrupted`, `Terminated`, `SenderLost`, with `GiveUp` for the call it was waiting for |
| Docker, after the step was dropped | `LateCallEnds` |
| `update_backend_state` | `SaveState`, `PublishSaved` |
| end of the process, `resume_backends` | `Crash`, `resume_backends`, `EnterRunBackend` |

A request that has reached Docker or sqlite but whose answer has not been read is
a state of its own (`Started`, `Routed`, `Removed`), because a signal or a crash
may come exactly there. A request that Docker has not yet acted on when its step is
dropped is in `late`: aborting a task closes a connection and does not take back a
create, start or remove. A late stop needs nothing of its own, since a container may
exit at any time. `Faults` says what may go wrong in a run: calls of the engine, the
port check, the database, NATS, the event stream, the clock, the process, and calls
that are carried out late.

### Scheduler

The controller's loop, which reads no status while it waits for the answer of a
drone; and of each drone `ready_loop`, `listen_for_drain` and
`listen_for_spawn_requests`. Drones crash, and the controller ends and is started
again without a status of any drone and without the requests it had. `lost` remembers
the requests a drone had answered and not started when it went down. Timestamps are kept
as ages, cut off where they make no difference. With `Prompt` the loops finish their work
within the second it is due; without it every step may take any time.

### TtlStore, DnsServer

`TtlMap`, `TtlList` and `TtlMultistore` as operators, with the queue that only
its front is compacted from. `DnsServer` runs them on a wall clock, which may be
set back once, and keeps a log of all records as a reference: `AddressIsExact` and
`TextIsExact` compare an answer with the positions in the log whose values it has to list.

### DnsRecords

The way of one record from `dns_loop` over NATS to the controller, in seconds.
The record map is reduced to the age of the record, which is what `DnsServer`
shows it to be. The controller may restart, with an empty map, or lose its
subscription; then it subscribes again, or the call fails, the task ends, and the
server answers from a map that does not change any more (`sub = "Dead"`).

### Jetstream

`publish_jetstream` with the set of streams a process has created, and the two
kinds of readers: `subscribe_jetstream` with `next()` (the command `status`) and
`get_all` (`list-drones`, `list-dns`). The server is external: it stores, removes
what a stream's limits exclude, delivers, and delivers again what it has no
acknowledgement for. A message is its number in the stream, with its name and
whether it can be parsed.

| Code | Model |
|---|---|
| `ensure_jetstream_exists` in a publisher | `PublishJetstream`, `StreamCreated`, `CreateFails` |
| `publish_jetstream` | `StoreMessage`, `StoreFails` |
| the calls before the first message | `RunCommand`, `Ensured`, `GotStream`, `ConsumerCreated`, `CallFails` |
| `JetstreamSubscription::next` | `ReadMessage` |
| the consumer at the server | `PushMessage`, `Redeliver`, `LoseDelivery`, `AckArrives` |
| the loop of `get_all` | `Fetch`, `FetchUnreadable` |

### Telemetry

`log_loop` and `stats_loop` of a monitor with the Docker streams they read, and the
channel of trace messages that `on_event` fills and `do_logs` empties. Wake-ups are
state: `ticker` says whether the timer still holds the waker of the stats task,
because `StatsStream` answers Pending for its first sample without asking for one. A
monitor may also start for a container that has exited, as it does when
`resume_backends` finds a row that says Starting or Ready.

### IdleSweep

Request handlers, `ConnectionTracker`, `record_connections` and the idle loop of
the Ready step, for one backend. Time passes in half seconds, since `last_active`
is cut to whole seconds and the executor's clock is not; of the present half second any
part may have passed, so that at the deadline the loop may sweep or sleep.

### CertRefresh

`refresh_if_not_valid` at start (with its retries) and in a loop, the two file
writes, the watcher's closure, failing writes and crashes. A key pair is the number
of its issue, and a certificate a chain of such blocks, the leaf first. The
certificate file is opened without truncation and written block by block: a shorter
chain leaves the end of the longer one in place, and a write may fail or the process
end within a block (`Damaged`). Time passes in rounds of the loop; `left` is the rest of
the life of every certificate that was issued, in the file or still served from memory.

### AcmeChallenge

`get_certificate` itself, on several drones of one cluster. All challenges use the
name `_acme-challenge`; each drone publishes its TXT value and at once lets the ACME
server look, which finds the values that have arrived and not expired. Time passes
in the 5 seconds between two polls of `wait_done`. In `CertRefresh` an attempt is one
step that succeeds or fails.

### Proof modules

`ExecutorProofs`, `SchedulerProofs`, `DnsServerProofs`, `DnsRecordsProofs`, `AcmeProofs`,
`JetstreamProofs`, `IdleSweepProofs` and `CertRefreshProofs` extend the module they are
about; section 4 describes them.

### MCExecutor, MCNats, MCCert

The instances for TLC. `MCNats` puts `DnsRecords`, `Jetstream` and `Telemetry` into
one run, `MCCert` `CertRefresh` and `AcmeChallenge`. The modules have no variable in
common, so `scope` picks the one that moves; nothing is gained by interleaving them.

## 3. Runs

| Run | Instance | Shows | Distinct states |
|---|---|---|---|
| `executor_faults` | 1 backend, all faults, late calls | `MonitorHasTask`, `RunningIsMonitored`, `ReadyIsRouted`, `FollowsLifecycle`, and that `TasksAreIndependent` is an invariant | 512,626 |
| `executor_recovery` | 1 backend, crashes, late calls | `NeverStranded`, `OrphansHaveACause`, `StreamNeverAhead`; `TerminateTakesEffect`, `SweptIsRemoved`, `TerminalIsReclaimed`, `RestartReclaims` | 33,909 |
| `executor_two` | 2 backends, 2 addresses, late calls | `InsertIsCurrent`, `NeverStranded`, `OrphansHaveACause` | 3,069,346 |
| `executor_dup` | 1 id spawned twice | `SupersededEnds` | 318,069 |
| `executor_subdomain` | 2 backends | `SubdomainReachesOwnInstance` does not hold | |
| `executor_hang` | 1 backend | `WaitingKillIsDelivered` does not hold | |
| `scheduler_timing` | 1 drone, 2 requests, the code's seconds, a restart of the controller | `SteadyDroneIsCandidate`, `ClaimIsRecent` | 759,543 |
| `scheduler_lossy` | 1 drone, 2 requests, lossy network, a restart of the controller | `ScheduledIsSpawned`, `DrainTakesEffect`, `RequestIsAnswered` | 251,729 |
| `dns_server` | 2 names, 3 records | `AddressIsExact`, `TextIsExact`, `EntriesAreQueued` | 3,040,994 |
| `nats_flows` | the code's seconds; 3 messages; 2 lines, 2 monitors | `NoGap`, `RecordExpires`, `RecordReturns`; `InOrder`, `StatusIsComplete`, `ListIsCurrent`; `StatsKeepComing`, `LinesAreForwarded`, `TraceComesToRest` | 240,520 |
| `idle_sweep` | 2 clients | `SweptOnTime`, `EstablishedIsNotSwept` | 143,395 |
| `certificates` | 4 issues of 1 or 2 blocks, 2 crashes, 1 write error; 2 drones with 2 attempts each | `SettledPairMatches`, `ExpiredMeansFailing`; `StoredValueIsFound` | 999,232 |

Each module also has a type invariant. The runs of the executor and of the DNS server
list it; the others were checked once on the instances of this table.

### Bounds

* **Backends.** Backends meet in two places only: addresses that Docker hands out
  again, and shards of the DashMap. Two backends with two addresses show the
  first, a backend that shares a shard with itself the second. `executor_two`
  matters: with one backend nobody can take a route away, and `NeverStranded`
  would hold without the exception it has. That run has late calls and no crashes; with
  crashes and no late calls (`Faults = {"crash"}`) its properties were checked once, over
  20,704,662 states in eleven minutes.
  `TerminateTakesEffect`, `SweptIsRemoved` and `TerminalIsReclaimed` were checked once for
  two backends with neither (39 minutes). What `ReadyIsRouted` says of the row of another
  backend needs two of them; there the proof is what covers it.
* **Late calls.** `late` is a set: of each kind Docker has at most one call of a backend.
  A second create that is dropped while the first is outstanding (after a crash within
  Loading) is not told apart from it, so a container appears once and not twice, before
  and after a removal. Of starts there is never more than one, because a start follows
  the create of its own container.
* **MaxSpawns.** 1 where ids are unique. They are when the scheduler draws them,
  but a client may supply its own (`core/src/messages/scheduler.rs:18`), which is
  what `executor_dup` is for.
* **MaxWaiting.** Termination requests that wait on one full channel: up to two
  where the run is about one backend; 0 in `executor_two` and `executor_dup`,
  which are about other things.
* **Seconds.** `scheduler_timing` and `nats_flows` use the constants of the code,
  because their properties compare them (4 < 5; 60 - 10). `nats.request` has no
  timeout of its own in the code; the 10 seconds are the client library's. In
  `scheduler_lossy` every delay is possible and the constants only have to be
  positive. The library is not part of the repository, so that number is an
  assumption. `IdleSweep` uses the shortest `max_idle_secs` that covers one failed
  round of `record_connections`, with the shortest write that is not immediate.
* **MaxInbox.** In `scheduler_timing` 8, one more than the longest inbox there is, so
  that a full inbox never holds up a drone or the clock. In `scheduler_lossy` 1:
  statuses may be lost and take any time anyway.
* **Drones.** One: no step of a drone reads or changes what belongs to another. Drones
  meet only in the scheduler's choice and in its being blocked. The properties of
  `scheduler_timing` were also checked once with two drones and one request
  (4,982,893 states); the liveness properties have been checked for one drone only.
* **DnsServer.** Three records and two names give a name that is set again and one
  that expires in between; the clock runs to 5 with a time to live of 2.
* **Streams.** Three messages of two names, one of them wanted by `status`: one can be
  in flight while another waits and a third is passed over. Two losses are a lost
  delivery and a lost acknowledgement, or a message that cannot be parsed; two copies
  let one overtake the acknowledgement of the other. `Batch = 1` makes every list take
  several fetches. `ListIsCurrent` holds with and without the limit per subject.
* **Telemetry.** A channel of 2 in place of 128 is full when a monitor starts. Two
  monitors, so that the second reads again what the first has read.
* **Certificates.** A life of five rounds with a margin of two; `BootAttempts` is
  the 5 of `drone/src/run.rs`. Chains of one and two blocks are enough for a shorter
  one to follow a longer one. `TxtTtl` and `Polls` are the 60 seconds and 3 polls of the
  code; how long `validate` and a message take is not in the code, and
  `StoredValueIsFound` states what it needs of it.

Symmetry is used in `executor_two` only, on addresses. The run checks two invariants
and an action property, none of which names an address, and no liveness. Deadlock is checked in every passing run but `nats_flows`,
where an exited backend with an empty channel leaves nothing to do. This does not say
that the drone cannot block: it can, and `executor_hang` shows it. In
`executor_faults` and `executor_recovery` a blocked process can still be killed and
restarted, so the state has a successor; in `executor_two` and `executor_dup`,
where nothing ends a blocked process, no request waits (`MaxWaiting = 0`).

### Fairness

* `Executor`: weak fairness of each task and of reading die events. Awaited calls
  return, with a result or an error (Docker calls have a timeout of 30 seconds,
  the port check 3000 attempts), and tokio polls every task that was woken. A
  backend need not become idle, and neither crashes, restarts, exits, requests nor the
  work on a dropped call need ever happen. Properties about a drone that may die or block say "if it
  eventually stays up and unblocked" (`Running`).
* `Scheduler`: the clock, the loops of living drones, and the two branches of
  `select!`, which tokio polls in random order: each is taken if it is ready again
  and again (strong fairness), which needs the loop to be between two requests.
* `MCNats`, records: the loop, delivery, the next call of `subscribe` (with either
  result) and the clock. Errors and outages are finite in number, and `RecordReturns`
  is about a subscription that is up in the end.
* `MCNats`, stream: the server goes on delivering, also what was not acknowledged, and
  a client that follows goes on reading. No writer has to write, and no client to
  follow.
* `MCNats`, telemetry: the loops, the timer and `do_logs` run when they can, and
  awaited calls return with a result or an error. `StatsKeepComing` assumes that the
  first sample of a monitor is there before the next tick of ten seconds
  (`FirstSampleIsQuick`). Without this it does not hold: the timer's waker is used up
  and nothing polls the stream again.
* `IdleSweep` states fairness (`FairSpec`) for the idle loop, the recorder and the
  clock; the run does not need it.

## 4. Proofs

Every safety property that a run lists is also a theorem, for every value of the
constants that meets the assumptions of its module and those named here. The inductive
invariants were also checked with TLC, on the instances of section 3.

### The executor

`ExecutorProofs` proves the following for any sets of backends, tasks, addresses
and shards. The only assumptions are those of `Executor` (the constants have their
types, every backend has a task slot, and the value for "none" is neither a task nor
an address) and those of the table.

| Theorem | Ids | Faults | Statement |
|---|---|---|---|
| `TypeCorrect` | any | any | `TypeOK` |
| `Independent` | unique | any | `TasksAreIndependent` |
| `MonitorsMatchTasks` | unique | any | `MonitorHasTask` |
| `StepsAreMonitored` | unique | any | `RunningIsMonitored` |
| `ImplementsLifecycle` | unique | any | `FollowsLifecycle`, a refinement |
| `StreamFollowsTable` | unique | all but the database | `StreamNeverAhead` |
| `ReadyMeansRouted` | unique | all but the database | `ReadyIsRouted` |
| `InsertsAreCurrent` | unique | all but the database | `InsertIsCurrent`, an action property |
| `NobodyIsStranded` | unique | crashes, late calls, NATS | `NeverStranded` |
| `OrphansAreExplained` | unique | crashes, late calls, NATS | `OrphansHaveACause` |

"Unique" is `MaxSpawns = 1`; it is needed because `run_backend` removes entries by key,
whoever owns them. The argument has three layers.

*Tasks.* That the row moves along an edge when a task saves its state depends on what
the task knew of the row when it chose the state, several awaits earlier; that a
monitor is there depends on who else may have removed it. `TasksAreIndependent` says
what is needed: an id has at most one task; an id nobody asked for has neither a row
nor a task; there are no tasks while the drone is down; monitors belong to tasks; and
at each await the task's state fits the await (`StateAtPc`), the row is the state or,
if writes may fail, an earlier one, and at `Save` the state is an edge away from the
row (`RowAtPc`), and the task's listener and monitor are its own (`EntriesAtPc`).
The preservation proof goes through the building blocks of `run_backend` (`Goto`,
`Return`, `Finish`, `Advance`, `Continue`, `StepError`), then through the actions.

*Routes.* `RouteInv` relates captured addresses, containers and the two tables: an
address is held by one container; a row is written before its container exists and says
Starting before a route is inserted (`RowIsFirst`); what a Starting step has captured is
the address of its container as long as that runs (`CapturedAtPc`); from the insert on
the address is in the table (`InsertedAtPc`, `Routed`). `LateInv` says what Docker may
still do: it has a start only of a container that was created for a backend that never
got beyond Loading, so that no route leads to the address the container will get, and none
will. A route of a running backend is
replaced only by a row with the same address; hence the two cases of `ReadyIsRouted`, its
own row or that of a backend whose container is gone. The proof uses that the database
does not fail: a row that stayed in Loading because the save failed would be loaded
again after a restart, with a route from the time before.

*Attendance.* `StrandInv` says that every backend has a task that drives it or may be
left, and what a task relies on while it waits: it has not missed the exit of the
container whose port it waits for (it runs, its die event is queued, or the signal is in
the channel), and the container it stops stays stopped unless Docker starts it late
(`AttendedAtPc`). A container that is left behind has one of the causes of
`OrphansHaveACause`: its load failed, its route was taken, or a dropped call brought it
about after stop() had found nothing to stop. The other
faults are excluded because they do strand a backend: a call that fails ends the step
with an error and the task leaves its row (`PortTimeoutIsRecorded` in section 5), and
after a lost die event the port check fails in the same way.

### The scheduler

`SchedulerProofs` is for any drones, any finite set of requests and any bounds.

`ScheduledMeansSpawned` (`ScheduledIsSpawned`) has no further assumption: messages are
lost, drones crash and the controller restarts. The property is not inductive, since a
reply read today was sent while the drone may have been another process. `SpawnInv` says
of every reply on its way what the property says of an answer: the drone holds the
request, has started it, or went down in between. `KeptStays` shows that no step takes
this back: only the end of the drone makes it forget what it accepted, and that is what
`lost` remembers. A drone that went down at another time is not excused.

`SteadyDronesAreChosen` (`SteadyDroneIsCandidate`) assumes that nothing is lost and
`Period < Threshold`, which are the 4 and 5 seconds of the code. `SteadyInv`: a drone that
was never drained says "ready" in every message (`SaysReady`), and its last report is
unread or as old as its interval has run (`ReportIsHeard`).

`ClaimsAreRecent` (`ClaimIsRecent`) has no further assumption; `Prompt` is part of the
property. A claim to be ready grows old while nobody reads it, which is only while the
loop waits for a drone. `ClaimInv` keeps the account: an unread claim is at most as old
as all waits together (`Debt`: a timeout for each request answered, and the present
wait), and an entry of the map at most that much older than it looks.

`SchedulerTypes` is the type invariant both build on.

### The DNS server

`DnsServerProofs` is for any names, values and time to live and any number of records
and lookups, with the assumptions of `DnsServer` alone: `AddressesAreExact`
(`AddressIsExact`), `TextsAreExact` (`TextIsExact`), `NoEntryIsForgotten`
(`EntriesAreQueued`), `DnsTypes` (`TypeOK`). The first lemmas say what the operations of
the stores return: where a compaction stops, what it keeps, that the map of a
`TtlMultistore` is never compacted since nothing is queued in it.

An answer is exact although the stores are not: they hold what has not expired and, until
a lookup comes, perhaps more. `ExactInv` says how much more, as long as the clock was
not set back. The address set last is in the map, or has expired (`AddressIsHeld`); a
list is a part of the log, in order, that misses only what has expired (`TextIsHeld`);
log and queue are ordered by time. `ExpiredIsDropped` is where this meets
`EntriesAreQueued`: an expired entry has its place in the queue in front of everything
that has not expired, so a compaction that stops at the first entry it keeps has dropped
it. Without the order the argument fails, and `TimeToLiveIsEnforced` (section 5) shows
what happens.

### Idleness

`IdleSweepProofs` proves `IdleIsSweptOnTime` (`SweptOnTime`) and the action property
`EstablishedIsKept` (`EstablishedIsNotSwept`) for any `max_idle_secs`, duration of a write,
number of connections and number of errors. `SweepInv` has four parts: the recorder's
timer is within its two waits (`TimerInv`); the counter of `ConnectionTracker` is the
number of open connections (`TrackerInv`); the age of `last_active` is bounded by the
recorder's position, with every failed round accounted for, while a connection is open
(`RecordInv`; the full second in `RecordGap` is the half second that the cut takes and the
one that is passing); and after the last connection the age of `last_active` and the loop's next
wake-up bound the time that has passed (`QuietInv`).

### Certificates

`CertRefreshProofs` proves `ExpiryHasACause` (`ExpiredMeansFailing`) and
`SettledPairIsServed` (`SettledPairMatches`) for any lifetime and margin, chains of any
length and any number of issues, crashes and failing writes. `RefreshHolds` is the
inductive invariant, in three parts. `FileInv`: the leaf of the certificate file is of the
issue being written from the first block on, and the key file has an earlier key until the
new one is in it. `TimeInv`: the rounds left of the leaf in the file and the failed
attempts in a row make up the margin. `FollowInv`: at every point of a renewal the files
are served if they are a pair, or the events that will make the watcher serve them are
queued. The first two speak of the file, the third carries them over to what is
served; a write that fails after it opened the file queues an event too, and without
that the third would not be inductive. `PairInv` is added for `SettledPairMatches`: as long
as nothing failed, every chain and its key are written to the end. `OverwrittenChain` is the
lemma about a write without truncation.

### Streams

`JetstreamProofs` proves `ReadInOrder`: `StreamSpec` implies `InOrder`, for any
stream, filter, number of copies and number of losses. The assumptions are those of
`Jetstream`. The inductive invariant is `OneInFlight`: everything on its way is a copy
of the message read last or, behind these, of the one delivered last, which is the
next one the client wants. It holds because `max_ack_pending` is 1: the server may
deliver the next message only after an acknowledgement, which the client sends
when it has read the message. With 2 the property fails, as the comment at
`core/src/nats.rs:392` warns.

It also proves `ListsAreCurrent`: `StreamSpec` implies `[]ListIsCurrent`, for any batch
size and limits. `ListInv` says that what the consumer passed over or delivered is in
the list or was followed by another message of its subject. `EmptyBatch` is the other
half: an empty answer means that nothing is left, since a first remaining message
would fit into any batch.

### Records and challenges

`DnsRecordsProofs` proves `ServedWithoutGap` (`NoGap`) and `DroppedRecordExpires`
(`RecordExpires`) for any time to live, buffer and delays; `Buffer < Ttl` is the only
assumption besides types. For the first, `AgeBounded` ties the age of the record to the
timer of the loop: with nothing on its way the last message sent has arrived, and the
timer tells when it was sent; otherwise the one before the oldest on its way has.
For the second, `ExpiryInv` says that after the drop everything on its way is at
least as old as the drop, so that the last delivery comes within one delay of it.

`AcmeProofs` proves `StoredMeansFound` (`StoredValueIsFound`) for any number of drones,
times and attempts. The invariant `RecordIsFresh` bounds the age of a stored record by
the time its drone has spent since it published; it speaks of one drone, and no
step of another disturbs it.

### Only model-checked

Liveness under fairness is outside the proof system: `TerminateTakesEffect`,
`SweptIsRemoved`, `TerminalIsReclaimed`, `RestartReclaims`, `SupersededEnds`, `DrainTakesEffect`,
`RequestIsAnswered`, `RecordReturns`, `StatusIsComplete`, `StatsKeepComing`,
`LinesAreForwarded` and `TraceComesToRest` are checked by TLC on the instances of section 3
only. `Telemetry` has no other properties and no proofs. For ids that are spawned twice,
`TypeCorrect` is all that is proved; the other invariants do not claim anything there.

## 5. Where code and documents differ

Two statements are refuted by runs:

* **A subdomain leads to its own instance** (`README.md:8`). Routes are not removed
  when a container exits, and Docker reuses addresses (`executor_subdomain`). A
  Starting step that inserts the address it captured before its container died even
  takes the route of the new owner, whose idle loop then fails; its container keeps
  running without a task. `InsertIsCurrent` says that this is the only way to lose a
  route: an insert by a step whose own container is running is always right. This is the exception `RouteTaken` in `NeverStranded`,
  `OrphansHaveACause` and `TerminateTakesEffect`. The other exceptions of
  `OrphansHaveACause` contradict no document: a failed load is not followed by stop(), and
  a create or start that Docker carries out after its step was dropped leaves a container
  beside a Terminated row. Both are removed when the drone starts again
  (`RestartReclaims`).
* **Signals can be sent to the state machine** (`executor.rs:61`). `kill_backend` holds
  a DashMap guard while it waits in `send()`; when the task ends and removes its
  listener, the only thread blocks on that shard for good (`executor_hang`).

The modules state twelve more sentences of the repository, each module in its last
section. No run lists them. TLC refutes each one when it takes the place of the
properties in the configuration named here, with the constants given. The constants
leave only the cause in the last column. For three of them a control shows that
it is the cause: without it, the sentence holds on the same instance.

| Definition | Sentence | Configuration | What happens |
|---|---|---|---|
| `TerminalIsFinal` | `agent.rs:442` | `MCExecutor_faults`, `Faults = {}`, `MaxWaiting = 0` | a termination request during stop() turns e.g. ErrorStarting into Terminated |
| `PortTimeoutIsRecorded` | `agent.rs:385` | `MCExecutor_faults`, `Faults = {"port"}` | the row stays in Starting, the task ends, the container runs |
| `LoadErrorMeansNotRunning` | `agent.rs:372` | `MCExecutor_recovery`, `Faults = {"crash"}` | crash after start; the second load fails on the name |
| `DrainingIsSaid` | `agent.rs:193` | `Scheduler_lossy` | the flag is read before two awaits |
| `TimeToLiveIsEnforced` | `ttl_map.rs:7` | `DnsServer` | the clock is set back; an expired record sits behind a later one |
| `WritesCompact` | `ttl_map.rs:13` | `DnsServer` | insert does not compact |
| `SweptMeansDisconnected` | `agent.rs:394` | `IdleSweep` | a plain request counts at its start only |
| `IdleIsSwept` | `docs/docs/api.md:30` | `IdleSweep`, `FairSpec` | the deadline passes between two readings of the clock; the loop ends in an error (holds with `ClockRace = FALSE`) |
| `LaunchRepairsPair` | `README.md:37` | `MCCert` | certificate written, key not (a write error, or a crash); the certificate looks valid (holds with `MaxWriteErrors = 0` and `MaxCrashes = 0`) |
| `RenewalIsServed` | `keys.rs:31` | `MCCert`, `SameDir = FALSE`, `MaxWriteErrors = 0`, `MaxCrashes = 0` | `parent_paths` takes the key's directory twice, so the write of the certificate is not seen (holds with `SameDir = TRUE`; with write errors it fails in either case, as `LaunchRepairsPair` does) |
| `LostSubscriptionIsRenewed` | `controller/src/dns/mod.rs:120` | `MCNats` | an error of the next `subscribe()` ends the task, which nobody awaits |
| `EveryNameIsListed` | `docs/docs/getting-started.md:121` | `MCNats`, `Subject = {1}`, `SubjectOf <- OneSubject`, `PerSubject = FALSE` | the names of a cluster share a subject, and `get_all` takes the last message of each |

## 6. Not modelled

* **TLS stream** (`proxy/tls.rs`), URI and header rewriting, DNS packet contents, and the
  configuration code: conversions without state.
* **`split_request`** of the NATS wrapper, which only tests use, and the parsing of
  connection strings (`core/src/nats_connection.rs`).
* **Limits of the NATS server.** `get_all` acknowledges nothing. What a server does with a
  consumer that has very many unacknowledged messages is a setting the repository does
  not have.
* **The other side of `SetAcmeDnsRecord`.** Nothing in the repository but a test answers
  it; `AcmeChallenge` has its answer, positive or not.
* **Contents of a damaged certificate file.** A block that was written in part is
  `Damaged`; loading the file then fails or takes the blocks as they are, and the
  bytes that decide it are left out.
* **Dropped calls of the database.** When a step is dropped at a statement, the statement
  has been carried out or never will be; that a statement of one task is overtaken by
  later ones of others is not modelled. Calls to Docker are (`late`).
* **Tests** (`dev/`).

## 7. Plan

Done: the executor with its refinement and proofs; the scheduler with restarts of the
controller; records, streams and telemetry over NATS; idleness; certificates with
their files and challenges; proofs of all safety properties.
Next, in this order:

1. *Composition.* `IdleSweep` as an implementation of the idle await of `Executor`, and the
   monitors of `DnsRecords` and `Telemetry` driven by the one of `Executor`.
2. *Scheduler.* The client's retry of a refused request.
3. *Proofs.* That the record of `DnsRecords` is the one of a map of `DnsServer`, as a
   refinement; the type invariants of the modules whose proofs use a part of it.
