------------------------------ MODULE Executor ------------------------------
(***************************************************************************)
(* The drone's executor (drone/src/agent/executor.rs) with the loops that  *)
(* call it (agent/mod.rs) and the tables it writes (database.rs).          *)
(*                                                                         *)
(* Each run_backend call is a task.  The drone runs on one thread, so a    *)
(* task runs without interruption between two awaits: pc names the await   *)
(* a task is suspended at, and an action is the completion of that await   *)
(* with everything the task then does up to the next one.                  *)
(***************************************************************************)
EXTENDS Engine, Naturals

CONSTANTS Task,          \* slots for run_backend tasks
          BackendOf,     \* [Task -> Backend]
          ShardOf,       \* [Backend -> S]: the DashMap shard of a backend's key
          Faults,        \* what may fail: subset of FaultKinds
          MaxSpawns,     \* bound: SpawnRequests that carry one id
          MaxWaiting     \* bound: kill_backend calls waiting on one channel

FaultKinds ==
    {"engine", "port", "db", "nats", "events", "clock", "crash", "late"}

ASSUME ExecutorAssumption ==
    /\ BackendOf \in [Task -> Backend]
    /\ \A b \in Backend : \E t \in Task : BackendOf[t] = b
    /\ Faults \subseteq FaultKinds
    /\ MaxSpawns \in Nat
    /\ MaxWaiting \in Nat
    /\ None \notin Task
    /\ None \notin Addr

VARIABLES
    pc,         \* [Task -> Pc]           where the task is suspended
    st,         \* [Task -> BackendStates] run_backend's local `state`
    chan,       \* [Task -> Chan]         its signal channel, capacity 1
    seen,       \* [Task -> Addr or None] address captured by the Starting step
    listener,   \* [Backend -> Task or None]  backend_to_listener
    monitor,    \* [Backend -> BOOLEAN]       backend_to_monitor has an entry
    waiting,    \* [Backend -> Nat]  kill_backend calls suspended in send()
    hung,       \* the thread is blocked on a DashMap lock
    up,         \* the drone process is alive
    db,         \* [Backend -> BackendStates or NoState]  table "backend"
    route,      \* [Backend -> Addr or None]              table "route"
    published,  \* [Backend -> state]  last BackendStateMessage on the stream
    spawns      \* [Backend -> Nat]  SpawnRequests received for an id

taskVars == <<pc, st, chan, seen>>
dbVars == <<db, route>>
vars == <<cont, addr, dies, late, belated, pc, st, chan, seen, listener,
          monitor, waiting, hung, up, db, route, published, spawns>>

\* Awaits inside step(), i.e. where select! also listens for a signal.  At
\* Create, Start, Route, Stop and Remove a request is out and has not taken
\* effect; at Started, Routed and Removed it has, and the answer is not read.
StepPc == {"Pull", "Create", "Start", "Started", "Status", "Port", "Route",
           "Routed", "Idle", "Stop", "Remove", "Removed"}
Pc == StepPc \cup {"Free", "Insert", "Announce", "Enter", "Save", "Publish"}
Chan == {"Empty", "Interrupt", "Terminate"}

\* The first await of step() in each state.
FirstPc(s) ==
    CASE s = "Loading" -> "Pull"
      [] s \in {"Starting", "Ready"} -> "Status"
      [] OTHER -> "Stop"

TypeOK ==
    /\ EngineTypeOK
    /\ pc \in [Task -> Pc]
    /\ st \in [Task -> BackendStates]
    /\ chan \in [Task -> Chan]
    /\ seen \in [Task -> Addr \cup {None}]
    /\ listener \in [Backend -> Task \cup {None}]
    /\ monitor \in [Backend -> BOOLEAN]
    /\ waiting \in [Backend -> 0..MaxWaiting]
    /\ hung \in BOOLEAN
    /\ up \in BOOLEAN
    /\ db \in [Backend -> BackendStates \cup {NoState}]
    /\ route \in [Backend -> Addr \cup {None}]
    /\ published \in [Backend -> BackendStates \cup {NoState}]
    /\ spawns \in [Backend -> 0..MaxSpawns]

Init ==
    /\ EngineInit
    /\ pc = [t \in Task |-> "Free"]
    /\ st = [t \in Task |-> "Loading"]
    /\ chan = [t \in Task |-> "Empty"]
    /\ seen = [t \in Task |-> None]
    /\ listener = [b \in Backend |-> None]
    /\ monitor = [b \in Backend |-> FALSE]
    /\ waiting = [b \in Backend |-> 0]
    /\ hung = FALSE
    /\ up = TRUE
    /\ db = [b \in Backend |-> NoState]
    /\ route = [b \in Backend |-> None]
    /\ published = [b \in Backend |-> NoState]
    /\ spawns = [b \in Backend |-> 0]

-----------------------------------------------------------------------------
(* The listener map.  kill_backend keeps a read guard on the key's shard   *)
(* while it waits in send(); a writer of the same shard then blocks the    *)
(* only thread, and nothing of the drone runs again.                       *)

Locked(b) == \E c \in Backend : ShardOf[c] = ShardOf[b] /\ waiting[c] > 0

SetListener(b, v) ==
    /\ hung' = Locked(b)
    /\ listener' = IF Locked(b) THEN listener
                                ELSE [listener EXCEPT ![b] = v]

Running == up /\ ~hung

\* A task leaves an await: next await p, state s.  The address captured by a
\* Starting step is local to that step.
Goto(t, p, s) ==
    /\ pc' = [pc EXCEPT ![t] = p]
    /\ st' = [st EXCEPT ![t] = s]
    /\ seen' = IF p = "Route" THEN seen ELSE [seen EXCEPT ![t] = None]

\* The task is gone, and its locals with it.
Return(t) ==
    /\ pc' = [pc EXCEPT ![t] = "Free"]
    /\ st' = [st EXCEPT ![t] = "Loading"]
    /\ seen' = [seen EXCEPT ![t] = None]

\* Mutated form: the monitor is forgotten at the end of run_backend.
MutFinish(t) ==
    /\ Return(t)
    /\ chan' = [chan EXCEPT ![t] = "Empty"]
    /\ SetListener(BackendOf[t], None)
    /\ UNCHANGED <<monitor, waiting>>

\* run_backend ends through the bottom of its loop and removes its entries
\* by key, whoever owns them by then.
Finish(t) ==
    /\ Return(t)
    /\ chan' = [chan EXCEPT ![t] = "Empty"]
    /\ monitor' = [monitor EXCEPT ![BackendOf[t]] = FALSE]
    /\ SetListener(BackendOf[t], None)
    /\ UNCHANGED waiting

\* step() returned Ok(Some(s)): the state is adopted, a monitor is started if
\* the container should be running, and the state is then saved.
Advance(t, s) ==
    /\ Goto(t, "Save", s)
    /\ monitor' = IF running(s) THEN [monitor EXCEPT ![BackendOf[t]] = TRUE]
                                ELSE monitor
    /\ UNCHANGED <<chan, listener, waiting, hung>>

\* step() goes on to its next await.
Continue(t, p) ==
    /\ Goto(t, p, st[t])
    /\ UNCHANGED <<chan, listener, monitor, waiting, hung>>

\* Mutated form: every error is recorded as an error of loading.
MutStepError(t) ==
    /\ Goto(t, "Save", "ErrorLoading")
    /\ UNCHANGED <<chan, listener, monitor, waiting, hung>>

\* step() returned an error: in Loading it becomes ErrorLoading, in any other
\* state the loop is left without a change of state.
StepError(t) ==
    \/ /\ st[t] = "Loading"
       /\ Goto(t, "Save", "ErrorLoading")
       /\ UNCHANGED <<chan, listener, monitor, waiting, hung>>
    \/ st[t] # "Loading" /\ Finish(t)

-----------------------------------------------------------------------------
(* Requests and start_backend *)

\* listen_for_spawn_requests: the request is acknowledged and a task spawned.
Spawn(t) ==
    /\ Running
    /\ pc[t] = "Free"
    /\ spawns[BackendOf[t]] < MaxSpawns
    /\ Goto(t, "Insert", "Loading")
    /\ spawns' = [spawns EXCEPT ![BackendOf[t]] = @ + 1]
    /\ UNCHANGED <<cont, addr, dies, lateVars, chan, listener, monitor,
                   waiting, hung, up, db, route, published>>

\* insert_backend: the name is the primary key; a conflict is only logged.
InsertBackend(t) ==
    /\ Running
    /\ pc[t] = "Insert"
    /\ \/ db' = [db EXCEPT ![BackendOf[t]] = IF @ = NoState THEN "Loading" ELSE @]
       \/ "db" \in Faults /\ UNCHANGED db
    /\ Continue(t, "Announce")
    /\ UNCHANGED <<cont, addr, dies, lateVars, up, route, published, spawns>>

\* A BackendStateMessage reaches the stream, or the error is logged.
PublishState(b, s) ==
    \/ published' = [published EXCEPT ![b] = s]
    \/ "nats" \in Faults /\ UNCHANGED published

\* The Loading message is out; run_backend replaces the listener of its
\* backend, which drops the sender of an earlier task.
Announce(t) ==
    /\ Running
    /\ pc[t] = "Announce"
    /\ PublishState(BackendOf[t], "Loading")
    /\ Goto(t, "Pull", "Loading")
    /\ SetListener(BackendOf[t], t)
    /\ UNCHANGED <<cont, addr, dies, lateVars, chan, monitor, waiting, up,
                   db, route, spawns>>

\* A task spawned by resume_backends enters run_backend.
EnterRunBackend(t) ==
    /\ Running
    /\ pc[t] = "Enter"
    /\ Goto(t, FirstPc(st[t]), st[t])
    /\ SetListener(BackendOf[t], t)
    /\ UNCHANGED <<cont, addr, dies, lateVars, chan, monitor, waiting, up,
                   db, route, published, spawns>>

\* kill_backend, called for an acknowledged TerminationRequest.  Without a
\* listener the request is dropped; with a full channel the caller waits.
KillBackend(b) ==
    /\ Running
    /\ \/ listener[b] = None /\ UNCHANGED <<chan, waiting>>
       \/ /\ listener[b] # None
          /\ chan[listener[b]] = "Empty"
          /\ chan' = [chan EXCEPT ![listener[b]] = "Terminate"]
          /\ UNCHANGED waiting
       \/ /\ listener[b] # None
          /\ chan[listener[b]] # "Empty"
          /\ waiting[b] < MaxWaiting
          /\ waiting' = [waiting EXCEPT ![b] = @ + 1]
          /\ UNCHANGED chan
    /\ UNCHANGED <<cont, addr, dies, lateVars, pc, st, seen, listener,
                   monitor, hung, up, db, route, published, spawns>>

-----------------------------------------------------------------------------
(* Container events *)

\* listen_for_container_events: try_send drops the signal if one is queued.
DieEvent(b) ==
    /\ Running
    /\ b \in dies
    /\ dies' = dies \ {b}
    /\ chan' = IF listener[b] # None /\ chan[listener[b]] = "Empty"
               THEN [chan EXCEPT ![listener[b]] = "Interrupt"]
               ELSE chan
    /\ UNCHANGED <<cont, addr, lateVars, pc, st, seen, listener, monitor,
                   waiting, hung, up, db, route, published, spawns>>

\* The event stream reports an error instead of the event.
LoseDieEvent(b) ==
    /\ Running
    /\ "events" \in Faults
    /\ b \in dies
    /\ dies' = dies \ {b}
    /\ UNCHANGED <<cont, addr, lateVars, pc, st, chan, seen, listener,
                   monitor, waiting, hung, up, db, route, published, spawns>>

\* A container exits on its own, whether the drone is alive or not.
ContainerExits(b) ==
    /\ ContainerDies(b, up)
    /\ UNCHANGED <<pc, st, chan, seen, listener, monitor, waiting, hung, up,
                   db, route, published, spawns>>

\* Docker carries out a call of a step that was dropped.
LateCallEnds(b) ==
    /\ LateCall(b)
    /\ UNCHANGED <<pc, st, chan, seen, listener, monitor, waiting, hung, up,
                   db, route, published, spawns>>

-----------------------------------------------------------------------------
(* step(), one action per await *)

\* Mutated form: "insert or ignore", which keeps the row that is there.
MutIgnore_insert_proxy_route(b, a) ==
    route' = IF \E c \in Backend : route[c] = a THEN route
             ELSE [route EXCEPT ![b] = a]

\* insert_proxy_route: "insert or replace" on a table whose subdomain and
\* address are unique removes every row that shares either.
insert_proxy_route(b, a) ==
    route' = [c \in Backend |-> IF c = b THEN a
                                ELSE IF route[c] = a THEN None ELSE route[c]]

AtStep(t, p) == Running /\ pc[t] = p

\* The call that Docker has of a task.  A start is of the container that is
\* there.
Outstanding(t) ==
    {call \in Call :
        /\ "late" \in Faults
        /\ \/ pc[t] = "Create" /\ call = "create"
           \/ /\ pc[t] = "Start" /\ call = "start"
              /\ cont[BackendOf[t]] = "Created"
           \/ pc[t] = "Remove" /\ call = "remove"}

\* The step is dropped, or its call has timed out; with "late" among the faults
\* Docker may carry the call out at any later time, or not at all.
GiveUp(t) ==
    /\ late' = [late EXCEPT ![BackendOf[t]] = @ \cup Outstanding(t)]
    /\ UNCHANGED <<cont, addr, dies, belated>>

EngineFails(t) == "engine" \in Faults /\ StepError(t) /\ GiveUp(t)

\* Loading: pull_image, then create_container, then start_container.
PullImage(t) ==
    /\ AtStep(t, "Pull")
    /\ \/ Continue(t, "Create") /\ UNCHANGED engineVars
       \/ EngineFails(t)
    /\ UNCHANGED <<up, db, route, published, spawns>>

CreateContainer(t) ==
    /\ AtStep(t, "Create")
    /\ \/ create_container(BackendOf[t]) /\ Continue(t, "Start")
       \/ /\ cont[BackendOf[t]] # "Absent"     \* the name is in use
          /\ StepError(t)
          /\ UNCHANGED engineVars
       \/ EngineFails(t)
    /\ UNCHANGED <<up, db, route, published, spawns>>

StartContainer(t) ==
    /\ AtStep(t, "Start")
    /\ \/ start_container(BackendOf[t]) /\ Continue(t, "Started")
       \/ /\ cont[BackendOf[t]] # "Created"    \* removed meanwhile
          /\ StepError(t)
          /\ UNCHANGED engineVars
       \/ EngineFails(t)
    /\ UNCHANGED <<up, db, route, published, spawns>>

LoadReturns(t) ==
    /\ AtStep(t, "Started")
    /\ Advance(t, "Starting")
    /\ UNCHANGED <<cont, addr, dies, lateVars, up, db, route, published,
                   spawns>>

\* Starting and Ready both begin with backend_status.
StatusWhenStarting(t) ==
    /\ AtStep(t, "Status")
    /\ st[t] = "Starting"
    /\ \/ /\ backend_status(cont[BackendOf[t]]) = "Running"
          /\ pc' = [pc EXCEPT ![t] = "Port"]
          /\ seen' = [seen EXCEPT ![t] = addr[BackendOf[t]]]
          /\ UNCHANGED <<st, chan, listener, monitor, waiting, hung>>
       \/ /\ backend_status(cont[BackendOf[t]]) # "Running"
          /\ Advance(t, "ErrorStarting")
       \/ EngineFails(t)
    /\ UNCHANGED <<cont, addr, dies, lateVars, up, db, route, published,
                   spawns>>

StatusWhenReady(t) ==
    LET status == backend_status(cont[BackendOf[t]]) IN
    /\ AtStep(t, "Status")
    /\ st[t] = "Ready"
    /\ \/ status \in {"Failed", "Exited"} /\ Advance(t, status)
       \/ status = "Terminated" /\ Advance(t, "Swept")
       \/ status \in {"Running", "Unknown"} /\ Continue(t, "Idle")
       \/ EngineFails(t)
    /\ UNCHANGED <<cont, addr, dies, lateVars, up, db, route, published,
                   spawns>>

\* wait_port_ready succeeds as soon as anything answers at the captured
\* address.  It fails when nothing did in 30 seconds of attempts, which
\* outlast the delivery of a die event unless "port" is among the faults.
Answers(a) == \E c \in Backend : cont[c] = "Running" /\ addr[c] = a

WaitPortReady(t) ==
    /\ AtStep(t, "Port")
    /\ \/ Answers(seen[t]) /\ Continue(t, "Route")
       \/ /\ \/ "port" \in Faults
             \/ /\ ~Answers(seen[t])
                /\ BackendOf[t] \notin dies
                /\ chan[t] = "Empty"
          /\ StepError(t)
    /\ UNCHANGED <<cont, addr, dies, lateVars, up, db, route, published,
                   spawns>>

\* Mutated form: an error of the insert is logged and the step goes on.
MutInsertProxyRoute(t) ==
    /\ AtStep(t, "Route")
    /\ \/ insert_proxy_route(BackendOf[t], seen[t])
       \/ "db" \in Faults /\ UNCHANGED route
    /\ Continue(t, "Routed")
    /\ UNCHANGED <<cont, addr, dies, lateVars, up, db, published, spawns>>

InsertProxyRoute(t) ==
    /\ AtStep(t, "Route")
    /\ \/ insert_proxy_route(BackendOf[t], seen[t]) /\ Continue(t, "Routed")
       \/ "db" \in Faults /\ StepError(t) /\ UNCHANGED route
    /\ UNCHANGED <<cont, addr, dies, lateVars, up, db, published, spawns>>

RouteReturns(t) ==
    /\ AtStep(t, "Routed")
    /\ Advance(t, "Ready")
    /\ UNCHANGED <<cont, addr, dies, lateVars, up, db, route, published,
                   spawns>>

\* The idle loop of Ready ends when last_active is old enough (the clock and
\* the connections are the matter of module IdleSweep).  It fails if the
\* backend has no route row, and if the deadline passes between its two reads
\* of the clock.
IdleExpires(t) ==
    /\ AtStep(t, "Idle")
    /\ route[BackendOf[t]] # None
    /\ Advance(t, "Swept")
    /\ UNCHANGED <<cont, addr, dies, lateVars, up, db, route, published,
                   spawns>>

IdleCheckFails(t) ==
    /\ AtStep(t, "Idle")
    /\ route[BackendOf[t]] = None \/ Faults \cap {"db", "clock"} # {}
    /\ StepError(t)
    /\ UNCHANGED <<cont, addr, dies, lateVars, up, db, route, published,
                   spawns>>

\* Every terminal state stops and then removes the container.
StopContainer(t) ==
    /\ AtStep(t, "Stop")
    /\ \/ stop_container(BackendOf[t]) /\ Continue(t, "Remove")
       \/ EngineFails(t)
    /\ UNCHANGED <<up, db, route, published, spawns>>

\* Mutated form: stop_container returns after the first of its two calls.
MutRemoveContainer(t) ==
    /\ AtStep(t, "Remove")
    /\ Continue(t, "Removed")
    /\ UNCHANGED <<cont, addr, dies, lateVars, up, db, route, published,
                   spawns>>

RemoveContainer(t) ==
    /\ AtStep(t, "Remove")
    /\ \/ remove_container(BackendOf[t]) /\ Continue(t, "Removed")
       \/ /\ cont[BackendOf[t]] = "Running"
          /\ StepError(t)
          /\ UNCHANGED engineVars
       \/ EngineFails(t)
    /\ UNCHANGED <<up, db, route, published, spawns>>

StopReturns(t) ==
    /\ AtStep(t, "Removed")
    /\ Finish(t)
    /\ UNCHANGED <<cont, addr, dies, lateVars, up, db, route, published,
                   spawns>>

-----------------------------------------------------------------------------
(* The other branch of select!: a signal cancels the step in progress. *)

\* Mutated form: the Swept step can be interrupted like the others.
MutListening(t) == Running /\ pc[t] \in StepPc

\* Swept ignores signals.
Listening(t) == Running /\ pc[t] \in StepPc /\ st[t] # "Swept"

\* Mutated form: a waiting sender is assumed without looking.
MutTakeSignal(t) ==
    /\ chan' = [chan EXCEPT ![t] = "Terminate"]
    /\ waiting' = [waiting EXCEPT ![BackendOf[t]] = @ - 1]

\* recv() takes the queued signal; the first waiting kill_backend, if any,
\* gets the free place before this task runs again.
TakeSignal(t) ==
    LET b == BackendOf[t] IN
    IF listener[b] = t /\ waiting[b] > 0
    THEN /\ chan' = [chan EXCEPT ![t] = "Terminate"]
         /\ waiting' = [waiting EXCEPT ![b] = @ - 1]
    ELSE /\ chan' = [chan EXCEPT ![t] = "Empty"]
         /\ UNCHANGED waiting

\* Mutated form: an interrupt ends the loop.
MutInterrupted(t) ==
    /\ Listening(t)
    /\ chan[t] = "Interrupt"
    /\ Finish(t)
    /\ UNCHANGED <<cont, addr, dies, lateVars, up, db, route, published,
                   spawns>>

Interrupted(t) ==
    /\ Listening(t)
    /\ chan[t] = "Interrupt"
    /\ TakeSignal(t)
    /\ GiveUp(t)
    /\ Goto(t, FirstPc(st[t]), st[t])
    /\ UNCHANGED <<listener, monitor, hung, up, db, route, published, spawns>>

\* Mutated form: both signals restart the step.
MutTerminated(t) ==
    /\ Listening(t)
    /\ chan[t] = "Terminate"
    /\ TakeSignal(t)
    /\ GiveUp(t)
    /\ Goto(t, FirstPc(st[t]), st[t])
    /\ UNCHANGED <<listener, monitor, hung, up, db, route, published, spawns>>

Terminated(t) ==
    /\ Listening(t)
    /\ chan[t] = "Terminate"
    /\ TakeSignal(t)
    /\ GiveUp(t)
    /\ Goto(t, "Save", "Terminated")
    /\ UNCHANGED <<listener, monitor, hung, up, db, route, published, spawns>>

\* Mutated form: a closed channel restarts the step.
MutSenderLost(t) ==
    /\ Listening(t)
    /\ chan[t] = "Empty"
    /\ listener[BackendOf[t]] # t
    /\ GiveUp(t)
    /\ Goto(t, FirstPc(st[t]), st[t])
    /\ UNCHANGED <<chan, listener, monitor, waiting, hung, up, db, route,
                   published, spawns>>

\* "Signal sender lost!": run_backend returns at once, cleaning up nothing.
SenderLost(t) ==
    /\ Listening(t)
    /\ chan[t] = "Empty"
    /\ listener[BackendOf[t]] # t
    /\ GiveUp(t)
    /\ Return(t)
    /\ UNCHANGED <<chan, listener, monitor, waiting, hung, up, db, route,
                   published, spawns>>

-----------------------------------------------------------------------------
(* update_backend_state: the row, then the message; errors are logged. *)

\* Mutated form: the update is restricted to rows still in Loading.
MutSaveState(t) ==
    /\ Running
    /\ pc[t] = "Save"
    /\ db' = [db EXCEPT ![BackendOf[t]] = IF @ = "Loading" THEN st[t] ELSE @]
    /\ Continue(t, "Publish")
    /\ UNCHANGED <<cont, addr, dies, lateVars, up, route, published, spawns>>

SaveState(t) ==
    /\ Running
    /\ pc[t] = "Save"
    /\ \/ db' = [db EXCEPT ![BackendOf[t]] = IF @ = NoState THEN @ ELSE st[t]]
       \/ "db" \in Faults /\ UNCHANGED db
    /\ Continue(t, "Publish")
    /\ UNCHANGED <<cont, addr, dies, lateVars, up, route, published, spawns>>

\* After the message the loop starts the next step; ErrorLoading is only ever
\* saved on the error path, which leaves the loop.
AfterPublish(t) ==
    \/ st[t] = "ErrorLoading" /\ Finish(t)
    \/ st[t] # "ErrorLoading" /\ Continue(t, FirstPc(st[t]))

PublishSaved(t) ==
    /\ Running
    /\ pc[t] = "Publish"
    /\ PublishState(BackendOf[t], st[t])
    /\ AfterPublish(t)
    /\ UNCHANGED <<cont, addr, dies, lateVars, up, db, route, spawns>>

-----------------------------------------------------------------------------
(* The drone process dies, and starts again. *)

Crash ==
    /\ "crash" \in Faults
    /\ up
    /\ up' = FALSE
    /\ hung' = FALSE
    /\ pc' = [t \in Task |-> "Free"]
    /\ st' = [t \in Task |-> "Loading"]
    /\ seen' = [t \in Task |-> None]
    /\ chan' = [t \in Task |-> "Empty"]
    /\ listener' = [b \in Backend |-> None]
    /\ monitor' = [b \in Backend |-> FALSE]
    /\ waiting' = [b \in Backend |-> 0]
    /\ dies' = {}
    /\ late' = [b \in Backend |->
           late[b] \cup UNION {Outstanding(t) : t \in {u \in Task : BackendOf[u] = b}}]
    /\ UNCHANGED <<cont, addr, belated, db, route, published, spawns>>

\* resume_backends: one task for every row, whatever its state, and a monitor
\* for the running ones.  S are the states resumed and M those monitored.
FirstTask(b) == CHOOSE t \in Task : BackendOf[t] = b

Resume(S, M) ==
    /\ ~up
    /\ up' = TRUE
    /\ LET resumed(t) == db[BackendOf[t]] \in S /\ t = FirstTask(BackendOf[t])
       IN /\ pc' = [t \in Task |-> IF resumed(t) THEN "Enter" ELSE "Free"]
          /\ st' = [t \in Task |-> IF resumed(t) THEN db[BackendOf[t]] ELSE st[t]]
    /\ monitor' = [b \in Backend |-> db[b] \in M]
    /\ UNCHANGED <<cont, addr, dies, lateVars, chan, seen, listener, waiting,
                   hung, db, route, published, spawns>>

RunningStates == {s \in BackendStates : running(s)}

\* Mutated forms: no monitors; only the backends whose container should be
\* running; only the backends that are not in a terminal state.
MutResumeUnmonitored == Resume(BackendStates, {})
MutResumeRunning == Resume(RunningStates, RunningStates)
MutResumeLive == Resume({s \in BackendStates : ~terminal(s)}, RunningStates)

resume_backends == Resume(BackendStates, RunningStates)

-----------------------------------------------------------------------------

\* What the runtime and the engine's timeouts drive forward.
TaskStep(t) ==
    \/ InsertBackend(t) \/ Announce(t) \/ EnterRunBackend(t)
    \/ PullImage(t) \/ CreateContainer(t) \/ StartContainer(t) \/ LoadReturns(t)
    \/ StatusWhenStarting(t) \/ WaitPortReady(t)
    \/ InsertProxyRoute(t) \/ RouteReturns(t)
    \/ StatusWhenReady(t) \/ IdleCheckFails(t)
    \/ StopContainer(t) \/ RemoveContainer(t) \/ StopReturns(t)
    \/ Interrupted(t) \/ Terminated(t) \/ SenderLost(t)
    \/ SaveState(t) \/ PublishSaved(t)

Next ==
    \/ \E t \in Task : Spawn(t) \/ TaskStep(t) \/ IdleExpires(t)
    \/ \E b \in Backend : \/ KillBackend(b) \/ DieEvent(b)
                          \/ LoseDieEvent(b) \/ ContainerExits(b)
                          \/ LateCallEnds(b)
    \/ Crash
    \/ resume_backends

Spec == Init /\ [][Next]_vars

Fairness ==
    /\ \A t \in Task : WF_vars(TaskStep(t))
    /\ \A b \in Backend : WF_vars(DieEvent(b))

FairSpec == Spec /\ Fairness

-----------------------------------------------------------------------------
(* Properties *)

Live(t) == pc[t] # "Free"

\* A task drives backend b.
Driven(b) == \E t \in Task : BackendOf[t] = b /\ Live(t)

Lifecycle == INSTANCE BackendLifecycle
                 WITH state <- db, Skips <- "db" \in Faults

\* The state column moves only along the lifecycle's edges, whatever signals,
\* failures, crashes and restarts come in between (run_backend, step,
\* resume_backends), provided no id is spawned twice.
FollowsLifecycle == Lifecycle!Spec

\* A monitor (and the DNS records it keeps sending) never outlives the task
\* of its backend: every way out of run_backend removes it, and the one
\* `return` that does not is not taken when ids are unique.
MonitorHasTask == Running => \A b \in Backend : monitor[b] => Driven(b)

\* While a task is inside a Starting or Ready step, its backend is monitored,
\* after a restart too (resume_backends and run_backend both insert it).
RunningIsMonitored ==
    Running => \A t \in Task :
        pc[t] \in StepPc /\ running(st[t]) => monitor[BackendOf[t]]

\* The address of a Ready backend with a running container is in the route
\* table: the route is written before the state, and a crash in between
\* repeats both.  The row is its own, or that of a backend whose container is
\* gone; InsertIsCurrent says how that comes about.
ReadyIsRouted ==
    \A b \in Backend : db[b] = "Ready" /\ cont[b] = "Running" =>
        \E c \in Backend : /\ route[c] = addr[b]
                           /\ c = b \/ cont[c] # "Running"

\* A Starting step whose container is running inserts the address that container
\* has now, although it was captured before the wait for the port, and wins over
\* rows others left behind; it takes no route from a backend that is running.
\* So a running backend loses its route only to a late insert, of an address
\* that Docker has given away since it was captured.
InsertIsCurrent ==
    [][\A t \in Task :
           /\ pc[t] = "Route" /\ pc'[t] = "Routed"
           /\ cont[BackendOf[t]] = "Running"
           => /\ route'[BackendOf[t]] = addr[BackendOf[t]]
              /\ \A c \in Backend \ {BackendOf[t]} :
                     cont[c] = "Running" => route'[c] = route[c]]_vars

\* A late insert took the route of b; its idle loop finds no row and fails.
RouteTaken(b) == db[b] = "Ready" /\ route[b] = None

\* Listeners of the state stream never hear of a state before the row has it,
\* or a later one: update_backend_state writes first and publishes second.
StreamNeverAhead ==
    \A b \in Backend :
        \/ published[b] \in {NoState, db[b]}
        \/ db[b] \in Lifecycle!Later(published[b])

\* When nothing but crashes and dropped calls goes wrong, a backend that is not
\* in a terminal state has a task, unless another backend took its route:
\* neither an exit of the container nor a signal nor a restart at any point
\* leaves a row that nobody moves on.
NeverStranded ==
    Running => \A b \in Backend :
        CountedAsRunning(db[b]) => Driven(b) \/ RouteTaken(b)

\* Under the same conditions, a container is left without a task in three cases
\* only: its backend is in ErrorLoading, whose error path leaves the
\* loop without calling stop(); another backend took its route; or it was
\* created or started by a call of load() that was dropped, after stop() had
\* been told that there is no such container, or that it does not run.
OrphansHaveACause ==
    Running => \A b \in Backend :
        cont[b] # "Absent" /\ ~Driven(b) =>
            db[b] = "ErrorLoading" \/ RouteTaken(b) \/ b \in belated

\* The container is gone; one that is there again comes from a dropped call.
Reclaimed(b) == cont[b] = "Absent" \/ b \in belated

\* A queued termination request ends with the container removed, in whatever
\* state it finds the backend, unless the task ends without stop() (loading
\* fails, or the route was taken) or the drone goes down first, and if requests
\* for it stop coming: each one that arrives while the container is being
\* stopped starts stop() again.  A call of load() that the request has dropped
\* may undo it.
TerminateTakesEffect ==
    \A t \in Task : <>[](chan[t] # "Terminate") =>
        (chan[t] = "Terminate" ~> \/ Reclaimed(BackendOf[t])
                                  \/ db[BackendOf[t]] = "ErrorLoading"
                                  \/ RouteTaken(BackendOf[t])
                                  \/ ~up)

\* If the drone eventually stays up and does not hang, a backend that was
\* swept because it was idle has its container removed, however many
\* termination requests come: Swept does not listen for them.
SweptIsRemoved ==
    <>[]Running => \A b \in Backend : db[b] = "Swept" ~> Reclaimed(b)

\* If the drone eventually stays up, does not hang, and gets no more
\* termination requests, the container of a backend in a terminal state other
\* than ErrorLoading is removed, also when the drone died while stopping it,
\* unless a dropped call of load() brought it about.
TerminalIsReclaimed ==
    <>[](Running /\ \A t \in Task : chan[t] # "Terminate") =>
        \A b \in Backend :
            terminal(db[b]) /\ db[b] # "ErrorLoading" ~> Reclaimed(b)

\* What a failed load or a dropped call has left behind is removed when the
\* drone starts again and nothing is left at Docker by then: resume_backends
\* resumes terminal rows too, ErrorLoading among them, and stops their
\* containers.
RestartReclaims ==
    <>[](Running /\ \A t \in Task : chan[t] # "Terminate") =>
        \A b \in Backend :
            ~up /\ terminal(db[b]) /\ late[b] = {} ~> cont[b] = "Absent"

\* A task whose sender was replaced by a later spawn of the same id ends.
SupersededEnds ==
    \A t \in Task :
        pc[t] \in StepPc /\ listener[BackendOf[t]] # t ~> pc[t] = "Free"

-----------------------------------------------------------------------------
(* Why they hold.  When ids are unique (MaxSpawns = 1) the tasks are        *)
(* independent: the invariant below is inductive, and the properties above  *)
(* that are about the rows, the monitors and the stream follow from it.     *)

\* Inside run_backend's loop.
LoopPc == StepPc \cup {"Save", "Publish"}

\* The state a task can be in at each await.
StateAtPc(p, s) ==
    /\ p \in {"Insert", "Announce", "Pull", "Create", "Start", "Started"}
           => s = "Loading"
    /\ p = "Status" => running(s)
    /\ p \in {"Port", "Route", "Routed"} => s = "Starting"
    /\ p = "Idle" => s = "Ready"
    /\ p \in {"Stop", "Remove", "Removed"} => terminal(s)

\* How a task's state relates to the row it has written or is about to write.
RowAtPc(t) ==
    LET row == db[BackendOf[t]]
        skips == "db" \in Faults
    IN /\ pc[t] = "Insert" => row = NoState
       /\ pc[t] \in Pc \ {"Free", "Insert", "Save"} =>
              \/ row = st[t]
              \/ skips /\ (row = NoState \/ st[t] \in Lifecycle!Later(row))
       /\ pc[t] = "Save" =>
              \/ row = st[t]
              \/ skips /\ row = NoState
              \/ st[t] \in Lifecycle!Reach(row)

\* A task in the loop can be signalled, and is monitored while its state
\* says the container runs.
EntriesAtPc(t) ==
    Running =>
        /\ pc[t] \in LoopPc => listener[BackendOf[t]] = t
        /\ pc[t] \in LoopPc \cup {"Enter"} /\ running(st[t])
               => monitor[BackendOf[t]]

\* The inductive invariant: one task per id, none for an id that was not
\* asked for or while the drone is down, monitors only for ids with a task,
\* and the three relations above for every task.
TasksAreIndependent ==
    /\ \A t, u \in Task :
           Live(t) /\ Live(u) /\ BackendOf[t] = BackendOf[u] => t = u
    /\ \A b \in Backend : spawns[b] = 0 => db[b] = NoState /\ ~Driven(b)
    /\ ~up => \A t \in Task : ~Live(t)
    /\ MonitorHasTask
    /\ \A t \in Task :
           StateAtPc(pc[t], st[t]) /\ RowAtPc(t) /\ EntriesAtPc(t)

-----------------------------------------------------------------------------
(* What documents and comments of the source say, and the code does not do *)

\* agent.rs:442, terminal(): "true if the state is a final state of a backend
\* that can not change."
TerminalIsFinal ==
    [][\A b \in Backend : terminal(db[b]) => db'[b] = db[b]]_vars

\* executor.rs:61, backend_to_listener: "a channel, through which signals can
\* be sent to interrupt the state machine.  This is used [...] also for
\* terminating backends."
WaitingKillIsDelivered ==
    \A b \in Backend : waiting[b] > 0 ~> waiting[b] = 0

\* agent.rs:385, TimedOutBeforeReady: "A timeout occurred becfore the
\* container was ready."
PortTimeoutIsRecorded ==
    [][\A t \in Task : WaitPortReady(t) =>
           pc'[t] = "Route" \/ st'[t] = "TimedOutBeforeReady"]_vars

\* agent.rs:372, ErrorLoading: "A failure occured while loading the image."
LoadErrorMeansNotRunning ==
    \A b \in Backend : db[b] = "ErrorLoading" => cont[b] # "Running"

\* README.md:8: "Plane assigns a unique subdomain to each instance, through
\* which it proxies HTTPS/WebSocket connections."  The proxy follows the route
\* of a Ready row.
SubdomainReachesOwnInstance ==
    \A b, c \in Backend :
        /\ db[b] = "Ready"
        /\ cont[c] = "Running"
        /\ route[b] = addr[c]
        => b = c
=============================================================================
