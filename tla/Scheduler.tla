----------------------------- MODULE Scheduler ------------------------------
(***************************************************************************)
(* The controller's scheduler (controller/src/scheduler.rs, lib.rs), the   *)
(* status and drain loops of the drones it hears from (agent/mod.rs) and   *)
(* the requests between them.  One cluster: the maps of different clusters *)
(* share nothing.  Time passes in seconds; a timestamp is kept as its age, *)
(* up to the age from which it makes no difference.                        *)
(***************************************************************************)
EXTENDS Naturals, Sequences, FiniteSets

CONSTANTS Drone, Request,
          Threshold,       \* a status older than this is ignored (5)
          Period,          \* seconds between two status messages (4)
          RequestTimeout,  \* of nats.request (the client's default)
          MaxDrains,       \* bound: DrainDrone messages per drone
          MaxCrashes,      \* bound: crashes per drone
          MaxRestarts,     \* bound: times the controller ends
          MaxInbox,        \* bound: status messages of a drone in flight
          Lossy,           \* may NATS lose a message?
          Prompt           \* do the loops finish their work within a second?

ASSUME SchedulerAssumption ==
    /\ {Threshold, Period, RequestTimeout} \subseteq Nat \ {0}
    /\ {MaxDrains, MaxCrashes, MaxRestarts, MaxInbox} \subseteq Nat
    /\ {Lossy, Prompt} \subseteq BOOLEAN
    /\ IsFiniteSet(Request)

Never == Threshold           \* an age that no longer counts
MaxClaim == Threshold + Cardinality(Request) * RequestTimeout

VARIABLES
    alive,      \* [Drone -> BOOLEAN]
    ready,      \* [Drone -> BOOLEAN]  the watch channel between the loops
    loop,       \* [Drone -> LoopPc]  where ready_loop is
    says,       \* [Drone -> BOOLEAN]  `ready` as ready_loop read it
    timer,      \* [Drone -> 0..Period]  seconds to its next tick
    draining,   \* [Drone -> Instruction]  answered by listen_for_drain, not applied
    drains,     \* [Drone -> Nat]
    crashes,    \* [Drone -> Nat]
    inbox,      \* [Drone -> Seq(BOOLEAN)]  status messages in flight
    up,         \* does the controller run?
    since,      \* seconds since it was started again, up to Period + 1
    restarts,
    last,       \* [Drone -> 0..Never]  age of the entry in last_status
    answer,     \* [Request -> Answer]  what the client of a request knows
    asking,     \* the request run_scheduler waits in, or {}
    waited,     \* seconds it has waited
    spawnMsgs,  \* SpawnRequests in flight: pairs <<request, drone>>
    replies,    \* their answers in flight
    accepted,   \* pairs answered by listen_for_spawn_requests, not yet started
    spawned,    \* pairs for which start_backend was spawned
    lost,       \* pairs answered by a drone that went down before that
    promised,   \* pairs of ScheduleResponse::Scheduled: the drone it names
    claim       \* [Drone -> 0..MaxClaim]  age of its last claim to be ready,
                \* kept, as since, only where the loops are prompt

droneVars == <<alive, ready, loop, says, timer, draining, drains, crashes>>
runVars == <<up, since, restarts>>
ctlVars == <<runVars, last, answer, asking, waited>>
netVars == <<spawnMsgs, replies, accepted, spawned, lost, promised>>
vars == <<alive, ready, loop, says, timer, draining, drains, crashes, inbox,
          up, since, restarts, last, answer, asking, waited, spawnMsgs, replies,
          accepted, spawned, lost, promised, claim>>

LoopPc == {"Start", "Sending", "Tick"}
Instruction == {"None", "Drain", "Undrain"}
Answer == {"NotAsked", "Queued", "Asking", "Scheduled", "NoDroneAvailable",
           "NoAnswer"}

TypeOK ==
    /\ {alive, ready, says} \subseteq [Drone -> BOOLEAN]
    /\ draining \in [Drone -> Instruction]
    /\ loop \in [Drone -> LoopPc]
    /\ timer \in [Drone -> 0..Period]
    /\ drains \in [Drone -> 0..MaxDrains]
    /\ crashes \in [Drone -> 0..MaxCrashes]
    /\ inbox \in [Drone -> Seq(BOOLEAN)]
    /\ \A d \in Drone : Len(inbox[d]) <= MaxInbox
    /\ up \in BOOLEAN /\ since \in 0..(Period + 1) /\ restarts \in 0..MaxRestarts
    /\ last \in [Drone -> 0..Never]
    /\ answer \in [Request -> Answer]
    /\ asking \in {{}} \cup {{p} : p \in Request \X Drone}
    /\ waited \in 0..RequestTimeout
    /\ {spawnMsgs, replies, accepted, spawned, lost, promised} \subseteq
           SUBSET (Request \X Drone)
    /\ claim \in [Drone -> 0..MaxClaim]

Init ==
    /\ alive = [d \in Drone |-> TRUE]
    /\ ready = [d \in Drone |-> TRUE]
    /\ loop = [d \in Drone |-> "Start"]
    /\ says = [d \in Drone |-> TRUE]
    /\ timer = [d \in Drone |-> 0]
    /\ draining = [d \in Drone |-> "None"]
    /\ drains = [d \in Drone |-> 0]
    /\ crashes = [d \in Drone |-> 0]
    /\ inbox = [d \in Drone |-> <<>>]
    /\ up = TRUE /\ since = Period + 1 /\ restarts = 0
    /\ last = [d \in Drone |-> Never]
    /\ answer = [r \in Request |-> "NotAsked"]
    /\ asking = {}
    /\ waited = 0
    /\ spawnMsgs = {}
    /\ replies = {}
    /\ accepted = {}
    /\ spawned = {}
    /\ lost = {}
    /\ promised = {}
    /\ claim = [d \in Drone |-> MaxClaim]

-----------------------------------------------------------------------------
(* The drone: ready_loop, listen_for_drain, listen_for_spawn_requests *)

\* Mutated form: a longer interval.
MutNextTick == {Period + 1}

\* The interval keeps its schedule: after a late tick the next is early.
NextTick == IF Prompt THEN {Period} ELSE 0..Period

\* Mutated form: the watch channel is read once, before the loop.
MutReadReady(d) ==
    /\ alive[d]
    /\ \/ /\ loop[d] = "Start"
          /\ says' = [says EXCEPT ![d] = ready[d]]
          /\ UNCHANGED timer
       \/ /\ loop[d] = "Tick" /\ timer[d] = 0
          /\ \E t \in NextTick : timer' = [timer EXCEPT ![d] = t]
          /\ UNCHANGED says
    /\ loop' = [loop EXCEPT ![d] = "Sending"]
    /\ UNCHANGED <<alive, ready, draining, drains, crashes, inbox, ctlVars,
                   netVars, claim>>

\* ready_loop starts, or the interval ticks (the first tick is immediate): it
\* reads the watch channel and waits for the database and for JetStream.
ReadReady(d) ==
    /\ alive[d]
    /\ \/ loop[d] = "Start" /\ UNCHANGED timer
       \/ /\ loop[d] = "Tick" /\ timer[d] = 0
          /\ \E t \in NextTick : timer' = [timer EXCEPT ![d] = t]
    /\ loop' = [loop EXCEPT ![d] = "Sending"]
    /\ says' = [says EXCEPT ![d] = ready[d]]
    /\ UNCHANGED <<alive, ready, draining, drains, crashes, inbox, ctlVars,
                   netVars, claim>>

PublishStatus(d) ==
    /\ alive[d] /\ loop[d] = "Sending"
    /\ Len(inbox[d]) < MaxInbox
    /\ loop' = [loop EXCEPT ![d] = "Tick"]
    /\ \/ up /\ inbox' = [inbox EXCEPT ![d] = Append(@, says[d])]
       \/ (Lossy \/ ~up) /\ UNCHANGED inbox
    /\ claim' = IF Prompt /\ says[d] THEN [claim EXCEPT ![d] = 0] ELSE claim
    /\ UNCHANGED <<alive, ready, says, timer, draining, drains, crashes,
                   ctlVars, netVars>>

\* listen_for_drain answers first and then changes the watch channel.
AnswerDrain(d, i) ==
    /\ alive[d] /\ draining[d] = "None" /\ drains[d] < MaxDrains
    /\ draining' = [draining EXCEPT ![d] = i]
    /\ drains' = [drains EXCEPT ![d] = @ + 1]
    /\ UNCHANGED <<alive, ready, loop, says, timer, crashes, inbox, ctlVars,
                   netVars, claim>>

ApplyDrain(d) ==
    /\ alive[d] /\ draining[d] # "None"
    /\ draining' = [draining EXCEPT ![d] = "None"]
    /\ ready' = [ready EXCEPT ![d] = draining[d] = "Undrain"]
    /\ UNCHANGED <<alive, loop, says, timer, drains, crashes, inbox, ctlVars,
                   netVars, claim>>

\* A SpawnRequest is answered with true, whether the drone is draining or not,
\* and only then is start_backend spawned; the loop reads one at a time.
AnswerSpawn(r, d) ==
    /\ alive[d] /\ <<r, d>> \in spawnMsgs
    /\ \A q \in Request : <<q, d>> \notin accepted
    /\ spawnMsgs' = spawnMsgs \ {<<r, d>>}
    /\ accepted' = accepted \cup {<<r, d>>}
    /\ \/ replies' = replies \cup {<<r, d>>}
       \/ Lossy /\ UNCHANGED replies
    /\ UNCHANGED <<droneVars, inbox, ctlVars, spawned, lost, promised, claim>>

StartBackend(r, d) ==
    /\ alive[d] /\ <<r, d>> \in accepted
    /\ accepted' = accepted \ {<<r, d>>}
    /\ spawned' = spawned \cup {<<r, d>>}
    /\ UNCHANGED <<droneVars, inbox, ctlVars, spawnMsgs, replies, lost, promised, claim>>

\* A message to a drone that is not there is gone.
LoseSpawn(r, d) ==
    /\ <<r, d>> \in spawnMsgs
    /\ Lossy \/ ~alive[d]
    /\ spawnMsgs' = spawnMsgs \ {<<r, d>>}
    /\ UNCHANGED <<droneVars, inbox, ctlVars, replies, accepted, spawned,
                   lost, promised, claim>>

\* The process ends (also when one of its loops returns an error), and starts
\* again with a fresh watch channel: a drain instruction is forgotten.
DroneDies(d) ==
    /\ alive[d] /\ crashes[d] < MaxCrashes
    /\ alive' = [alive EXCEPT ![d] = FALSE]
    /\ crashes' = [crashes EXCEPT ![d] = @ + 1]
    /\ accepted' = {p \in accepted : p[2] # d}
    /\ lost' = lost \cup {p \in accepted : p[2] = d}
    /\ UNCHANGED <<ready, loop, says, timer, draining, drains, inbox, ctlVars,
                   spawnMsgs, replies, spawned, promised, claim>>

DroneStarts(d) ==
    /\ ~alive[d]
    /\ alive' = [alive EXCEPT ![d] = TRUE]
    /\ ready' = [ready EXCEPT ![d] = TRUE]
    /\ loop' = [loop EXCEPT ![d] = "Start"]
    /\ says' = [says EXCEPT ![d] = TRUE]
    /\ timer' = [timer EXCEPT ![d] = 0]
    /\ draining' = [draining EXCEPT ![d] = "None"]
    /\ UNCHANGED <<drains, crashes, inbox, ctlVars, netVars, claim>>

-----------------------------------------------------------------------------
(* The controller: one loop, that waits in nats.request *)

\* An error of the loop or of another one of the process ends it: the map, the
\* subscriptions with what is in them and the requests it has read are gone.
ControllerDies ==
    /\ up /\ restarts < MaxRestarts
    /\ up' = FALSE /\ restarts' = restarts + 1
    /\ last' = [d \in Drone |-> Never]
    /\ inbox' = [d \in Drone |-> <<>>]
    /\ asking' = {} /\ waited' = 0
    /\ answer' = [r \in Request |-> IF answer[r] \in {"Queued", "Asking"}
                                    THEN "NoAnswer" ELSE answer[r]]
    /\ UNCHANGED <<droneVars, since, netVars, claim>>

ControllerStarts ==
    /\ ~up
    /\ up' = TRUE /\ since' = IF Prompt THEN 0 ELSE since
    /\ UNCHANGED <<droneVars, inbox, restarts, last, answer, asking, waited, netVars,
                   claim>>

\* The entry gets the time at which the message is handled.
update_status(d, isReady) ==
    last' = [last EXCEPT ![d] = IF isReady THEN 0 ELSE Never]

HandleStatus(d) ==
    /\ asking = {}
    /\ inbox[d] # <<>>
    /\ update_status(d, Head(inbox[d]))
    /\ inbox' = [inbox EXCEPT ![d] = Tail(@)]
    /\ UNCHANGED <<droneVars, runVars, answer, asking, waited, netVars, claim>>

\* Mutated form: every drone with an entry is as good as any other.
MutCandidates == Drone

\* schedule(): drones whose status is recent enough.
Candidates == {d \in Drone : last[d] < Threshold}

\* A client's request; it fails if nobody is subscribed.
Ask(r) ==
    /\ answer[r] = "NotAsked"
    /\ answer' = [answer EXCEPT ![r] = IF up THEN "Queued" ELSE "NoAnswer"]
    /\ UNCHANGED <<droneVars, inbox, runVars, last, asking, waited, netVars, claim>>

\* A request is read and a drone chosen; the loop waits for its answer.
Schedule(r, d) ==
    /\ asking = {}
    /\ answer[r] = "Queued"
    /\ d \in Candidates
    /\ answer' = [answer EXCEPT ![r] = "Asking"]
    /\ asking' = {<<r, d>>}
    /\ waited' = 0
    /\ spawnMsgs' = spawnMsgs \cup {<<r, d>>}
    /\ UNCHANGED <<droneVars, inbox, runVars, last, replies, accepted, spawned,
                   lost, promised, claim>>

RefuseRequest(r) ==
    /\ asking = {}
    /\ answer[r] = "Queued"
    /\ Candidates = {}
    /\ answer' = [answer EXCEPT ![r] = "NoDroneAvailable"]
    /\ UNCHANGED <<droneVars, inbox, runVars, last, asking, waited, netVars, claim>>

Answered(r, d, a) ==
    /\ asking = {<<r, d>>}
    /\ asking' = {}
    /\ waited' = 0
    /\ answer' = [answer EXCEPT ![r] = a]
    /\ promised' = IF a = "Scheduled" THEN promised \cup {<<r, d>>} ELSE promised

SpawnAccepted(r, d) ==
    /\ <<r, d>> \in replies
    /\ replies' = replies \ {<<r, d>>}
    /\ Answered(r, d, "Scheduled")
    /\ UNCHANGED <<droneVars, inbox, runVars, last, spawnMsgs, accepted, spawned, lost,
                   claim>>

\* Mutated form: an error counts as success.
MutSpawnFailed(r, d) ==
    /\ waited = RequestTimeout \/ ~alive[d]
    /\ Answered(r, d, "Scheduled")
    /\ UNCHANGED <<droneVars, inbox, runVars, last, spawnMsgs, replies, accepted, spawned,
                   lost, claim>>

\* Mutated form: the wait ends only when nobody is subscribed.
MutSpawnFailedLate(r, d) ==
    /\ ~alive[d]
    /\ Answered(r, d, "NoDroneAvailable")
    /\ UNCHANGED <<droneVars, inbox, runVars, last, spawnMsgs, replies, accepted, spawned,
                   lost, claim>>

\* The request fails: no answer in time, or nobody subscribed.
SpawnFailed(r, d) ==
    /\ waited = RequestTimeout \/ ~alive[d]
    /\ Answered(r, d, "NoDroneAvailable")
    /\ UNCHANGED <<droneVars, inbox, runVars, last, spawnMsgs, replies, accepted, spawned,
                   lost, claim>>

-----------------------------------------------------------------------------
(* Time *)

\* Nothing is left to do that takes less than a second.
Settled ==
    /\ \A d \in Drone : alive[d] => loop[d] = "Tick" /\ timer[d] > 0
    /\ asking = {} => \A d \in Drone : inbox[d] = <<>>

Older(n, cap) == IF n < cap THEN n + 1 ELSE cap

Second ==
    /\ Prompt => Settled
    /\ asking # {} => waited < RequestTimeout
    /\ timer' = [d \in Drone |-> IF timer[d] > 0 THEN timer[d] - 1 ELSE 0]
    /\ last' = [d \in Drone |-> Older(last[d], Never)]
    /\ claim' = [d \in Drone |-> Older(claim[d], MaxClaim)]
    /\ waited' = IF asking = {} THEN waited ELSE waited + 1
    /\ since' = Older(since, Period + 1)
    /\ UNCHANGED <<alive, ready, loop, says, draining, drains, crashes, inbox, up,
                   restarts, answer, asking, netVars>>

DroneStep(d) == ReadReady(d) \/ PublishStatus(d) \/ ApplyDrain(d)

Next ==
    \/ \E d \in Drone : \/ DroneStep(d)
                        \/ \E i \in {"Drain", "Undrain"} : AnswerDrain(d, i)
                        \/ DroneDies(d) \/ DroneStarts(d) \/ HandleStatus(d)
    \/ \E r \in Request, d \in Drone :
           \/ AnswerSpawn(r, d) \/ StartBackend(r, d) \/ LoseSpawn(r, d)
           \/ Schedule(r, d)
           \/ SpawnAccepted(r, d) \/ SpawnFailed(r, d)
    \/ \E r \in Request : Ask(r) \/ RefuseRequest(r)
    \/ ControllerDies \/ ControllerStarts
    \/ Second

Spec == Init /\ [][Next]_vars

\* The clock runs, the loops of living drones run, and select! reads both of
\* the controller's subscriptions (it polls them in random order).
Fairness ==
    /\ WF_vars(Second)
    /\ \A d \in Drone : /\ WF_vars(ReadReady(d)) /\ WF_vars(PublishStatus(d))
                        /\ WF_vars(ApplyDrain(d)) /\ SF_vars(HandleStatus(d))
    /\ \A r \in Request :
           /\ SF_vars(RefuseRequest(r) \/ \E d \in Drone : Schedule(r, d))
           /\ \A d \in Drone : WF_vars(SpawnAccepted(r, d) \/ SpawnFailed(r, d))

FairSpec == Spec /\ Fairness

-----------------------------------------------------------------------------
(* Properties *)

\* A client that is told "Scheduled" gets its backend on the drone it is told,
\* unless that drone goes down between its answer and the start of the backend:
\* the answer may be lost or late, the client is answered after the drone, and
\* before and after this the drone may go down as it likes.
ScheduledIsSpawned == promised \subseteq accepted \cup spawned \cup lost

\* If the loops are prompt, a drone is chosen on the strength of a claim to be
\* ready that is at most Threshold old plus the time the loop spent waiting for
\* answers to earlier requests: while it waits, it reads no status, and it
\* dates a status by the time it reads it.
ClaimIsRecent ==
    [][\A r \in Request, d \in Drone : Prompt /\ Schedule(r, d) =>
           claim[d] < Threshold + RequestTimeout *
               Cardinality({q \in Request : answer[q] \in
                                {"Scheduled", "NoDroneAvailable"}})]_vars

\* If the loops are prompt, a drone that reports on time is a candidate whenever
\* the controller has read what was sent, up to the moment the next report is
\* due: one period is shorter than the threshold.  A controller that was started
\* again, and knows of no drone, knows it after one period.
SteadyDroneIsCandidate ==
    \A d \in Drone :
        /\ Prompt /\ up /\ since > Period
        /\ asking = {} /\ inbox[d] = <<>>
        /\ alive[d] /\ loop[d] = "Tick"
        /\ drains[d] = 0
        => d \in Candidates

\* A drone that was told to drain and stays up is eventually never chosen,
\* although a status read before the instruction may still be on its way.
DrainTakesEffect ==
    \A d \in Drone :
        <>[](alive[d] /\ ~ready[d]) => <>[](d \notin Candidates)

\* Every request is answered, also if the chosen drone never does, unless the
\* controller ends first.
RequestIsAnswered ==
    \A r \in Request :
        answer[r] = "Queued" ~>
            answer[r] \in {"Scheduled", "NoDroneAvailable", "NoAnswer"}

-----------------------------------------------------------------------------
(* What a comment of the source says, and the code does not do *)

\* agent.rs:192, DroneStatusMessage.ready: "When a drone has been told to drain
\* or is otherwise unable to have backends scheduled to it, this is set to
\* false."
DrainingIsSaid ==
    [][\A d \in Drone : PublishStatus(d) /\ ~ready[d] => ~says[d]]_vars
=============================================================================
