--------------------------- MODULE SchedulerProofs --------------------------
(***************************************************************************)
(* The answers and the choices of the scheduler for any number of drones   *)
(* and requests, any delays, losses, crashes of drones and restarts of the *)
(* controller.                                                             *)
(***************************************************************************)
EXTENDS Scheduler, FiniteSetTheorems, SequenceTheorems, TLAPS

\* The pairs whose backend is started or about to be, and those a drone forgot
\* when it went down.
Kept == accepted \cup spawned \cup lost

\* A reply on its way is as good as the answer it will become.
SpawnInv == replies \cup promised \subseteq Kept

\* What is kept stays kept: what a drone forgets is lost.
LEMMA KeptStays ==
    ASSUME [Next]_vars
    PROVE  Kept \subseteq Kept'
<1>1. ASSUME UNCHANGED <<accepted, spawned, lost>> PROVE Kept \subseteq Kept'
  BY <1>1 DEF Kept
<1>2. ASSUME NEW q \in Request, NEW e \in Drone, AnswerSpawn(q, e) \/ StartBackend(q, e)
      PROVE  Kept \subseteq Kept'
  BY <1>2 DEF AnswerSpawn, StartBackend, Kept
<1>3. ASSUME NEW e \in Drone, DroneDies(e) PROVE Kept \subseteq Kept'
  BY <1>3 DEF DroneDies, Kept
<1>4. ASSUME NEW e \in Drone
      PROVE  /\ ReadReady(e) => UNCHANGED <<accepted, spawned, lost>>
             /\ PublishStatus(e) => UNCHANGED <<accepted, spawned, lost>>
             /\ ApplyDrain(e) => UNCHANGED <<accepted, spawned, lost>>
             /\ DroneStarts(e) => UNCHANGED <<accepted, spawned, lost>>
             /\ HandleStatus(e) => UNCHANGED <<accepted, spawned, lost>>
             /\ \A i : AnswerDrain(e, i) => UNCHANGED <<accepted, spawned, lost>>
  BY Zenon DEF ReadReady, PublishStatus, ApplyDrain, DroneStarts, HandleStatus,
               AnswerDrain, netVars
<1>5. ASSUME NEW q \in Request, NEW e \in Drone
      PROVE  /\ LoseSpawn(q, e) => UNCHANGED <<accepted, spawned, lost>>
             /\ Schedule(q, e) => UNCHANGED <<accepted, spawned, lost>>
             /\ SpawnAccepted(q, e) => UNCHANGED <<accepted, spawned, lost>>
             /\ SpawnFailed(q, e) => UNCHANGED <<accepted, spawned, lost>>
  BY Zenon DEF LoseSpawn, Schedule, SpawnAccepted, SpawnFailed
<1>6. ASSUME ControllerDies \/ ControllerStarts \/ Second \/ UNCHANGED vars
      PROVE  UNCHANGED <<accepted, spawned, lost>>
  BY <1>6, Zenon DEF ControllerDies, ControllerStarts, Second, netVars, vars
<1>7. CASE \E e \in Drone :
               \/ DroneStep(e) \/ DroneStarts(e) \/ HandleStatus(e)
               \/ \E i \in {"Drain", "Undrain"} : AnswerDrain(e, i)
  BY <1>1, <1>4, <1>7, Zenon DEF DroneStep
<1>8. CASE \E q \in Request, e \in Drone :
               LoseSpawn(q, e) \/ Schedule(q, e) \/ SpawnAccepted(q, e) \/ SpawnFailed(q, e)
  BY <1>1, <1>5, <1>8, Zenon
<1>9. CASE \E q \in Request : Ask(q) \/ RefuseRequest(q)
  BY <1>1, <1>9, Zenon DEF Ask, RefuseRequest, netVars
<1>. QED
  BY <1>1, <1>2, <1>3, <1>6, <1>7, <1>8, <1>9, Zenon DEF Next

\* A reply is sent by a drone that has accepted the request.
LEMMA RepliesFollowAcceptance ==
    ASSUME [Next]_vars
    PROVE  replies' \subseteq replies \cup accepted'
<1>1. ASSUME replies' = replies PROVE replies' \subseteq replies \cup accepted'
  BY <1>1
<1>2. ASSUME NEW r \in Request, NEW d \in Drone, AnswerSpawn(r, d) \/ SpawnAccepted(r, d)
      PROVE  replies' \subseteq replies \cup accepted'
  BY <1>2 DEF AnswerSpawn, SpawnAccepted
<1>3. ASSUME NEW d \in Drone
      PROVE  /\ ReadReady(d) \/ PublishStatus(d) \/ ApplyDrain(d) => replies' = replies
             /\ DroneDies(d) \/ DroneStarts(d) \/ HandleStatus(d) => replies' = replies
             /\ \A i : AnswerDrain(d, i) => replies' = replies
  BY Zenon DEF ReadReady, PublishStatus, ApplyDrain, DroneDies, DroneStarts,
               HandleStatus, AnswerDrain, netVars
<1>4. ASSUME NEW r \in Request, NEW d \in Drone
      PROVE  /\ StartBackend(r, d) \/ LoseSpawn(r, d) => replies' = replies
             /\ Schedule(r, d) \/ SpawnFailed(r, d) => replies' = replies
  BY Zenon DEF StartBackend, LoseSpawn, Schedule, SpawnFailed, netVars
<1>5. ASSUME NEW r \in Request
      PROVE  Ask(r) \/ RefuseRequest(r) => replies' = replies
  BY Zenon DEF Ask, RefuseRequest, netVars
<1>6. ASSUME ControllerDies \/ ControllerStarts \/ Second \/ UNCHANGED vars
      PROVE  replies' = replies
  BY <1>6, Zenon DEF ControllerDies, ControllerStarts, Second, netVars, vars
<1>. QED
  BY <1>1, <1>2, <1>3, <1>4, <1>5, <1>6, Zenon DEF Next, DroneStep

\* A drone is named to a client only when its reply is read.
LEMMA PromisesFollowReplies ==
    ASSUME [Next]_vars
    PROVE  promised' \subseteq promised \cup replies
<1>1. ASSUME promised' = promised PROVE promised' \subseteq promised \cup replies
  BY <1>1
<1>2. ASSUME NEW q \in Request, NEW e \in Drone, SpawnAccepted(q, e)
      PROVE  promised' \subseteq promised \cup replies
  BY <1>2 DEF SpawnAccepted, Answered
<1>3. ASSUME NEW q \in Request, NEW e \in Drone, SpawnFailed(q, e)
      PROVE  promised' = promised
  BY <1>3 DEF SpawnFailed, Answered
<1>4. ASSUME NEW e \in Drone
      PROVE  /\ ReadReady(e) \/ PublishStatus(e) \/ ApplyDrain(e)
                    => promised' = promised
             /\ DroneDies(e) \/ DroneStarts(e) \/ HandleStatus(e)
                    => promised' = promised
             /\ \A i : AnswerDrain(e, i) => promised' = promised
             /\ \A q \in Request :
                    AnswerSpawn(q, e) \/ StartBackend(q, e) \/ LoseSpawn(q, e)
                        \/ Schedule(q, e) => promised' = promised
  BY Zenon DEF ReadReady, PublishStatus, ApplyDrain, DroneDies, DroneStarts,
               HandleStatus, AnswerDrain, AnswerSpawn, StartBackend, LoseSpawn,
               Schedule, netVars
<1>5. ASSUME NEW q \in Request
      PROVE  Ask(q) \/ RefuseRequest(q) => promised' = promised
  BY Zenon DEF Ask, RefuseRequest, netVars
<1>6. ASSUME ControllerDies \/ ControllerStarts \/ Second \/ UNCHANGED vars
      PROVE  promised' = promised
  BY <1>6, Zenon DEF ControllerDies, ControllerStarts, Second, netVars, vars
<1>. QED
  BY <1>1, <1>2, <1>3, <1>4, <1>5, <1>6, Zenon DEF Next, DroneStep

\* run_scheduler and listen_for_spawn_requests: a client that is told
\* "Scheduled" gets its backend on that drone, unless the drone goes down after
\* it has answered and before it has started the backend.
THEOREM ScheduledMeansSpawned == Spec => []ScheduledIsSpawned
<1>1. Init => SpawnInv
  BY DEF Init, SpawnInv
<1>2. ASSUME SpawnInv, [Next]_vars PROVE SpawnInv'
  <2>1. accepted' \subseteq Kept'
    BY DEF Kept
  <2>. QED
    BY <1>2, <2>1, KeptStays, RepliesFollowAcceptance, PromisesFollowReplies DEF SpawnInv
<1>3. SpawnInv => ScheduledIsSpawned
  BY DEF SpawnInv, ScheduledIsSpawned, Kept
<1>. QED
  BY <1>1, <1>2, <1>3, PTL DEF Spec

-----------------------------------------------------------------------------
(* Types *)

\* Durations and bounds are natural numbers.
LEMMA SchedulerNumbers ==
    /\ Threshold \in Nat /\ Period \in Nat /\ RequestTimeout \in Nat /\ MaxInbox \in Nat
    /\ MaxDrains \in Nat /\ MaxCrashes \in Nat /\ MaxRestarts \in Nat
    /\ Never \in Nat /\ Never = Threshold /\ MaxClaim \in Nat
    /\ Threshold > 0 /\ Period > 0 /\ RequestTimeout > 0
<1>1. Cardinality(Request) \in Nat
  BY SchedulerAssumption, FS_CardinalityType
<1>2. \A m, n, k \in Nat : m + n * k \in Nat
  OBVIOUS
<1>. QED
  BY <1>1, <1>2, SchedulerAssumption DEF Never, MaxClaim

\* What grows older stays within its bound.
LEMMA OlderIsBounded ==
    ASSUME NEW cap \in Nat, NEW n \in 0..cap
    PROVE  Older(n, cap) \in 0..cap /\ Older(n, cap) >= n /\ Older(n, cap) <= n + 1
  BY DEF Older

\* The drone's part of the types.
DroneTypeOK ==
    /\ {alive, ready, says} \subseteq [Drone -> BOOLEAN]
    /\ draining \in [Drone -> Instruction]
    /\ loop \in [Drone -> LoopPc]
    /\ timer \in [Drone -> 0..Period]
    /\ drains \in [Drone -> 0..MaxDrains]
    /\ crashes \in [Drone -> 0..MaxCrashes]

\* The controller's part of the types, and the pairs.
ControllerTypeOK ==
    /\ up \in BOOLEAN /\ since \in 0..(Period + 1) /\ restarts \in 0..MaxRestarts
    /\ answer \in [Request -> Answer]
    /\ asking \in {{}} \cup {{p} : p \in Request \X Drone}
    /\ waited \in 0..RequestTimeout

PairsTypeOK ==
    {spawnMsgs, replies, accepted, spawned, lost, promised} \subseteq SUBSET (Request \X Drone)

\* What is on its way from a drone to its entry in last_status.
StatusTypeOK ==
    /\ inbox \in [Drone -> Seq(BOOLEAN)]
    /\ \A d \in Drone : Len(inbox[d]) <= MaxInbox
    /\ last \in [Drone -> 0..Never]
    /\ claim \in [Drone -> 0..MaxClaim]

\* A step of a drone's own loops, or its end or start.
DroneMoves(d) ==
    \/ ReadReady(d) \/ PublishStatus(d) \/ ApplyDrain(d)
    \/ \E i \in {"Drain", "Undrain"} : AnswerDrain(d, i)
    \/ DroneDies(d) \/ DroneStarts(d)

\* A step of a request's messages at a drone.
SpawnMoves(r, d) == AnswerSpawn(r, d) \/ StartBackend(r, d) \/ LoseSpawn(r, d)

\* A step of run_scheduler that answers.
AnswerMoves(r, d) == SpawnAccepted(r, d) \/ SpawnFailed(r, d)

\* Every step is one of these.
LEMMA SchedulerSteps ==
    ASSUME [Next]_vars
    PROVE  \/ \E d \in Drone : DroneMoves(d) \/ HandleStatus(d)
           \/ \E r \in Request, d \in Drone : SpawnMoves(r, d) \/ Schedule(r, d) \/ AnswerMoves(r, d)
           \/ \E r \in Request : Ask(r) \/ RefuseRequest(r)
           \/ ControllerDies \/ ControllerStarts \/ Second \/ UNCHANGED vars
  BY Zenon DEF Next, DroneStep, DroneMoves, SpawnMoves, AnswerMoves

\* What the steps of a drone leave alone.
LEMMA DroneFrame ==
    ASSUME NEW d \in Drone, DroneMoves(d)
    PROVE  UNCHANGED <<up, since, restarts, last, answer, asking, waited, spawnMsgs, replies,
                       spawned, promised>>
  BY Zenon DEF DroneMoves, ReadReady, PublishStatus, ApplyDrain, AnswerDrain, DroneDies,
     DroneStarts, ctlVars, runVars, netVars

\* What the steps of a request's messages leave alone.
LEMMA SpawnFrame ==
    ASSUME NEW r \in Request, NEW d \in Drone, SpawnMoves(r, d)
    PROVE  UNCHANGED <<alive, ready, loop, says, timer, draining, drains, crashes, inbox, up,
                       since, restarts, last, answer, asking, waited, promised, claim>>
  BY Zenon DEF SpawnMoves, AnswerSpawn, StartBackend, LoseSpawn, droneVars, ctlVars, runVars

\* What the steps of run_scheduler leave alone.
LEMMA RunFrame ==
    ASSUME NEW r \in Request,
           \/ Ask(r) \/ RefuseRequest(r)
           \/ \E d \in Drone : Schedule(r, d) \/ AnswerMoves(r, d)
    PROVE  UNCHANGED <<alive, ready, loop, says, timer, draining, drains, crashes, inbox, up,
                       since, restarts, last, accepted, spawned, claim>>
  BY Zenon DEF Ask, RefuseRequest, Schedule, AnswerMoves, SpawnAccepted, SpawnFailed, Answered,
     droneVars, runVars, netVars

\* The drone's variables keep their types.
LEMMA DroneTypeStep ==
    ASSUME DroneTypeOK, [Next]_vars
    PROVE  DroneTypeOK'
<1>. USE SchedulerNumbers
<1>1. ASSUME NEW d \in Drone, DroneMoves(d) PROVE DroneTypeOK'
  <2>1. CASE ReadReady(d)
    <3>1. \A t \in NextTick : t \in 0..Period
      BY DEF NextTick
    <3>2. timer' \in [Drone -> 0..Period]
      BY <2>1, <3>1 DEF ReadReady, DroneTypeOK
    <3>3. loop' \in [Drone -> LoopPc] /\ says' \in [Drone -> BOOLEAN]
      BY <2>1 DEF ReadReady, DroneTypeOK, LoopPc
    <3>. QED
      BY ZenonT(60), <2>1, <3>2, <3>3 DEF ReadReady, DroneTypeOK
  <2>2. CASE PublishStatus(d)
    BY SMTT(60), <2>2 DEF PublishStatus, DroneTypeOK, LoopPc
  <2>3. CASE ApplyDrain(d)
    BY <2>3 DEF ApplyDrain, DroneTypeOK, Instruction
  <2>4. CASE \E i \in {"Drain", "Undrain"} : AnswerDrain(d, i)
    BY <2>4 DEF AnswerDrain, DroneTypeOK, Instruction
  <2>5. CASE DroneDies(d)
    BY <2>5 DEF DroneDies, DroneTypeOK
  <2>6. CASE DroneStarts(d)
    BY <2>6 DEF DroneStarts, DroneTypeOK, LoopPc, Instruction
  <2>. QED
    BY Zenon, <1>1, <2>1, <2>2, <2>3, <2>4, <2>5, <2>6 DEF DroneMoves
<1>2. CASE Second
  <2>1. timer' \in [Drone -> 0..Period]
    BY <1>2 DEF Second, DroneTypeOK
  <2>. QED
    BY Zenon, <1>2, <2>1 DEF Second, DroneTypeOK
<1>3. CASE UNCHANGED <<alive, ready, loop, says, timer, draining, drains, crashes>>
  BY Zenon, <1>3 DEF DroneTypeOK
<1>4. ASSUME NEW d \in Drone, HandleStatus(d)
      PROVE  UNCHANGED <<alive, ready, loop, says, timer, draining, drains, crashes>>
  BY Zenon, <1>4 DEF HandleStatus, droneVars
<1>5. ASSUME ControllerDies \/ ControllerStarts \/ UNCHANGED vars
      PROVE  UNCHANGED <<alive, ready, loop, says, timer, draining, drains, crashes>>
  BY Zenon, <1>5 DEF ControllerDies, ControllerStarts, droneVars, vars
<1>. QED
  BY Zenon, <1>1, <1>2, <1>3, <1>4, <1>5, SchedulerSteps, SpawnFrame, RunFrame

\* The controller's variables keep their types.
LEMMA ControllerTypeStep ==
    ASSUME ControllerTypeOK, [Next]_vars
    PROVE  ControllerTypeOK'
<1>. USE SchedulerNumbers
<1>1. CASE UNCHANGED <<up, since, restarts, answer, asking, waited>>
  BY Zenon, <1>1 DEF ControllerTypeOK
<1>2. ASSUME NEW d \in Drone, HandleStatus(d)
      PROVE  UNCHANGED <<up, since, restarts, answer, asking, waited>>
  BY Zenon, <1>2 DEF HandleStatus, runVars
<1>3. ASSUME NEW r \in Request, Ask(r) \/ RefuseRequest(r) PROVE ControllerTypeOK'
  <2>1. UNCHANGED <<up, since, restarts, asking, waited>>
    BY Zenon, <1>3 DEF Ask, RefuseRequest, runVars
  <2>2. answer' \in [Request -> Answer]
    BY <1>3 DEF Ask, RefuseRequest, ControllerTypeOK, Answer
  <2>. QED
    BY Zenon, <2>1, <2>2 DEF ControllerTypeOK
<1>4. ASSUME NEW r \in Request, NEW d \in Drone, Schedule(r, d) PROVE ControllerTypeOK'
  <2>1. UNCHANGED <<up, since, restarts>>
    BY Zenon, <1>4, RunFrame
  <2>2. answer' \in [Request -> Answer]
    BY <1>4 DEF Schedule, ControllerTypeOK, Answer
  <2>3. waited' \in 0..RequestTimeout /\ asking' \in {{}} \cup {{p} : p \in Request \X Drone}
    BY <1>4 DEF Schedule
  <2>. QED
    BY Zenon, <2>1, <2>2, <2>3 DEF ControllerTypeOK
<1>5. ASSUME NEW r \in Request, NEW d \in Drone, AnswerMoves(r, d) PROVE ControllerTypeOK'
  <2>1. UNCHANGED <<up, since, restarts>>
    BY Zenon, <1>5, RunFrame
  <2>2. PICK a \in Answer : Answered(r, d, a)
    BY <1>5 DEF AnswerMoves, SpawnAccepted, SpawnFailed, Answer
  <2>3. answer' \in [Request -> Answer]
    BY <2>2 DEF Answered, ControllerTypeOK
  <2>4. waited' \in 0..RequestTimeout /\ asking' \in {{}} \cup {{p} : p \in Request \X Drone}
    BY <2>2 DEF Answered
  <2>. QED
    BY Zenon, <2>1, <2>3, <2>4 DEF ControllerTypeOK
<1>6. CASE ControllerDies
  <2>1. answer' \in [Request -> Answer]
    BY <1>6 DEF ControllerDies, ControllerTypeOK, Answer
  <2>2. restarts' \in 0..MaxRestarts /\ waited' \in 0..RequestTimeout
    BY <1>6 DEF ControllerDies, ControllerTypeOK
  <2>. QED
    BY Zenon, <1>6, <2>1, <2>2 DEF ControllerDies, ControllerTypeOK
<1>7. CASE ControllerStarts
  <2>1. since' \in 0..(Period + 1)
    BY <1>7 DEF ControllerStarts, ControllerTypeOK
  <2>. QED
    BY Zenon, <1>7, <2>1 DEF ControllerStarts, ControllerTypeOK
<1>8. CASE Second
  <2>1. since' \in 0..(Period + 1)
    BY <1>8, OlderIsBounded DEF Second, ControllerTypeOK
  <2>2. waited' \in 0..RequestTimeout
    BY <1>8 DEF Second, ControllerTypeOK
  <2>. QED
    BY Zenon, <1>8, <2>1, <2>2 DEF Second, ControllerTypeOK
<1>9. ASSUME UNCHANGED vars PROVE UNCHANGED <<up, since, restarts, answer, asking, waited>>
  BY Zenon, <1>9 DEF vars
<1>. QED
  BY Zenon, <1>1, <1>2, <1>3, <1>4, <1>5, <1>6, <1>7, <1>8, <1>9, SchedulerSteps, DroneFrame,
     SpawnFrame

\* The pairs name requests and drones.
LEMMA PairsTypeStep ==
    ASSUME PairsTypeOK, [Next]_vars
    PROVE  PairsTypeOK'
<1>1. CASE UNCHANGED <<spawnMsgs, replies, accepted, spawned, lost, promised>>
  BY Zenon, <1>1 DEF PairsTypeOK
<1>2. ASSUME NEW d \in Drone, DroneMoves(d) PROVE PairsTypeOK'
  <2>1. accepted' \subseteq accepted /\ lost' \subseteq lost \cup accepted
    BY <1>2 DEF DroneMoves, ReadReady, PublishStatus, ApplyDrain, AnswerDrain, DroneDies,
       DroneStarts, netVars
  <2>. QED
    BY SMTT(60), <1>2, <2>1, DroneFrame DEF PairsTypeOK
<1>3. ASSUME NEW r \in Request, NEW d \in Drone,
             SpawnMoves(r, d) \/ Schedule(r, d) \/ AnswerMoves(r, d)
      PROVE  PairsTypeOK'
  <2>1. SpawnMoves(r, d) => PairsTypeOK'
    BY DEF SpawnMoves, AnswerSpawn, StartBackend, LoseSpawn, PairsTypeOK
  <2>2. Schedule(r, d) => PairsTypeOK'
    BY DEF Schedule, PairsTypeOK
  <2>3. AnswerMoves(r, d) => PairsTypeOK'
    BY DEF AnswerMoves, SpawnAccepted, SpawnFailed, Answered, PairsTypeOK
  <2>. QED
    BY Zenon, <1>3, <2>1, <2>2, <2>3
<1>4. ASSUME \/ \E d \in Drone : HandleStatus(d)
             \/ \E r \in Request : Ask(r) \/ RefuseRequest(r)
             \/ ControllerDies \/ ControllerStarts \/ Second \/ UNCHANGED vars
      PROVE  UNCHANGED <<spawnMsgs, replies, accepted, spawned, lost, promised>>
  BY Zenon, <1>4 DEF HandleStatus, Ask, RefuseRequest, ControllerDies, ControllerStarts, Second,
     netVars, vars
<1>. QED
  BY Zenon, <1>1, <1>2, <1>3, <1>4, SchedulerSteps

\* Of the steps of a drone only PublishStatus touches its status messages.
LEMMA QuietDrone ==
    ASSUME NEW d \in Drone, DroneMoves(d), ~PublishStatus(d)
    PROVE  UNCHANGED <<inbox, last, claim>>
  BY Zenon DEF DroneMoves, ReadReady, ApplyDrain, AnswerDrain, DroneDies, DroneStarts, ctlVars

\* What a status message changes.
LEMMA Published ==
    ASSUME StatusTypeOK, NEW d \in Drone, PublishStatus(d)
    PROVE  /\ UNCHANGED last
           /\ \/ up /\ inbox' = [inbox EXCEPT ![d] = Append(@, says[d])]
              \/ (Lossy \/ ~up) /\ inbox' = inbox
           /\ claim' = IF Prompt /\ says[d] THEN [claim EXCEPT ![d] = 0] ELSE claim
  BY Zenon DEF PublishStatus, ctlVars

\* Status messages and entries keep their types.
LEMMA StatusTypeStep ==
    ASSUME DroneTypeOK, StatusTypeOK, [Next]_vars
    PROVE  StatusTypeOK'
<1>. USE SchedulerNumbers
<1>1. ASSUME UNCHANGED <<inbox, last, claim>> PROVE StatusTypeOK'
  BY Zenon, <1>1 DEF StatusTypeOK
<1>2. ASSUME NEW d \in Drone, PublishStatus(d) PROVE StatusTypeOK'
  <2>1. claim' \in [Drone -> 0..MaxClaim]
    BY SMTT(60), <1>2, Published DEF StatusTypeOK
  <2>2. /\ inbox' \in [Drone -> Seq(BOOLEAN)]
        /\ \A e \in Drone : Len(inbox'[e]) <= MaxInbox
    <3>1. says[d] \in BOOLEAN
      BY DEF DroneTypeOK
    <3>2. inbox[d] \in Seq(BOOLEAN) /\ Len(inbox[d]) < MaxInbox
      BY <1>2 DEF StatusTypeOK, PublishStatus
    <3>3. Append(inbox[d], says[d]) \in Seq(BOOLEAN)
      BY <3>1, <3>2
    <3>4. Len(Append(inbox[d], says[d])) <= MaxInbox
      BY <3>1, <3>2
    <3>. QED
      BY Zenon, <1>2, <3>3, <3>4, Published DEF StatusTypeOK
  <2>. QED
    BY Zenon, <1>2, <2>1, <2>2, Published DEF StatusTypeOK
<1>3. ASSUME NEW d \in Drone, HandleStatus(d) PROVE StatusTypeOK'
  <2>1. /\ inbox[d] \in Seq(BOOLEAN) /\ inbox[d] # <<>> /\ Len(inbox[d]) <= MaxInbox
        /\ inbox' = [inbox EXCEPT ![d] = Tail(inbox[d])] /\ UNCHANGED claim
    BY Zenon, <1>3 DEF HandleStatus, StatusTypeOK
  <2>2. Tail(inbox[d]) \in Seq(BOOLEAN) /\ Len(Tail(inbox[d])) <= MaxInbox
    <3>1. /\ Tail(inbox[d]) \in Seq(BOOLEAN) /\ Len(inbox[d]) \in Nat
          /\ Len(Tail(inbox[d])) = Len(inbox[d]) - 1
      BY Zenon, <2>1, HeadTailProperties, LenProperties
    <3>. QED
      BY <2>1, <3>1
  <2>3. last' \in [Drone -> 0..Never]
    <3>1. 0 \in 0..Never /\ Never \in 0..Never
      OBVIOUS
    <3>2. last' = [last EXCEPT ![d] = 0] \/ last' = [last EXCEPT ![d] = Never]
      BY Zenon, <1>3 DEF HandleStatus, update_status
    <3>. QED
      BY Zenon, <3>1, <3>2 DEF StatusTypeOK
  <2>. QED
    BY Zenon, <2>1, <2>2, <2>3 DEF StatusTypeOK
<1>4. CASE Second
  <2>1. last' \in [Drone -> 0..Never] /\ claim' \in [Drone -> 0..MaxClaim]
    <3>1. \A d \in Drone : Older(last[d], Never) \in 0..Never
      BY Zenon, OlderIsBounded DEF StatusTypeOK
    <3>2. \A d \in Drone : Older(claim[d], MaxClaim) \in 0..MaxClaim
      BY Zenon, OlderIsBounded DEF StatusTypeOK
    <3>. QED
      BY <1>4, <3>1, <3>2 DEF Second
  <2>. QED
    BY Zenon, <1>4, <2>1 DEF Second, StatusTypeOK
<1>5. CASE ControllerDies
  <2>1. inbox' \in [Drone -> Seq(BOOLEAN)] /\ \A d \in Drone : Len(inbox'[d]) <= MaxInbox
    BY <1>5 DEF ControllerDies
  <2>2. last' \in [Drone -> 0..Never]
    BY <1>5 DEF ControllerDies
  <2>. QED
    BY Zenon, <1>5, <2>1, <2>2 DEF ControllerDies, StatusTypeOK
<1>6. ASSUME ControllerStarts \/ UNCHANGED vars PROVE UNCHANGED <<inbox, last, claim>>
  BY Zenon, <1>6 DEF ControllerStarts, vars
<1>. QED
  BY Zenon, <1>1, <1>2, <1>3, <1>4, <1>5, <1>6, SchedulerSteps, QuietDrone, SpawnFrame, RunFrame

\* TypeOK: with any bounds, the controller's and the drones' variables keep their
\* types; no queue, age, wait or counter leaves its range.
THEOREM SchedulerTypes == Spec => []TypeOK
<1>. DEFINE Types == DroneTypeOK /\ ControllerTypeOK /\ PairsTypeOK /\ StatusTypeOK
<1>1. TypeOK <=> Types
  BY Zenon DEF TypeOK, DroneTypeOK, ControllerTypeOK, PairsTypeOK, StatusTypeOK
<1>2. Init => Types
  <2>. SUFFICES ASSUME Init PROVE Types
    OBVIOUS
  <2>1. DroneTypeOK /\ PairsTypeOK
    BY SchedulerNumbers DEF Init, DroneTypeOK, PairsTypeOK, LoopPc, Instruction
  <2>2. ControllerTypeOK /\ StatusTypeOK
    BY SchedulerNumbers DEF Init, ControllerTypeOK, StatusTypeOK, Answer
  <2>. QED
    BY <2>1, <2>2
<1>3. Types /\ [Next]_vars => Types'
  BY Zenon, DroneTypeStep, ControllerTypeStep, PairsTypeStep, StatusTypeStep
<1>. QED
  BY <1>1, <1>2, <1>3, PTL DEF Spec

-----------------------------------------------------------------------------
(* Reports on time *)

\* What the status messages of a queue say.
AllReady(q) == \A i \in 1..Len(q) : q[i]
AnyReady(q) == \E i \in 1..Len(q) : q[i]

\* A drone that was never told to drain only says that it is ready.
SaysReady(d) ==
    drains[d] = 0 => /\ ready[d] /\ says[d] /\ draining[d] = "None"
                     /\ AllReady(inbox[d])

\* Its last report is unread, or as old as the interval has run, if the
\* controller was there to hear it.
ReportIsHeard(d) ==
    /\ drains[d] = 0 /\ alive[d] /\ loop[d] = "Tick"
    /\ up /\ since + timer[d] > Period
    => inbox[d] # <<>> \/ last[d] + timer[d] <= Period

SteadyInv == \A d \in Drone : SaysReady(d) /\ ReportIsHeard(d)

\* What the others than d do to a drone, and to its status messages.
LEMMA OtherDrone ==
    ASSUME DroneTypeOK, StatusTypeOK, NEW d \in Drone, NEW e \in Drone, e # d,
           DroneMoves(e) \/ HandleStatus(e)
    PROVE  /\ alive'[d] = alive[d] /\ ready'[d] = ready[d] /\ loop'[d] = loop[d]
           /\ says'[d] = says[d] /\ timer'[d] = timer[d] /\ draining'[d] = draining[d]
           /\ drains'[d] = drains[d]
           /\ inbox'[d] = inbox[d] /\ last'[d] = last[d] /\ claim'[d] = claim[d]
<1>1. CASE ReadReady(e)
  <2>1. loop'[d] = loop[d] /\ says'[d] = says[d] /\ timer'[d] = timer[d]
    BY <1>1 DEF ReadReady, DroneTypeOK
  <2>. QED
    BY Zenon, <1>1, <2>1 DEF ReadReady, ctlVars
<1>2. CASE PublishStatus(e)
  <2>1. loop'[d] = loop[d] /\ inbox'[d] = inbox[d] /\ claim'[d] = claim[d]
    BY SMTT(60), <1>2, Published DEF PublishStatus, DroneTypeOK, StatusTypeOK
  <2>. QED
    BY Zenon, <1>2, <2>1 DEF PublishStatus, ctlVars
<1>3. CASE ApplyDrain(e)
  <2>1. draining'[d] = draining[d] /\ ready'[d] = ready[d]
    BY <1>3 DEF ApplyDrain, DroneTypeOK
  <2>. QED
    BY Zenon, <1>3, <2>1 DEF ApplyDrain, ctlVars
<1>4. CASE \E i \in {"Drain", "Undrain"} : AnswerDrain(e, i)
  <2>1. draining'[d] = draining[d] /\ drains'[d] = drains[d]
    BY <1>4 DEF AnswerDrain, DroneTypeOK
  <2>. QED
    BY Zenon, <1>4, <2>1 DEF AnswerDrain, ctlVars
<1>5. CASE DroneDies(e)
  <2>1. alive'[d] = alive[d]
    BY Zenon, <1>5 DEF DroneDies, DroneTypeOK
  <2>. QED
    BY Zenon, <1>5, <2>1 DEF DroneDies, ctlVars
<1>6. CASE DroneStarts(e)
  <2>1. /\ alive'[d] = alive[d] /\ ready'[d] = ready[d] /\ loop'[d] = loop[d]
        /\ says'[d] = says[d] /\ timer'[d] = timer[d] /\ draining'[d] = draining[d]
    BY Zenon, <1>6 DEF DroneStarts, DroneTypeOK
  <2>. QED
    BY Zenon, <1>6, <2>1 DEF DroneStarts, ctlVars
<1>7. CASE HandleStatus(e)
  <2>1. inbox'[d] = inbox[d] /\ last'[d] = last[d]
    BY Zenon, <1>7 DEF HandleStatus, update_status, StatusTypeOK
  <2>. QED
    BY Zenon, <1>7, <2>1 DEF HandleStatus, droneVars
<1>. QED
  BY Zenon, <1>1, <1>2, <1>3, <1>4, <1>5, <1>6, <1>7 DEF DroneMoves

\* What a status message and the controller's reading do to a queue.
LEMMA QueueOps ==
    ASSUME NEW q \in Seq(BOOLEAN), NEW b \in BOOLEAN
    PROVE  /\ Append(q, b) # <<>>
           /\ AllReady(q) /\ b => AllReady(Append(q, b))
           /\ AnyReady(Append(q, b)) => b \/ AnyReady(q)
           /\ q # <<>> /\ AllReady(q) => Head(q) /\ AllReady(Tail(q))
           /\ q # <<>> /\ Head(q) => AnyReady(q)
           /\ q # <<>> /\ AnyReady(Tail(q)) => AnyReady(q)
<1>1. Len(q) \in Nat
  BY LenProperties
<1>2. /\ Append(q, b) \in Seq(BOOLEAN) /\ Append(q, b) # <<>>
      /\ Len(Append(q, b)) = Len(q) + 1
      /\ Append(q, b)[Len(q) + 1] = b
      /\ \A i \in 1..Len(q) : Append(q, b)[i] = q[i]
  BY AppendProperties
<1>3. \A i \in 1..(Len(q) + 1) : i \in 1..Len(q) \/ i = Len(q) + 1
  BY <1>1
<1>4. q # <<>> => /\ Len(q) >= 1 /\ Head(q) = q[1]
                  /\ Len(Tail(q)) = Len(q) - 1
                  /\ \A i \in 1..Len(Tail(q)) : Tail(q)[i] = q[i + 1]
  <2>1. q # <<>> => Head(q) = q[1] /\ Len(q) # 0
    BY <1>1, EmptySeq
  <2>. QED
    BY <1>1, <2>1, HeadTailProperties
<1>5. q # <<>> => 1 \in 1..Len(q) /\ \A i \in 1..Len(Tail(q)) : i + 1 \in 1..Len(q)
  BY <1>1, <1>4
<1>. QED
  BY Zenon, <1>2, <1>3, <1>4, <1>5 DEF AllReady, AnyReady

\* What the steps of one drone do to its report.
LEMMA ReportByDrone ==
    ASSUME DroneTypeOK, ControllerTypeOK, StatusTypeOK, ~Lossy,
           NEW d \in Drone, SaysReady(d), ReportIsHeard(d), DroneMoves(d)
    PROVE  SaysReady(d)' /\ ReportIsHeard(d)'
<1>. USE SchedulerNumbers
<1>0. UNCHANGED <<up, since, last>>
  BY Zenon, DroneFrame
<1>1. CASE ReadReady(d)
  <2>1. UNCHANGED <<ready, draining, drains, inbox>>
    BY Zenon, <1>1 DEF ReadReady
  <2>2. says'[d] = ready[d] /\ loop'[d] = "Sending"
    BY <1>1 DEF ReadReady, DroneTypeOK
  <2>3. SaysReady(d)'
    BY Zenon, <2>1, <2>2 DEF SaysReady
  <2>. QED
    BY <2>2, <2>3 DEF ReportIsHeard
<1>2. CASE PublishStatus(d)
  <2>1. UNCHANGED <<ready, says, draining, drains>>
    BY Zenon, <1>2 DEF PublishStatus
  <2>2. says[d] \in BOOLEAN /\ inbox[d] \in Seq(BOOLEAN)
    BY Zenon DEF DroneTypeOK, StatusTypeOK
  <2>3. \/ up /\ inbox'[d] = Append(inbox[d], says[d])
        \/ ~up /\ inbox'[d] = inbox[d]
    <3>1. \/ up /\ inbox' = [inbox EXCEPT ![d] = Append(@, says[d])]
          \/ ~up /\ inbox' = inbox
      BY Zenon, <1>2, Published
    <3>2. /\ inbox' = [inbox EXCEPT ![d] = Append(@, says[d])]
                  => inbox'[d] = Append(inbox[d], says[d])
          /\ inbox' = inbox => inbox'[d] = inbox[d]
      BY DEF StatusTypeOK
    <3>. QED
      BY Zenon, <3>1, <3>2
  <2>4. SaysReady(d)'
    <3>1. AllReady(inbox[d]) /\ says[d] => AllReady(inbox'[d])
      BY Zenon, <2>2, <2>3, QueueOps
    <3>. QED
      BY Zenon, <2>1, <3>1 DEF SaysReady
  <2>5. up => inbox'[d] # <<>>
    BY Zenon, <2>2, <2>3, QueueOps
  <2>. QED
    BY Zenon, <1>0, <2>4, <2>5 DEF ReportIsHeard
<1>3. CASE ApplyDrain(d)
  <2>1. draining[d] # "None" /\ UNCHANGED drains
    BY Zenon, <1>3 DEF ApplyDrain
  <2>. QED
    BY Zenon, <2>1 DEF SaysReady, ReportIsHeard
<1>4. CASE \E i \in {"Drain", "Undrain"} : AnswerDrain(d, i)
  <2>1. drains'[d] # 0
    BY <1>4 DEF AnswerDrain, DroneTypeOK
  <2>. QED
    BY Zenon, <2>1 DEF SaysReady, ReportIsHeard
<1>5. CASE DroneDies(d)
  <2>1. UNCHANGED <<ready, says, draining, drains, inbox>>
    BY Zenon, <1>5 DEF DroneDies
  <2>2. ~alive'[d]
    BY SMTT(60), <1>5 DEF DroneDies, DroneTypeOK
  <2>. QED
    BY Zenon, <2>1, <2>2 DEF SaysReady, ReportIsHeard
<1>6. CASE DroneStarts(d)
  <2>1. UNCHANGED <<drains, inbox>>
    BY Zenon, <1>6 DEF DroneStarts
  <2>2. ready'[d] /\ says'[d] /\ draining'[d] = "None" /\ loop'[d] = "Start"
    BY <1>6 DEF DroneStarts, DroneTypeOK
  <2>3. SaysReady(d)'
    BY Zenon, <2>1, <2>2 DEF SaysReady
  <2>. QED
    BY <2>2, <2>3 DEF ReportIsHeard
<1>. QED
  BY Zenon, <1>1, <1>2, <1>3, <1>4, <1>5, <1>6 DEF DroneMoves

\* What a second does to the report of a drone.
LEMMA ReportBySecond ==
    ASSUME DroneTypeOK, ControllerTypeOK, StatusTypeOK, Prompt,
           NEW d \in Drone, ReportIsHeard(d), Second
    PROVE  ReportIsHeard(d)'
<1>. USE SchedulerNumbers
<1>1. UNCHANGED <<alive, loop, drains, inbox, up>>
  BY Zenon DEF Second
<1>2. SUFFICES ASSUME drains[d] = 0, alive[d], loop[d] = "Tick", up,
                      since' + timer'[d] > Period, inbox[d] = <<>>
               PROVE  last'[d] + timer'[d] <= Period
  BY Zenon, <1>1 DEF ReportIsHeard
<1>3. /\ timer[d] \in 0..Period /\ since \in 0..(Period + 1) /\ last[d] \in 0..Never
  BY Zenon DEF DroneTypeOK, ControllerTypeOK, StatusTypeOK
<1>4. timer[d] > 0
  BY ZenonT(60), <1>2 DEF Second, Settled
<1>5. timer'[d] = timer[d] - 1
  BY <1>4 DEF Second
<1>6. last'[d] = Older(last[d], Never) /\ since' = Older(since, Period + 1)
  BY Zenon DEF Second
<1>7. last'[d] \in Nat /\ last'[d] <= last[d] + 1 /\ since' \in Nat /\ since' <= since + 1
  <2>1. /\ last'[d] \in 0..Never /\ last'[d] <= last[d] + 1
        /\ Period + 1 \in Nat => since' \in 0..(Period + 1) /\ since' <= since + 1
    BY Zenon, <1>3, <1>6, OlderIsBounded
  <2>. QED
    BY <2>1
<1>8. since + timer[d] > Period
  BY SMTT(60), <1>2, <1>3, <1>5, <1>7
<1>9. last[d] + timer[d] <= Period
  BY Zenon, <1>2, <1>8 DEF ReportIsHeard
<1>. QED
  BY <1>3, <1>5, <1>7, <1>9

\* Every step keeps the reports.
LEMMA SteadyStep ==
    ASSUME DroneTypeOK, ControllerTypeOK, StatusTypeOK, DroneTypeOK', ~Lossy, Prompt,
           SteadyInv, [Next]_vars
    PROVE  SteadyInv'
<1>. USE SchedulerNumbers
<1>. SUFFICES ASSUME NEW d \in Drone, SaysReady(d), ReportIsHeard(d)
              PROVE  SaysReady(d)' /\ ReportIsHeard(d)'
  BY Zenon DEF SteadyInv
<1>1. ASSUME NEW e \in Drone, DroneMoves(e) \/ HandleStatus(e), e # d
      PROVE  SaysReady(d)' /\ ReportIsHeard(d)'
  <2>1. UNCHANGED <<up, since>>
    BY Zenon, <1>1, DroneFrame DEF HandleStatus, runVars
  <2>. QED
    BY Zenon, <1>1, <2>1, OtherDrone DEF SaysReady, ReportIsHeard
<1>2. CASE HandleStatus(d)
  <2>1. UNCHANGED <<alive, ready, loop, says, timer, draining, drains, up, since>>
    BY Zenon, <1>2 DEF HandleStatus, droneVars, runVars
  <2>2. /\ inbox[d] \in Seq(BOOLEAN) /\ inbox[d] # <<>>
        /\ inbox'[d] = Tail(inbox[d])
    BY <1>2 DEF HandleStatus, StatusTypeOK
  <2>3. Head(inbox[d]) => last'[d] = 0
    BY Zenon, <1>2 DEF HandleStatus, update_status, StatusTypeOK
  <2>4. SaysReady(d)' /\ (drains[d] = 0 => Head(inbox[d]))
    BY Zenon, <2>1, <2>2, QueueOps DEF SaysReady
  <2>5. timer'[d] \in 0..Period
    BY Zenon DEF DroneTypeOK
  <2>6. 0 + timer'[d] <= Period
    BY <2>5
  <2>. QED
    BY Zenon, <2>1, <2>3, <2>4, <2>6 DEF ReportIsHeard
<1>3. CASE UNCHANGED <<alive, ready, loop, says, timer, draining, drains, inbox, up, since, last>>
  BY Zenon, <1>3 DEF SaysReady, ReportIsHeard
<1>4. CASE ControllerDies
  <2>1. UNCHANGED <<ready, says, draining, drains>> /\ inbox'[d] = <<>> /\ ~up'
    BY <1>4 DEF ControllerDies, droneVars
  <2>2. SaysReady(d)'
    <3>1. AllReady(<<>>)
      BY DEF AllReady
    <3>. QED
      BY Zenon, <2>1, <3>1 DEF SaysReady
  <2>. QED
    BY Zenon, <2>1, <2>2 DEF ReportIsHeard
<1>5. CASE ControllerStarts
  <2>1. UNCHANGED <<ready, says, draining, drains, inbox>> /\ since' = 0
    BY Zenon, <1>5 DEF ControllerStarts, droneVars
  <2>2. timer'[d] \in 0..Period
    BY Zenon DEF DroneTypeOK
  <2>3. ~(since' + timer'[d] > Period)
    BY <2>1, <2>2
  <2>. QED
    BY Zenon, <2>1, <2>3 DEF SaysReady, ReportIsHeard
<1>6. CASE Second
  <2>1. UNCHANGED <<ready, says, draining, drains, inbox>>
    BY Zenon, <1>6 DEF Second
  <2>. QED
    BY Zenon, <1>6, <2>1, ReportBySecond DEF SaysReady
<1>7. CASE UNCHANGED vars
  BY Zenon, <1>3, <1>7 DEF vars
<1>. QED
  BY Zenon, <1>1, <1>2, <1>3, <1>4, <1>5, <1>6, <1>7, ReportByDrone, SchedulerSteps, SpawnFrame,
     RunFrame

\* SteadyDroneIsCandidate: with a reliable NATS, whatever the numbers of drones,
\* requests, crashes and restarts, a drone that ready_loop reports for is a
\* candidate of schedule(), if one period is shorter than the threshold.
THEOREM SteadyDronesAreChosen ==
    ASSUME ~Lossy, Period < Threshold
    PROVE  Spec => []SteadyDroneIsCandidate
<1>1. CASE Prompt
  <2>1. Init => SteadyInv
    BY SchedulerNumbers DEF Init, SteadyInv, SaysReady, AllReady, ReportIsHeard
  <2>2. TypeOK /\ TypeOK' /\ SteadyInv /\ [Next]_vars => SteadyInv'
    BY Zenon, <1>1, SteadyStep DEF TypeOK, DroneTypeOK, ControllerTypeOK, StatusTypeOK
  <2>3. TypeOK /\ SteadyInv => SteadyDroneIsCandidate
    <3>. SUFFICES ASSUME TypeOK, NEW d \in Drone, ReportIsHeard(d),
                         up, since > Period, inbox[d] = <<>>, alive[d], loop[d] = "Tick",
                         drains[d] = 0
                  PROVE  d \in Candidates
      BY Zenon DEF SteadyInv, SteadyDroneIsCandidate
    <3>1. since \in Nat /\ timer[d] \in 0..Period /\ last[d] \in Nat
      BY SMTT(60), SchedulerNumbers DEF TypeOK
    <3>2. since + timer[d] > Period
      BY <3>1, SchedulerNumbers
    <3>3. last[d] + timer[d] <= Period
      BY Zenon, <3>2 DEF ReportIsHeard
    <3>4. last[d] < Threshold
      BY <3>1, <3>3, SchedulerNumbers
    <3>. QED
      BY Zenon, <3>4 DEF Candidates
  <2>. QED
    BY <2>1, <2>2, <2>3, SchedulerTypes, PTL DEF Spec
<1>2. CASE ~Prompt
  <2>1. SteadyDroneIsCandidate
    BY Zenon, <1>2 DEF SteadyDroneIsCandidate
  <2>. QED
    BY <2>1, PTL
<1>. QED
  BY <1>1, <1>2

-----------------------------------------------------------------------------
(* The age of a claim *)

Asked == {q \in Request : answer[q] \in {"Scheduled", "NoDroneAvailable"}}

\* The time run_scheduler has spent, or may have spent, in nats.request.
Debt == RequestTimeout * Cardinality(Asked) + waited

WaitsFor ==
    /\ asking = {} => waited = 0
    /\ \A r \in Request, d \in Drone : asking = {<<r, d>>} => answer[r] = "Asking"

\* An unread claim is as old as the waits, an entry dates from a claim that was.
ClaimInv ==
    \A d \in Drone :
        /\ AnyReady(inbox[d]) => claim[d] <= Debt
        /\ last[d] < Threshold => claim[d] <= last[d] + Debt

\* Every step keeps the account of who is waited for.
LEMMA WaitsForStep ==
    ASSUME ControllerTypeOK, WaitsFor, [Next]_vars
    PROVE  WaitsFor'
<1>1. ASSUME UNCHANGED <<answer, asking, waited>> PROVE WaitsFor'
  BY Zenon, <1>1 DEF WaitsFor
<1>2. ASSUME asking' = {}, waited' = 0 PROVE WaitsFor'
  BY Zenon, <1>2 DEF WaitsFor
<1>3. ASSUME NEW d \in Drone, DroneMoves(d) \/ HandleStatus(d)
      PROVE  UNCHANGED <<answer, asking, waited>>
  BY Zenon, <1>3, DroneFrame DEF HandleStatus
<1>4. ASSUME NEW r \in Request, Ask(r) PROVE WaitsFor'
  <2>1. UNCHANGED <<asking, waited>> /\ answer[r] = "NotAsked"
    BY Zenon, <1>4 DEF Ask
  <2>2. \A q \in Request : q # r => answer'[q] = answer[q]
    BY <1>4 DEF Ask, ControllerTypeOK
  <2>3. \A q \in Request : answer[q] = "Asking" => q # r
    BY <2>1
  <2>. QED
    BY Zenon, <2>1, <2>2, <2>3 DEF WaitsFor
<1>5. ASSUME NEW r \in Request, RefuseRequest(r) PROVE WaitsFor'
  <2>1. UNCHANGED <<asking, waited>> /\ asking = {}
    BY Zenon, <1>5 DEF RefuseRequest
  <2>. QED
    BY Zenon, <2>1 DEF WaitsFor
<1>6. ASSUME NEW r \in Request, NEW d \in Drone, Schedule(r, d) PROVE WaitsFor'
  <2>1. asking' = {<<r, d>>} /\ answer'[r] = "Asking"
    BY <1>6 DEF Schedule, ControllerTypeOK
  <2>2. ASSUME NEW q \in Request, NEW e \in Drone, asking' = {<<q, e>>} PROVE q = r
    <3>1. <<q, e>> = <<r, d>>
      BY Zenon, <2>1, <2>2
    <3>. QED
      BY <3>1
  <2>3. asking' # {}
    BY Zenon, <2>1
  <2>. QED
    BY Zenon, <2>1, <2>2, <2>3 DEF WaitsFor
<1>7. ASSUME NEW r \in Request, NEW d \in Drone, AnswerMoves(r, d)
      PROVE  asking' = {} /\ waited' = 0
  BY Zenon, <1>7 DEF AnswerMoves, SpawnAccepted, SpawnFailed, Answered
<1>8. ASSUME ControllerDies PROVE asking' = {} /\ waited' = 0
  BY Zenon, <1>8 DEF ControllerDies
<1>9. CASE Second
  BY Zenon, <1>9 DEF Second, WaitsFor
<1>10. ASSUME ControllerStarts \/ UNCHANGED vars PROVE UNCHANGED <<answer, asking, waited>>
  BY Zenon, <1>10 DEF ControllerStarts, vars
<1>. QED
  BY ZenonT(60), <1>1, <1>2, <1>3, <1>4, <1>5, <1>6, <1>7, <1>8, <1>9, <1>10, SchedulerSteps,
     SpawnFrame

\* The answered requests can be counted.
LEMMA AskedIsCounted ==
    ASSUME NEW S \in SUBSET Request
    PROVE  /\ Cardinality(S) \in Nat /\ RequestTimeout * Cardinality(S) \in Nat
           /\ \A r \in Request : r \notin S =>
                  RequestTimeout * Cardinality(S \cup {r}) =
                      RequestTimeout * Cardinality(S) + RequestTimeout
<1>1. IsFiniteSet(S)
  BY SchedulerAssumption, FS_Subset
<1>2. Cardinality(S) \in Nat
  BY <1>1, FS_CardinalityType
<1>3. \A m, n \in Nat : m * n \in Nat /\ m * (n + 1) = m * n + m
  OBVIOUS
<1>4. \A r \in Request : r \notin S => Cardinality(S \cup {r}) = Cardinality(S) + 1
  BY <1>1, FS_AddElement
<1>. QED
  BY Zenon, <1>2, <1>3, <1>4, SchedulerNumbers

\* What may have been waited only grows while the controller runs.
LEMMA DebtGrows ==
    ASSUME ControllerTypeOK, ControllerTypeOK', WaitsFor, [Next]_vars, ~ControllerDies
    PROVE  /\ Debt \in Nat /\ Debt' \in Nat /\ Debt <= Debt'
           /\ Second /\ asking # {} => Debt' = Debt + 1
<1>. DEFINE W == RequestTimeout * Cardinality(Asked)
<1>1. Asked \in SUBSET Request /\ Asked' \in SUBSET Request
  BY DEF Asked
<1>2. W \in Nat /\ W' \in Nat
  BY Zenon, <1>1, AskedIsCounted
<1>3. waited \in 0..RequestTimeout /\ waited' \in 0..RequestTimeout
  BY Zenon DEF ControllerTypeOK
<1>4. Debt = W + waited /\ Debt' = W' + waited'
  BY Zenon DEF Debt
<1>. HIDE DEF W
<1>5. ASSUME UNCHANGED <<answer, asking, waited>> PROVE W' = W /\ waited' = waited
  BY Zenon, <1>5 DEF W, Asked
<1>6. ASSUME NEW d \in Drone, DroneMoves(d) \/ HandleStatus(d)
      PROVE  UNCHANGED <<answer, asking, waited>>
  BY Zenon, <1>6, DroneFrame DEF HandleStatus
<1>7. ASSUME NEW r \in Request, Ask(r) PROVE W' = W /\ waited' = waited
  <2>1. Asked' = Asked
    BY <1>7 DEF Ask, ControllerTypeOK, Asked
  <2>. QED
    BY Zenon, <1>7, <2>1 DEF Ask, W
<1>8. ASSUME NEW r \in Request, RefuseRequest(r) PROVE W' = W + RequestTimeout /\ waited' = waited
  <2>1. r \notin Asked /\ Asked' = Asked \cup {r}
    BY <1>8 DEF RefuseRequest, ControllerTypeOK, Asked
  <2>. QED
    BY Zenon, <1>1, <1>8, <2>1, AskedIsCounted DEF RefuseRequest, W
<1>9. ASSUME NEW r \in Request, NEW d \in Drone, Schedule(r, d)
      PROVE  W' = W /\ waited = 0
  <2>1. Asked' = Asked
    BY <1>9 DEF Schedule, ControllerTypeOK, Asked
  <2>. QED
    BY Zenon, <1>9, <2>1 DEF Schedule, W, WaitsFor
<1>10. ASSUME NEW r \in Request, NEW d \in Drone, AnswerMoves(r, d)
       PROVE  W' = W + RequestTimeout
  <2>1. PICK a \in {"Scheduled", "NoDroneAvailable"} : Answered(r, d, a)
    BY Zenon, <1>10 DEF AnswerMoves, SpawnAccepted, SpawnFailed
  <2>2. answer[r] = "Asking" /\ answer' = [answer EXCEPT ![r] = a]
    BY Zenon, <2>1 DEF Answered, WaitsFor
  <2>3. r \notin Asked /\ Asked' = Asked \cup {r}
    BY <2>1, <2>2 DEF ControllerTypeOK, Asked
  <2>. QED
    BY Zenon, <1>1, <2>3, AskedIsCounted DEF W
<1>11. ASSUME Second
       PROVE  W' = W /\ (asking = {} => waited' = waited) /\ (asking # {} => waited' = waited + 1)
  BY Zenon, <1>11 DEF Second, W, Asked
<1>12. ASSUME ControllerStarts \/ UNCHANGED vars PROVE UNCHANGED <<answer, asking, waited>>
  BY Zenon, <1>12 DEF ControllerStarts, vars
<1>13. \/ W' = W /\ waited' = waited
       \/ W' = W /\ waited = 0
       \/ W' = W + RequestTimeout
       \/ W' = W /\ waited' = waited + 1
  BY ZenonT(60), <1>5, <1>6, <1>7, <1>8, <1>9, <1>10, <1>11, <1>12, SchedulerSteps, SpawnFrame
<1>14. Debt \in Nat /\ Debt' \in Nat /\ Debt <= Debt'
  <2>1. \A w, v \in Nat : \A x, y \in 0..RequestTimeout :
            /\ \/ v = w /\ (y = x \/ x = 0 \/ y = x + 1)
               \/ v = w + RequestTimeout
            => w + x \in Nat /\ v + y \in Nat /\ w + x <= v + y
    BY SchedulerNumbers
  <2>. QED
    BY Zenon, <1>2, <1>3, <1>4, <1>13, <2>1
<1>15. ASSUME Second, asking # {} PROVE Debt' = Debt + 1
  <2>1. \A w \in Nat : \A x \in 0..RequestTimeout : w + (x + 1) = (w + x) + 1
    BY SchedulerNumbers
  <2>. QED
    BY Zenon, <1>2, <1>3, <1>4, <1>11, <1>15, <2>1
<1>. QED
  BY Zenon, <1>14, <1>15

\* A claim that is read was unread, and one that is made is new.
LEMMA ClaimStep ==
    ASSUME DroneTypeOK, ControllerTypeOK, StatusTypeOK, ControllerTypeOK', Prompt,
           WaitsFor, ClaimInv, [Next]_vars
    PROVE  ClaimInv'
<1>. USE SchedulerNumbers
<1>. DEFINE C(d) == /\ AnyReady(inbox[d]) => claim[d] <= Debt
                    /\ last[d] < Threshold => claim[d] <= last[d] + Debt
<1>. SUFFICES ASSUME NEW d \in Drone, C(d) PROVE C(d)'
  BY Zenon DEF ClaimInv
<1>0. claim[d] \in Nat /\ last[d] \in Nat /\ last[d] <= Threshold
  BY DEF StatusTypeOK
<1>1. CASE ControllerDies
  <2>1. last'[d] = Threshold /\ inbox'[d] = <<>>
    BY <1>1 DEF ControllerDies
  <2>2. ~AnyReady(<<>>)
    BY DEF AnyReady
  <2>3. ~(last'[d] < Threshold)
    BY <2>1
  <2>. QED
    BY Zenon, <2>1, <2>2, <2>3
<1>2. ASSUME ~ControllerDies PROVE Debt \in Nat /\ Debt' \in Nat /\ Debt <= Debt'
  BY Zenon, <1>2, DebtGrows
<1>3. ASSUME ~ControllerDies, inbox'[d] = inbox[d], last'[d] = last[d], claim'[d] = claim[d]
      PROVE  C(d)'
  <2>1. /\ claim[d] <= Debt => claim[d] <= Debt'
        /\ claim[d] <= last[d] + Debt => claim[d] <= last[d] + Debt'
    BY <1>0, <1>2, <1>3
  <2>. QED
    BY Zenon, <1>3, <2>1
<1>4. CASE PublishStatus(d)
  <2>1. ~ControllerDies /\ last' = last
    BY Zenon, <1>4 DEF PublishStatus, ControllerDies, ctlVars, runVars
  <2>2. CASE says[d]
    <3>1. claim'[d] = 0
      BY SMTT(60), <1>4, <2>2 DEF PublishStatus, StatusTypeOK
    <3>2. 0 <= Debt' /\ 0 <= last[d] + Debt'
      BY <1>0, <1>2, <2>1
    <3>. QED
      BY ZenonT(60), <2>1, <3>1, <3>2
  <2>3. CASE ~says[d]
    <3>1. claim' = claim
      BY Zenon, <1>4, <2>3 DEF PublishStatus
    <3>2. inbox[d] \in Seq(BOOLEAN) /\ says[d] \in BOOLEAN
      BY Zenon DEF StatusTypeOK, DroneTypeOK
    <3>3. inbox'[d] = inbox[d] \/ inbox'[d] = Append(inbox[d], says[d])
      BY <1>4 DEF PublishStatus, StatusTypeOK
    <3>4. AnyReady(inbox'[d]) => AnyReady(inbox[d])
      <4>1. AnyReady(Append(inbox[d], says[d])) => AnyReady(inbox[d])
        BY Zenon, <2>3, <3>2, QueueOps
      <4>. QED
        BY Zenon, <3>3, <4>1
    <3>5. /\ claim[d] <= Debt => claim[d] <= Debt'
          /\ claim[d] <= last[d] + Debt => claim[d] <= last[d] + Debt'
      BY <1>0, <1>2, <2>1
    <3>. QED
      BY Zenon, <2>1, <3>1, <3>4, <3>5
  <2>. QED
    BY Zenon, <2>2, <2>3
<1>5. CASE HandleStatus(d)
  <2>1. ~ControllerDies /\ claim' = claim
    BY Zenon, <1>5 DEF HandleStatus, ControllerDies, runVars
  <2>2. /\ inbox[d] \in Seq(BOOLEAN) /\ inbox[d] # <<>> /\ Head(inbox[d]) \in BOOLEAN
        /\ inbox'[d] = Tail(inbox[d])
    BY <1>5, HeadTailProperties DEF HandleStatus, StatusTypeOK
  <2>3. AnyReady(inbox'[d]) => AnyReady(inbox[d])
    BY Zenon, <2>2, QueueOps
  <2>4. \/ Head(inbox[d]) /\ last'[d] = 0
        \/ last'[d] = Threshold
    BY Zenon, <1>5 DEF HandleStatus, update_status, StatusTypeOK
  <2>5. \/ AnyReady(inbox[d]) /\ last'[d] = 0
        \/ last'[d] = Threshold
    BY Zenon, <2>2, <2>4, QueueOps
  <2>6. /\ claim[d] <= Debt => claim[d] <= Debt' /\ claim[d] <= 0 + Debt'
        /\ ~(Threshold < Threshold)
    BY <1>0, <1>2, <2>1
  <2>. QED
    BY Zenon, <2>1, <2>3, <2>5, <2>6
<1>6. CASE Second
  <2>1. ~ControllerDies /\ UNCHANGED <<inbox, asking>>
    BY Zenon, <1>6 DEF Second, ControllerDies
  <2>2. claim'[d] \in Nat /\ claim'[d] <= claim[d] + 1
    <3>1. claim[d] \in 0..MaxClaim /\ claim'[d] = Older(claim[d], MaxClaim)
      BY Zenon, <1>6 DEF Second, StatusTypeOK
    <3>2. claim'[d] \in 0..MaxClaim /\ claim'[d] <= claim[d] + 1
      BY ZenonT(60), <3>1, OlderIsBounded
    <3>. QED
      BY <3>2
  <2>3. \/ last[d] < Threshold /\ last'[d] = last[d] + 1
        \/ last'[d] = Threshold
    BY <1>0, <1>6 DEF Second, Older
  <2>4. CASE asking = {}
    <3>1. inbox'[d] = <<>> /\ ~AnyReady(<<>>)
      BY SMTT(60), <1>6, <2>1, <2>4 DEF Second, Settled, AnyReady
    <3>2. last'[d] < Threshold /\ claim[d] <= last[d] + Debt => claim'[d] <= last'[d] + Debt'
      BY SMTT(60), <1>0, <1>2, <2>1, <2>2, <2>3
    <3>3. last'[d] < Threshold => last[d] < Threshold
      BY <2>3
    <3>. QED
      BY ZenonT(60), <3>1, <3>2, <3>3
  <2>5. CASE asking # {}
    <3>1. Debt' = Debt + 1
      BY ZenonT(60), <1>6, <2>1, <2>5, DebtGrows
    <3>2. last'[d] < Threshold /\ claim[d] <= last[d] + Debt => claim'[d] <= last'[d] + Debt'
      BY SMTT(60), <1>0, <1>2, <2>1, <2>2, <2>3
    <3>3. last'[d] < Threshold => last[d] < Threshold
      BY <2>3
    <3>4. claim[d] <= Debt => claim'[d] <= Debt'
      BY SMTT(60), <1>0, <1>2, <2>1, <2>2, <3>1
    <3>. QED
      BY Zenon, <2>1, <3>2, <3>3, <3>4
  <2>. QED
    BY Zenon, <2>4, <2>5
<1>7. ASSUME ControllerStarts \/ UNCHANGED vars PROVE UNCHANGED <<inbox, last, claim>>
  BY Zenon, <1>7 DEF ControllerStarts, vars
<1>. QED
  <2>. HIDE DEF C
  <2>1. ASSUME NEW e \in Drone, DroneMoves(e) \/ HandleStatus(e), ~ControllerDies PROVE C(d)'
    BY Zenon, <1>3, <1>4, <1>5, <2>1, QuietDrone, OtherDrone
  <2>. QED
    BY Zenon, <1>1, <1>3, <1>6, <1>7, <2>1, SchedulerSteps, SpawnFrame, RunFrame

\* ClaimIsRecent: if the loops are prompt, schedule() chooses a drone on a claim that
\* is at most Threshold old plus one timeout for every request answered so far,
\* whatever is lost, delayed or restarted.
THEOREM ClaimsAreRecent == Spec => ClaimIsRecent
<1>1. CASE Prompt
  <2>. DEFINE Inv == WaitsFor /\ ClaimInv
  <2>1. Init => Inv
    <3>. SUFFICES ASSUME Init PROVE WaitsFor /\ ClaimInv
      OBVIOUS
    <3>1. WaitsFor
      BY Zenon DEF Init, WaitsFor
    <3>2. \A d \in Drone : ~AnyReady(inbox[d]) /\ ~(last[d] < Threshold)
      BY SchedulerNumbers DEF Init, AnyReady
    <3>. QED
      BY Zenon, <3>1, <3>2 DEF ClaimInv
  <2>2. TypeOK /\ TypeOK' /\ Inv /\ [Next]_vars => Inv'
    BY Zenon, <1>1, WaitsForStep, ClaimStep DEF TypeOK, DroneTypeOK, ControllerTypeOK,
       StatusTypeOK
  <2>3. TypeOK /\ Inv /\ [Next]_vars =>
            [\A r \in Request, d \in Drone : Prompt /\ Schedule(r, d) =>
                 claim[d] < Threshold + RequestTimeout *
                     Cardinality({q \in Request : answer[q] \in
                                      {"Scheduled", "NoDroneAvailable"}})]_vars
    <3>. SUFFICES ASSUME TypeOK, WaitsFor, ClaimInv, NEW r \in Request, NEW d \in Drone,
                         Schedule(r, d)
                  PROVE  claim[d] < Threshold + RequestTimeout * Cardinality(Asked)
      BY Zenon DEF Asked
    <3>1. Asked \in SUBSET Request
      BY DEF Asked
    <3>2. RequestTimeout * Cardinality(Asked) \in Nat
      BY Zenon, <3>1, AskedIsCounted
    <3>3. last[d] < Threshold /\ waited = 0
      BY Zenon DEF Schedule, Candidates, WaitsFor
    <3>4. claim[d] <= last[d] + (RequestTimeout * Cardinality(Asked) + waited)
      BY ZenonT(60), <3>3 DEF ClaimInv, Debt
    <3>5. claim[d] \in Nat /\ last[d] \in Nat
      BY SchedulerNumbers DEF TypeOK
    <3>. QED
      BY SMTT(60), <3>2, <3>3, <3>4, <3>5, SchedulerNumbers
  <2>. QED
    BY <2>1, <2>2, <2>3, SchedulerTypes, PTL DEF Spec, ClaimIsRecent
<1>2. CASE ~Prompt
  <2>1. [Next]_vars =>
            [\A r \in Request, d \in Drone : Prompt /\ Schedule(r, d) =>
                 claim[d] < Threshold + RequestTimeout *
                     Cardinality({q \in Request : answer[q] \in
                                      {"Scheduled", "NoDroneAvailable"}})]_vars
    BY Zenon, <1>2
  <2>. QED
    BY <2>1, PTL DEF Spec, ClaimIsRecent
<1>. QED
  BY <1>1, <1>2
=============================================================================
