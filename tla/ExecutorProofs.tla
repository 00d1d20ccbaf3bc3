--------------------------- MODULE ExecutorProofs ---------------------------
(***************************************************************************)
(* Proofs about Executor, for any sets of backends, tasks and faults.      *)
(* First the types; then, for ids that are spawned once (MaxSpawns = 1),   *)
(* the inductive invariant TasksAreIndependent and what follows from it:   *)
(* the monitors match the tasks, the executor implements BackendLifecycle, *)
(* and the state stream never runs ahead of the table.  If writes of the   *)
(* table do not fail either, RouteInv adds where the route table has the   *)
(* address of a backend, and LateInv what Docker may still do to it; and   *)
(* if nothing but crashes and such late calls goes wrong, StrandInv adds   *)
(* that no row is left behind, and which containers can be.                *)
(***************************************************************************)
EXTENDS Executor, TLAPS

\* A drone that has just been installed has every variable in its type.
LEMMA TypeInit == Init => TypeOK
  <1> SUFFICES ASSUME Init PROVE TypeOK
    OBVIOUS
  <1> USE ExecutorAssumption DEF Init
  <1>1. EngineTypeOK
    BY DEF EngineInit, EngineTypeOK, ContainerState, Call
  <1>2. /\ pc \in [Task -> Pc]
        /\ st \in [Task -> BackendStates]
        /\ chan \in [Task -> Chan]
        /\ seen \in [Task -> Addr \cup {None}]
    BY DEF Pc, BackendStates, Chan
  <1>3. /\ listener \in [Backend -> Task \cup {None}]
        /\ waiting \in [Backend -> 0..MaxWaiting]
        /\ route \in [Backend -> Addr \cup {None}]
        /\ spawns \in [Backend -> 0..MaxSpawns]
    OBVIOUS
  <1>4. /\ db \in [Backend -> BackendStates \cup {NoState}]
        /\ published \in [Backend -> BackendStates \cup {NoState}]
    BY DEF NoState
  <1>5. monitor \in [Backend -> BOOLEAN] /\ hung \in BOOLEAN /\ up \in BOOLEAN
    BY Zenon
  <1> QED BY <1>1, <1>2, <1>3, <1>4, <1>5 DEF TypeOK

-----------------------------------------------------------------------------
(* The building blocks of run_backend keep the types of what they change.  *)

\* The variables that belong to the agent's memory.
TaskTypeOK ==
    /\ pc \in [Task -> Pc]
    /\ st \in [Task -> BackendStates]
    /\ chan \in [Task -> Chan]
    /\ seen \in [Task -> Addr \cup {None}]
    /\ listener \in [Backend -> Task \cup {None}]
    /\ monitor \in [Backend -> BOOLEAN]
    /\ waiting \in [Backend -> 0..MaxWaiting]
    /\ hung \in BOOLEAN

\* A step begins at one of the awaits of step().
LEMMA FirstPcType ==
    ASSUME NEW s PROVE FirstPc(s) \in StepPc
  BY DEF FirstPc, StepPc

\* Writing the listener map keeps its type, also when the writer hangs.
LEMMA ListenerType ==
    ASSUME TypeOK, NEW b \in Backend, NEW v \in Task \cup {None}, SetListener(b, v)
    PROVE  listener' \in [Backend -> Task \cup {None}] /\ hung' \in BOOLEAN
  BY DEF TypeOK, SetListener, Locked

\* Moving a task to another await keeps the types of its variables.
LEMMA GotoType ==
    ASSUME TypeOK, NEW t \in Task, NEW p \in Pc, NEW s \in BackendStates,
           Goto(t, p, s)
    PROVE  /\ pc' \in [Task -> Pc]
           /\ st' \in [Task -> BackendStates]
           /\ seen' \in [Task -> Addr \cup {None}]
  BY DEF TypeOK, Goto

\* The end of run_backend (both removals) keeps the types.
LEMMA FinishType ==
    ASSUME TypeOK, NEW t \in Task, Finish(t)
    PROVE  TaskTypeOK'
  <1>1. BackendOf[t] \in Backend
    BY ExecutorAssumption
  <1>2. listener' \in [Backend -> Task \cup {None}] /\ hung' \in BOOLEAN
    BY <1>1, ListenerType DEF Finish
  <1>3. monitor' \in [Backend -> BOOLEAN]
    BY Zenon DEF TypeOK, Finish
  <1>4. /\ pc' \in [Task -> Pc]
        /\ st' \in [Task -> BackendStates]
        /\ chan' \in [Task -> Chan]
        /\ seen' \in [Task -> Addr \cup {None}]
        /\ waiting' \in [Backend -> 0..MaxWaiting]
    BY DEF TypeOK, Finish, Return, Pc, BackendStates, Chan
  <1> QED BY <1>2, <1>3, <1>4 DEF TaskTypeOK

\* Starting a step over keeps the types.
LEMMA ContinueType ==
    ASSUME TypeOK, NEW t \in Task, NEW p \in Pc, Continue(t, p)
    PROVE  TaskTypeOK'
  <1>1. st[t] \in BackendStates
    BY DEF TypeOK
  <1> QED BY <1>1, GotoType DEF Continue, TaskTypeOK, TypeOK

\* Leaving a step with a next state keeps the types.
LEMMA AdvanceType ==
    ASSUME TypeOK, NEW t \in Task, NEW s \in BackendStates, Advance(t, s)
    PROVE  TaskTypeOK'
  <1>1. monitor' \in [Backend -> BOOLEAN]
    BY Zenon DEF TypeOK, Advance
  <1>2. "Save" \in Pc
    BY DEF Pc
  <1> QED BY <1>1, <1>2, GotoType DEF Advance, TaskTypeOK, TypeOK

\* Both branches for an error of step() keep the types.
LEMMA StepErrorType ==
    ASSUME TypeOK, NEW t \in Task, StepError(t)
    PROVE  TaskTypeOK'
  <1>1. CASE st[t] # "Loading"
    BY <1>1, FinishType DEF StepError
  <1>2. CASE st[t] = "Loading"
    <2>1. "Save" \in Pc /\ "ErrorLoading" \in BackendStates
      BY DEF Pc, BackendStates
    <2> QED BY <1>2, <2>1, GotoType DEF StepError, TaskTypeOK, TypeOK
  <1> QED BY <1>1, <1>2

\* Taking a signal, which lets a waiting sender in, keeps the types.
LEMMA TakeSignalType ==
    ASSUME TypeOK, NEW t \in Task, TakeSignal(t)
    PROVE  chan' \in [Task -> Chan] /\ waiting' \in [Backend -> 0..MaxWaiting]
  <1>1. chan \in [Task -> Chan] /\ waiting \in [Backend -> 0..MaxWaiting]
    BY Zenon DEF TypeOK
  <1>2. BackendOf[t] \in Backend /\ MaxWaiting \in Nat
    BY ExecutorAssumption
  <1>3. chan' \in [Task -> Chan]
    BY <1>1 DEF TakeSignal, Chan
  <1>4. waiting' \in [Backend -> 0..MaxWaiting]
    BY <1>1, <1>2 DEF TakeSignal
  <1> QED BY <1>3, <1>4

\* A call that is left to Docker keeps the types of its state.
LEMMA GiveUpType ==
    ASSUME TypeOK, NEW t \in Task, GiveUp(t)
    PROVE  EngineTypeOK'
  <1>1. BackendOf[t] \in Backend /\ Outstanding(t) \subseteq Call
    BY ExecutorAssumption DEF Outstanding
  <1>2. late \in [Backend -> SUBSET Call]
    BY DEF TypeOK, EngineTypeOK
  <1>3. late' \in [Backend -> SUBSET Call]
    BY <1>1, <1>2 DEF GiveUp
  <1> QED BY Zenon, <1>3 DEF TypeOK, EngineTypeOK, GiveUp

\* So does a call that Docker carries out late.
LEMMA LateCallType ==
    ASSUME TypeOK, NEW b \in Backend, LateCall(b)
    PROVE  EngineTypeOK'
  <1> USE DEF TypeOK, EngineTypeOK
  <1>1. late' \in [Backend -> SUBSET Call]
    <2>1. \E C \in SUBSET Call : late' = [late EXCEPT ![b] = C]
      BY Zenon DEF LateCall, LateCreate, LateStart, LateRemove, CarriedOut
    <2> QED BY <2>1
  <1>2. cont' \in [Backend -> ContainerState]
    BY DEF LateCall, LateCreate, LateStart, LateRemove, ContainerStarts,
       ContainerState
  <1>3. addr' \in [Backend -> Addr \cup {None}]
    BY DEF LateCall, LateCreate, LateStart, LateRemove, ContainerStarts
  <1>4. dies' \in SUBSET Backend /\ belated' \in SUBSET Backend
    BY Zenon DEF LateCall, LateCreate, LateStart, LateRemove, ContainerStarts
  <1> QED BY <1>1, <1>2, <1>3, <1>4

-----------------------------------------------------------------------------
\* Every step of the drone keeps the types.
LEMMA TypeNext == TypeOK /\ [Next]_vars => TypeOK'
  <1> SUFFICES ASSUME TypeOK, [Next]_vars
               PROVE  TypeOK'
    OBVIOUS
  <1> USE ExecutorAssumption DEF TypeOK, EngineTypeOK, lateVars
  <1>1. ASSUME NEW t \in Task, Spawn(t) PROVE TypeOK'
    BY <1>1 DEF Spawn, Goto, Pc, BackendStates
  <1>2. ASSUME NEW t \in Task, InsertBackend(t) PROVE TypeOK'
    BY <1>2 DEF InsertBackend, Continue, Goto, Pc, BackendStates
  <1>3. ASSUME NEW t \in Task, Announce(t) PROVE TypeOK'
    BY Zenon, <1>3 DEF Announce, PublishState, SetListener, Locked, Goto, Pc,
       StepPc, BackendStates
  <1>4. ASSUME NEW t \in Task, EnterRunBackend(t) PROVE TypeOK'
    BY <1>4 DEF EnterRunBackend, SetListener, Locked, Goto, FirstPc, Pc,
       StepPc
  <1>5. ASSUME NEW t \in Task, PullImage(t) PROVE TypeOK'
    <2>1. TaskTypeOK' /\ EngineTypeOK'
      BY Zenon, <1>5, ContinueType, StepErrorType, GiveUpType
         DEF PullImage, EngineFails, engineVars, Pc, StepPc
    <2> QED BY Zenon, <1>5, <2>1 DEF PullImage, TaskTypeOK
  <1>6. ASSUME NEW t \in Task, CreateContainer(t) PROVE TypeOK'
    <2>1. EngineTypeOK'
      <3>1. CASE create_container(BackendOf[t])
        BY <3>1 DEF create_container, ContainerState
      <3> QED
        BY Zenon, <1>6, <3>1, GiveUpType DEF CreateContainer, EngineFails,
           engineVars
    <2>2. TaskTypeOK'
      <3>1. CASE Continue(t, "Start")
        BY <3>1, ContinueType DEF Pc, StepPc
      <3>2. CASE StepError(t)
        BY <3>2, StepErrorType
      <3> QED BY Zenon, <1>6, <3>1, <3>2 DEF CreateContainer, EngineFails
    <2> QED BY Zenon, <1>6, <2>1, <2>2 DEF CreateContainer, TaskTypeOK
  <1>7. ASSUME NEW t \in Task, StartContainer(t) PROVE TypeOK'
    <2>1. EngineTypeOK'
      <3>1. CASE start_container(BackendOf[t])
        BY <3>1 DEF start_container, ContainerStarts, ContainerState
      <3> QED
        BY Zenon, <1>7, <3>1, GiveUpType DEF StartContainer, EngineFails,
           engineVars
    <2>2. TaskTypeOK'
      <3>1. CASE Continue(t, "Started")
        BY <3>1, ContinueType DEF Pc, StepPc
      <3>2. CASE StepError(t)
        BY <3>2, StepErrorType
      <3> QED BY Zenon, <1>7, <3>1, <3>2 DEF StartContainer, EngineFails
    <2> QED BY Zenon, <1>7, <2>1, <2>2 DEF StartContainer, TaskTypeOK
  <1>8. ASSUME NEW t \in Task, LoadReturns(t) PROVE TypeOK'
    BY <1>8 DEF LoadReturns, Advance, Goto, Pc, BackendStates
  <1>9. ASSUME NEW t \in Task, StatusWhenStarting(t) PROVE TypeOK'
    <2>1. TaskTypeOK'
      <3>1. CASE /\ pc' = [pc EXCEPT ![t] = "Port"]
                 /\ seen' = [seen EXCEPT ![t] = addr[BackendOf[t]]]
                 /\ UNCHANGED <<st, chan, listener, monitor, waiting, hung>>
        BY <3>1 DEF TaskTypeOK, Pc, StepPc
      <3>2. CASE Advance(t, "ErrorStarting")
        <4>1. "ErrorStarting" \in BackendStates
          BY DEF BackendStates
        <4> QED BY Zenon, <3>2, <4>1, AdvanceType
      <3>3. CASE StepError(t)
        BY Zenon, <3>3, StepErrorType
      <3> QED
        BY Zenon, <1>9, <3>1, <3>2, <3>3 DEF StatusWhenStarting, EngineFails
    <2>2. EngineTypeOK'
      BY Zenon, <1>9, GiveUpType DEF StatusWhenStarting, EngineFails
    <2> QED BY Zenon, <1>9, <2>1, <2>2 DEF StatusWhenStarting, TaskTypeOK
  <1>10. ASSUME NEW t \in Task, StatusWhenReady(t) PROVE TypeOK'
    <2>1. /\ {"Failed", "Exited", "Swept"} \subseteq BackendStates
          /\ "Idle" \in Pc
      BY DEF BackendStates, Pc, StepPc
    <2>2. TaskTypeOK'
      BY Zenon, <1>10, <2>1, AdvanceType, ContinueType, StepErrorType
         DEF StatusWhenReady, EngineFails
    <2>3. EngineTypeOK'
      BY Zenon, <1>10, GiveUpType DEF StatusWhenReady, EngineFails
    <2> QED BY Zenon, <1>10, <2>2, <2>3 DEF StatusWhenReady, TaskTypeOK
  <1>11. ASSUME NEW t \in Task, WaitPortReady(t) PROVE TypeOK'
    BY Zenon, <1>11, ContinueType, StepErrorType DEF WaitPortReady, TaskTypeOK,
       Pc, StepPc
  <1>12. ASSUME NEW t \in Task, InsertProxyRoute(t) PROVE TypeOK'
    <2>1. "Routed" \in Pc
      BY DEF Pc, StepPc
    <2>2. TaskTypeOK'
      BY Zenon, <1>12, <2>1, ContinueType, StepErrorType DEF InsertProxyRoute
    <2>3. route' \in [Backend -> Addr \cup {None}]
      <3>1. route \in [Backend -> Addr \cup {None}] /\ seen[t] \in Addr \cup {None}
        BY Zenon
      <3>2. CASE UNCHANGED route
        BY Zenon, <3>1, <3>2
      <3>3. CASE insert_proxy_route(BackendOf[t], seen[t])
        BY <3>1, <3>3 DEF insert_proxy_route
      <3> QED BY Zenon, <1>12, <3>2, <3>3 DEF InsertProxyRoute
    <2> QED BY Zenon, <1>12, <2>2, <2>3 DEF InsertProxyRoute, TaskTypeOK
  <1>13. ASSUME NEW t \in Task, RouteReturns(t) PROVE TypeOK'
    BY <1>13 DEF RouteReturns, Advance, Goto, Pc, BackendStates
  <1>14. ASSUME NEW t \in Task, IdleExpires(t) PROVE TypeOK'
    BY <1>14 DEF IdleExpires, Advance, Goto, Pc, BackendStates
  <1>15. ASSUME NEW t \in Task, IdleCheckFails(t) PROVE TypeOK'
    BY SMTT(60), <1>15, StepErrorType DEF IdleCheckFails, TaskTypeOK
  <1>16. ASSUME NEW t \in Task, StopContainer(t) PROVE TypeOK'
    <2>1. BackendOf[t] \in Backend
      OBVIOUS
    <2>2. EngineTypeOK'
      <3>1. CASE stop_container(BackendOf[t])
        BY SMTT(60), <2>1, <3>1 DEF stop_container, ContainerDies, Stopped,
           ContainerState, engineVars
      <3> QED
        BY Zenon, <1>16, <3>1, GiveUpType DEF StopContainer, EngineFails
    <2>3. TaskTypeOK'
      <3>1. CASE Continue(t, "Remove")
        BY <3>1, ContinueType DEF Pc, StepPc
      <3>2. CASE StepError(t)
        BY <3>2, StepErrorType
      <3> QED BY <1>16, <3>1, <3>2 DEF StopContainer, EngineFails
    <2> QED BY <1>16, <2>2, <2>3 DEF StopContainer, TaskTypeOK
  <1>17. ASSUME NEW t \in Task, RemoveContainer(t) PROVE TypeOK'
    <2>1. EngineTypeOK'
      <3>1. CASE remove_container(BackendOf[t])
        <4>1. BackendOf[t] \in Backend /\ late[BackendOf[t]] \ {"start"} \in SUBSET Call
          OBVIOUS
        <4> QED BY <3>1, <4>1 DEF remove_container, ContainerState
      <3> QED
        BY Zenon, <1>17, <3>1, GiveUpType DEF RemoveContainer, EngineFails,
           engineVars
    <2>2. TaskTypeOK'
      <3>1. CASE Continue(t, "Removed")
        BY <3>1, ContinueType DEF Pc, StepPc
      <3>2. CASE StepError(t)
        BY <3>2, StepErrorType
      <3> QED BY SMTT(60), <1>17, <3>1, <3>2 DEF RemoveContainer, EngineFails
    <2> QED BY Zenon, <1>17, <2>1, <2>2 DEF RemoveContainer, TaskTypeOK
  <1>18. ASSUME NEW t \in Task, StopReturns(t) PROVE TypeOK'
    BY Zenon, <1>18, FinishType DEF StopReturns, TaskTypeOK
  <1>19. ASSUME NEW t \in Task, Interrupted(t) PROVE TypeOK'
    <2>1. FirstPc(st[t]) \in Pc /\ st[t] \in BackendStates
      BY FirstPcType DEF Pc
    <2>2. /\ pc' \in [Task -> Pc]
          /\ st' \in [Task -> BackendStates]
          /\ seen' \in [Task -> Addr \cup {None}]
      BY Zenon, <1>19, <2>1, GotoType DEF Interrupted
    <2> QED BY Zenon, <1>19, <2>2, TakeSignalType, GiveUpType DEF Interrupted
  <1>20. ASSUME NEW t \in Task, Terminated(t) PROVE TypeOK'
    <2>1. "Save" \in Pc /\ "Terminated" \in BackendStates
      BY DEF Pc, BackendStates
    <2>2. /\ pc' \in [Task -> Pc]
          /\ st' \in [Task -> BackendStates]
          /\ seen' \in [Task -> Addr \cup {None}]
      BY Zenon, <1>20, <2>1, GotoType DEF Terminated
    <2> QED BY Zenon, <1>20, <2>2, TakeSignalType, GiveUpType DEF Terminated
  <1>21. ASSUME NEW t \in Task, SenderLost(t) PROVE TypeOK'
    <2>1. /\ pc' \in [Task -> Pc]
          /\ st' \in [Task -> BackendStates]
          /\ seen' \in [Task -> Addr \cup {None}]
      BY SMTT(60), <1>21 DEF SenderLost, Return, Pc, BackendStates
    <2> QED BY Zenon, <1>21, <2>1, GiveUpType DEF SenderLost
  <1>22. ASSUME NEW t \in Task, SaveState(t) PROVE TypeOK'
    BY SMTT(60), <1>22 DEF SaveState, Continue, Goto, Pc
  <1>23. ASSUME NEW t \in Task, PublishSaved(t) PROVE TypeOK'
    <2>1. FirstPc(st[t]) \in Pc
      BY FirstPcType DEF Pc
    <2>2. TaskTypeOK'
      BY Zenon, <1>23, <2>1, ContinueType, FinishType DEF PublishSaved,
         AfterPublish
    <2>3. published' \in [Backend -> BackendStates \cup {NoState}]
      BY <1>23 DEF PublishSaved, PublishState
    <2> QED BY Zenon, <1>23, <2>2, <2>3 DEF PublishSaved, TaskTypeOK
  <1>24. ASSUME NEW b \in Backend, KillBackend(b) PROVE TypeOK'
    <2>1. chan' \in [Task -> Chan]
      BY SMTT(60), <1>24 DEF KillBackend, Chan
    <2>2. waiting' \in [Backend -> 0..MaxWaiting]
      BY SMTT(60), <1>24 DEF KillBackend
    <2> QED BY Zenon, <1>24, <2>1, <2>2 DEF KillBackend
  <1>25. ASSUME NEW b \in Backend, DieEvent(b) PROVE TypeOK'
    BY <1>25 DEF DieEvent, Chan
  <1>26. ASSUME NEW b \in Backend, LoseDieEvent(b) PROVE TypeOK'
    BY SMTT(60), <1>26 DEF LoseDieEvent
  <1>27. ASSUME NEW b \in Backend, ContainerExits(b) PROVE TypeOK'
    BY <1>27 DEF ContainerExits, ContainerDies, Stopped, ContainerState
  <1>28. CASE Crash
    <2>1. TaskTypeOK'
      <3>1. /\ pc' \in [Task -> Pc]
            /\ st' \in [Task -> BackendStates]
            /\ chan' \in [Task -> Chan]
            /\ seen' \in [Task -> Addr \cup {None}]
        BY <1>28 DEF Crash, Pc, BackendStates, Chan
      <3>2. /\ listener' \in [Backend -> Task \cup {None}]
            /\ waiting' \in [Backend -> 0..MaxWaiting]
        BY <1>28 DEF Crash
      <3>3. monitor' \in [Backend -> BOOLEAN] /\ hung' \in BOOLEAN
        BY Zenon, <1>28 DEF Crash
      <3> QED BY SMTT(60), <3>1, <3>2, <3>3 DEF TaskTypeOK
    <2>2. \A t \in Task : Outstanding(t) \subseteq Call
      BY DEF Outstanding
    <2>3. late' \in [Backend -> SUBSET Call]
      BY SMTT(60), <1>28, <2>2 DEF Crash
    <2> QED BY Zenon, <1>28, <2>1, <2>3 DEF Crash, TaskTypeOK
  <1>29. CASE resume_backends
    <2>1. pc' \in [Task -> Pc] /\ st' \in [Task -> BackendStates]
      BY <1>29 DEF resume_backends, Resume, Pc
    <2>2. monitor' \in [Backend -> BOOLEAN] /\ up' \in BOOLEAN
      BY <1>29 DEF resume_backends, Resume
    <2> QED BY SMTT(60), <1>29, <2>1, <2>2 DEF resume_backends, Resume
  <1>30. ASSUME NEW b \in Backend, LateCallEnds(b) PROVE TypeOK'
    BY Zenon, <1>30, LateCallType DEF LateCallEnds
  <1>31. CASE UNCHANGED vars
    BY Zenon, <1>31 DEF vars
  <1> QED
    BY ZenonT(60), <1>1, <1>2, <1>3, <1>4, <1>5, <1>6, <1>7, <1>8, <1>9, <1>10,
       <1>11, <1>12, <1>13, <1>14, <1>15, <1>16, <1>17, <1>18, <1>19,
       <1>20, <1>21, <1>22, <1>23, <1>24, <1>25, <1>26, <1>27, <1>28,
       <1>29, <1>30, <1>31 DEF Next, TaskStep

\* Every variable keeps its type: the agent never stores a state, signal,
\* listener or row outside its domain, and never more than MaxWaiting senders
\* wait on a channel.
THEOREM TypeCorrect == Spec => []TypeOK
  BY TypeInit, TypeNext, PTL DEF Spec

-----------------------------------------------------------------------------
(* The lifecycle's edges.                                                   *)

\* The edges of the lifecycle that step() and a termination take.
LEMMA Edges ==
    /\ {"Starting", "ErrorLoading", "Terminated"} \subseteq Lifecycle!Successor("Loading")
    /\ {"Ready", "ErrorStarting", "Terminated"} \subseteq Lifecycle!Successor("Starting")
    /\ {"Failed", "Exited", "Swept", "Terminated"} \subseteq Lifecycle!Successor("Ready")
    /\ \A s \in BackendStates \ {"Swept", "Terminated"} :
           "Terminated" \in Lifecycle!Successor(s)
  BY DEF Lifecycle!Successor, BackendStates

\* What comes next comes later.
LEMMA SuccessorIsLater ==
    ASSUME NEW s PROVE Lifecycle!Successor(s) \subseteq Lifecycle!Later(s)
  BY DEF Lifecycle!Successor, Lifecycle!Later

\* A state after the next state is a later state.
LEMMA LaterThenSuccessor ==
    ASSUME NEW r, NEW s \in Lifecycle!Later(r), NEW q \in Lifecycle!Successor(s)
    PROVE  q \in Lifecycle!Later(r)
  BY DEF Lifecycle!Successor, Lifecycle!Later

\* Nothing lies ahead of a row that is not there.
LEMMA NothingAfterNoState ==
    Lifecycle!Later(NoState) = {} /\ Lifecycle!Successor(NoState) = {}
  BY DEF Lifecycle!Successor, Lifecycle!Later, NoState

-----------------------------------------------------------------------------
(* A step of one task leaves what the other tasks rely on alone.            *)

TaskOK(t) == StateAtPc(pc[t], st[t]) /\ RowAtPc(t) /\ EntriesAtPc(t)

\* Nothing changes for the other tasks and the other backends.
OthersKept(t) ==
    /\ \A u \in Task \ {t} : pc'[u] = pc[u] /\ st'[u] = st[u]
    /\ \A b \in Backend \ {BackendOf[t]} :
           /\ monitor'[b] = monitor[b]
           /\ db'[b] = db[b]
           /\ ~hung' => listener'[b] = listener[b]
    /\ up' = up
    /\ spawns' = spawns

\* A step of one task that leaves the others alone keeps the invariant if it
\* keeps the part of it that is about the task and its backend.
LEMMA OneTaskStep ==
    ASSUME TypeOK, TasksAreIndependent, NEW t \in Task, Running, Live(t),
           OthersKept(t), TaskOK(t)',
           Running' => Live(t)' \/ ~monitor'[BackendOf[t]]
    PROVE  TasksAreIndependent'
  <1> USE ExecutorAssumption
  <1>1. ASSUME NEW u \in Task, NEW v \in Task, Live(u)', Live(v)',
               BackendOf[u] = BackendOf[v]
        PROVE  u = v
    <2>1. Live(u) /\ Live(v)
      BY Zenon, <1>1 DEF OthersKept, Live
    <2> QED BY Zenon, <1>1, <2>1 DEF TasksAreIndependent
  <1>2. ASSUME NEW b \in Backend, spawns'[b] = 0
        PROVE  db'[b] = NoState /\ ~Driven(b)'
    <2>1. db[b] = NoState /\ ~Driven(b)
      BY Zenon, <1>2 DEF TasksAreIndependent, OthersKept
    <2>2. b # BackendOf[t]
      BY <2>1 DEF Driven
    <2> QED BY <2>1, <2>2 DEF OthersKept, Driven, Live
  <1>3. ASSUME NEW b \in Backend, Running', monitor'[b]
        PROVE  Driven(b)'
    <2>1. CASE b = BackendOf[t]
      BY <1>3, <2>1 DEF Driven
    <2>2. CASE b # BackendOf[t]
      <3>1. monitor[b]
        BY SMTT(60), <1>3, <2>2 DEF OthersKept
      <3>2. PICK u \in Task : BackendOf[u] = b /\ Live(u)
        BY <3>1 DEF TasksAreIndependent, MonitorHasTask, Driven
      <3> QED BY <3>2, <2>2 DEF OthersKept, Driven, Live
    <2> QED BY <2>1, <2>2
  <1>4. ASSUME NEW u \in Task
        PROVE  TaskOK(u)'
    <2>1. CASE u = t
      BY <2>1
    <2>2. CASE u # t /\ ~Live(u)
      <3>1. pc'[u] = "Free"
        BY Zenon, <2>2 DEF OthersKept, Live
      <3> QED
        BY Zenon, <3>1 DEF TaskOK, StateAtPc, RowAtPc, EntriesAtPc, LoopPc,
           StepPc
    <2>3. CASE u # t /\ Live(u)
      <3>1. BackendOf[u] \in Backend \ {BackendOf[t]}
        BY Zenon, <2>3 DEF TasksAreIndependent
      <3>2. /\ pc'[u] = pc[u] /\ st'[u] = st[u]
            /\ db'[BackendOf[u]] = db[BackendOf[u]]
            /\ monitor'[BackendOf[u]] = monitor[BackendOf[u]]
            /\ Running' => listener'[BackendOf[u]] = listener[BackendOf[u]]
        BY Zenon, <2>3, <3>1 DEF OthersKept, Running
      <3>3. TaskOK(u)
        BY Zenon DEF TasksAreIndependent, TaskOK
      <3>4. StateAtPc(pc[u], st[u])'
        BY Zenon, <3>2, <3>3 DEF TaskOK, StateAtPc
      <3>5. RowAtPc(u)'
        BY Zenon, <3>2, <3>3 DEF TaskOK, RowAtPc
      <3>6. EntriesAtPc(u)'
        BY Zenon, <3>2, <3>3 DEF TaskOK, EntriesAtPc
      <3> QED BY Zenon, <3>4, <3>5, <3>6 DEF TaskOK
    <2> QED BY <2>1, <2>2, <2>3
  <1>5. up'
    BY Zenon DEF OthersKept, Running
  <1> QED
    BY Zenon, <1>1, <1>2, <1>3, <1>4, <1>5 DEF TasksAreIndependent,
       MonitorHasTask, TaskOK

\* A task that ends and removes its entries keeps the invariant.
LEMMA FinishKeeps ==
    ASSUME TypeOK, TasksAreIndependent, NEW t \in Task, Running, Live(t),
           Finish(t), UNCHANGED <<up, db, spawns>>
    PROVE  TasksAreIndependent'
  <1> USE ExecutorAssumption
  <1>1. OthersKept(t)
    BY Zenon DEF TypeOK, Finish, Return, SetListener, OthersKept
  <1>2. pc'[t] = "Free"
    BY DEF TypeOK, Finish, Return
  <1>3. TaskOK(t)'
    BY Zenon, <1>2 DEF TaskOK, StateAtPc, RowAtPc, EntriesAtPc, LoopPc, StepPc
  <1>4. ~monitor'[BackendOf[t]]
    BY Zenon DEF TypeOK, Finish
  <1> QED BY <1>1, <1>3, <1>4, OneTaskStep

\* A task that moves inside its loop keeps the invariant.
LEMMA ContinueKeeps ==
    ASSUME TypeOK, TasksAreIndependent, NEW t \in Task, Running,
           NEW p \in LoopPc \ {"Save"}, pc[t] \in LoopPc \ {"Save"},
           Continue(t, p), StateAtPc(p, st[t]), UNCHANGED <<up, db, spawns>>
    PROVE  TasksAreIndependent'
  <1> USE ExecutorAssumption
  <1>1. OthersKept(t)
    BY DEF TypeOK, Continue, Goto, OthersKept
  <1>2. /\ pc'[t] = p /\ st'[t] = st[t]
        /\ UNCHANGED <<listener, monitor, hung>>
    BY DEF TypeOK, Continue, Goto
  <1>3. Live(t) /\ Live(t)'
    BY Zenon, <1>2 DEF Live, LoopPc, StepPc
  <1>4. TaskOK(t)
    BY Zenon DEF TasksAreIndependent, TaskOK
  <1>5. RowAtPc(t)'
    BY Zenon, <1>2, <1>4 DEF TaskOK, RowAtPc, LoopPc, StepPc, Pc
  <1>6. EntriesAtPc(t)'
    BY Zenon, <1>2, <1>4 DEF TaskOK, EntriesAtPc, LoopPc, StepPc, Running
  <1> QED BY Zenon, <1>1, <1>2, <1>3, <1>5, <1>6, OneTaskStep DEF TaskOK

\* The state a step ends with may be saved over the row.
LEMMA MayBeSaved ==
    ASSUME TypeOK, TasksAreIndependent, NEW t \in Task, pc[t] \in StepPc,
           NEW s \in Lifecycle!Successor(st[t])
    PROVE  \/ "db" \in Faults /\ db[BackendOf[t]] = NoState
           \/ s \in Lifecycle!Reach(db[BackendOf[t]])
  <1>1. RowAtPc(t)
    BY DEF TasksAreIndependent
  <1>2. \/ db[BackendOf[t]] = st[t]
        \/ /\ "db" \in Faults
           /\ \/ db[BackendOf[t]] = NoState
              \/ st[t] \in Lifecycle!Later(db[BackendOf[t]])
    BY <1>1 DEF RowAtPc, StepPc, Pc
  <1> QED
    BY <1>2, SuccessorIsLater, LaterThenSuccessor DEF Lifecycle!Reach

\* A task that is about to save a successor of its state keeps the invariant.
LEMMA GotoSaveKeeps ==
    ASSUME TypeOK, TasksAreIndependent, NEW t \in Task, Running,
           pc[t] \in StepPc, NEW s \in BackendStates,
           s \in Lifecycle!Successor(st[t]) \/ s = st[t],
           Goto(t, "Save", s), UNCHANGED <<listener, hung, up, db, spawns>>,
           \A b \in Backend \ {BackendOf[t]} : monitor'[b] = monitor[b],
           running(s) => monitor'[BackendOf[t]]
    PROVE  TasksAreIndependent'
  <1> USE ExecutorAssumption
  <1>1. OthersKept(t)
    BY Zenon DEF TypeOK, Goto, OthersKept
  <1>2. pc'[t] = "Save" /\ st'[t] = s
    BY DEF TypeOK, Goto
  <1>3. Live(t) /\ Live(t)'
    BY Zenon, <1>2 DEF Live, StepPc
  <1>4. TaskOK(t)
    BY Zenon DEF TasksAreIndependent, TaskOK
  <1>5. StateAtPc(pc[t], st[t])'
    BY Zenon, <1>2 DEF StateAtPc
  <1>6. RowAtPc(t)'
    <2>1. CASE s = st[t]
      BY Zenon, <1>2, <1>4, <2>1 DEF TaskOK, RowAtPc, StepPc, Pc,
         Lifecycle!Reach
    <2>2. CASE s \in Lifecycle!Successor(st[t])
      BY Zenon, <1>2, <2>2, MayBeSaved DEF RowAtPc
    <2> QED BY Zenon, <2>1, <2>2
  <1>7. EntriesAtPc(t)'
    BY Zenon, <1>2, <1>4 DEF TaskOK, EntriesAtPc, LoopPc, Running
  <1> QED BY Zenon, <1>1, <1>3, <1>5, <1>6, <1>7, OneTaskStep DEF TaskOK

\* A step that returns Ok(Some(state)) keeps the invariant.
LEMMA AdvanceKeeps ==
    ASSUME TypeOK, TasksAreIndependent, NEW t \in Task, Running,
           pc[t] \in StepPc, NEW s \in BackendStates,
           s \in Lifecycle!Successor(st[t]),
           Advance(t, s), UNCHANGED <<up, db, spawns>>
    PROVE  TasksAreIndependent'
  <1> USE ExecutorAssumption
  <1>1. \A b \in Backend \ {BackendOf[t]} : monitor'[b] = monitor[b]
    BY DEF TypeOK, Advance
  <1>2. running(s) => monitor'[BackendOf[t]]
    BY DEF TypeOK, Advance
  <1> QED BY Zenon, <1>1, <1>2, GotoSaveKeeps DEF Advance

\* A step that returns an error keeps the invariant.
LEMMA StepErrorKeeps ==
    ASSUME TypeOK, TasksAreIndependent, NEW t \in Task, Running,
           pc[t] \in StepPc, StepError(t), UNCHANGED <<up, db, spawns>>
    PROVE  TasksAreIndependent'
  <1>1. CASE st[t] = "Loading"
    <2>1. "ErrorLoading" \in Lifecycle!Successor(st[t]) /\ ~running("ErrorLoading")
      BY <1>1, Edges DEF running
    <2>2. "ErrorLoading" \in BackendStates
      BY DEF BackendStates
    <2> QED BY Zenon, <1>1, <2>1, <2>2, GotoSaveKeeps DEF StepError
  <1>2. CASE st[t] # "Loading"
    BY Zenon, <1>2, FinishKeeps DEF StepError, Live, StepPc
  <1> QED BY <1>1, <1>2

-----------------------------------------------------------------------------
(* The invariant is inductive when no id is spawned twice.                  *)

\* The invariant holds before anything was spawned.
LEMMA IndependentInit == Init => TasksAreIndependent
  <1> SUFFICES ASSUME Init PROVE TasksAreIndependent
    OBVIOUS
  <1>1. \A t \in Task : pc[t] = "Free" /\ ~Live(t)
    BY DEF Init, Live
  <1>2. \A b \in Backend : db[b] = NoState /\ ~monitor[b] /\ ~Driven(b)
    BY <1>1 DEF Init, Driven
  <1>3. ASSUME NEW t \in Task
        PROVE  StateAtPc(pc[t], st[t]) /\ RowAtPc(t) /\ EntriesAtPc(t)
    BY Zenon, <1>1 DEF StateAtPc, RowAtPc, EntriesAtPc, LoopPc, StepPc
  <1> QED BY <1>1, <1>2, <1>3 DEF TasksAreIndependent, MonitorHasTask

\* Steps of a task before it enters the loop of run_backend.
LEMMA IndependentEntering ==
    ASSUME TypeOK, TasksAreIndependent, NEW t \in Task,
           InsertBackend(t) \/ Announce(t) \/ EnterRunBackend(t)
    PROVE  TasksAreIndependent'
  <1> USE ExecutorAssumption
  <1>0. TaskOK(t)
    BY Zenon DEF TasksAreIndependent, TaskOK
  <1>1. CASE InsertBackend(t)
    <2>1. OthersKept(t) /\ Live(t) /\ Running
      BY Zenon, <1>1 DEF TypeOK, InsertBackend, Continue, Goto, OthersKept,
         Live, Running
    <2>2. /\ pc'[t] = "Announce" /\ st'[t] = "Loading"
          /\ \/ db'[BackendOf[t]] = "Loading"
             \/ "db" \in Faults /\ db'[BackendOf[t]] = NoState
      BY Zenon, <1>0, <1>1 DEF TypeOK, InsertBackend, Continue, Goto, TaskOK,
         StateAtPc, RowAtPc
    <2>3. TaskOK(t)' /\ Live(t)'
      BY Zenon, <2>2 DEF TaskOK, StateAtPc, RowAtPc, EntriesAtPc, LoopPc,
         StepPc, Pc, Live
    <2> QED BY <2>1, <2>3, OneTaskStep
  <1>2. CASE Announce(t)
    <2>1. OthersKept(t) /\ Live(t) /\ Running
      BY Zenon, <1>2 DEF TypeOK, Announce, SetListener, Goto, OthersKept, Live,
         Running
    <2>2. /\ pc'[t] = "Pull" /\ st'[t] = "Loading" /\ st[t] = "Loading"
          /\ db' = db
          /\ Running' => listener'[BackendOf[t]] = t
      BY Zenon, <1>0, <1>2 DEF TypeOK, Announce, SetListener, Goto, Running,
         TaskOK, StateAtPc
    <2>3. RowAtPc(t)'
      BY Zenon, <1>0, <1>2, <2>2 DEF Announce, TaskOK, RowAtPc, Pc, StepPc
    <2>4. StateAtPc(pc[t], st[t])' /\ EntriesAtPc(t)' /\ Live(t)'
      BY Zenon, <2>2 DEF StateAtPc, EntriesAtPc, running, Live
    <2> QED BY Zenon, <2>1, <2>3, <2>4, OneTaskStep DEF TaskOK
  <1>3. CASE EnterRunBackend(t)
    <2>1. OthersKept(t) /\ Live(t) /\ Running
      BY Zenon, <1>3 DEF TypeOK, EnterRunBackend, SetListener, Goto,
         OthersKept, Live, Running
    <2>2. /\ pc'[t] = FirstPc(st[t]) /\ st'[t] = st[t]
          /\ db' = db /\ monitor' = monitor
          /\ Running' => listener'[BackendOf[t]] = t
      BY Zenon, <1>3 DEF TypeOK, EnterRunBackend, SetListener, Goto, Running
    <2>3. RowAtPc(t)'
      BY Zenon, <1>0, <1>3, <2>2, FirstPcType DEF EnterRunBackend, TaskOK,
         RowAtPc, Pc, StepPc
    <2>4. StateAtPc(pc[t], st[t])' /\ Live(t)'
      BY <2>2 DEF TypeOK, StateAtPc, FirstPc, running, terminal, BackendStates,
         Live
    <2>5. EntriesAtPc(t)'
      BY Zenon, <1>0, <1>3, <2>1, <2>2 DEF EnterRunBackend, TaskOK, EntriesAtPc
    <2> QED BY Zenon, <2>1, <2>3, <2>4, <2>5, OneTaskStep DEF TaskOK
  <1> QED BY <1>1, <1>2, <1>3

\* A step starts over in the state it is in.
LEMMA FirstPcState ==
    ASSUME NEW s \in BackendStates PROVE StateAtPc(FirstPc(s), s)
  BY DEF StateAtPc, FirstPc, running, terminal, BackendStates

\* Steps inside step().
LEMMA IndependentStepping ==
    ASSUME TypeOK, TasksAreIndependent, NEW t \in Task,
           \/ PullImage(t) \/ CreateContainer(t) \/ StartContainer(t) \/ LoadReturns(t)
           \/ StatusWhenStarting(t) \/ WaitPortReady(t)
           \/ InsertProxyRoute(t) \/ RouteReturns(t)
           \/ StatusWhenReady(t) \/ IdleExpires(t) \/ IdleCheckFails(t)
           \/ StopContainer(t) \/ RemoveContainer(t) \/ StopReturns(t)
    PROVE  TasksAreIndependent'
  <1> USE ExecutorAssumption
  <1>0. StateAtPc(pc[t], st[t])
    BY Zenon DEF TasksAreIndependent
  <1> /\ Running /\ pc[t] \in StepPc
      /\ UNCHANGED <<up, db, spawns>>
    BY Zenon DEF PullImage, CreateContainer, StartContainer, LoadReturns,
           StatusWhenStarting, WaitPortReady, InsertProxyRoute, RouteReturns,
           StatusWhenReady, IdleExpires, IdleCheckFails, StopContainer,
           RemoveContainer, StopReturns, AtStep, StepPc
  <1>1. CASE PullImage(t)
    <2>1. /\ st[t] = "Loading" /\ StateAtPc("Create", st[t])
      BY Zenon, <1>0, <1>1 DEF PullImage, AtStep, StateAtPc
    <2> QED
      BY Zenon, <1>1, <2>1, ContinueKeeps, StepErrorKeeps DEF PullImage,
         AtStep, EngineFails, LoopPc, StepPc
  <1>2. CASE CreateContainer(t)
    <2>1. StateAtPc("Start", st[t])
      BY Zenon, <1>0, <1>2 DEF CreateContainer, AtStep, StateAtPc
    <2> QED
      BY Zenon, <1>2, <2>1, ContinueKeeps, StepErrorKeeps DEF CreateContainer,
         AtStep, EngineFails, LoopPc, StepPc
  <1>3. CASE StartContainer(t)
    <2>1. StateAtPc("Started", st[t])
      BY Zenon, <1>0, <1>3 DEF StartContainer, AtStep, StateAtPc
    <2> QED
      BY Zenon, <1>3, <2>1, ContinueKeeps, StepErrorKeeps DEF StartContainer,
         AtStep, EngineFails, LoopPc, StepPc
  <1>4. CASE LoadReturns(t)
    <2>1. "Starting" \in Lifecycle!Successor(st[t]) \cap BackendStates
      BY Zenon, <1>0, <1>4, Edges DEF LoadReturns, AtStep, StateAtPc,
         BackendStates
    <2> QED BY Zenon, <1>4, <2>1, AdvanceKeeps DEF LoadReturns, AtStep
  <1>5. CASE WaitPortReady(t)
    <2>1. StateAtPc("Route", st[t])
      BY Zenon, <1>0, <1>5 DEF WaitPortReady, AtStep, StateAtPc
    <2> QED
      BY Zenon, <1>5, <2>1, ContinueKeeps, StepErrorKeeps DEF WaitPortReady,
         AtStep, LoopPc, StepPc
  <1>6. CASE InsertProxyRoute(t)
    <2>1. StateAtPc("Routed", st[t])
      BY Zenon, <1>0, <1>6 DEF InsertProxyRoute, AtStep, StateAtPc
    <2> QED
      BY Zenon, <1>6, <2>1, ContinueKeeps, StepErrorKeeps DEF InsertProxyRoute,
         AtStep, LoopPc, StepPc
  <1>7. CASE RouteReturns(t)
    <2>1. "Ready" \in Lifecycle!Successor(st[t]) \cap BackendStates
      BY Zenon, <1>0, <1>7, Edges DEF RouteReturns, AtStep, StateAtPc,
         BackendStates
    <2> QED BY Zenon, <1>7, <2>1, AdvanceKeeps DEF RouteReturns, AtStep
  <1>8. CASE IdleExpires(t)
    <2>1. "Swept" \in Lifecycle!Successor(st[t]) \cap BackendStates
      BY Zenon, <1>0, <1>8, Edges DEF IdleExpires, AtStep, StateAtPc,
         BackendStates
    <2> QED BY Zenon, <1>8, <2>1, AdvanceKeeps DEF IdleExpires, AtStep
  <1>9. CASE IdleCheckFails(t)
    <2> QED BY Zenon, <1>9, StepErrorKeeps DEF IdleCheckFails, AtStep
  <1>10. CASE StopContainer(t)
    <2>1. StateAtPc("Remove", st[t])
      BY Zenon, <1>0, <1>10 DEF StopContainer, AtStep, StateAtPc
    <2> QED
      BY Zenon, <1>10, <2>1, ContinueKeeps, StepErrorKeeps DEF StopContainer,
         AtStep, EngineFails, LoopPc, StepPc
  <1>11. CASE RemoveContainer(t)
    <2>1. StateAtPc("Removed", st[t])
      BY Zenon, <1>0, <1>11 DEF RemoveContainer, AtStep, StateAtPc
    <2> QED
      BY Zenon, <1>11, <2>1, ContinueKeeps, StepErrorKeeps DEF RemoveContainer,
         AtStep, EngineFails, LoopPc, StepPc
  <1>12. CASE StopReturns(t)
    <2> QED BY <1>12, FinishKeeps DEF StopReturns, AtStep, Live, StepPc
  <1>13. CASE StatusWhenStarting(t)
    <2>1. st[t] = "Starting" /\ pc[t] = "Status"
      BY Zenon, <1>13 DEF StatusWhenStarting, AtStep
    <2>2. CASE /\ pc' = [pc EXCEPT ![t] = "Port"]
               /\ UNCHANGED <<st, listener, monitor, hung>>
      <3>1. OthersKept(t)
        BY Zenon, <2>2 DEF TypeOK, OthersKept
      <3>2. pc'[t] = "Port" /\ st' = st /\ Live(t) /\ Live(t)'
        BY <2>1, <2>2 DEF TypeOK, Live
      <3>3. TaskOK(t)
        BY Zenon DEF TasksAreIndependent, TaskOK
      <3>4. StateAtPc(pc[t], st[t])' /\ RowAtPc(t)'
        BY Zenon, <2>1, <3>2, <3>3 DEF TaskOK, StateAtPc, RowAtPc, Pc, StepPc
      <3>5. EntriesAtPc(t)'
        BY Zenon, <2>1, <2>2, <3>2, <3>3 DEF TaskOK, EntriesAtPc, LoopPc,
           StepPc, Running
      <3> QED BY Zenon, <3>1, <3>2, <3>4, <3>5, OneTaskStep DEF TaskOK
    <2>3. CASE Advance(t, "ErrorStarting")
      <3>1. "ErrorStarting" \in Lifecycle!Successor(st[t]) \cap BackendStates
        BY Zenon, <2>1, Edges DEF BackendStates
      <3> QED BY Zenon, <2>3, <3>1, AdvanceKeeps
    <2> QED
      BY Zenon, <1>13, <2>2, <2>3, StepErrorKeeps DEF StatusWhenStarting,
         EngineFails
  <1>14. CASE StatusWhenReady(t)
    <2>1. /\ {"Failed", "Exited", "Swept"} \subseteq
                 Lifecycle!Successor(st[t]) \cap BackendStates
          /\ StateAtPc("Idle", st[t])
      BY Zenon, <1>14, Edges DEF StatusWhenReady, StateAtPc, BackendStates
    <2> QED
      BY Zenon, <1>14, <2>1, AdvanceKeeps, ContinueKeeps, StepErrorKeeps
         DEF StatusWhenReady, EngineFails, LoopPc, StepPc
  <1> QED
    BY <1>1, <1>2, <1>3, <1>4, <1>5, <1>6, <1>7, <1>8, <1>9, <1>10, <1>11,
       <1>12, <1>13, <1>14

\* The signal branch of select!, and update_backend_state.
LEMMA IndependentSignals ==
    ASSUME TypeOK, TasksAreIndependent, NEW t \in Task,
           Interrupted(t) \/ Terminated(t) \/ SenderLost(t)
    PROVE  TasksAreIndependent'
  <1> USE ExecutorAssumption
  <1>0. TaskOK(t)
    BY Zenon DEF TasksAreIndependent, TaskOK
  <1> /\ Running /\ pc[t] \in StepPc /\ st[t] # "Swept"
    BY Zenon DEF Interrupted, Terminated, SenderLost, Listening
  <1>1. CASE Interrupted(t)
    <2>1. OthersKept(t)
      BY Zenon, <1>1 DEF TypeOK, Interrupted, Goto, OthersKept
    <2>2. /\ pc'[t] = FirstPc(st[t]) /\ st'[t] = st[t]
          /\ UNCHANGED <<listener, monitor, hung, up, db>>
      BY Zenon, <1>1 DEF TypeOK, Interrupted, Goto
    <2>3. FirstPc(st[t]) \in StepPc
      BY FirstPcType
    <2>4. Live(t) /\ Live(t)'
      BY Zenon, <2>2, <2>3 DEF Live, StepPc
    <2>5. StateAtPc(pc[t], st[t])'
      <3>1. st[t] \in BackendStates
        BY DEF TypeOK
      <3>2. StateAtPc(FirstPc(st[t]), st[t])
        BY <3>1, FirstPcState
      <3> QED BY Zenon, <2>2, <3>2 DEF StateAtPc
    <2>6. RowAtPc(t)'
      BY Zenon, <1>0, <2>2, <2>3 DEF TaskOK, RowAtPc, StepPc, Pc
    <2>7. EntriesAtPc(t)'
      BY Zenon, <1>0, <2>2, <2>3 DEF TaskOK, EntriesAtPc, LoopPc, Running
    <2> QED BY Zenon, <2>1, <2>4, <2>5, <2>6, <2>7, OneTaskStep DEF TaskOK
  <1>2. CASE Terminated(t)
    <2>1. /\ "Terminated" \in BackendStates
          /\ ~running("Terminated")
          /\ \/ "Terminated" \in Lifecycle!Successor(st[t])
             \/ "Terminated" = st[t]
      BY Edges DEF TypeOK, BackendStates, running
    <2> QED BY Zenon, <1>2, <2>1, GotoSaveKeeps DEF Terminated
  <1>3. CASE SenderLost(t)
    BY Zenon, <1>0, <1>3 DEF SenderLost, TaskOK, EntriesAtPc, LoopPc
  <1> QED BY Zenon, <1>1, <1>2, <1>3

\* The two halves of update_backend_state keep the invariant.
LEMMA IndependentSaving ==
    ASSUME TypeOK, TasksAreIndependent, NEW t \in Task,
           SaveState(t) \/ PublishSaved(t)
    PROVE  TasksAreIndependent'
  <1> USE ExecutorAssumption
  <1>0. TaskOK(t)
    BY Zenon DEF TasksAreIndependent, TaskOK
  <1>1. CASE SaveState(t)
    <2>1. OthersKept(t) /\ Live(t) /\ Running
      BY Zenon, <1>1 DEF TypeOK, SaveState, Continue, Goto, OthersKept, Live,
         Running
    <2>2. /\ pc'[t] = "Publish" /\ st'[t] = st[t]
          /\ UNCHANGED <<listener, monitor, hung, up>>
          /\ \/ /\ db[BackendOf[t]] # NoState
                /\ db'[BackendOf[t]] = st[t]
             \/ /\ db'[BackendOf[t]] = db[BackendOf[t]]
                /\ db[BackendOf[t]] = NoState \/ "db" \in Faults
      BY Zenon, <1>1 DEF TypeOK, SaveState, Continue, Goto
    <2>3. StateAtPc(pc[t], st[t])' /\ Live(t)'
      BY Zenon, <2>2 DEF StateAtPc, Live
    <2>4. RowAtPc(t)'
      BY Zenon, <1>0, <1>1, <2>2, NothingAfterNoState
         DEF SaveState, TaskOK, RowAtPc, StepPc, Pc, Lifecycle!Reach
    <2>5. EntriesAtPc(t)'
      BY Zenon, <1>0, <1>1, <2>2 DEF SaveState, TaskOK, EntriesAtPc, LoopPc,
         Running
    <2> QED BY Zenon, <2>1, <2>3, <2>4, <2>5, OneTaskStep DEF TaskOK
  <1>2. CASE PublishSaved(t)
    <2>1. /\ Running /\ Live(t) /\ pc[t] \in LoopPc \ {"Save"}
          /\ UNCHANGED <<up, db, spawns>>
      BY Zenon, <1>2 DEF PublishSaved, Live, LoopPc
    <2>2. /\ FirstPc(st[t]) \in LoopPc \ {"Save"}
          /\ StateAtPc(FirstPc(st[t]), st[t])
      BY FirstPcType, FirstPcState DEF TypeOK, LoopPc, StepPc
    <2> QED
      BY Zenon, <1>2, <2>1, <2>2, FinishKeeps, ContinueKeeps DEF PublishSaved,
         AfterPublish
  <1> QED BY <1>1, <1>2

\* Everything that is not a step of a task.
LEMMA IndependentOutside ==
    ASSUME TypeOK, TasksAreIndependent,
           UNCHANGED <<pc, st, listener, monitor, hung, up, db, spawns>>
    PROVE  TasksAreIndependent'
  <1>1. \A t \in Task : Live(t)' <=> Live(t)
    BY DEF Live
  <1>2. \A b \in Backend : Driven(b)' <=> Driven(b)
    BY DEF Driven, Live
  <1>3. Running' <=> Running
    BY SMTT(60) DEF Running
  <1>4. ASSUME NEW t \in Task
        PROVE  (StateAtPc(pc[t], st[t]) /\ RowAtPc(t) /\ EntriesAtPc(t))'
    <2>1. StateAtPc(pc[t], st[t]) /\ RowAtPc(t) /\ EntriesAtPc(t)
      BY Zenon DEF TasksAreIndependent
    <2>2. StateAtPc(pc[t], st[t])'
      BY Zenon, <2>1 DEF StateAtPc
    <2>3. RowAtPc(t)'
      BY Zenon, <2>1 DEF RowAtPc
    <2>4. EntriesAtPc(t)'
      BY Zenon, <1>3, <2>1 DEF EntriesAtPc
    <2> QED BY <2>2, <2>3, <2>4
  <1>5. MonitorHasTask'
    BY Zenon, <1>2, <1>3 DEF TasksAreIndependent, MonitorHasTask
  <1> QED BY Zenon, <1>1, <1>2, <1>4, <1>5 DEF TasksAreIndependent

\* A spawn request for an id that was never used keeps the invariant.
LEMMA IndependentSpawn ==
    ASSUME MaxSpawns = 1, TypeOK, TasksAreIndependent, NEW t \in Task, Spawn(t)
    PROVE  TasksAreIndependent'
  <1> USE ExecutorAssumption
  <1> DEFINE b == BackendOf[t]
  <1>0. b \in Backend
    OBVIOUS
  <1>1. b \in Backend /\ spawns[b] = 0
    <2>1. spawns[b] \in 0..MaxSpawns
      BY <1>0 DEF TypeOK
    <2>2. spawns[b] < MaxSpawns
      BY DEF Spawn
    <2> QED BY SMTT(60), <1>0, <2>1, <2>2
  <1>2. db[b] = NoState /\ ~Driven(b)
    BY Zenon, <1>1 DEF TasksAreIndependent
  <1>3. /\ pc' = [pc EXCEPT ![t] = "Insert"]
        /\ st' = [st EXCEPT ![t] = "Loading"]
        /\ spawns' = [spawns EXCEPT ![b] = 1]
        /\ UNCHANGED <<listener, monitor, hung, up, db>>
    BY <1>1 DEF Spawn, Goto
  <1>4. \A u \in Task \ {t} : Live(u)' => BackendOf[u] # b
    BY Zenon, <1>2, <1>3 DEF TypeOK, Driven, Live
  <1>5. ASSUME NEW u \in Task, NEW v \in Task, Live(u)', Live(v)',
               BackendOf[u] = BackendOf[v]
        PROVE  u = v
    BY Zenon, <1>3, <1>4, <1>5 DEF TypeOK, TasksAreIndependent, Live
  <1>6. ASSUME NEW c \in Backend, spawns'[c] = 0
        PROVE  db'[c] = NoState /\ ~Driven(c)'
    <2>1. c # b /\ spawns[c] = 0
      <3>1. spawns \in [Backend -> 0..MaxSpawns]
        BY Zenon DEF TypeOK
      <3>2. spawns' = [spawns EXCEPT ![b] = 1]
        BY <1>3
      <3> HIDE DEF b
      <3> QED BY <1>1, <1>6, <3>1, <3>2
    <2> QED BY Zenon, <1>3, <2>1 DEF TypeOK, TasksAreIndependent, Driven, Live
  <1>7. MonitorHasTask'
    BY Zenon, <1>3 DEF TypeOK, TasksAreIndependent, MonitorHasTask, Running,
       Driven, Live
  <1>8. ASSUME NEW u \in Task PROVE TaskOK(u)'
    <2>1. CASE u = t
      BY Zenon, <1>2, <1>3, <2>1
         DEF TypeOK, TaskOK, StateAtPc, RowAtPc, EntriesAtPc, LoopPc, StepPc
    <2>2. CASE u # t
      <3>1. pc'[u] = pc[u] /\ st'[u] = st[u]
        BY Zenon, <1>3, <2>2 DEF TypeOK
      <3> QED
        BY Zenon, <1>3, <3>1 DEF TasksAreIndependent, TaskOK, StateAtPc,
           RowAtPc,
                          EntriesAtPc, Running
    <2> QED BY <2>1, <2>2
  <1>9. up'
    <2>1. up' = up
      BY <1>3
    <2>2. up
      BY Zenon DEF Spawn, Running
    <2> QED BY <2>1, <2>2
  <1> QED
    BY Zenon, <1>5, <1>6, <1>7, <1>8, <1>9 DEF TasksAreIndependent, TaskOK

\* A crash, which ends every task and empties both maps, keeps the invariant.
LEMMA IndependentCrash ==
    ASSUME TypeOK, TasksAreIndependent, Crash
    PROVE  TasksAreIndependent'
  BY Zenon DEF TypeOK, TasksAreIndependent, Crash, MonitorHasTask, Running,
     Driven, Live,
         StateAtPc, RowAtPc, EntriesAtPc, LoopPc, StepPc

\* resume_backends starts one task for every row and keeps the invariant.
LEMMA IndependentResume ==
    ASSUME TypeOK, TasksAreIndependent, resume_backends
    PROVE  TasksAreIndependent'
  <1> USE ExecutorAssumption
  <1> DEFINE resumed(t) ==
                db[BackendOf[t]] \in BackendStates /\ t = FirstTask(BackendOf[t])
  <1>1. /\ ~up /\ up'
        /\ pc' = [t \in Task |-> IF resumed(t) THEN "Enter" ELSE "Free"]
        /\ st' = [t \in Task |-> IF resumed(t) THEN db[BackendOf[t]] ELSE st[t]]
        /\ monitor' = [b \in Backend |-> db[b] \in RunningStates]
        /\ UNCHANGED <<listener, hung, db, spawns>>
    BY Zenon DEF resume_backends, Resume
  <1>2. \A t \in Task : Live(t)' <=> resumed(t)
    BY Zenon, <1>1 DEF Live
  <1>3. \A b \in Backend : FirstTask(b) \in Task /\ BackendOf[FirstTask(b)] = b
    BY DEF FirstTask
  <1>4. \A t, u \in Task : Live(t)' /\ Live(u)' /\ BackendOf[t] = BackendOf[u] => t = u
    BY <1>2
  <1>5. NoState \notin BackendStates
    BY DEF NoState, BackendStates
  <1>6. ASSUME NEW b \in Backend, spawns'[b] = 0
        PROVE  db'[b] = NoState /\ ~Driven(b)'
    BY ZenonT(60), <1>1, <1>2, <1>5, <1>6 DEF TasksAreIndependent, Driven
  <1>7. ASSUME NEW b \in Backend, monitor'[b]
        PROVE  Driven(b)'
    <2>1. db[b] \in BackendStates
      BY Zenon, <1>1, <1>7 DEF RunningStates
    <2> QED BY <1>2, <1>3, <2>1 DEF Driven
  <1>8. ASSUME NEW t \in Task PROVE TaskOK(t)'
    <2>1. CASE ~resumed(t)
      BY Zenon, <1>1, <2>1 DEF TaskOK, StateAtPc, RowAtPc, EntriesAtPc, LoopPc,
         StepPc
    <2>2. CASE resumed(t)
      <3>1. /\ pc'[t] = "Enter" /\ st'[t] = db[BackendOf[t]] /\ db' = db
            /\ running(st'[t]) => monitor'[BackendOf[t]]
        BY Zenon, <1>1, <2>2 DEF RunningStates
      <3> QED
        BY Zenon, <3>1 DEF TaskOK, StateAtPc, RowAtPc, EntriesAtPc, LoopPc,
           StepPc
    <2> QED BY <2>1, <2>2
  <1> QED
    BY Zenon, <1>1, <1>4, <1>6, <1>7, <1>8 DEF TasksAreIndependent,
       MonitorHasTask, TaskOK

\* TasksAreIndependent is inductive, together with the types.
LEMMA IndependentNext ==
    ASSUME MaxSpawns = 1, TypeOK, TasksAreIndependent, [Next]_vars
    PROVE  TasksAreIndependent'
  <1>1. ASSUME NEW t \in Task, Spawn(t) \/ TaskStep(t) \/ IdleExpires(t)
        PROVE  TasksAreIndependent'
    BY Zenon, <1>1, IndependentSpawn, IndependentEntering, IndependentStepping,
       IndependentSignals, IndependentSaving DEF TaskStep
  <1>2. ASSUME NEW b \in Backend,
               \/ KillBackend(b) \/ DieEvent(b) \/ LoseDieEvent(b)
               \/ ContainerExits(b) \/ LateCallEnds(b)
        PROVE  TasksAreIndependent'
    BY Zenon, <1>2, IndependentOutside
       DEF KillBackend, DieEvent, LoseDieEvent, ContainerExits, LateCallEnds
  <1>3. CASE UNCHANGED vars
    BY Zenon, <1>3, IndependentOutside DEF vars
  <1> QED
    BY <1>1, <1>2, <1>3, IndependentCrash, IndependentResume DEF Next

-----------------------------------------------------------------------------
(* What follows, for every number of backends and every set of faults.      *)

\* TasksAreIndependent: as long as no id is spawned twice, a backend has at
\* most one task, which owns its listener and its monitor and whose state, row
\* and await agree; no interleaving with another backend's task matters.
THEOREM Independent ==
    ASSUME MaxSpawns = 1
    PROVE  Spec => []TasksAreIndependent
  <1>1. Init => TypeOK /\ TasksAreIndependent
    BY TypeInit, IndependentInit
  <1>2. TypeOK /\ TasksAreIndependent /\ [Next]_vars
            => (TypeOK /\ TasksAreIndependent)'
    BY TypeNext, IndependentNext
  <1> QED BY <1>1, <1>2, PTL DEF Spec

\* MonitorHasTask: with unique ids no monitor, and so no DNS record it keeps
\* sending, outlives the task of its backend, across signals and restarts.
THEOREM MonitorsMatchTasks ==
    ASSUME MaxSpawns = 1
    PROVE  Spec => []MonitorHasTask
  <1>1. TasksAreIndependent => MonitorHasTask
    BY Zenon DEF TasksAreIndependent
  <1> QED BY <1>1, Independent, PTL

\* RunningIsMonitored: with unique ids a backend is monitored while its task is
\* inside a Starting or Ready step, also after a restart.
THEOREM StepsAreMonitored ==
    ASSUME MaxSpawns = 1
    PROVE  Spec => []RunningIsMonitored
  <1>1. TasksAreIndependent => RunningIsMonitored
    BY Zenon DEF TasksAreIndependent, EntriesAtPc, RunningIsMonitored, LoopPc
  <1> QED BY <1>1, Independent, PTL

\* Only these two actions write the backend table.
LEMMA RowWriters ==
    ASSUME [Next]_vars
    PROVE  \/ UNCHANGED db
           \/ \E t \in Task : InsertBackend(t) \/ SaveState(t)
  <1>1. ASSUME NEW t \in Task, Spawn(t) \/ TaskStep(t) \/ IdleExpires(t)
        PROVE  UNCHANGED db \/ InsertBackend(t) \/ SaveState(t)
    BY Zenon, <1>1 DEF TaskStep, Spawn, IdleExpires, Announce, EnterRunBackend,
         PullImage, CreateContainer, StartContainer, LoadReturns,
         StatusWhenStarting, WaitPortReady, InsertProxyRoute, RouteReturns,
         StatusWhenReady, IdleCheckFails, StopContainer, RemoveContainer,
         StopReturns, Interrupted, Terminated, SenderLost, PublishSaved
  <1> QED
    BY Zenon, <1>1 DEF Next, KillBackend, DieEvent, LoseDieEvent,
       ContainerExits, LateCallEnds, Crash, resume_backends, Resume, vars

\* FollowsLifecycle: with unique ids the executor implements the abstract
\* lifecycle, the row standing for the abstract state.
THEOREM ImplementsLifecycle ==
    ASSUME MaxSpawns = 1
    PROVE  Spec => FollowsLifecycle
  <1>1. Init => Lifecycle!Init
    BY DEF Init, Lifecycle!Init, NoState, Lifecycle!NoState
  <1>2. TypeOK /\ TasksAreIndependent /\ [Next]_vars => [Lifecycle!Next]_db
    <2> SUFFICES ASSUME TypeOK, TasksAreIndependent, [Next]_vars, db' # db
                 PROVE  Lifecycle!Next
      OBVIOUS
    <2>1. PICK t \in Task : InsertBackend(t) \/ SaveState(t)
      BY RowWriters
    <2>2. RowAtPc(t) /\ BackendOf[t] \in Backend
      BY Zenon, ExecutorAssumption DEF TasksAreIndependent
    <2>3. CASE InsertBackend(t)
      <3>1. Lifecycle!Create(BackendOf[t])
        BY Zenon, <2>2, <2>3 DEF InsertBackend, RowAtPc, Lifecycle!Create,
                          NoState, Lifecycle!NoState
      <3> QED BY <2>2, <3>1 DEF Lifecycle!Next
    <2>4. CASE SaveState(t)
      <3>1. /\ pc[t] = "Save" /\ db[BackendOf[t]] # NoState
            /\ db' = [db EXCEPT ![BackendOf[t]] = st[t]]
            /\ db[BackendOf[t]] # st[t]
        <4>1. db \in [Backend -> BackendStates \cup {NoState}]
          BY Zenon DEF TypeOK
        <4> QED BY <2>2, <2>4, <4>1 DEF SaveState
      <3>2. st[t] \in Lifecycle!Reach(db[BackendOf[t]])
        BY Zenon, <2>2, <3>1 DEF RowAtPc
      <3>3. Lifecycle!Move(BackendOf[t])
        BY Zenon, <3>1, <3>2 DEF Lifecycle!Move
      <3> QED BY SMTT(60), <2>2, <3>3 DEF Lifecycle!Next
    <2> QED BY <2>1, <2>3, <2>4
  <1> QED
    BY <1>1, <1>2, TypeCorrect, Independent, PTL
       DEF Spec, FollowsLifecycle, Lifecycle!Spec

-----------------------------------------------------------------------------
(* The state stream.  Here writes of the table do not fail.                 *)

\* The row has the published state, or a later one.
LEMMA StreamNext ==
    ASSUME "db" \notin Faults, TypeOK, TasksAreIndependent, StreamNeverAhead,
           [Next]_vars
    PROVE  StreamNeverAhead'
  <1> USE ExecutorAssumption
  <1>0. NoState \notin BackendStates
    BY DEF NoState, BackendStates
  <1>1. CASE UNCHANGED <<db, published>>
    BY Zenon, <1>1 DEF StreamNeverAhead
  <1>2. ASSUME NEW t \in Task, InsertBackend(t)
        PROVE  StreamNeverAhead'
    <2>1. db[BackendOf[t]] = NoState
      BY Zenon, <1>2 DEF InsertBackend, TasksAreIndependent, RowAtPc
    <2>2. published[BackendOf[t]] = NoState
      BY <2>1 DEF StreamNeverAhead, Lifecycle!Later, Lifecycle!Successor,
         NoState
    <2> QED BY Zenon, <1>2, <2>2 DEF InsertBackend, TypeOK, StreamNeverAhead
  <1>3. ASSUME NEW t \in Task, SaveState(t)
        PROVE  StreamNeverAhead'
    <2>1. \/ db[BackendOf[t]] = st[t]
          \/ st[t] \in Lifecycle!Successor(db[BackendOf[t]])
      BY Zenon, <1>3 DEF SaveState, TasksAreIndependent, RowAtPc,
         Lifecycle!Reach
    <2>2. db' \in {db, [db EXCEPT ![BackendOf[t]] = st[t]]} /\ published' = published
      BY Zenon, <1>3 DEF SaveState, TypeOK
    <2>3. ASSUME NEW b \in Backend
          PROVE  \/ db'[b] = db[b]
                 \/ db'[b] \in Lifecycle!Successor(db[b])
      BY Zenon, <2>1, <2>2 DEF TypeOK
    <2> QED
      BY Zenon, <2>2, <2>3, SuccessorIsLater, LaterThenSuccessor DEF
         StreamNeverAhead
  <1>4. ASSUME NEW t \in Task, Announce(t) \/ PublishSaved(t)
        PROVE  StreamNeverAhead'
    <2>1. db[BackendOf[t]] = st[t] /\ (Announce(t) => st[t] = "Loading")
      BY Zenon, <1>4 DEF Announce, PublishSaved, TasksAreIndependent,
         StateAtPc, RowAtPc,
                  Pc, StepPc
    <2>2. /\ db' = db
          /\ published' \in {published, [published EXCEPT ![BackendOf[t]] = st[t]]}
      BY Zenon, <1>4, <2>1 DEF Announce, PublishSaved, PublishState
    <2> QED BY Zenon, <2>1, <2>2 DEF TypeOK, StreamNeverAhead
  <1>5. ASSUME NEW t \in Task, Spawn(t) \/ TaskStep(t) \/ IdleExpires(t)
        PROVE  \/ UNCHANGED <<db, published>>
               \/ InsertBackend(t) \/ SaveState(t) \/ Announce(t) \/ PublishSaved(t)
    BY Zenon, <1>5 DEF TaskStep, Spawn, IdleExpires, EnterRunBackend,
         PullImage, CreateContainer, StartContainer, LoadReturns,
         StatusWhenStarting, WaitPortReady, InsertProxyRoute, RouteReturns,
         StatusWhenReady, IdleCheckFails, StopContainer, RemoveContainer,
         StopReturns, Interrupted, Terminated, SenderLost
  <1> QED
    BY Zenon, <1>1, <1>2, <1>3, <1>4, <1>5
       DEF Next, KillBackend, DieEvent, LoseDieEvent, ContainerExits,
           LateCallEnds, Crash, resume_backends, Resume, vars

\* StreamNeverAhead: update_backend_state writes the row before it publishes,
\* so a listener of the stream never knows more than the drone has recorded.
THEOREM StreamFollowsTable ==
    ASSUME MaxSpawns = 1, "db" \notin Faults
    PROVE  Spec => []StreamNeverAhead
  <1>1. Init => StreamNeverAhead
    BY DEF Init, StreamNeverAhead
  <1>2. TypeOK /\ TasksAreIndependent /\ StreamNeverAhead /\ [Next]_vars
            => StreamNeverAhead'
    BY StreamNext
  <1> QED BY <1>1, <1>2, TypeCorrect, Independent, PTL DEF Spec

-----------------------------------------------------------------------------
(* Containers, rows and routes, for unique ids and a table whose writes do  *)
(* not fail.                                                                *)

\* Docker gives an address to a container while it runs, and to one only.
AddressesAreHeld ==
    /\ \A b \in Backend : cont[b] = "Running" => addr[b] # None
    /\ \A b, c \in Backend : addr[b] = addr[c] /\ addr[b] # None => b = c

\* The row is written before the container is created, and says Starting before
\* a route is inserted; a running container has no other route than its own.
RowIsFirst(b) ==
    /\ db[b] = NoState => cont[b] = "Absent"
    /\ db[b] \in {NoState, "Loading"} => route[b] = None
    /\ cont[b] = "Running" => route[b] \in {None, addr[b]}

\* The address of b, if it runs, is in the route table, and no other running
\* backend has it.
Routed(b) ==
    cont[b] = "Running" =>
        \E c \in Backend : route[c] = addr[b] /\ (c = b \/ cont[c] # "Running")

\* What a Starting step has captured is the address of its container as long as
\* that runs, and it is the only one it ever inserts.
CapturedAtPc(t) ==
    LET b == BackendOf[t] IN
    pc[t] \in {"Port", "Route"} =>
        /\ seen[t] # None
        /\ cont[b] = "Running" => seen[t] = addr[b]
        /\ route[b] \in {None, seen[t]}

\* Between the insert and the save of the state Ready.
InsertedAtPc(t) ==
    pc[t] = "Routed" \/ (pc[t] = "Save" /\ st[t] = "Ready") => Routed(BackendOf[t])

RouteInv ==
    /\ AddressesAreHeld
    /\ \A b \in Backend : RowIsFirst(b)
    /\ \A b \in Backend : db[b] = "Ready" => Routed(b)
    /\ \A t \in Task : CapturedAtPc(t) /\ InsertedAtPc(t)

\* The states a backend can be in whose start was given up.
LateStates == {"Loading", "ErrorLoading", "Terminated"}

\* A task whose backend was left a start has left load().
LateAtPc(t) ==
    /\ pc[t] \notin {"Start", "Started"}
    /\ pc[t] = "Save" => st[t] \in LateStates

\* Docker has calls only of backends that have a row.  If it still has a start,
\* its container was created and the backend never got further than Loading: no
\* route leads to it, and none will.
LateOK(b) ==
    /\ late[b] # {} => db[b] # NoState
    /\ "start" \in late[b] =>
           /\ cont[b] = "Created" /\ route[b] = None /\ db[b] \in LateStates
           /\ \A t \in Task : BackendOf[t] = b => LateAtPc(t)

LateInv == \A b \in Backend : LateOK(b)

\* What the route invariant says about a task holds because of where it is.
Elsewhere(t) ==
    /\ pc[t] \notin {"Port", "Route", "Routed"}
    /\ pc[t] = "Save" => st[t] # "Ready"

\* The other tasks stay where they are.
OthersStay(t) ==
    \A u \in Task \ {t} : pc'[u] = pc[u] /\ st'[u] = st[u] /\ seen'[u] = seen[u]

\* A task moves to another await, and the others stay where they are.
LEMMA GotoMoves ==
    ASSUME TypeOK, NEW t \in Task, NEW p, NEW s, Goto(t, p, s)
    PROVE  /\ pc'[t] = p /\ st'[t] = s
           /\ OthersStay(t)
  BY Zenon DEF TypeOK, Goto, OthersStay

\* The same when a task ends.
LEMMA ReturnMoves ==
    ASSUME TypeOK, NEW t \in Task, Return(t)
    PROVE  pc'[t] = "Free" /\ OthersStay(t)
  BY Zenon DEF TypeOK, Return, OthersStay

\* An error of step() takes a task away from the awaits around the insert.
LEMMA StepErrorMoves ==
    ASSUME TypeOK, NEW t \in Task, StepError(t)
    PROVE  Elsewhere(t)' /\ OthersStay(t)
  BY GotoMoves, ReturnMoves DEF StepError, Finish, Elsewhere

\* So does the next await of a step, or the next state, if it is none of them.
LEMMA ContinueMoves ==
    ASSUME TypeOK, NEW t \in Task, NEW p, Continue(t, p),
           p \notin {"Port", "Route", "Routed", "Save"}
    PROVE  Elsewhere(t)' /\ OthersStay(t)
  BY Zenon, GotoMoves DEF Continue, Elsewhere

\* So does another state than Ready.
LEMMA AdvanceMoves ==
    ASSUME TypeOK, NEW t \in Task, NEW s, Advance(t, s), s # "Ready"
    PROVE  Elsewhere(t)' /\ OthersStay(t)
  BY GotoMoves DEF Advance, Elsewhere

\* A step that starts over is not in the middle.
LEMMA FirstPcElsewhere ==
    ASSUME NEW s PROVE FirstPc(s) \notin {"Port", "Route", "Routed", "Save"}
  BY DEF FirstPc

\* All steps of a task but those around the insert.
LEMMA TaskMoves ==
    ASSUME TypeOK, NEW t \in Task,
           \/ Spawn(t) \/ InsertBackend(t) \/ Announce(t) \/ EnterRunBackend(t)
           \/ PullImage(t) \/ CreateContainer(t) \/ StartContainer(t) \/ LoadReturns(t)
           \/ StatusWhenReady(t) \/ IdleExpires(t) \/ IdleCheckFails(t)
           \/ StopContainer(t) \/ RemoveContainer(t) \/ StopReturns(t)
           \/ Interrupted(t) \/ Terminated(t) \/ SenderLost(t)
           \/ SaveState(t) \/ PublishSaved(t)
    PROVE  Elsewhere(t)' /\ OthersStay(t)
  <1>1. CASE Spawn(t) \/ Announce(t)
    <2>1. pc'[t] \in {"Insert", "Pull"} /\ OthersStay(t)
      BY Zenon, <1>1, GotoMoves DEF Spawn, Announce
    <2> QED BY <2>1 DEF Elsewhere
  <1>2. CASE InsertBackend(t) \/ SaveState(t)
    BY ZenonT(60), <1>2, ContinueMoves DEF InsertBackend, SaveState
  <1>3. CASE EnterRunBackend(t) \/ Interrupted(t)
    <2>1. pc'[t] = FirstPc(st[t]) /\ OthersStay(t)
      BY Zenon, <1>3, GotoMoves DEF EnterRunBackend, Interrupted
    <2> QED BY <2>1, FirstPcElsewhere DEF Elsewhere
  <1>4. CASE PullImage(t) \/ CreateContainer(t) \/ StartContainer(t)
    BY Zenon, <1>4, ContinueMoves, StepErrorMoves
       DEF PullImage, CreateContainer, StartContainer, EngineFails
  <1>5. CASE LoadReturns(t) \/ IdleExpires(t)
    BY Zenon, <1>5, AdvanceMoves DEF LoadReturns, IdleExpires
  <1>6. CASE StatusWhenReady(t)
    BY Zenon, <1>6, AdvanceMoves, ContinueMoves, StepErrorMoves
       DEF StatusWhenReady, EngineFails
  <1>7. CASE IdleCheckFails(t)
    BY Zenon, <1>7, StepErrorMoves DEF IdleCheckFails
  <1>8. CASE StopContainer(t) \/ RemoveContainer(t)
    BY Zenon, <1>8, ContinueMoves, StepErrorMoves
       DEF StopContainer, RemoveContainer, EngineFails
  <1>9. CASE StopReturns(t) \/ SenderLost(t)
    BY ZenonT(60), <1>9, ReturnMoves DEF StopReturns, SenderLost, Finish, Elsewhere
  <1>10. CASE Terminated(t)
    <2>1. pc'[t] = "Save" /\ st'[t] = "Terminated" /\ OthersStay(t)
      BY Zenon, <1>10, GotoMoves DEF Terminated
    <2> QED BY <2>1 DEF Elsewhere
  <1>11. CASE PublishSaved(t)
    BY Zenon, <1>11, ReturnMoves, ContinueMoves, FirstPcElsewhere
       DEF PublishSaved, AfterPublish, Finish, Elsewhere
  <1> QED
    BY ZenonT(60), <1>1, <1>2, <1>3, <1>4, <1>5, <1>6, <1>7, <1>8, <1>9, <1>10, <1>11

\* What a step of a task leaves alone.
OthersUntouched(t) ==
    /\ OthersStay(t)
    /\ \A u \in Task \ {t} : chan'[u] = chan[u]
    /\ \A c \in Backend \ {BackendOf[t]} :
           /\ cont'[c] = cont[c] /\ late'[c] = late[c] /\ db'[c] = db[c]
           /\ c \in belated' <=> c \in belated
           /\ route[c] = None => route'[c] = None
    /\ dies \subseteq dies'
    /\ up' = up

\* Every step of a task makes at most one call of the engine.
EngineStep(t) ==
    \/ create_container(BackendOf[t])
    \/ start_container(BackendOf[t])
    \/ remove_container(BackendOf[t])
    \/ ContainerDies(BackendOf[t], TRUE)
    \/ GiveUp(t)
    \/ UNCHANGED engineVars

\* The calls of the engine are about one container.
LEMMA EngineTouches ==
    ASSUME TypeOK, NEW t \in Task, EngineStep(t)
    PROVE  /\ \A c \in Backend \ {BackendOf[t]} :
                  /\ cont'[c] = cont[c] /\ late'[c] = late[c]
                  /\ c \in belated' <=> c \in belated
           /\ dies \subseteq dies'
  BY Zenon, ExecutorAssumption DEF TypeOK, EngineTypeOK, EngineStep, create_container,
     start_container, ContainerStarts, remove_container, ContainerDies, GiveUp, engineVars, lateVars

\* Every step of a task makes such a call or none.
LEMMA TaskCalls ==
    ASSUME NEW t \in Task, Spawn(t) \/ TaskStep(t) \/ IdleExpires(t)
    PROVE  EngineStep(t)
  BY Zenon DEF TaskStep, Spawn, IdleExpires, InsertBackend, Announce,
     EnterRunBackend, PullImage, CreateContainer, StartContainer, LoadReturns,
     StatusWhenStarting, WaitPortReady, InsertProxyRoute, RouteReturns,
     StatusWhenReady, IdleCheckFails, StopContainer, RemoveContainer, StopReturns,
     Interrupted, Terminated, SenderLost, SaveState, PublishSaved, EngineFails,
     EngineStep, stop_container, engineVars

\* Signals are taken by their receiver only.
LEMMA SignalTouches ==
    ASSUME TypeOK, NEW t \in Task,
           \/ Finish(t) \/ StepError(t) \/ TakeSignal(t) \/ UNCHANGED chan
    PROVE  \A u \in Task \ {t} : chan'[u] = chan[u]
  BY Zenon DEF TypeOK, Finish, StepError, TakeSignal

\* Every step of a task leaves the other tasks and their backends alone.
LEMMA TaskTouches ==
    ASSUME TypeOK, NEW t \in Task, Spawn(t) \/ TaskStep(t) \/ IdleExpires(t)
    PROVE  OthersUntouched(t)
  <1> USE ExecutorAssumption
  <1> DEFINE b == BackendOf[t]
  <1>1. OthersStay(t)
    <2>1. CASE StatusWhenStarting(t)
      BY ZenonT(60), <2>1, AdvanceMoves, StepErrorMoves
         DEF StatusWhenStarting, EngineFails, TypeOK, OthersStay
    <2>2. CASE WaitPortReady(t) \/ InsertProxyRoute(t)
      BY Zenon, <2>2, GotoMoves, StepErrorMoves DEF WaitPortReady, InsertProxyRoute, Continue
    <2>3. CASE RouteReturns(t)
      BY Zenon, <2>3, GotoMoves DEF RouteReturns, Advance
    <2> QED BY Zenon, <2>1, <2>2, <2>3, TaskMoves DEF TaskStep
  <1>2. \A u \in Task \ {t} : chan'[u] = chan[u]
    <2>1. Finish(t) \/ StepError(t) \/ TakeSignal(t) \/ UNCHANGED chan
      BY Zenon DEF TaskStep, Spawn, IdleExpires, InsertBackend, Announce,
         EnterRunBackend, PullImage, CreateContainer, StartContainer, LoadReturns,
         StatusWhenStarting, WaitPortReady, InsertProxyRoute, RouteReturns,
         StatusWhenReady, IdleCheckFails, StopContainer, RemoveContainer, StopReturns,
         Interrupted, Terminated, SenderLost, SaveState, PublishSaved, Continue,
         Advance, EngineFails, AfterPublish
    <2> QED BY Zenon, <2>1, SignalTouches
  <1>3. /\ \A c \in Backend \ {b} : /\ cont'[c] = cont[c] /\ late'[c] = late[c]
                                    /\ c \in belated' <=> c \in belated
        /\ dies \subseteq dies'
    BY Zenon, TaskCalls, EngineTouches
  <1>4. \A c \in Backend \ {b} : db'[c] = db[c]
    <2>1. InsertBackend(t) \/ SaveState(t) \/ UNCHANGED db
      BY Zenon DEF TaskStep, Spawn, IdleExpires, Announce,
         EnterRunBackend, PullImage, CreateContainer, StartContainer, LoadReturns,
         StatusWhenStarting, WaitPortReady, InsertProxyRoute, RouteReturns,
         StatusWhenReady, IdleCheckFails, StopContainer, RemoveContainer, StopReturns,
         Interrupted, Terminated, SenderLost, PublishSaved
    <2> QED BY Zenon, <2>1 DEF InsertBackend, SaveState, TypeOK
  <1>5. \A c \in Backend \ {b} : route[c] = None => route'[c] = None
    <2>1. insert_proxy_route(b, seen[t]) \/ UNCHANGED route
      BY Zenon DEF TaskStep, Spawn, IdleExpires, InsertBackend, Announce,
         EnterRunBackend, PullImage, CreateContainer, StartContainer, LoadReturns,
         StatusWhenStarting, WaitPortReady, InsertProxyRoute, RouteReturns,
         StatusWhenReady, IdleCheckFails, StopContainer, RemoveContainer, StopReturns,
         Interrupted, Terminated, SenderLost, SaveState, PublishSaved
    <2> QED BY Zenon, <2>1 DEF insert_proxy_route
  <1>6. up' = up
    BY Zenon DEF TaskStep, Spawn, IdleExpires, InsertBackend, Announce,
       EnterRunBackend, PullImage, CreateContainer, StartContainer, LoadReturns,
       StatusWhenStarting, WaitPortReady, InsertProxyRoute, RouteReturns,
       StatusWhenReady, IdleCheckFails, StopContainer, RemoveContainer, StopReturns,
       Interrupted, Terminated, SenderLost, SaveState, PublishSaved
  <1> QED BY Zenon, <1>1, <1>2, <1>3, <1>4, <1>5, <1>6 DEF OthersUntouched

\* The row of a backend whose task is at an await, when writes do not fail.
LEMMA RowAgrees ==
    ASSUME "db" \notin Faults, TasksAreIndependent, NEW t \in Task
    PROVE  /\ pc[t] \in {"Pull", "Create", "Start", "Started"}
                  => db[BackendOf[t]] = "Loading"
           /\ pc[t] \in {"Port", "Route", "Routed"} => db[BackendOf[t]] = "Starting"
           /\ pc[t] = "Save" /\ st[t] = "Ready"
                  => db[BackendOf[t]] \in {"Starting", "Ready"}
  <1>1. StateAtPc(pc[t], st[t]) /\ RowAtPc(t)
    BY Zenon DEF TasksAreIndependent
  <1>2. pc[t] \in Pc \ {"Free", "Insert", "Save"} => db[BackendOf[t]] = st[t]
    BY Zenon, <1>1 DEF RowAtPc
  <1>3. pc[t] \in {"Pull", "Create", "Start", "Started"} => db[BackendOf[t]] = "Loading"
    BY <1>1, <1>2 DEF StateAtPc, Pc, StepPc
  <1>4. pc[t] \in {"Port", "Route", "Routed"} => db[BackendOf[t]] = "Starting"
    BY <1>1, <1>2 DEF StateAtPc, Pc, StepPc
  <1>5. ASSUME pc[t] = "Save", st[t] = "Ready"
        PROVE  db[BackendOf[t]] \in {"Starting", "Ready"}
    <2>1. db[BackendOf[t]] = "Ready" \/ "Ready" \in Lifecycle!Successor(db[BackendOf[t]])
      BY Zenon, <1>1, <1>5 DEF RowAtPc, Lifecycle!Reach
    <2> QED BY <2>1 DEF Lifecycle!Successor
  <1> QED BY <1>3, <1>4, <1>5

\* Nothing relies on a route of b.
NotRouted(b) == route[b] = None /\ db[b] \notin {NoState, "Starting", "Ready"}

\* A container starts to run only while nothing relies on a route of it, keeps its
\* address while it runs, and is created only when it has a row.
EngineFollowsRow ==
    /\ \A c \in Backend : cont'[c] = "Running" =>
           (cont[c] = "Running" /\ addr'[c] = addr[c]) \/ NotRouted(c)
    /\ \A c \in Backend : cont[c] = "Absent" => cont'[c] = "Absent" \/ db[c] # NoState

\* The route of a backend survives what happens to containers.
LEMMA RoutedStays ==
    ASSUME TypeOK, RouteInv, EngineFollowsRow, route' = route,
           NEW b \in Backend, Routed(b), db[b] \in {"Starting", "Ready"}
    PROVE  Routed(b)'
  <1> SUFFICES ASSUME cont'[b] = "Running"
               PROVE  \E c \in Backend : route'[c] = addr'[b] /\ (c = b \/ cont'[c] # "Running")
    BY Zenon DEF Routed
  <1>1. cont[b] = "Running" /\ addr'[b] = addr[b]
    BY Zenon DEF EngineFollowsRow, NotRouted
  <1>2. addr[b] # None
    BY Zenon, <1>1 DEF RouteInv, AddressesAreHeld
  <1>3. PICK c \in Backend : route[c] = addr[b] /\ (c = b \/ cont[c] # "Running")
    BY Zenon, <1>1 DEF Routed
  <1>4. c # b => cont'[c] # "Running"
    BY Zenon, <1>2, <1>3 DEF EngineFollowsRow, NotRouted
  <1> QED BY Zenon, <1>1, <1>3, <1>4

\* A step that changes containers and tasks only.
LEMMA EngineKeepsRoutes ==
    ASSUME "db" \notin Faults, TypeOK, TasksAreIndependent, RouteInv,
           AddressesAreHeld', EngineFollowsRow, UNCHANGED <<route, db>>,
           \A u \in Task : \/ Elsewhere(u)'
                           \/ pc'[u] = pc[u] /\ st'[u] = st[u] /\ seen'[u] = seen[u]
    PROVE  RouteInv'
  <1> USE ExecutorAssumption
  <1>1. ASSUME NEW b \in Backend PROVE RowIsFirst(b)'
    <2>1. RowIsFirst(b)
      BY Zenon DEF RouteInv
    <2> QED BY Zenon, <2>1 DEF RowIsFirst, EngineFollowsRow, NotRouted
  <1>2. ASSUME NEW b \in Backend, db'[b] = "Ready" PROVE Routed(b)'
    BY SMTT(60), <1>2, RoutedStays DEF RouteInv
  <1>3. ASSUME NEW t \in Task PROVE CapturedAtPc(t)' /\ InsertedAtPc(t)'
    <2>1. CASE Elsewhere(t)'
      BY ZenonT(60), <2>1 DEF Elsewhere, CapturedAtPc, InsertedAtPc
    <2>2. CASE pc'[t] = pc[t] /\ st'[t] = st[t] /\ seen'[t] = seen[t]
      <3>1. BackendOf[t] \in Backend /\ CapturedAtPc(t) /\ InsertedAtPc(t)
        BY ZenonT(60) DEF RouteInv
      <3>2. pc[t] \in {"Port", "Route", "Routed"} => db[BackendOf[t]] = "Starting"
        BY Zenon, RowAgrees
      <3>3. pc[t] = "Save" /\ st[t] = "Ready" => db[BackendOf[t]] \in {"Starting", "Ready"}
        BY Zenon, RowAgrees
      <3>4. CapturedAtPc(t)'
        BY Zenon, <2>2, <3>1, <3>2 DEF CapturedAtPc, EngineFollowsRow, NotRouted
      <3>5. InsertedAtPc(t)'
        BY Zenon, <2>2, <3>1, <3>2, <3>3, RoutedStays DEF InsertedAtPc
      <3> QED BY <3>4, <3>5
    <2> QED BY <2>1, <2>2
  <1> QED BY Zenon, <1>1, <1>2, <1>3 DEF RouteInv

\* A row only ever leaves "no row" for Loading, and never comes back to Loading;
\* it becomes Ready only after the insert.
RowsMoveOn ==
    \A b \in Backend :
        \/ db'[b] = db[b]
        \/ db[b] = NoState /\ db'[b] = "Loading"
        \/ db'[b] \notin {NoState, "Loading"} /\ (db'[b] = "Ready" => Routed(b))

\* A step that changes rows and tasks only.
LEMMA RowsKeepRoutes ==
    ASSUME TypeOK, RouteInv, RowsMoveOn, UNCHANGED <<cont, addr, route>>,
           \A u \in Task : \/ CapturedAtPc(u)' /\ InsertedAtPc(u)'
                           \/ pc'[u] = pc[u] /\ st'[u] = st[u] /\ seen'[u] = seen[u]
    PROVE  RouteInv'
  <1> USE ExecutorAssumption
  <1>0. ASSUME NEW b \in Backend PROVE Routed(b)' <=> Routed(b)
    BY Zenon DEF Routed
  <1>1. AddressesAreHeld'
    BY Zenon DEF RouteInv, AddressesAreHeld
  <1>2. ASSUME NEW b \in Backend PROVE RowIsFirst(b)'
    BY Zenon DEF RouteInv, RowIsFirst, RowsMoveOn
  <1>3. ASSUME NEW b \in Backend, db'[b] = "Ready" PROVE Routed(b)'
    <2>1. "Ready" # "Loading"
      BY SMTT(60)
    <2> QED BY Zenon, <1>0, <1>3, <2>1 DEF RouteInv, RowsMoveOn
  <1>4. ASSUME NEW t \in Task PROVE CapturedAtPc(t)' /\ InsertedAtPc(t)'
    <2>1. CASE pc'[t] = pc[t] /\ st'[t] = st[t] /\ seen'[t] = seen[t]
      BY Zenon, <1>0, <2>1 DEF RouteInv, CapturedAtPc, InsertedAtPc
    <2> QED BY <2>1
  <1> QED BY Zenon, <1>1, <1>2, <1>3, <1>4 DEF RouteInv

\* The insert of a route.
LEMMA InsertKeepsRoutes ==
    ASSUME "db" \notin Faults, TypeOK, TasksAreIndependent, RouteInv,
           NEW t \in Task, pc[t] = "Route",
           insert_proxy_route(BackendOf[t], seen[t]),
           pc'[t] = "Routed", OthersStay(t), UNCHANGED <<cont, addr, db>>
    PROVE  RouteInv'
  <1> USE ExecutorAssumption
  <1> DEFINE b == BackendOf[t]
             a == seen[t]
  <1>1. /\ b \in Backend /\ a # None
        /\ cont[b] = "Running" => a = addr[b]
        /\ route[b] \in {None, a}
        /\ db[b] = "Starting"
    BY Zenon, RowAgrees DEF RouteInv, CapturedAtPc
  <1>2. /\ route'[b] = a
        /\ \A c \in Backend \ {b} : route'[c] = IF route[c] = a THEN None ELSE route[c]
    BY Zenon, <1>1 DEF insert_proxy_route
  <1> HIDE DEF a, b
  <1>3. AddressesAreHeld'
    BY ZenonT(60) DEF RouteInv, AddressesAreHeld
  <1>4. ASSUME NEW c \in Backend PROVE RowIsFirst(c)'
    <2>1. RowIsFirst(c)
      BY Zenon DEF RouteInv
    <2>2. CASE c = b
      <3>1. db[b] \notin {NoState, "Loading"}
        BY <1>1 DEF NoState
      <3> QED BY ZenonT(60), <1>1, <1>2, <2>2, <3>1 DEF RowIsFirst
    <2>3. CASE c # b
      BY ZenonT(60), <1>2, <2>1, <2>3 DEF RowIsFirst
    <2> QED BY <2>2, <2>3
  <1>5. ASSUME NEW c \in Backend, Routed(c) PROVE Routed(c)'
    <2> SUFFICES ASSUME cont[c] = "Running"
                 PROVE  \E d \in Backend : route'[d] = addr[c] /\ (d = c \/ cont[d] # "Running")
      BY Zenon DEF Routed
    <2>1. CASE addr[c] = a
      BY ZenonT(60), <1>1, <1>2, <2>1 DEF RouteInv, AddressesAreHeld
    <2>2. CASE addr[c] # a
      <3>1. PICK d \in Backend : route[d] = addr[c] /\ (d = c \/ cont[d] # "Running")
        BY Zenon, <1>5 DEF Routed
      <3>2. addr[c] # None
        BY Zenon DEF RouteInv, AddressesAreHeld
      <3>3. d # b
        BY Zenon, <1>1, <2>2, <3>1, <3>2
      <3> QED BY Zenon, <1>2, <2>2, <3>1, <3>3
    <2> QED BY <2>1, <2>2
  <1>6. Routed(b)'
    BY Zenon, <1>1, <1>2 DEF Routed
  <1>7. ASSUME NEW u \in Task PROVE CapturedAtPc(u)' /\ InsertedAtPc(u)'
    <2>1. CASE u = t
      <3>1. pc'[u] \notin {"Port", "Route"}
        BY SMTT(60), <2>1
      <3> QED BY ZenonT(60), <1>6, <2>1, <3>1 DEF CapturedAtPc, InsertedAtPc, b
    <2>2. CASE u # t
      <3>1. pc'[u] = pc[u] /\ st'[u] = st[u] /\ seen'[u] = seen[u] /\ BackendOf[u] \in Backend
        BY Zenon, <2>2 DEF OthersStay
      <3>2. CapturedAtPc(u) /\ InsertedAtPc(u)
        BY Zenon DEF RouteInv
      <3>3. InsertedAtPc(u)'
        BY Zenon, <1>5, <3>1, <3>2 DEF InsertedAtPc
      <3>4. CapturedAtPc(u)'
        <4>1. pc[u] \in {"Port", "Route"} => BackendOf[u] # b
          BY SMTT(60), <2>2 DEF TasksAreIndependent, Live, b
        <4> QED BY ZenonT(60), <1>2, <3>1, <3>2, <4>1 DEF CapturedAtPc
      <3> QED BY <3>3, <3>4
    <2> QED BY <2>1, <2>2
  <1> QED BY Zenon, <1>3, <1>4, <1>5, <1>7 DEF RouteInv

\* Docker's bookkeeping of the addresses, for every call of the engine.
LEMMA AddressesNext ==
    ASSUME TypeOK, AddressesAreHeld, NEW b \in Backend,
           \/ create_container(b) \/ start_container(b) \/ remove_container(b)
           \/ ContainerDies(b, TRUE) \/ ContainerDies(b, up)
           \/ LateCall(b) \/ UNCHANGED <<cont, addr>>
    PROVE  AddressesAreHeld'
  <1> USE ExecutorAssumption DEF TypeOK, EngineTypeOK
  <1>0. ASSUME addr' = addr, cont' \in {[cont EXCEPT ![b] = "Created"],
                                        [cont EXCEPT ![b] = "Absent"], cont}
        PROVE  AddressesAreHeld'
    <2>1. \A c \in Backend : cont'[c] = "Running" => cont[c] = "Running"
      BY SMTT(60), <1>0
    <2> QED BY Zenon, <1>0, <2>1 DEF AddressesAreHeld
  <1>1. CASE create_container(b)
    BY ZenonT(60), <1>0, <1>1 DEF create_container
  <1>2. ASSUME ContainerStarts(b) PROVE AddressesAreHeld'
    <2>1. PICK a \in Addr : /\ \A c \in Backend : addr[c] # a
                           /\ addr' = [addr EXCEPT ![b] = a]
      BY Zenon, <1>2 DEF ContainerStarts
    <2>2. cont' = [cont EXCEPT ![b] = "Running"] /\ a # None
      BY ZenonT(60), <1>2 DEF ContainerStarts
    <2> QED BY <2>1, <2>2 DEF AddressesAreHeld
  <1>3. CASE remove_container(b)
    BY ZenonT(60), <1>0, <1>3 DEF remove_container
  <1>4. CASE ContainerDies(b, TRUE) \/ ContainerDies(b, up)
    <2>1. PICK s \in Stopped : cont' = [cont EXCEPT ![b] = s]
      BY ZenonT(60), <1>4 DEF ContainerDies
    <2>2. addr' = [addr EXCEPT ![b] = None] /\ s # "Running"
      BY <1>4 DEF ContainerDies, Stopped
    <2> QED BY <2>1, <2>2 DEF AddressesAreHeld
  <1>5. CASE LateCall(b)
    BY Zenon, <1>0, <1>2, <1>5 DEF LateCall, LateCreate, LateStart, LateRemove
  <1>6. CASE UNCHANGED <<cont, addr>>
    BY Zenon, <1>0, <1>6
  <1> QED BY Zenon, <1>1, <1>2, <1>3, <1>4, <1>5, <1>6 DEF start_container

\* Every call of the engine leaves running containers their addresses; load()
\* creates or starts one only while loading, and so it is for late calls.
LEMMA EngineCalls ==
    ASSUME TypeOK, RouteInv, LateInv, NEW b \in Backend,
           \/ (create_container(b) \/ start_container(b)) /\ db[b] = "Loading"
           \/ remove_container(b)
           \/ ContainerDies(b, TRUE) \/ ContainerDies(b, up)
           \/ LateCall(b) \/ UNCHANGED <<cont, addr>>
    PROVE  EngineFollowsRow
  <1> USE DEF TypeOK, EngineTypeOK
  <1>0. ASSUME addr' = addr,
               \/ cont' = [cont EXCEPT ![b] = "Created"] /\ db[b] # NoState
               \/ cont' \in {[cont EXCEPT ![b] = "Absent"], cont}
        PROVE  EngineFollowsRow
    <2>1. \A c \in Backend : cont'[c] = "Running" => cont[c] = "Running"
      BY SMTT(60), <1>0
    <2>2. \A c \in Backend : cont[c] = "Absent" => cont'[c] = "Absent" \/ db[c] # NoState
      BY SMTT(60), <1>0
    <2> QED BY ZenonT(60), <1>0, <2>1, <2>2 DEF EngineFollowsRow
  <1>1. ASSUME ContainerStarts(b), NotRouted(b) PROVE EngineFollowsRow
    BY Zenon, <1>1 DEF ContainerStarts, NotRouted, EngineFollowsRow
  <1>2. CASE (create_container(b) \/ start_container(b)) /\ db[b] = "Loading"
    <2>1. db[b] \notin {NoState, "Starting", "Ready"} /\ route[b] = None
      <3>1. db[b] \notin {NoState, "Starting", "Ready"}
        BY SMTT(60), <1>2 DEF NoState
      <3> QED BY Zenon, <1>2, <3>1 DEF RouteInv, RowIsFirst
    <2> QED
      BY Zenon, <1>0, <1>1, <1>2, <2>1 DEF create_container, start_container, NotRouted
  <1>3. CASE ContainerDies(b, TRUE) \/ ContainerDies(b, up)
    <2>1. PICK s \in Stopped : cont' = [cont EXCEPT ![b] = s]
      BY ZenonT(60), <1>3 DEF ContainerDies
    <2>2. addr' = [addr EXCEPT ![b] = None] /\ s # "Running" /\ cont[b] = "Running"
      BY <1>3 DEF ContainerDies, Stopped
    <2> QED BY <2>1, <2>2 DEF EngineFollowsRow
  <1>4. CASE LateCreate(b)
    <2>1. db[b] # NoState
      BY Zenon, <1>4 DEF LateCreate, LateInv, LateOK
    <2> QED BY Zenon, <1>0, <1>4, <2>1 DEF LateCreate
  <1>5. CASE LateStart(b)
    <2>1. route[b] = None /\ db[b] \in LateStates
      BY ZenonT(60), <1>5 DEF LateStart, LateInv, LateOK
    <2>2. NotRouted(b)
      BY <2>1 DEF NotRouted, LateStates, NoState
    <2> QED BY Zenon, <1>1, <1>5, <2>2 DEF LateStart
  <1>6. CASE remove_container(b) \/ LateRemove(b) \/ UNCHANGED <<cont, addr>>
    BY Zenon, <1>0, <1>6 DEF remove_container, LateRemove
  <1> QED BY Zenon, <1>2, <1>3, <1>4, <1>5, <1>6 DEF LateCall

\* Steps of a task that leave the tables alone, but those around the insert.
LEMMA RouteStepping ==
    ASSUME "db" \notin Faults, TypeOK, TasksAreIndependent, RouteInv, LateInv,
           NEW t \in Task,
           \/ Spawn(t) \/ Announce(t) \/ EnterRunBackend(t)
           \/ PullImage(t) \/ CreateContainer(t) \/ StartContainer(t) \/ LoadReturns(t)
           \/ StatusWhenReady(t) \/ IdleExpires(t) \/ IdleCheckFails(t)
           \/ StopContainer(t) \/ RemoveContainer(t) \/ StopReturns(t)
           \/ Interrupted(t) \/ Terminated(t) \/ SenderLost(t) \/ PublishSaved(t)
    PROVE  RouteInv'
  <1> USE ExecutorAssumption
  <1> DEFINE b == BackendOf[t]
  <1>1. b \in Backend /\ Elsewhere(t)' /\ OthersStay(t)
    BY Zenon, TaskMoves
  <1>2. UNCHANGED <<route, db>>
    BY Zenon DEF Spawn, Announce, EnterRunBackend, PullImage, CreateContainer,
       StartContainer, LoadReturns, StatusWhenReady, IdleExpires, IdleCheckFails,
       StopContainer, RemoveContainer, StopReturns, Interrupted, Terminated,
       SenderLost, PublishSaved
  <1>3. \/ create_container(b) /\ pc[t] = "Create"
        \/ start_container(b) /\ pc[t] = "Start"
        \/ remove_container(b)
        \/ ContainerDies(b, TRUE)
        \/ UNCHANGED <<cont, addr>>
    BY ZenonT(60) DEF Spawn, Announce, EnterRunBackend, PullImage, CreateContainer,
       StartContainer, LoadReturns, StatusWhenReady, IdleExpires, IdleCheckFails,
       StopContainer, RemoveContainer, StopReturns, Interrupted, Terminated,
       SenderLost, PublishSaved, AtStep, EngineFails, GiveUp, stop_container,
       engineVars
  <1>4. AddressesAreHeld'
    BY Zenon, <1>1, <1>3, AddressesNext DEF RouteInv
  <1>5. pc[t] \in {"Create", "Start"} => db[b] = "Loading"
    BY Zenon, RowAgrees
  <1> HIDE DEF b
  <1>6. EngineFollowsRow
    BY Zenon, <1>1, <1>3, <1>5, EngineCalls
  <1>7. \A u \in Task : \/ Elsewhere(u)'
                        \/ pc'[u] = pc[u] /\ st'[u] = st[u] /\ seen'[u] = seen[u]
    BY Zenon, <1>1 DEF OthersStay
  <1> QED BY Zenon, <1>2, <1>4, <1>6, <1>7, EngineKeepsRoutes

\* The steps around the insert: the address is captured, the port answers, the
\* route is written, and the state Ready is next.
LEMMA RouteInserting ==
    ASSUME "db" \notin Faults, TypeOK, TasksAreIndependent, RouteInv, NEW t \in Task,
           \/ StatusWhenStarting(t) \/ WaitPortReady(t) \/ InsertProxyRoute(t)
           \/ RouteReturns(t)
    PROVE  RouteInv'
  <1> USE ExecutorAssumption
  <1> DEFINE b == BackendOf[t]
  <1>0. b \in Backend
    OBVIOUS
  <1>1. ASSUME UNCHANGED <<cont, addr, route, db>>, OthersStay(t),
               CapturedAtPc(t)' /\ InsertedAtPc(t)'
        PROVE  RouteInv'
    <2>1. RowsMoveOn
      BY Zenon, <1>1 DEF RowsMoveOn
    <2> QED BY Zenon, <1>1, <2>1, RowsKeepRoutes DEF OthersStay
  <1>2. ASSUME Elsewhere(t)' PROVE CapturedAtPc(t)' /\ InsertedAtPc(t)'
    BY Zenon, <1>2 DEF Elsewhere, CapturedAtPc, InsertedAtPc
  <1>3. CASE StatusWhenStarting(t)
    <2>1. UNCHANGED <<cont, addr, route, db>>
      BY ZenonT(60), <1>3 DEF StatusWhenStarting
    <2>2. CASE /\ backend_status(cont[b]) = "Running"
               /\ pc' = [pc EXCEPT ![t] = "Port"]
               /\ seen' = [seen EXCEPT ![t] = addr[b]]
               /\ UNCHANGED st
      <3>1. cont[b] = "Running"
        BY <1>0, <2>2 DEF backend_status, TypeOK, EngineTypeOK, ContainerState, Stopped
      <3>2. pc'[t] = "Port" /\ seen'[t] = addr[b] /\ OthersStay(t)
        BY Zenon, <2>2 DEF TypeOK, OthersStay
      <3>3. addr[b] # None /\ route[b] \in {None, addr[b]}
        BY Zenon, <1>0, <3>1 DEF RouteInv, AddressesAreHeld, RowIsFirst
      <3>4. CapturedAtPc(t)'
        BY Zenon, <2>1, <3>2, <3>3 DEF CapturedAtPc
      <3>5. InsertedAtPc(t)'
        BY <3>2 DEF InsertedAtPc
      <3> QED BY Zenon, <1>1, <2>1, <3>2, <3>4, <3>5
    <2>3. CASE Advance(t, "ErrorStarting")
      <3>1. Elsewhere(t)' /\ OthersStay(t)
        BY <2>3, AdvanceMoves
      <3> QED BY <1>1, <1>2, <2>1, <3>1
    <2>4. CASE StepError(t)
      <3>1. Elsewhere(t)' /\ OthersStay(t)
        BY <2>4, StepErrorMoves
      <3> QED BY <1>1, <1>2, <2>1, <3>1
    <2> QED BY Zenon, <1>3, <2>2, <2>3, <2>4 DEF StatusWhenStarting, EngineFails
  <1>4. CASE WaitPortReady(t)
    <2>1. UNCHANGED <<cont, addr, route, db>> /\ pc[t] = "Port"
      BY ZenonT(60), <1>4 DEF WaitPortReady, AtStep
    <2>2. CASE Continue(t, "Route")
      <3>1. pc'[t] = "Route" /\ seen' = seen /\ OthersStay(t)
        BY Zenon, <2>2, GotoMoves DEF Continue, Goto
      <3>2. CapturedAtPc(t)
        BY Zenon DEF RouteInv
      <3>3. CapturedAtPc(t)'
        BY ZenonT(60), <2>1, <3>1, <3>2 DEF CapturedAtPc
      <3>4. InsertedAtPc(t)'
        BY <3>1 DEF InsertedAtPc
      <3> QED BY <1>1, <2>1, <3>1, <3>3, <3>4
    <2>3. CASE StepError(t)
      <3>1. Elsewhere(t)' /\ OthersStay(t)
        BY <2>3, StepErrorMoves
      <3> QED BY SMTT(60), <1>1, <1>2, <2>1, <3>1
    <2> QED BY Zenon, <1>4, <2>2, <2>3 DEF WaitPortReady
  <1>5. CASE InsertProxyRoute(t)
    <2>1. /\ UNCHANGED <<cont, addr, db>> /\ pc[t] = "Route"
          /\ insert_proxy_route(b, seen[t]) /\ Continue(t, "Routed")
      BY Zenon, <1>5 DEF InsertProxyRoute, AtStep
    <2>2. pc'[t] = "Routed" /\ OthersStay(t)
      BY ZenonT(60), <2>1, GotoMoves DEF Continue
    <2> QED BY <2>1, <2>2, InsertKeepsRoutes
  <1>6. CASE RouteReturns(t)
    <2>1. UNCHANGED <<cont, addr, route, db>> /\ pc[t] = "Routed" /\ Advance(t, "Ready")
      BY ZenonT(60), <1>6 DEF RouteReturns, AtStep
    <2>2. pc'[t] = "Save" /\ OthersStay(t)
      BY <2>1, GotoMoves DEF Advance
    <2>3. Routed(b)
      BY Zenon, <2>1 DEF RouteInv, InsertedAtPc
    <2>4. Routed(b)'
      BY ZenonT(60), <2>1, <2>3 DEF Routed
    <2>5. CapturedAtPc(t)'
      BY <2>2 DEF CapturedAtPc
    <2>6. InsertedAtPc(t)'
      BY Zenon, <2>4 DEF InsertedAtPc
    <2> QED BY <1>1, <2>1, <2>2, <2>5, <2>6
  <1> QED BY <1>3, <1>4, <1>5, <1>6

\* The two writes of the backend table.
LEMMA RouteSaving ==
    ASSUME "db" \notin Faults, TypeOK, TasksAreIndependent, RouteInv, NEW t \in Task,
           InsertBackend(t) \/ SaveState(t)
    PROVE  RouteInv'
  <1> USE ExecutorAssumption
  <1> DEFINE b == BackendOf[t]
  <1>1. b \in Backend /\ Elsewhere(t)' /\ OthersStay(t)
    BY Zenon, TaskMoves
  <1>2. UNCHANGED <<cont, addr, route>>
    BY Zenon DEF InsertBackend, SaveState
  <1>3. RowsMoveOn
    <2>1. CASE InsertBackend(t)
      <3>1. db' = [db EXCEPT ![b] = IF @ = NoState THEN "Loading" ELSE @]
        BY Zenon, <2>1 DEF InsertBackend
      <3> QED BY Zenon, <1>1, <3>1 DEF TypeOK, RowsMoveOn
    <2>2. CASE SaveState(t)
      <3>1. /\ pc[t] = "Save"
            /\ db' = [db EXCEPT ![b] = IF @ = NoState THEN @ ELSE st[t]]
        BY Zenon, <2>2 DEF SaveState
      <3>2. st[t] = "Ready" => Routed(b)
        BY Zenon, <3>1 DEF RouteInv, InsertedAtPc
      <3>3. st[t] = db[b] \/ st[t] \in Lifecycle!Successor(db[b])
        BY Zenon, <3>1 DEF TasksAreIndependent, RowAtPc, Lifecycle!Reach
      <3>4. st[t] = db[b] \/ st[t] \notin {NoState, "Loading"}
        BY <3>3 DEF Lifecycle!Successor, NoState
      <3> QED BY Zenon, <1>1, <3>1, <3>2, <3>4 DEF TypeOK, RowsMoveOn
    <2> QED BY <2>1, <2>2
  <1>4. CapturedAtPc(t)' /\ InsertedAtPc(t)'
    BY Zenon, <1>1 DEF Elsewhere, CapturedAtPc, InsertedAtPc
  <1> QED BY Zenon, <1>1, <1>2, <1>3, <1>4, RowsKeepRoutes DEF OthersStay

-----------------------------------------------------------------------------
(* Calls that Docker may carry out late.                                     *)

\* A step that starts over, or one that failed, has left load() or is at its
\* beginning.
LEMMA StepErrorLate ==
    ASSUME TypeOK, NEW t \in Task, StepError(t)
    PROVE  LateAtPc(t)'
  <1>1. CASE st[t] = "Loading"
    <2>1. pc'[t] = "Save" /\ st'[t] = "ErrorLoading"
      BY Zenon, <1>1, GotoMoves DEF StepError
    <2> QED BY <2>1 DEF LateAtPc, LateStates
  <1>2. CASE st[t] # "Loading"
    <2>1. pc'[t] = "Free"
      BY Zenon, <1>2, ReturnMoves DEF StepError, Finish
    <2> QED BY <2>1 DEF LateAtPc
  <1> QED BY Zenon, <1>1, <1>2

\* The same for the next await, unless it is a later one of load().
LEMMA AwaitLate ==
    ASSUME NEW t \in Task, pc'[t] \notin {"Start", "Started", "Save"}
    PROVE  LateAtPc(t)'
  BY Zenon DEF LateAtPc

\* A step that starts over is at none of the awaits after the create.
LEMMA FirstPcLate ==
    ASSUME NEW s PROVE FirstPc(s) \notin {"Start", "Started", "Save"}
  BY DEF FirstPc

\* The task of a backend that was left a start does not come to start it.
LEMMA StepIsLate ==
    ASSUME "db" \notin Faults, TypeOK, TasksAreIndependent, NEW t \in Task,
           Spawn(t) \/ TaskStep(t) \/ IdleExpires(t),
           LateAtPc(t), cont[BackendOf[t]] # "Absent", db[BackendOf[t]] \in LateStates
    PROVE  LateAtPc(t)'
  <1>0. StateAtPc(pc[t], st[t]) /\ RowAtPc(t)
    BY Zenon DEF TasksAreIndependent
  <1>1. ASSUME pc[t] \in StepPc, st[t] \in {"Starting", "Ready"} PROVE FALSE
    <2>1. db[BackendOf[t]] = st[t]
      BY Zenon, <1>0, <1>1 DEF RowAtPc, Pc, StepPc
    <2> QED BY <1>1, <2>1 DEF LateStates
  <1>2. ASSUME \/ StatusWhenStarting(t) \/ WaitPortReady(t) \/ InsertProxyRoute(t)
               \/ RouteReturns(t) \/ StatusWhenReady(t) \/ IdleExpires(t)
               \/ IdleCheckFails(t)
        PROVE  FALSE
    <2>1. pc[t] \in {"Status", "Port", "Route", "Routed", "Idle"}
      BY Zenon, <1>2 DEF StatusWhenStarting, WaitPortReady, InsertProxyRoute,
         RouteReturns, StatusWhenReady, IdleExpires, IdleCheckFails, AtStep
    <2>2. pc[t] \in StepPc /\ st[t] \in {"Starting", "Ready"}
      BY <1>0, <2>1 DEF StateAtPc, StepPc, running
    <2> QED BY Zenon, <1>1, <2>2
  <1>3. ASSUME StartContainer(t) \/ LoadReturns(t) PROVE FALSE
    BY Zenon, <1>3 DEF StartContainer, LoadReturns, AtStep, LateAtPc
  <1>4. CASE Spawn(t) \/ InsertBackend(t) \/ Announce(t) \/ SaveState(t)
    <2>1. pc'[t] \in {"Insert", "Announce", "Pull", "Publish"}
      BY Zenon, <1>4, GotoMoves DEF Spawn, InsertBackend, Announce, SaveState, Continue
    <2>2. pc'[t] \notin {"Start", "Started", "Save"}
      BY <2>1
    <2> QED BY Zenon, <2>2, AwaitLate
  <1>5. CASE EnterRunBackend(t) \/ Interrupted(t)
    <2>1. pc'[t] = FirstPc(st[t])
      BY Zenon, <1>5, GotoMoves DEF EnterRunBackend, Interrupted
    <2> QED BY Zenon, <2>1, FirstPcLate, AwaitLate
  <1>6. CASE \/ PullImage(t) \/ CreateContainer(t)
             \/ StopContainer(t) \/ RemoveContainer(t)
    <2>1. ASSUME NEW p \in {"Create", "Remove", "Removed"}, Continue(t, p)
          PROVE  LateAtPc(t)'
      <3>1. pc'[t] = p
        BY Zenon, <2>1, GotoMoves DEF Continue
      <3>2. pc'[t] \notin {"Start", "Started", "Save"}
        BY <2>1, <3>1
      <3> QED BY Zenon, <3>2, AwaitLate
    <2> QED
      BY Zenon, <1>6, <2>1, StepErrorLate DEF PullImage, CreateContainer,
         create_container, StopContainer, RemoveContainer, EngineFails
  <1>7. CASE StopReturns(t) \/ SenderLost(t)
    <2>1. pc'[t] = "Free"
      BY Zenon, <1>7, ReturnMoves DEF StopReturns, SenderLost, Finish
    <2>2. pc'[t] \notin {"Start", "Started", "Save"}
      BY <2>1
    <2> QED BY Zenon, <2>2, AwaitLate
  <1>8. CASE Terminated(t)
    <2>1. pc'[t] = "Save" /\ st'[t] = "Terminated"
      BY Zenon, <1>8, GotoMoves DEF Terminated
    <2> QED BY <2>1 DEF LateAtPc, LateStates
  <1>9. CASE PublishSaved(t)
    <2>1. pc'[t] \in {FirstPc(st[t]), "Free"}
      BY Zenon, <1>9, GotoMoves, ReturnMoves DEF PublishSaved, AfterPublish, Continue, Finish
    <2>2. "Free" \notin {"Start", "Started", "Save"}
      OBVIOUS
    <2>3. pc'[t] \notin {"Start", "Started", "Save"}
      BY Zenon, <2>1, <2>2, FirstPcLate
    <2> QED BY Zenon, <2>3, AwaitLate
  <1> QED
    BY Zenon, <1>2, <1>3, <1>4, <1>5, <1>6, <1>7, <1>8, <1>9 DEF TaskStep

\* A task that has a call at Docker has a row; if it is the start of a container,
\* no route leads to it.
LEMMA OutstandingHasRow ==
    ASSUME "db" \notin Faults, TasksAreIndependent, RouteInv, NEW t \in Task
    PROVE  /\ Outstanding(t) # {} => db[BackendOf[t]] # NoState
           /\ "start" \in Outstanding(t) =>
                  /\ pc[t] = "Start" /\ st[t] = "Loading"
                  /\ cont[BackendOf[t]] = "Created" /\ route[BackendOf[t]] = None
                  /\ db[BackendOf[t]] \in LateStates
  <1>1. StateAtPc(pc[t], st[t]) /\ RowAtPc(t) /\ RowIsFirst(BackendOf[t])
    BY Zenon, ExecutorAssumption DEF TasksAreIndependent, RouteInv
  <1>2. ASSUME pc[t] \in {"Create", "Start"}
        PROVE  st[t] = "Loading" /\ db[BackendOf[t]] = "Loading"
    BY Zenon, <1>1, <1>2, RowAgrees DEF StateAtPc
  <1>3. ASSUME pc[t] = "Remove" PROVE terminal(st[t]) /\ db[BackendOf[t]] = st[t]
    BY Zenon, <1>1, <1>3 DEF StateAtPc, RowAtPc, Pc, StepPc
  <1>4. ASSUME Outstanding(t) # {} PROVE db[BackendOf[t]] # NoState
    <2>1. pc[t] \in {"Create", "Start", "Remove"}
      BY <1>4 DEF Outstanding
    <2> QED BY SMTT(60), <1>2, <1>3, <2>1 DEF NoState, terminal
  <1>5. ASSUME "start" \in Outstanding(t)
        PROVE  pc[t] = "Start" /\ cont[BackendOf[t]] = "Created"
    BY <1>5 DEF Outstanding
  <1>6. ASSUME "start" \in Outstanding(t)
        PROVE  route[BackendOf[t]] = None /\ db[BackendOf[t]] \in LateStates
    BY Zenon, <1>1, <1>2, <1>5, <1>6 DEF RowIsFirst, LateStates
  <1> QED BY Zenon, <1>2, <1>4, <1>5, <1>6

\* A row stays a row.
LEMMA RowStays ==
    ASSUME "db" \notin Faults, TypeOK, TasksAreIndependent, NEW t \in Task,
           Spawn(t) \/ TaskStep(t) \/ IdleExpires(t)
    PROVE  /\ db[BackendOf[t]] # NoState => db'[BackendOf[t]] # NoState
           /\ db[BackendOf[t]] \in LateStates /\ LateAtPc(t)
                  => db'[BackendOf[t]] \in LateStates
  <1> USE ExecutorAssumption
  <1>1. InsertBackend(t) \/ SaveState(t) \/ UNCHANGED db
    BY Zenon DEF TaskStep, Spawn, IdleExpires, Announce,
       EnterRunBackend, PullImage, CreateContainer, StartContainer, LoadReturns,
       StatusWhenStarting, WaitPortReady, InsertProxyRoute, RouteReturns,
       StatusWhenReady, IdleCheckFails, StopContainer, RemoveContainer, StopReturns,
       Interrupted, Terminated, SenderLost, PublishSaved
  <1>2. CASE InsertBackend(t)
    <2>1. db' \in {db, [db EXCEPT ![BackendOf[t]] = IF @ = NoState THEN "Loading" ELSE @]}
      BY Zenon, <1>2 DEF InsertBackend
    <2>2. db[BackendOf[t]] # NoState => db'[BackendOf[t]] = db[BackendOf[t]]
      BY Zenon, <2>1 DEF TypeOK
    <2>3. NoState \notin LateStates
      BY DEF NoState, LateStates
    <2> QED BY Zenon, <2>2, <2>3
  <1>3. CASE SaveState(t)
    <2>1. st[t] # NoState
      BY DEF TypeOK, BackendStates, NoState
    <2> QED BY Zenon, <1>3, <2>1 DEF SaveState, TypeOK, LateAtPc
  <1> QED BY Zenon, <1>1, <1>2, <1>3

\* The calls of one step: what is new at Docker is what the step gave up.
LEMMA StepLeaves ==
    ASSUME TypeOK, NEW t \in Task, EngineStep(t)
    PROVE  LET b == BackendOf[t] IN
           /\ late'[b] \subseteq late[b] \cup Outstanding(t)
           /\ "start" \in late'[b] => \/ cont'[b] = cont[b]
                                       \/ cont[b] = "Absent"
                                       \/ cont[b] = "Running"
                                       \/ start_container(b)
           /\ "start" \in late'[b] \ late[b] => GiveUp(t)
  <1> USE ExecutorAssumption DEF TypeOK, EngineTypeOK
  <1> DEFINE b == BackendOf[t]
  <1>1. CASE create_container(b) \/ start_container(b) \/ ContainerDies(b, TRUE)
    BY Zenon, <1>1 DEF create_container, start_container, ContainerDies, lateVars
  <1>2. CASE remove_container(b)
    <2>1. late'[b] = late[b] \ {"start"}
      BY Zenon, <1>2 DEF remove_container
    <2> QED BY Zenon, <2>1
  <1>3. CASE GiveUp(t)
    BY Zenon, <1>3 DEF GiveUp
  <1>4. CASE UNCHANGED engineVars
    BY Zenon, <1>4 DEF engineVars, lateVars
  <1> QED BY Zenon, <1>1, <1>2, <1>3, <1>4 DEF EngineStep

\* Only StartContainer starts a container.
LEMMA OnlyStartStarts ==
    ASSUME TypeOK, NEW t \in Task, Spawn(t) \/ TaskStep(t) \/ IdleExpires(t),
           start_container(BackendOf[t])
    PROVE  pc[t] = "Start"
  <1> USE ExecutorAssumption
  <1>1. cont[BackendOf[t]] = "Created" /\ cont'[BackendOf[t]] = "Running"
    BY Zenon DEF start_container, ContainerStarts, TypeOK, EngineTypeOK
  <1>2. cont' # cont /\ cont[BackendOf[t]] # "Absent" /\ cont[BackendOf[t]] # "Running"
    BY SMTT(60), <1>1
  <1>3. ~remove_container(BackendOf[t])
    BY <1>1 DEF remove_container, TypeOK, EngineTypeOK
  <1> QED
    BY ZenonT(60), <1>2, <1>3 DEF TaskStep, Spawn, IdleExpires, InsertBackend, Announce,
       EnterRunBackend, PullImage, CreateContainer, create_container, StartContainer,
       LoadReturns, StatusWhenStarting, WaitPortReady, InsertProxyRoute, RouteReturns,
       StatusWhenReady, IdleCheckFails, StopContainer, RemoveContainer, StopReturns,
       Interrupted, Terminated, SenderLost, SaveState, PublishSaved, AtStep,
       EngineFails, GiveUp, stop_container, ContainerDies, engineVars

\* Only InsertProxyRoute writes the route table.
LEMMA OnlyInsertRoutes ==
    ASSUME NEW t \in Task, Spawn(t) \/ TaskStep(t) \/ IdleExpires(t)
    PROVE  InsertProxyRoute(t) \/ UNCHANGED route
  BY Zenon DEF TaskStep, Spawn, IdleExpires, InsertBackend, Announce, EnterRunBackend,
     PullImage, CreateContainer, StartContainer, LoadReturns, StatusWhenStarting,
     WaitPortReady, RouteReturns, StatusWhenReady, IdleCheckFails, StopContainer,
     RemoveContainer, StopReturns, Interrupted, Terminated, SenderLost, SaveState,
     PublishSaved

\* A task that gives up the start of its container is back at the beginning of
\* load(), on its way to Terminated or ErrorLoading, or ends.
LEMMA StartIsGivenUp ==
    ASSUME TypeOK, NEW t \in Task, Spawn(t) \/ TaskStep(t) \/ IdleExpires(t),
           GiveUp(t), pc[t] = "Start", late' # late
    PROVE  LateAtPc(t)' /\ UNCHANGED <<route, db>>
  <1> USE ExecutorAssumption
  <1>1. pc[t] \notin {"Free", "Insert", "Announce", "Enter", "Pull", "Create", "Started",
                      "Status", "Port", "Route", "Routed", "Idle", "Stop", "Remove",
                      "Removed", "Save", "Publish"}
    OBVIOUS
  <1>2. \/ StartContainer(t) \/ Interrupted(t) \/ Terminated(t) \/ SenderLost(t)
    BY ZenonT(60), <1>1 DEF TaskStep, Spawn, IdleExpires, InsertBackend, Announce,
       EnterRunBackend, PullImage, CreateContainer, LoadReturns, StatusWhenStarting,
       WaitPortReady, InsertProxyRoute, RouteReturns, StatusWhenReady, IdleCheckFails,
       StopContainer, RemoveContainer, StopReturns, SaveState, PublishSaved, AtStep
  <1>3. UNCHANGED <<route, db>>
    BY Zenon, <1>2 DEF StartContainer, Interrupted, Terminated, SenderLost
  <1>4. CASE StartContainer(t)
    <2>1. ~start_container(BackendOf[t])
      BY Zenon DEF start_container, lateVars
    <2>2. ~UNCHANGED engineVars
      BY Zenon DEF engineVars, lateVars
    <2> QED BY Zenon, <1>3, <1>4, <2>1, <2>2, StepErrorLate DEF StartContainer, EngineFails
  <1>5. CASE Interrupted(t)
    <2>1. pc'[t] = FirstPc(st[t])
      BY Zenon, <1>5, GotoMoves DEF Interrupted
    <2> QED BY Zenon, <1>3, <2>1, FirstPcLate, AwaitLate
  <1>6. CASE Terminated(t)
    <2>1. pc'[t] = "Save" /\ st'[t] = "Terminated"
      BY Zenon, <1>6, GotoMoves DEF Terminated
    <2>2. LateAtPc(t)'
      BY <2>1 DEF LateAtPc, LateStates
    <2> QED BY Zenon, <1>3, <2>2
  <1>7. CASE SenderLost(t)
    <2>1. pc'[t] = "Free"
      BY ZenonT(60), <1>7, ReturnMoves DEF SenderLost
    <2>2. pc'[t] \notin {"Start", "Started", "Save"}
      BY <2>1
    <2> QED BY Zenon, <1>3, <2>2, AwaitLate
  <1> QED BY Zenon, <1>2, <1>4, <1>5, <1>6, <1>7

\* A step of a task keeps what is known of the calls of its own backend.
LEMMA OwnLate ==
    ASSUME "db" \notin Faults, TypeOK, TasksAreIndependent, RouteInv, LateInv,
           NEW t \in Task, Spawn(t) \/ TaskStep(t) \/ IdleExpires(t)
    PROVE  LateOK(BackendOf[t])'
  <1> USE ExecutorAssumption
  <1> DEFINE b == BackendOf[t]
  <1>1. b \in Backend /\ LateOK(b) /\ OthersUntouched(t)
    BY Zenon, TaskTouches DEF LateInv
  <1>2. /\ late'[b] \subseteq late[b] \cup Outstanding(t)
        /\ "start" \in late'[b] => \/ cont'[b] = cont[b] \/ cont[b] = "Absent"
                                    \/ cont[b] = "Running" \/ start_container(b)
        /\ "start" \in late'[b] \ late[b] => GiveUp(t)
    BY Zenon, TaskCalls, StepLeaves
  <1>3. late'[b] # {} => db'[b] # NoState
    BY Zenon, <1>1, <1>2, OutstandingHasRow, RowStays DEF LateOK
  <1>4. ASSUME "start" \in late'[b], "start" \in late[b]
        PROVE  /\ cont'[b] = "Created" /\ route'[b] = None /\ db'[b] \in LateStates
               /\ \A u \in Task : BackendOf[u] = b => LateAtPc(u)'
    <2>1. /\ cont[b] = "Created" /\ route[b] = None /\ db[b] \in LateStates
          /\ \A u \in Task : BackendOf[u] = b => LateAtPc(u)
      BY Zenon, <1>1, <1>4 DEF LateOK
    <2>2. cont[b] # "Absent" /\ cont[b] # "Running"
      BY <2>1
    <2>3. LateAtPc(t)'
      BY Zenon, <2>1, <2>2, StepIsLate
    <2>4. ASSUME NEW u \in Task \ {t}, BackendOf[u] = b PROVE LateAtPc(u)'
      BY Zenon, <1>1, <2>1, <2>4 DEF OthersUntouched, OthersStay, LateAtPc
    <2>5. cont'[b] = cont[b]
      <3>1. ~start_container(b)
        <4>1. ASSUME start_container(b) PROVE pc[t] = "Start"
          BY Zenon, <2>2, <4>1, OnlyStartStarts
        <4> QED BY Zenon, <2>1, <4>1 DEF LateAtPc
      <3> QED BY Zenon, <1>2, <1>4, <2>2, <3>1
    <2>6. route'[b] = None
      <3>1. ~InsertProxyRoute(t)
        <4>1. ASSUME pc[t] = "Route" PROVE FALSE
          BY <2>1, <4>1, RowAgrees DEF LateStates
        <4> QED BY Zenon, <4>1 DEF InsertProxyRoute, AtStep
      <3>2. UNCHANGED route
        BY Zenon, <3>1, OnlyInsertRoutes
      <3> QED BY Zenon, <2>1, <3>2
    <2>7. db'[b] \in LateStates
      BY Zenon, <2>1, RowStays
    <2> QED BY Zenon, <2>1, <2>3, <2>4, <2>5, <2>6, <2>7
  <1>5. ASSUME "start" \in late'[b], "start" \notin late[b]
        PROVE  /\ cont'[b] = "Created" /\ route'[b] = None /\ db'[b] \in LateStates
               /\ \A u \in Task : BackendOf[u] = b => LateAtPc(u)'
    <2>1. /\ GiveUp(t) /\ pc[t] = "Start" /\ st[t] = "Loading" /\ cont[b] = "Created"
          /\ route[b] = None /\ db[b] \in LateStates
      BY Zenon, <1>2, <1>5, OutstandingHasRow
    <2>2. LateAtPc(t)' /\ UNCHANGED <<route, db>>
      BY Zenon, <2>1, <1>5, StartIsGivenUp
    <2>3. ASSUME NEW u \in Task \ {t}, BackendOf[u] = b PROVE LateAtPc(u)'
      <3>1. Live(t)
        BY <2>1 DEF Live
      <3>2. pc[u] = "Free"
        BY Zenon, <2>3, <3>1 DEF TasksAreIndependent, Live
      <3>3. pc'[u] = "Free"
        BY Zenon, <1>1, <3>2 DEF OthersUntouched, OthersStay
      <3>4. pc'[u] \notin {"Start", "Started", "Save"}
        BY <3>3
      <3> QED BY ZenonT(60), <3>4, AwaitLate
    <2> QED BY Zenon, <2>1, <2>2, <2>3 DEF GiveUp
  <1> QED BY Zenon, <1>3, <1>4, <1>5 DEF LateOK

\* What Docker carries out late is one call less.
LEMMA LateCallKeeps ==
    ASSUME TypeOK, LateInv, NEW b \in Backend, LateCall(b),
           UNCHANGED <<pc, st, db, route>>
    PROVE  LateInv'
  <1>1. \A c \in Backend \ {b} : late'[c] = late[c] /\ cont'[c] = cont[c]
    BY Zenon DEF TypeOK, EngineTypeOK, LateCall, LateCreate, LateStart, LateRemove,
       CarriedOut, ContainerStarts
  <1>2. late'[b] \subseteq late[b]
    <2>1. \E C : late' = [late EXCEPT ![b] = @ \ C]
      BY Zenon DEF LateCall, LateCreate, LateStart, LateRemove, CarriedOut
    <2>2. \E C : late'[b] = late[b] \ C
      BY Zenon, <2>1 DEF TypeOK, EngineTypeOK
    <2> QED BY Zenon, <2>2
  <1>3. ASSUME "start" \in late'[b] PROVE cont'[b] = "Created"
    <2>1. LateOK(b)
      BY Zenon DEF LateInv
    <2>2. cont[b] = "Created"
      BY Zenon, <1>2, <1>3, <2>1 DEF LateOK
    <2>3. ~LateStart(b)
      BY Zenon, <1>3 DEF TypeOK, EngineTypeOK, LateStart, CarriedOut
    <2>4. CASE LateCreate(b)
      BY <2>2, <2>4 DEF LateCreate
    <2>5. CASE LateRemove(b)
      <3>1. late' = [late EXCEPT ![b] = @ \ {"start", "remove"}] \/ cont' = cont
        BY Zenon, <2>5 DEF LateRemove
      <3>2. late' # [late EXCEPT ![b] = @ \ {"start", "remove"}]
        BY Zenon, <1>3 DEF TypeOK, EngineTypeOK
      <3> QED BY Zenon, <2>2, <3>1, <3>2
    <2> QED BY Zenon, <2>3, <2>4, <2>5 DEF LateCall
  <1>4. ASSUME NEW t \in Task, LateAtPc(t) PROVE LateAtPc(t)'
    BY Zenon, <1>4 DEF LateAtPc
  <1>5. ASSUME NEW c \in Backend PROVE LateOK(c)'
    <2>1. LateOK(c)
      BY Zenon DEF LateInv
    <2>2. late'[c] \subseteq late[c] /\ ("start" \in late'[c] => cont'[c] = "Created")
      BY Zenon, <1>1, <1>2, <1>3, <2>1 DEF LateOK
    <2> QED BY Zenon, <1>4, <2>1, <2>2 DEF LateOK
  <1> QED BY Zenon, <1>5 DEF LateInv

\* LateInv is inductive, together with the others.
LEMMA LateNext ==
    ASSUME "db" \notin Faults, TypeOK, TasksAreIndependent, RouteInv, LateInv,
           [Next]_vars
    PROVE  LateInv'
  <1> USE ExecutorAssumption
  <1>1. ASSUME NEW t \in Task, Spawn(t) \/ TaskStep(t) \/ IdleExpires(t)
        PROVE  LateInv'
    <2>1. OthersUntouched(t)
      BY Zenon, <1>1, TaskTouches
    <2>2. ASSUME NEW b \in Backend, b # BackendOf[t] PROVE LateOK(b)'
      <3>1. LateOK(b)
        BY Zenon DEF LateInv
      <3>2. ASSUME NEW u \in Task, BackendOf[u] = b, LateAtPc(u) PROVE LateAtPc(u)'
        BY Zenon, <2>1, <2>2, <3>2 DEF OthersUntouched, OthersStay, LateAtPc
      <3> QED BY Zenon, <2>1, <2>2, <3>1, <3>2 DEF OthersUntouched, LateOK
    <2>3. LateOK(BackendOf[t])'
      BY Zenon, <1>1, OwnLate
    <2> QED BY Zenon, <2>2, <2>3 DEF LateInv
  <1>2. ASSUME UNCHANGED <<late, db, route, pc, st>>,
               \A b \in Backend : cont[b] = "Created" => cont'[b] = "Created"
        PROVE  LateInv'
    <2>1. ASSUME NEW t \in Task, LateAtPc(t) PROVE LateAtPc(t)'
      BY Zenon, <1>2, <2>1 DEF LateAtPc
    <2> QED BY Zenon, <1>2, <2>1 DEF LateInv, LateOK
  <1>3. ASSUME NEW b \in Backend,
               KillBackend(b) \/ DieEvent(b) \/ LoseDieEvent(b) \/ ContainerExits(b)
        PROVE  LateInv'
    <2>1. UNCHANGED <<late, db, route, pc, st>>
      BY Zenon, <1>3 DEF KillBackend, DieEvent, LoseDieEvent, ContainerExits, ContainerDies,
         lateVars
    <2>2. cont' = cont \/ ContainerDies(b, up)
      BY Zenon, <1>3 DEF KillBackend, DieEvent, LoseDieEvent, ContainerExits
    <2>3. ASSUME ContainerDies(b, up), NEW c \in Backend, cont[c] = "Created"
          PROVE  cont'[c] = "Created"
      <3>1. c # b
        BY <2>3 DEF ContainerDies
      <3> QED BY Zenon, <2>3, <3>1 DEF ContainerDies, TypeOK, EngineTypeOK
    <2> QED BY Zenon, <1>2, <2>1, <2>2, <2>3
  <1>4. ASSUME NEW b \in Backend, LateCallEnds(b) PROVE LateInv'
    BY Zenon, <1>4, LateCallKeeps DEF LateCallEnds
  <1>5. ASSUME \A t \in Task : pc'[t] \in {"Free", "Enter"} PROVE \A t \in Task : LateAtPc(t)'
    <2>1. ASSUME NEW t \in Task PROVE LateAtPc(t)'
      <3>1. pc'[t] \notin {"Start", "Started", "Save"}
        BY <1>5
      <3> QED BY Zenon, <3>1, AwaitLate
    <2> QED BY Zenon, <2>1
  <1>6. CASE Crash
    <2>1. /\ \A t \in Task : LateAtPc(t)'
          /\ UNCHANGED <<cont, db, route>>
      BY Zenon, <1>5, <1>6 DEF Crash
    <2>2. ASSUME NEW b \in Backend, NEW call, call \in late'[b]
          PROVE  \/ call \in late[b]
                 \/ \E t \in Task : BackendOf[t] = b /\ call \in Outstanding(t)
      <3>1. late'[b] = late[b] \cup
                          UNION {Outstanding(t) : t \in {u \in Task : BackendOf[u] = b}}
        BY Zenon, <1>6 DEF Crash
      <3> QED BY SMT, <2>2, <3>1
    <2>3. ASSUME NEW b \in Backend PROVE LateOK(b)'
      <3>1. LateOK(b)
        BY Zenon DEF LateInv
      <3>2. ASSUME NEW call, call \in late'[b] PROVE db'[b] # NoState
        <4>1. CASE call \in late[b]
          BY Zenon, <2>1, <3>1, <4>1 DEF LateOK
        <4>2. ASSUME NEW t \in Task, BackendOf[t] = b, call \in Outstanding(t)
              PROVE  db'[b] # NoState
          <5>1. Outstanding(t) # {}
            BY Zenon, <4>2
          <5> QED BY Zenon, <2>1, <4>2, <5>1, OutstandingHasRow
        <4> QED BY Zenon, <2>2, <3>2, <4>1, <4>2
      <3>3. ASSUME "start" \in late'[b]
            PROVE  cont'[b] = "Created" /\ route'[b] = None /\ db'[b] \in LateStates
        <4>1. CASE "start" \in late[b]
          BY Zenon, <2>1, <3>1, <4>1 DEF LateOK
        <4>2. ASSUME NEW t \in Task, BackendOf[t] = b, "start" \in Outstanding(t)
              PROVE  cont'[b] = "Created" /\ route'[b] = None /\ db'[b] \in LateStates
          BY Zenon, <2>1, <4>2, OutstandingHasRow
        <4> QED BY Zenon, <2>2, <3>3, <4>1, <4>2
      <3> QED BY Zenon, <2>1, <3>2, <3>3 DEF LateOK
    <2> QED BY Zenon, <2>3 DEF LateInv
  <1>7. CASE resume_backends
    <2>1. /\ \A t \in Task : LateAtPc(t)'
          /\ UNCHANGED <<cont, late, db, route>>
      BY Zenon, <1>5, <1>7 DEF resume_backends, Resume, lateVars
    <2> QED BY Zenon, <2>1 DEF LateInv, LateOK
  <1>8. CASE UNCHANGED vars
    BY Zenon, <1>2, <1>8 DEF vars
  <1> QED BY Zenon, <1>1, <1>3, <1>4, <1>6, <1>7, <1>8 DEF Next

\* RouteInv is inductive, together with the types and the independence of tasks.
LEMMA RouteNext ==
    ASSUME "db" \notin Faults, TypeOK, TasksAreIndependent, RouteInv, LateInv,
           [Next]_vars
    PROVE  RouteInv'
  <1> USE ExecutorAssumption
  <1>1. ASSUME NEW t \in Task, Spawn(t) \/ TaskStep(t) \/ IdleExpires(t)
        PROVE  RouteInv'
    BY Zenon, <1>1, RouteStepping, RouteInserting, RouteSaving DEF TaskStep
  <1>2. ASSUME UNCHANGED <<cont, addr, route, db, pc, st, seen>> PROVE RouteInv'
    <2>1. RowsMoveOn
      BY Zenon, <1>2 DEF RowsMoveOn
    <2> QED BY Zenon, <1>2, <2>1, RowsKeepRoutes
  <1>3. ASSUME NEW b \in Backend, ContainerExits(b) PROVE RouteInv'
    <2>1. ContainerDies(b, up) /\ UNCHANGED <<route, db, pc, st, seen>>
      BY Zenon, <1>3 DEF ContainerExits
    <2>2. AddressesAreHeld' /\ EngineFollowsRow
      BY Zenon, <2>1, AddressesNext, EngineCalls DEF RouteInv
    <2> QED BY Zenon, <2>1, <2>2, EngineKeepsRoutes
  <1>4. ASSUME UNCHANGED <<cont, addr, route, db>>,
               \A t \in Task : pc'[t] \in {"Free", "Enter"}
        PROVE  RouteInv'
    <2>1. RowsMoveOn
      BY Zenon, <1>4 DEF RowsMoveOn
    <2>2. ASSUME NEW t \in Task PROVE CapturedAtPc(t)' /\ InsertedAtPc(t)'
      <3>1. pc'[t] \notin {"Port", "Route", "Routed", "Save"}
        BY <1>4
      <3> QED BY Zenon, <3>1 DEF CapturedAtPc, InsertedAtPc
    <2> QED BY Zenon, <1>4, <2>1, <2>2, RowsKeepRoutes
  <1>5. CASE Crash
    BY Zenon, <1>4, <1>5 DEF Crash
  <1>6. CASE resume_backends
    BY Zenon, <1>4, <1>6 DEF resume_backends, Resume
  <1>7. ASSUME NEW b \in Backend, KillBackend(b) \/ DieEvent(b) \/ LoseDieEvent(b)
        PROVE  RouteInv'
    BY Zenon, <1>2, <1>7 DEF KillBackend, DieEvent, LoseDieEvent
  <1>8. ASSUME NEW b \in Backend, LateCallEnds(b) PROVE RouteInv'
    <2>1. LateCall(b) /\ UNCHANGED <<route, db, pc, st, seen>>
      BY Zenon, <1>8 DEF LateCallEnds
    <2>2. AddressesAreHeld' /\ EngineFollowsRow
      BY Zenon, <2>1, AddressesNext, EngineCalls DEF RouteInv
    <2> QED BY Zenon, <2>1, <2>2, EngineKeepsRoutes
  <1>9. CASE UNCHANGED vars
    BY Zenon, <1>2, <1>9 DEF vars
  <1> QED BY Zenon, <1>1, <1>3, <1>5, <1>6, <1>7, <1>8, <1>9 DEF Next

\* Before the first spawn there are no containers, rows, routes and tasks.
LEMMA RouteInit == Init => RouteInv /\ LateInv
  <1> SUFFICES ASSUME Init PROVE RouteInv /\ LateInv
    OBVIOUS
  <1>1. /\ \A b \in Backend : /\ cont[b] = "Absent" /\ addr[b] = None
                             /\ route[b] = None /\ db[b] = NoState /\ late[b] = {}
        /\ \A t \in Task : pc[t] = "Free"
    BY Zenon DEF Init, EngineInit
  <1>2. \A b \in Backend : cont[b] # "Running" /\ db[b] # "Ready"
    BY SMTT(60), <1>1 DEF NoState
  <1>3. \A t \in Task : pc[t] \notin {"Port", "Route", "Routed", "Save"}
    BY <1>1
  <1> QED
    BY Zenon, <1>1, <1>2, <1>3 DEF RouteInv, AddressesAreHeld, RowIsFirst, CapturedAtPc,
       InsertedAtPc, LateInv, LateOK

\* The route invariant holds in every state.
LEMMA RoutesHold ==
    ASSUME MaxSpawns = 1, "db" \notin Faults
    PROVE  Spec => [](RouteInv /\ LateInv)
  <1>1. TypeOK /\ TasksAreIndependent /\ (RouteInv /\ LateInv) /\ [Next]_vars
            => (RouteInv /\ LateInv)'
    BY RouteNext, LateNext
  <1> QED BY <1>1, RouteInit, TypeCorrect, Independent, PTL DEF Spec

\* ReadyIsRouted: with unique ids and a table whose writes do not fail, the
\* address of every Ready backend that runs is in the route table, in its own row
\* or in that of a backend whose container is gone, whatever addresses Docker gives
\* away in between, whatever other calls fail and wherever the drone dies.
THEOREM ReadyMeansRouted ==
    ASSUME MaxSpawns = 1, "db" \notin Faults
    PROVE  Spec => []ReadyIsRouted
  <1>1. RouteInv => ReadyIsRouted
    BY Zenon DEF RouteInv, ReadyIsRouted, Routed
  <1> QED BY <1>1, RoutesHold, PTL

\* Only the insert takes a task from the await before it to the one after it.
LEMMA InsertMoves ==
    ASSUME TypeOK, [Next]_vars, NEW t \in Task, pc[t] = "Route", pc'[t] = "Routed"
    PROVE  insert_proxy_route(BackendOf[t], seen[t])
  <1>1. ASSUME NEW u \in Task, Spawn(u) \/ TaskStep(u) \/ IdleExpires(u)
        PROVE  InsertProxyRoute(t) /\ Continue(t, "Routed")
    <2>1. CASE Elsewhere(u)' /\ OthersStay(u)
      BY Zenon, <2>1 DEF Elsewhere, OthersStay
    <2>2. CASE StatusWhenStarting(u)
      <3>1. pc[u] = "Status"
        BY Zenon, <2>2 DEF StatusWhenStarting, AtStep
      <3>2. u # t
        BY <3>1
      <3>3. pc'[t] = pc[t]
        BY Zenon, <2>2, <3>2, AdvanceMoves, StepErrorMoves
           DEF StatusWhenStarting, EngineFails, TypeOK, OthersStay
      <3> QED BY <3>3
    <2>3. CASE WaitPortReady(u)
      <3>1. pc[u] = "Port"
        BY Zenon, <2>3 DEF WaitPortReady, AtStep
      <3>2. u # t
        BY <3>1
      <3>3. pc'[t] = pc[t]
        BY Zenon, <2>3, <3>2, GotoMoves, StepErrorMoves DEF WaitPortReady, Continue, OthersStay
      <3> QED BY <3>3
    <2>4. CASE RouteReturns(u)
      <3>1. pc[u] = "Routed" /\ OthersStay(u)
        BY <2>4, GotoMoves DEF RouteReturns, AtStep, Advance
      <3>2. u # t
        BY <3>1
      <3>3. pc'[t] = pc[t]
        BY Zenon, <3>1, <3>2 DEF OthersStay
      <3> QED BY <3>3
    <2>5. CASE InsertProxyRoute(u)
      <3>1. CASE StepError(u)
        BY Zenon, <2>1, <3>1, StepErrorMoves
      <3>2. CASE Continue(u, "Routed")
        <4>1. OthersStay(u)
          BY Zenon, <3>2, GotoMoves DEF Continue
        <4>2. u = t
          <5>1. u # t => pc'[t] = pc[t]
            BY Zenon, <4>1 DEF OthersStay
          <5> QED BY <5>1
        <4> QED BY <2>5, <3>2, <4>2
      <3> QED BY Zenon, <2>5, <3>1, <3>2 DEF InsertProxyRoute
    <2> QED BY Zenon, <1>1, <2>1, <2>2, <2>3, <2>4, <2>5, TaskMoves DEF TaskStep
  <1>2. ASSUME UNCHANGED pc PROVE FALSE
    BY SMTT(60), <1>2
  <1>3. ASSUME Crash PROVE FALSE
    BY <1>3 DEF Crash
  <1>4. ASSUME resume_backends PROVE FALSE
    <2>1. pc'[t] \in {"Enter", "Free"}
      BY Zenon, <1>4 DEF resume_backends, Resume
    <2> QED BY <2>1
  <1>5. InsertProxyRoute(t) /\ Continue(t, "Routed")
    BY Zenon, <1>1, <1>2, <1>3, <1>4 DEF Next, KillBackend, DieEvent, LoseDieEvent,
       ContainerExits, LateCallEnds, vars
  <1>6. ~StepError(t)
    BY Zenon, StepErrorMoves DEF Elsewhere
  <1> QED BY Zenon, <1>5, <1>6 DEF InsertProxyRoute

\* InsertIsCurrent: with unique ids and a table whose writes do not fail, the
\* address that was captured before the wait for the port is still right when it
\* is inserted, if the container runs, and no running backend loses its route to
\* that insert.
THEOREM InsertsAreCurrent ==
    ASSUME MaxSpawns = 1, "db" \notin Faults
    PROVE  Spec => InsertIsCurrent
  <1> USE ExecutorAssumption
  <1>1. ASSUME TypeOK, RouteInv, [Next]_vars, NEW t \in Task,
               pc[t] = "Route", pc'[t] = "Routed", cont[BackendOf[t]] = "Running"
        PROVE  /\ route'[BackendOf[t]] = addr[BackendOf[t]]
               /\ \A c \in Backend \ {BackendOf[t]} :
                      cont[c] = "Running" => route'[c] = route[c]
    <2> DEFINE b == BackendOf[t]
    <2>1. insert_proxy_route(b, seen[t])
      BY <1>1, InsertMoves
    <2>2. b \in Backend /\ seen[t] = addr[b] /\ addr[b] # None
      BY ZenonT(60), <1>1 DEF RouteInv, CapturedAtPc, AddressesAreHeld
    <2>3. \A c \in Backend \ {b} : cont[c] = "Running" => route[c] # addr[b]
      BY <1>1, <2>2 DEF RouteInv, RowIsFirst, AddressesAreHeld
    <2> QED BY Zenon, <2>1, <2>2, <2>3 DEF insert_proxy_route
  <1>2. TypeOK /\ RouteInv /\ [Next]_vars =>
            [\A t \in Task :
                 /\ pc[t] = "Route" /\ pc'[t] = "Routed"
                 /\ cont[BackendOf[t]] = "Running"
                 => /\ route'[BackendOf[t]] = addr[BackendOf[t]]
                    /\ \A c \in Backend \ {BackendOf[t]} :
                           cont[c] = "Running" => route'[c] = route[c]]_vars
    BY Zenon, <1>1
  <1> QED BY <1>2, TypeCorrect, RoutesHold, PTL DEF Spec, InsertIsCurrent

-----------------------------------------------------------------------------
(* Rows and containers nobody attends to, when nothing goes wrong but crashes, *)
(* messages on the state stream and calls that Docker carries out late.        *)

OnlyCrashes == Faults \subseteq {"crash", "nats", "late"}

\* What a task relies on at its awaits: it has not missed the exit of the
\* container whose port it waits for, and the container it stops stays stopped,
\* unless a late call undoes it.
AttendedAtPc(t) ==
    LET b == BackendOf[t] IN
    Running =>
        /\ pc[t] = "Port" => \/ cont[b] = "Running"
                             \/ b \in dies
                             \/ chan[t] # "Empty"
        /\ pc[t] = "Remove" => cont[b] # "Running" \/ b \in belated
        /\ pc[t] = "Removed" => cont[b] = "Absent" \/ b \in belated

\* A backend may be left without a task.
MayBeLeft(b) ==
    /\ ~CountedAsRunning(db[b]) \/ RouteTaken(b)
    /\ \/ cont[b] = "Absent" \/ db[b] = "ErrorLoading" \/ RouteTaken(b)
       \/ b \in belated

StrandInv ==
    /\ Running => \A b \in Backend : Driven(b) \/ MayBeLeft(b)
    /\ \A t \in Task : AttendedAtPc(t)

\* A step of one task keeps the invariant if it keeps the part of it that is about
\* the task and its backend.
LEMMA OneTaskAttends ==
    ASSUME TypeOK, TasksAreIndependent, TasksAreIndependent', StrandInv,
           NEW t \in Task, Running, Live(t) \/ Live(t)', OthersUntouched(t),
           AttendedAtPc(t)', Live(t)' \/ MayBeLeft(BackendOf[t])'
    PROVE  StrandInv'
  <1> USE ExecutorAssumption
  <1>1. ASSUME NEW b \in Backend PROVE Driven(b)' \/ MayBeLeft(b)'
    <2>1. CASE b = BackendOf[t]
      BY Zenon, <2>1 DEF Driven
    <2>2. CASE b # BackendOf[t]
      <3>1. Driven(b) => Driven(b)'
        BY Zenon, <2>2 DEF OthersUntouched, OthersStay, Driven, Live
      <3>2. MayBeLeft(b) => MayBeLeft(b)'
        BY Zenon, <2>2 DEF OthersUntouched, MayBeLeft, CountedAsRunning, RouteTaken
      <3> QED BY Zenon, <3>1, <3>2 DEF StrandInv
    <2> QED BY <2>1, <2>2
  <1>2. ASSUME NEW u \in Task PROVE AttendedAtPc(u)'
    <2>1. CASE u = t
      BY SMTT(60), <2>1
    <2>2. CASE u # t /\ ~Live(u)
      <3>1. pc'[u] = "Free"
        BY Zenon, <2>2 DEF OthersUntouched, OthersStay, Live
      <3> QED BY <3>1 DEF AttendedAtPc
    <2>3. CASE u # t /\ Live(u)
      <3>1. pc'[u] = pc[u] /\ chan'[u] = chan[u]
        BY Zenon, <2>3 DEF OthersUntouched, OthersStay
      <3>2. BackendOf[u] \in Backend \ {BackendOf[t]}
        BY Zenon, <2>3, <3>1 DEF TasksAreIndependent, Live
      <3>3. /\ cont'[BackendOf[u]] = cont[BackendOf[u]]
            /\ BackendOf[u] \in dies => BackendOf[u] \in dies'
            /\ BackendOf[u] \in belated => BackendOf[u] \in belated'
        BY Zenon, <3>2 DEF OthersUntouched
      <3> QED BY Zenon, <3>1, <3>3 DEF StrandInv, AttendedAtPc
    <2> QED BY <2>1, <2>2, <2>3
  <1> QED BY Zenon, <1>1, <1>2 DEF StrandInv

\* A task is at an await where nothing is expected of the container.
Onward(t) == pc[t] \notin {"Free", "Port", "Remove", "Removed"}

\* A step that starts is at such an await.
LEMMA FirstPcOnward ==
    ASSUME NEW s PROVE FirstPc(s) \notin {"Free", "Port", "Remove", "Removed"}
  BY DEF FirstPc

\* The steps after which a task is at such an await: no call of theirs fails for good.
LEMMA StepsOnward ==
    ASSUME OnlyCrashes, TypeOK, TasksAreIndependent, NEW t \in Task,
           \/ Spawn(t) \/ InsertBackend(t) \/ Announce(t) \/ EnterRunBackend(t)
           \/ PullImage(t) \/ CreateContainer(t) \/ StartContainer(t) \/ LoadReturns(t)
           \/ InsertProxyRoute(t) \/ RouteReturns(t) \/ StatusWhenReady(t)
           \/ IdleExpires(t) \/ Interrupted(t) \/ Terminated(t) \/ SaveState(t)
    PROVE  Onward(t)'
  <1>1. "engine" \notin Faults /\ "db" \notin Faults
    BY DEF OnlyCrashes
  <1>2. CASE Spawn(t) \/ Announce(t) \/ Terminated(t)
    <2>1. pc'[t] \in {"Insert", "Pull", "Save"}
      BY Zenon, <1>2, GotoMoves DEF Spawn, Announce, Terminated
    <2> QED BY <2>1 DEF Onward
  <1>3. CASE InsertBackend(t) \/ SaveState(t) \/ InsertProxyRoute(t) \/ PullImage(t)
    <2>1. pc'[t] \in {"Announce", "Publish", "Routed", "Create"}
      BY ZenonT(60), <1>1, <1>3, GotoMoves DEF InsertBackend, SaveState, InsertProxyRoute,
         PullImage, EngineFails, Continue
    <2> QED BY <2>1 DEF Onward
  <1>4. CASE EnterRunBackend(t) \/ Interrupted(t)
    <2>1. pc'[t] = FirstPc(st[t])
      BY Zenon, <1>4, GotoMoves DEF EnterRunBackend, Interrupted
    <2> QED BY <2>1, FirstPcOnward DEF Onward
  <1>5. CASE CreateContainer(t) \/ StartContainer(t)
    <2>1. st[t] = "Loading"
      <3>1. pc[t] \in {"Create", "Start"} /\ StateAtPc(pc[t], st[t])
        BY Zenon, <1>5 DEF CreateContainer, StartContainer, AtStep, TasksAreIndependent
      <3> QED BY Zenon, <3>1 DEF StateAtPc
    <2>2. Continue(t, "Start") \/ Continue(t, "Started") \/ Goto(t, "Save", "ErrorLoading")
      BY Zenon, <1>1, <1>5, <2>1 DEF CreateContainer, StartContainer, EngineFails, StepError
    <2>3. pc'[t] \in {"Start", "Started", "Save"}
      BY Zenon, <2>2, GotoMoves DEF Continue
    <2> QED BY SMTT(60), <2>3 DEF Onward
  <1>6. CASE LoadReturns(t) \/ RouteReturns(t) \/ IdleExpires(t)
    <2>1. pc'[t] = "Save"
      BY Zenon, <1>6, GotoMoves DEF LoadReturns, RouteReturns, IdleExpires, Advance
    <2> QED BY <2>1 DEF Onward
  <1>7. CASE StatusWhenReady(t)
    <2>1. Continue(t, "Idle") \/ \E s : Advance(t, s)
      BY Zenon, <1>1, <1>7 DEF StatusWhenReady, EngineFails
    <2>2. pc'[t] \in {"Idle", "Save"}
      BY Zenon, <2>1, GotoMoves DEF Continue, Advance
    <2> QED BY <2>2 DEF Onward
  <1> QED BY Zenon, <1>2, <1>3, <1>4, <1>5, <1>6, <1>7

\* Every step of a task keeps what it relies on, and if it is its last one the
\* backend may be left.
LEMMA StepAttends ==
    ASSUME OnlyCrashes, TypeOK, TasksAreIndependent, RouteInv, StrandInv,
           NEW t \in Task, Spawn(t) \/ TaskStep(t) \/ IdleExpires(t)
    PROVE  /\ Running
           /\ Live(t) \/ Live(t)'
           /\ AttendedAtPc(t)'
           /\ Live(t)' \/ MayBeLeft(BackendOf[t])'
  <1> USE ExecutorAssumption
  <1> DEFINE b == BackendOf[t]
  <1>1. b \in Backend
    OBVIOUS
  <1>2. /\ "engine" \notin Faults /\ "db" \notin Faults /\ "port" \notin Faults
        /\ Faults \cap {"db", "clock"} = {}
    BY DEF OnlyCrashes
  <1>3. StateAtPc(pc[t], st[t]) /\ RowAtPc(t) /\ EntriesAtPc(t) /\ AttendedAtPc(t)
        /\ CapturedAtPc(t)
    BY Zenon DEF TasksAreIndependent, StrandInv, RouteInv
  <1>4. Running
    BY ZenonT(60) DEF TaskStep, Spawn, IdleExpires, InsertBackend, Announce,
         EnterRunBackend, PullImage, CreateContainer, StartContainer, LoadReturns,
         StatusWhenStarting, WaitPortReady, InsertProxyRoute, RouteReturns,
         StatusWhenReady, IdleCheckFails, StopContainer, RemoveContainer, StopReturns,
         Interrupted, Terminated, SenderLost, SaveState, PublishSaved, AtStep, Listening
  <1>5. CASE Onward(t)'
    BY <1>4, <1>5 DEF Onward, Live, AttendedAtPc
  <1>6. CASE StatusWhenStarting(t)
    <2>1. CASE pc' = [pc EXCEPT ![t] = "Port"] /\ backend_status(cont[b]) = "Running"
      <3>1. cont[b] = "Running"
        BY <2>1 DEF backend_status, TypeOK, EngineTypeOK, ContainerState, Stopped
      <3>2. pc'[t] = "Port" /\ cont' = cont
        BY ZenonT(60), <1>6, <2>1 DEF TypeOK, StatusWhenStarting
      <3> QED BY SMTT(60), <1>4, <3>1, <3>2 DEF AttendedAtPc, Live
    <2>2. CASE Advance(t, "ErrorStarting")
      BY <1>5, <2>2, GotoMoves DEF Advance, Onward
    <2> QED BY ZenonT(60), <1>2, <1>6, <2>1, <2>2 DEF StatusWhenStarting, EngineFails
  <1>7. CASE WaitPortReady(t)
    <2>1. CASE Continue(t, "Route")
      BY ZenonT(60), <1>5, <2>1, GotoMoves DEF Continue, Onward
    <2>2. ASSUME ~Answers(seen[t]), b \notin dies, chan[t] = "Empty" PROVE FALSE
      <3>1. pc[t] = "Port"
        BY Zenon, <1>7 DEF WaitPortReady, AtStep
      <3>2. cont[b] = "Running"
        BY Zenon, <1>3, <1>4, <2>2, <3>1 DEF AttendedAtPc
      <3>3. seen[t] = addr[b]
        BY ZenonT(60), <1>3, <3>1, <3>2 DEF CapturedAtPc, b
      <3> QED BY Zenon, <1>1, <2>2, <3>2, <3>3 DEF Answers
    <2> QED BY ZenonT(60), <1>2, <1>7, <2>1, <2>2 DEF WaitPortReady
  <1>8. CASE IdleCheckFails(t)
    <2>1. pc[t] = "Idle" /\ route[b] = None /\ UNCHANGED <<db, route, cont>>
      BY ZenonT(60), <1>2, <1>8 DEF IdleCheckFails, AtStep
    <2>2. st[t] = "Ready" /\ db[b] = st[t]
      BY Zenon, <1>2, <1>3, <2>1 DEF StateAtPc, RowAtPc, Pc, StepPc
    <2>3. MayBeLeft(b)'
      BY ZenonT(60), <2>1, <2>2 DEF MayBeLeft, RouteTaken
    <2>4. pc'[t] = "Free"
      BY ZenonT(60), <1>8, <2>2, ReturnMoves DEF IdleCheckFails, StepError, Finish
    <2> QED BY <1>4, <2>1, <2>3, <2>4 DEF Live, AttendedAtPc
  <1>9. CASE StopContainer(t)
    <2>1. Continue(t, "Remove") /\ stop_container(b) /\ pc[t] = "Stop"
      BY ZenonT(60), <1>2, <1>9 DEF StopContainer, EngineFails, AtStep
    <2>2. pc'[t] = "Remove"
      BY ZenonT(60), <2>1, GotoMoves DEF Continue
    <2>3. cont'[b] # "Running"
      BY SMTT(60), <2>1 DEF stop_container, ContainerDies, Stopped, engineVars, TypeOK, EngineTypeOK
    <2> QED BY Zenon, <1>4, <2>2, <2>3 DEF Live, AttendedAtPc
  <1>10. CASE RemoveContainer(t)
    <2>1. pc[t] = "Remove"
      BY ZenonT(60), <1>10 DEF RemoveContainer, AtStep
    <2>2. cont[b] # "Running" \/ b \in belated
      BY Zenon, <1>3, <1>4, <2>1 DEF AttendedAtPc
    <2>3. CASE Continue(t, "Removed") /\ remove_container(b)
      <3>1. pc'[t] = "Removed"
        BY ZenonT(60), <2>3, GotoMoves DEF Continue
      <3>2. cont'[b] = "Absent"
        BY ZenonT(60), <2>3 DEF remove_container, TypeOK, EngineTypeOK
      <3> QED BY Zenon, <1>4, <3>1, <3>2 DEF Live, AttendedAtPc
    <2>4. CASE cont[b] = "Running" /\ StepError(t) /\ UNCHANGED engineVars
      <3>1. terminal(st[t]) /\ db[b] = st[t]
        BY Zenon, <1>2, <1>3, <2>1 DEF StateAtPc, RowAtPc, Pc, StepPc
      <3>2. st[t] # "Loading" /\ ~CountedAsRunning(db[b])
        BY <3>1 DEF CountedAsRunning, terminal
      <3>3. pc'[t] = "Free"
        BY ZenonT(60), <2>4, <3>2, ReturnMoves DEF StepError, Finish
      <3>4. UNCHANGED <<db, belated>>
        BY Zenon, <1>10, <2>4 DEF RemoveContainer, engineVars, lateVars
      <3>5. MayBeLeft(b)'
        BY ZenonT(60), <2>2, <2>4, <3>2, <3>4 DEF MayBeLeft, CountedAsRunning
      <3> QED BY Zenon, <1>4, <2>1, <3>3, <3>5 DEF Live, AttendedAtPc
    <2> QED BY ZenonT(60), <1>2, <1>10, <2>3, <2>4 DEF RemoveContainer, EngineFails
  <1>11. CASE StopReturns(t)
    <2>1. pc[t] = "Removed" /\ UNCHANGED <<db, cont, belated>> /\ pc'[t] = "Free"
      BY ZenonT(60), <1>11, ReturnMoves DEF StopReturns, AtStep, Finish, lateVars
    <2>2. (cont[b] = "Absent" \/ b \in belated) /\ terminal(st[t]) /\ db[b] = st[t]
      BY ZenonT(60), <1>2, <1>3, <1>4, <2>1 DEF AttendedAtPc, StateAtPc, RowAtPc, Pc, StepPc
    <2>3. ~CountedAsRunning(db[b])
      BY <2>2 DEF CountedAsRunning, terminal
    <2>4. MayBeLeft(b)'
      BY Zenon, <2>1, <2>2, <2>3 DEF MayBeLeft, CountedAsRunning
    <2> QED BY <1>4, <2>1, <2>4 DEF Live, AttendedAtPc
  <1>12. ASSUME SenderLost(t) PROVE FALSE
    <2>1. pc[t] \in StepPc /\ listener[b] # t
      BY Zenon, <1>12 DEF SenderLost, Listening
    <2> QED BY Zenon, <1>3, <1>4, <2>1 DEF EntriesAtPc, LoopPc
  <1>13. CASE PublishSaved(t)
    <2>1. pc[t] = "Publish" /\ AfterPublish(t) /\ UNCHANGED <<db, cont>>
      BY ZenonT(60), <1>13 DEF PublishSaved
    <2>2. CASE Continue(t, FirstPc(st[t]))
      BY ZenonT(60), <1>5, <2>2, GotoMoves, FirstPcOnward DEF Continue, Onward
    <2>3. CASE st[t] = "ErrorLoading" /\ Finish(t)
      <3>1. pc'[t] = "Free"
        BY ZenonT(60), <2>3, ReturnMoves DEF Finish
      <3>2. db[b] = "ErrorLoading"
        BY Zenon, <1>2, <1>3, <2>1, <2>3 DEF RowAtPc, Pc, StepPc
      <3>3. ~CountedAsRunning(db[b])
        BY <3>2 DEF CountedAsRunning
      <3>4. MayBeLeft(b)'
        BY Zenon, <2>1, <3>2, <3>3 DEF MayBeLeft, CountedAsRunning
      <3> QED BY <1>4, <2>1, <3>1, <3>4 DEF Live, AttendedAtPc
    <2> QED BY Zenon, <2>1, <2>2, <2>3 DEF AfterPublish
  <1> QED
    BY ZenonT(60), <1>5, <1>6, <1>7, <1>8, <1>9, <1>10, <1>11, <1>12, <1>13, StepsOnward
       DEF TaskStep

\* An exit of a container, its event, and a termination request: the task that
\* waits for the port of the container is told of the first by the second.
LEMMA EventsAttend ==
    ASSUME OnlyCrashes, TypeOK, TasksAreIndependent, StrandInv, NEW c \in Backend,
           \/ KillBackend(c) \/ DieEvent(c) \/ LoseDieEvent(c) \/ ContainerExits(c)
    PROVE  StrandInv'
  <1> USE ExecutorAssumption
  <1>1. UNCHANGED <<pc, db, route, up, hung, belated>>
    BY Zenon DEF KillBackend, DieEvent, LoseDieEvent, ContainerExits, ContainerDies,
       lateVars
  <1>2. \/ cont' = cont
        \/ /\ cont[c] = "Running" /\ ContainerDies(c, up) /\ chan' = chan
    BY Zenon DEF KillBackend, DieEvent, LoseDieEvent, ContainerExits, ContainerDies
  <1>3. \A b \in Backend : (cont[b] # "Running" \/ b # c) => cont'[b] = cont[b]
    BY Zenon, <1>2 DEF ContainerDies, TypeOK, EngineTypeOK
  <1>4. cont[c] = "Running" => cont'[c] # "Absent"
    <2>1. ASSUME ContainerDies(c, up) PROVE cont'[c] \in Stopped
      BY Zenon, <2>1 DEF ContainerDies, TypeOK, EngineTypeOK
    <2> QED BY <1>2, <2>1 DEF Stopped
  <1>5. ASSUME Running, NEW b \in Backend PROVE Driven(b)' \/ MayBeLeft(b)'
    <2>1. Driven(b) => Driven(b)'
      BY Zenon, <1>1 DEF Driven, Live
    <2>2. MayBeLeft(b) => MayBeLeft(b)'
      <3>1. cont[b] = "Absent" => cont'[b] = "Absent"
        BY <1>3
      <3> QED BY Zenon, <1>1, <3>1 DEF MayBeLeft, CountedAsRunning, RouteTaken
    <2> QED BY Zenon, <1>5, <2>1, <2>2 DEF StrandInv
  <1>6. ASSUME Running, NEW t \in Task PROVE AttendedAtPc(t)'
    <2> DEFINE b == BackendOf[t]
    <2>1. b \in Backend /\ AttendedAtPc(t) /\ EntriesAtPc(t)
      BY Zenon DEF StrandInv, TasksAreIndependent
    <2>2. pc[t] = "Port" => \/ cont'[b] = "Running" \/ b \in dies' \/ chan'[t] # "Empty"
      <3> SUFFICES ASSUME pc[t] = "Port"
                   PROVE  \/ cont'[b] = "Running" \/ b \in dies' \/ chan'[t] # "Empty"
        OBVIOUS
      <3>1. cont[b] = "Running" \/ b \in dies \/ chan[t] # "Empty"
        BY ZenonT(60), <1>6, <2>1 DEF AttendedAtPc
      <3>2. listener[b] = t
        BY <1>6, <2>1 DEF EntriesAtPc, LoopPc, StepPc
      <3>3. CASE KillBackend(c)
        <4>1. chan[t] # "Empty" => chan'[t] # "Empty"
          BY <3>3 DEF KillBackend, TypeOK
        <4>2. cont' = cont /\ dies' = dies
          BY Zenon, <3>3 DEF KillBackend
        <4> QED BY ZenonT(60), <3>1, <4>1, <4>2
      <3>4. CASE DieEvent(c)
        <4>1. chan[t] # "Empty" => chan'[t] # "Empty"
          BY SMTT(60), <3>4 DEF DieEvent, TypeOK
        <4>2. b = c => chan'[t] # "Empty"
          BY SMTT(60), <3>2, <3>4, <4>1 DEF DieEvent, TypeOK
        <4>3. cont' = cont /\ dies' = dies \ {c}
          BY ZenonT(60), <3>4 DEF DieEvent
        <4> QED BY ZenonT(60), <3>1, <4>1, <4>2, <4>3
      <3>5. CASE LoseDieEvent(c)
        BY Zenon, <3>5 DEF LoseDieEvent, OnlyCrashes
      <3>6. CASE ContainerExits(c)
        <4>1. dies' = dies \cup {c} /\ chan' = chan
          BY ZenonT(60), <1>6, <3>6 DEF ContainerExits, ContainerDies, Running
        <4> QED BY Zenon, <1>3, <2>1, <3>1, <4>1
      <3> QED BY Zenon, <3>3, <3>4, <3>5, <3>6
    <2>3. /\ pc[t] = "Remove" => cont'[b] # "Running" \/ b \in belated
          /\ pc[t] = "Removed" => cont'[b] = "Absent" \/ b \in belated
      <3>1. /\ pc[t] = "Remove" => cont[b] # "Running" \/ b \in belated
            /\ pc[t] = "Removed" => cont[b] = "Absent" \/ b \in belated
        BY Zenon, <1>6, <2>1 DEF AttendedAtPc
      <3>2. cont[b] = "Absent" => cont[b] # "Running"
        OBVIOUS
      <3> QED BY Zenon, <1>3, <2>1, <3>1, <3>2
    <2> QED BY Zenon, <1>1, <2>2, <2>3 DEF AttendedAtPc
  <1>7. Running' <=> Running
    BY Zenon, <1>1 DEF Running
  <1>8. ASSUME ~Running, NEW t \in Task PROVE AttendedAtPc(t)'
    BY Zenon, <1>7, <1>8 DEF AttendedAtPc
  <1> QED BY Zenon, <1>5, <1>6, <1>7, <1>8 DEF StrandInv

\* A call that Docker carries out late leaves alone what it does not bring about.
LEMMA LateCallAttends ==
    ASSUME TypeOK, StrandInv, NEW c \in Backend, LateCallEnds(c)
    PROVE  StrandInv'
  <1> USE ExecutorAssumption
  <1>1. /\ LateCall(c)
        /\ UNCHANGED <<pc, chan, db, route, up, hung, dies>>
    BY Zenon DEF LateCallEnds, LateCall, LateCreate, LateStart, LateRemove, ContainerStarts
  <1>2. ASSUME NEW b \in Backend
        PROVE  \/ cont'[b] = cont[b] /\ (b \in belated' <=> b \in belated)
               \/ b \in belated' /\ cont[b] # "Running"
               \/ cont'[b] = "Absent" /\ cont[b] # "Running"
    <2>1. CASE LateCreate(c)
      <3>1. cont[c] = "Absent" => cont[c] # "Running"
        OBVIOUS
      <3> QED BY ZenonT(60), <2>1, <3>1 DEF LateCreate, TypeOK, EngineTypeOK
    <2>2. CASE LateStart(c)
      <3>1. cont[c] = "Created" => cont[c] # "Running"
        OBVIOUS
      <3> QED BY Zenon, <2>2, <3>1 DEF LateStart, ContainerStarts, TypeOK, EngineTypeOK
    <2>3. CASE LateRemove(c)
      BY Zenon, <2>3 DEF LateRemove, TypeOK, EngineTypeOK
    <2> QED BY Zenon, <1>1, <2>1, <2>2, <2>3 DEF LateCall
  <1>3. Running' <=> Running
    BY Zenon, <1>1 DEF Running
  <1>4. ASSUME Running, NEW b \in Backend PROVE Driven(b)' \/ MayBeLeft(b)'
    <2>1. Driven(b) => Driven(b)'
      BY Zenon, <1>1 DEF Driven, Live
    <2>2. MayBeLeft(b) => MayBeLeft(b)'
      BY Zenon, <1>1, <1>2 DEF MayBeLeft, CountedAsRunning, RouteTaken
    <2> QED BY Zenon, <1>4, <2>1, <2>2 DEF StrandInv
  <1>5. ASSUME NEW t \in Task PROVE AttendedAtPc(t)'
    <2> DEFINE b == BackendOf[t]
    <2>1. b \in Backend /\ AttendedAtPc(t)
      BY Zenon DEF StrandInv
    <2>2. "Absent" # "Running"
      OBVIOUS
    <2> QED BY Zenon, <1>1, <1>2, <1>3, <2>1, <2>2 DEF AttendedAtPc
  <1> QED BY Zenon, <1>3, <1>4, <1>5 DEF StrandInv

\* resume_backends gives every row its task again; without a row there is no
\* container.
LEMMA ResumeAttends ==
    ASSUME TypeOK, RouteInv, resume_backends
    PROVE  StrandInv'
  <1> USE ExecutorAssumption
  <1>1. /\ UNCHANGED <<cont, db, route>>
        /\ \A t \in Task : pc'[t] = IF db[BackendOf[t]] \in BackendStates
                                         /\ t = FirstTask(BackendOf[t])
                                     THEN "Enter" ELSE "Free"
    BY Zenon DEF resume_backends, Resume
  <1>2. ASSUME NEW t \in Task PROVE AttendedAtPc(t)'
    <2>1. pc'[t] \in {"Enter", "Free"}
      BY <1>1
    <2> QED BY <2>1 DEF AttendedAtPc
  <1>3. ASSUME NEW b \in Backend PROVE Driven(b)' \/ MayBeLeft(b)'
    <2>1. CASE db[b] = NoState
      <3>1. cont[b] = "Absent" /\ ~CountedAsRunning(db[b])
        BY <2>1 DEF RouteInv, RowIsFirst, CountedAsRunning, NoState
      <3> QED BY ZenonT(60), <1>1, <3>1 DEF MayBeLeft, CountedAsRunning
    <2>2. CASE db[b] \in BackendStates
      <3>1. PICK t \in Task : BackendOf[t] = b
        OBVIOUS
      <3>2. FirstTask(b) \in Task /\ BackendOf[FirstTask(b)] = b
        BY Zenon, <3>1 DEF FirstTask
      <3>3. pc'[FirstTask(b)] = "Enter"
        BY <1>1, <2>2, <3>2
      <3>4. Live(FirstTask(b))'
        BY <3>3 DEF Live
      <3> QED BY Zenon, <3>2, <3>3 DEF Driven, Live
    <2> QED BY Zenon, <2>1, <2>2 DEF TypeOK
  <1> QED BY Zenon, <1>2, <1>3 DEF StrandInv

\* The invariant is kept by every step.
LEMMA StrandNext ==
    ASSUME OnlyCrashes, TypeOK, TasksAreIndependent, TasksAreIndependent', RouteInv,
           StrandInv, [Next]_vars
    PROVE  StrandInv'
  <1>1. ASSUME NEW t \in Task, Spawn(t) \/ TaskStep(t) \/ IdleExpires(t)
        PROVE  StrandInv'
    <2>1. OthersUntouched(t)
      BY Zenon, <1>1, TaskTouches
    <2>2. /\ Running /\ (Live(t) \/ Live(t)') /\ AttendedAtPc(t)'
          /\ Live(t)' \/ MayBeLeft(BackendOf[t])'
      BY Zenon, <1>1, StepAttends
    <2> QED BY Zenon, <2>1, <2>2, OneTaskAttends
  <1>2. ASSUME NEW b \in Backend,
               KillBackend(b) \/ DieEvent(b) \/ LoseDieEvent(b) \/ ContainerExits(b)
        PROVE  StrandInv'
    BY Zenon, <1>2, EventsAttend
  <1>3. CASE Crash
    <2>1. ~Running'
      BY Zenon, <1>3 DEF Crash, Running
    <2> QED BY Zenon, <2>1 DEF StrandInv, AttendedAtPc
  <1>4. CASE resume_backends
    BY Zenon, <1>4, ResumeAttends
  <1>5. ASSUME NEW b \in Backend, LateCallEnds(b) PROVE StrandInv'
    BY Zenon, <1>5, LateCallAttends
  <1>6. CASE UNCHANGED vars
    BY Zenon, <1>6 DEF vars, StrandInv, AttendedAtPc, Running, Driven, Live, MayBeLeft,
       CountedAsRunning, RouteTaken
  <1> QED BY Zenon, <1>1, <1>2, <1>3, <1>4, <1>5, <1>6 DEF Next

\* The invariant holds before the first spawn, when there are no rows and containers.
LEMMA StrandInit == Init => StrandInv
  <1> SUFFICES ASSUME Init PROVE StrandInv
    OBVIOUS
  <1>1. /\ \A b \in Backend : cont[b] = "Absent" /\ db[b] = NoState
        /\ \A t \in Task : pc[t] = "Free"
    BY Zenon DEF Init, EngineInit
  <1>2. \A b \in Backend : ~CountedAsRunning(db[b])
    BY <1>1 DEF CountedAsRunning, NoState
  <1>3. \A t \in Task : pc[t] \notin {"Port", "Remove", "Removed"}
    BY <1>1
  <1> QED BY Zenon, <1>1, <1>2, <1>3 DEF StrandInv, AttendedAtPc, MayBeLeft

\* The invariant holds in every state.
LEMMA StrandHolds ==
    ASSUME MaxSpawns = 1, OnlyCrashes
    PROVE  Spec => []StrandInv
  <1>1. TypeOK /\ TasksAreIndependent /\ TasksAreIndependent' /\ RouteInv /\ StrandInv
            /\ [Next]_vars => StrandInv'
    BY StrandNext
  <1>2. "db" \notin Faults
    BY DEF OnlyCrashes
  <1> QED BY <1>1, <1>2, StrandInit, TypeCorrect, Independent, RoutesHold, PTL DEF Spec

\* NeverStranded: with unique ids, and when nothing goes wrong but crashes, publishing
\* and calls that Docker carries out after they were given up, every row that is not in a terminal state has a task that moves it on, or
\* has lost its route to another backend.
THEOREM NobodyIsStranded ==
    ASSUME MaxSpawns = 1, OnlyCrashes
    PROVE  Spec => []NeverStranded
  <1>1. StrandInv => NeverStranded
    BY Zenon DEF StrandInv, MayBeLeft, NeverStranded
  <1> QED BY <1>1, StrandHolds, PTL

\* OrphansHaveACause: under the same conditions a container without a task belongs
\* to a backend in ErrorLoading or to one whose route was taken, or it was created
\* or started by a call of load() that its task had given up.
THEOREM OrphansAreExplained ==
    ASSUME MaxSpawns = 1, OnlyCrashes
    PROVE  Spec => []OrphansHaveACause
  <1>1. StrandInv => OrphansHaveACause
    BY Zenon DEF StrandInv, MayBeLeft, OrphansHaveACause
  <1> QED BY <1>1, StrandHolds, PTL
=============================================================================
