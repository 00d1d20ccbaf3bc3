-------------------------- MODULE IdleSweepProofs --------------------------
(***************************************************************************)
(* The two bounds of IdleSweep for any max_idle_secs, any duration of a    *)
(* write, any number of connections and of errors.                         *)
(***************************************************************************)
EXTENDS IdleSweep, FiniteSetTheorems, TLAPS

\* The types the arguments need.
SweepTypeOK ==
    /\ half \in 0..1
    /\ lag \in Nat /\ seen \in Nat /\ wake \in Nat
    /\ openFor \in [Conn -> Nat]
    /\ flush \in {"Collect", "Write", "Sleep"}
    /\ timer \in Nat /\ errors \in 0..MaxErrors /\ quiet \in Nat
    /\ idle \in {"Read", "Decide", "Sleep", "Swept", "Error"}

\* The timer of record_connections, within its two waits.
TimerInv ==
    /\ flush = "Write" => timer <= MaxWrite
    /\ flush = "Sleep" => timer <= FlushPeriod
    /\ active => flush = "Write"

\* Durations and bounds are natural numbers.
LEMMA SweepNumbers ==
    /\ MaxIdle \in Nat /\ MaxWrite \in Nat /\ MaxErrors \in Nat
    /\ FlushPeriod \in Nat /\ FlushPeriod = 2
  BY IdleAssumption DEF FlushPeriod

\* The idle loop changes neither the recorder nor a connection.
LEMMA ExecutorFrame ==
    ASSUME Executor
    PROVE  UNCHANGED <<half, lag, conn, openFor, request_events, long_lived_connections,
                       flush, active, timer, errors, quiet>>
  BY Zenon DEF Executor, ReadLastActive, Sweep, SleepOn, DeadlineRace, WakeUp, proxyVars,
     flushVars

\* The recorder changes neither the idle loop nor a connection.
LEMMA RecorderFrame ==
    ASSUME Recorder
    PROVE  UNCHANGED <<half, idle, seen, wake, conn, openFor, long_lived_connections, quiet>>
  BY Zenon DEF Recorder, Collect, Write, NextRound, get_and_clear_active_backends, proxyVars,
     execVars

Handler(c) ==
    \/ Request(c) \/ Respond(c) \/ SwitchProtocols(c) \/ UpgradeFails(c)
    \/ increment_connections(c) \/ decrement_connections(c)

\* A handler changes neither the idle loop nor the recorder.
LEMMA HandlerFrame ==
    ASSUME NEW c \in Conn, Handler(c)
    PROVE  UNCHANGED <<half, lag, idle, seen, wake, flush, active, timer, errors>>
  BY Zenon DEF Handler, Request, Respond, SwitchProtocols, UpgradeFails,
     increment_connections, decrement_connections, execVars, flushVars

\* A handler forgets the time of its connection, or no time.
LEMMA HandlerTimes ==
    ASSUME SweepTypeOK, NEW c \in Conn, Handler(c)
    PROVE  /\ openFor' \in [Conn -> Nat]
           /\ \A d \in Conn : openFor'[d] \in {0, openFor[d]}
           /\ quiet' \in {0, quiet}
  BY Zenon, 0 \in Nat DEF Handler, Request, Respond, SwitchProtocols, UpgradeFails, Leave,
     increment_connections, decrement_connections, SweepTypeOK

\* Every step keeps the types.
LEMMA SweepTypeStep ==
    ASSUME SweepTypeOK, TimerInv, [Next]_vars
    PROVE  SweepTypeOK' /\ TimerInv'
  <1> USE SweepNumbers
  <1>1. CASE Executor
    <2>1. /\ seen' \in Nat /\ wake' \in Nat
          /\ idle' \in {"Read", "Decide", "Sleep", "Swept", "Error"}
      <3>1. CASE SleepOn
        BY <3>1 DEF SleepOn, IdleTime, SweepTypeOK
      <3>2. CASE ReadLastActive \/ Sweep \/ DeadlineRace \/ WakeUp
        BY Zenon, <3>2 DEF ReadLastActive, Sweep, DeadlineRace, WakeUp, SweepTypeOK
      <3> QED BY Zenon, <1>1, <3>1, <3>2 DEF Executor
    <2>2. UNCHANGED <<half, lag, openFor, flush, active, timer, errors, quiet>>
      BY Zenon, <1>1, ExecutorFrame
    <2> QED BY Zenon, <2>1, <2>2 DEF SweepTypeOK, TimerInv
  <1>2. CASE Recorder
    <2>1. CASE Collect
      BY <2>1 DEF Collect, SweepTypeOK, TimerInv, execVars
    <2>2. CASE Write
      <3>1. lag' \in Nat /\ errors' \in 0..MaxErrors
        BY <2>2 DEF Write, SweepTypeOK
      <3>2. flush' = "Sleep" /\ timer' = FlushPeriod /\ ~active'
        BY Zenon, <2>2 DEF Write
      <3>3. UNCHANGED <<half, idle, seen, wake, openFor, quiet>>
        BY Zenon, <1>2, RecorderFrame
      <3> QED BY <3>1, <3>2, <3>3 DEF SweepTypeOK, TimerInv
    <2>3. CASE NextRound
      BY <2>3 DEF NextRound, SweepTypeOK, TimerInv, execVars, proxyVars
    <2> QED BY Zenon, <1>2, <2>1, <2>2, <2>3 DEF Recorder
  <1>3. ASSUME NEW c \in Conn, Handler(c) PROVE SweepTypeOK' /\ TimerInv'
    <2>1. quiet' \in Nat
      BY <1>3, HandlerTimes DEF SweepTypeOK
    <2> QED BY Zenon, <1>3, <2>1, HandlerFrame, HandlerTimes DEF SweepTypeOK, TimerInv
  <1>4. CASE HalfSecond
    <2>1. openFor' \in [Conn -> Nat]
      BY <1>4 DEF HalfSecond, SweepTypeOK
    <2>2. half' \in 0..1 /\ lag' \in Nat /\ seen' \in Nat /\ wake' \in Nat
      BY <1>4 DEF HalfSecond, SweepTypeOK, Older
    <2>3. quiet' \in Nat
      BY <1>4 DEF HalfSecond, SweepTypeOK
    <2>4. UNCHANGED <<idle, flush, active, errors>>
      BY Zenon, <1>4 DEF HalfSecond
    <2>5. /\ timer' \in Nat
          /\ flush = "Write" => timer' <= MaxWrite
          /\ flush = "Sleep" => timer' <= FlushPeriod
      BY <1>4 DEF HalfSecond, SweepTypeOK, TimerInv
    <2> QED BY Zenon, <2>1, <2>2, <2>3, <2>4, <2>5 DEF SweepTypeOK, TimerInv
  <1>5. CASE UNCHANGED vars
    BY Zenon, <1>5 DEF vars, SweepTypeOK, TimerInv
  <1> QED BY Zenon, <1>1, <1>2, <1>3, <1>4, <1>5 DEF Next, Handler

-----------------------------------------------------------------------------
(* The multiset of ConnectionTracker counts the open connections.          *)

OpenConns == {c \in Conn : conn[c] = "Open"}

TrackerInv ==
    /\ conn \in [Conn -> {"None", "Request", "Upgrading", "Open"}]
    /\ long_lived_connections = Cardinality(OpenConns)
    /\ quiet > 0 => \A c \in Conn : conn[c] = "None"
    /\ \A c \in Conn : conn[c] # "Open" => openFor[c] = 0

\* A connection that opens is counted, and one that closes is not any more.
LEMMA CountOpen ==
    ASSUME TrackerInv, NEW c \in Conn
    PROVE  /\ conn[c] # "Open" => Cardinality(OpenConns \cup {c}) = Cardinality(OpenConns) + 1
           /\ conn[c] = "Open" => Cardinality(OpenConns \ {c}) = Cardinality(OpenConns) - 1
  <1>1. IsFiniteSet(OpenConns)
    BY IdleAssumption, FS_Subset DEF OpenConns
  <1>2. c \in OpenConns <=> conn[c] = "Open"
    BY DEF OpenConns
  <1> QED BY Zenon, <1>1, <1>2, FS_AddElement, FS_RemoveElement

\* A count says whether there is anything to count.
LEMMA CountIsRight ==
    ASSUME NEW S \in SUBSET Conn
    PROVE  /\ Cardinality(S) \in Nat
           /\ Cardinality(S) > 0 <=> \E c \in Conn : c \in S
  <1>1. IsFiniteSet(S)
    BY IdleAssumption, FS_Subset
  <1>2. Cardinality(S) \in Nat /\ (Cardinality(S) = 0 <=> S = {})
    BY <1>1, FS_CardinalityType, FS_EmptySet
  <1>3. S = {} <=> ~\E c \in Conn : c \in S
    BY Zenon
  <1> QED BY <1>2, <1>3

\* The tracker counts a backend as active while it has an open connection.
LEMMA TrackerCounts ==
    ASSUME TrackerInv
    PROVE  /\ long_lived_connections \in Nat
           /\ long_lived_connections > 0 <=> \E c \in Conn : conn[c] = "Open"
  <1>1. \A c \in Conn : c \in OpenConns <=> conn[c] = "Open"
    BY Zenon DEF OpenConns
  <1>2. OpenConns \in SUBSET Conn
    BY Zenon DEF OpenConns
  <1> QED BY Zenon, <1>1, <1>2, CountIsRight DEF TrackerInv

\* Every step keeps the count.
LEMMA TrackerStep ==
    ASSUME SweepTypeOK, TrackerInv, [Next]_vars
    PROVE  TrackerInv'
  <1>1. CASE UNCHANGED <<conn, openFor, long_lived_connections, quiet>>
    BY Zenon, <1>1 DEF TrackerInv, OpenConns
  <1>2. ASSUME NEW c \in Conn, Handler(c) PROVE TrackerInv'
    <2>1. CASE Request(c)
      <3>1. /\ conn' = [conn EXCEPT ![c] = "Request"] /\ conn[c] = "None" /\ quiet' = 0
            /\ UNCHANGED <<openFor, long_lived_connections>>
        BY Zenon, <2>1 DEF Request
      <3>2. OpenConns' = OpenConns
        BY <3>1 DEF OpenConns, TrackerInv
      <3> QED BY <3>1, <3>2 DEF TrackerInv
    <2>2. CASE Respond(c) \/ UpgradeFails(c)
      <3>1. /\ Leave(c) /\ conn[c] # "Open"
            /\ UNCHANGED <<quiet, long_lived_connections>>
        BY <2>2 DEF Respond, UpgradeFails
      <3>2. OpenConns' = OpenConns
        BY <3>1 DEF OpenConns, TrackerInv, Leave
      <3> QED BY <3>1, <3>2 DEF TrackerInv, Leave, SweepTypeOK
    <2>3. CASE SwitchProtocols(c)
      <3>1. /\ conn' = [conn EXCEPT ![c] = "Upgrading"] /\ conn[c] = "Request"
            /\ UNCHANGED <<quiet, openFor, long_lived_connections>>
        BY Zenon, <2>3 DEF SwitchProtocols
      <3>2. OpenConns' = OpenConns
        BY <3>1 DEF OpenConns, TrackerInv
      <3> QED BY <3>1, <3>2 DEF TrackerInv
    <2>4. CASE increment_connections(c)
      <3>1. /\ conn' = [conn EXCEPT ![c] = "Open"] /\ conn[c] = "Upgrading"
            /\ long_lived_connections' = long_lived_connections + 1
            /\ UNCHANGED <<quiet, openFor>>
        BY Zenon, <2>4 DEF increment_connections
      <3>2. OpenConns' = OpenConns \cup {c}
        BY <3>1 DEF OpenConns, TrackerInv
      <3>3. long_lived_connections' = Cardinality(OpenConns')
        BY Zenon, <3>1, <3>2, CountOpen DEF TrackerInv
      <3> QED BY <3>1, <3>3 DEF TrackerInv
    <2>5. CASE decrement_connections(c)
      <3>1. /\ Leave(c) /\ conn[c] = "Open"
            /\ long_lived_connections' = long_lived_connections - 1
            /\ UNCHANGED quiet
        BY Zenon, <2>5 DEF decrement_connections
      <3>2. OpenConns' = OpenConns \ {c}
        BY <3>1 DEF OpenConns, TrackerInv, Leave
      <3>3. long_lived_connections' = Cardinality(OpenConns')
        BY Zenon, <3>1, <3>2, CountOpen DEF TrackerInv
      <3> QED BY <3>1, <3>3 DEF TrackerInv, Leave, SweepTypeOK
    <2> QED BY Zenon, <1>2, <2>1, <2>2, <2>3, <2>4, <2>5 DEF Handler
  <1>3. CASE HalfSecond
    <2>1. UNCHANGED <<conn, long_lived_connections>>
      BY Zenon, <1>3 DEF HalfSecond
    <2>2. \A c \in Conn : conn[c] # "Open" => openFor'[c] = openFor[c]
      BY Zenon, <1>3 DEF HalfSecond
    <2>3. quiet' > 0 => \A c \in Conn : conn[c] = "None"
      BY <1>3 DEF HalfSecond
    <2> QED BY Zenon, <2>1, <2>2, <2>3 DEF TrackerInv, OpenConns
  <1> QED
    BY Zenon, <1>1, <1>2, <1>3, ExecutorFrame, RecorderFrame DEF Next, Handler, vars

-----------------------------------------------------------------------------
(* How long a connection can go without being recorded.                    *)

\* Half seconds from last_active to now.
Age == 2 * lag + half

\* Half seconds of the present round, from the end of the write before it.
InRound == CASE flush = "Sleep" -> FlushPeriod - timer
             [] flush = "Collect" -> FlushPeriod
             [] flush = "Write" -> FlushPeriod + timer

\* Since a connection was opened, or since the last record after that, only
\* rounds that failed have passed, and the present one; the first round of a
\* connection may have been in its write.
RecordedInTime(c) ==
    \/ openFor[c] <= MaxWrite + Rounds(errors) + InRound
    \/ Age <= Rounds(errors) + InRound + 1

RecordInv ==
    /\ \A c \in Conn : RecordedInTime(c)
    /\ flush = "Write" /\ ~active => \A c \in Conn : openFor[c] <= timer
    /\ idle = "Decide" => \A c \in Conn : openFor[c] < Established \/ IdleTime < RecordGap

\* One round more, and no more rounds than there are errors.
LEMMA MoreRounds ==
    ASSUME NEW n \in 0..MaxErrors
    PROVE  /\ Rounds(n) \in Nat
           /\ Rounds(n + 1) = Rounds(n) + FlushPeriod + MaxWrite
           /\ Rounds(n) <= Rounds(MaxErrors)
  <1> USE SweepNumbers
  <1> DEFINE F == FlushPeriod + MaxWrite
  <1>1. F \in Nat /\ n \in Nat /\ MaxErrors - n \in Nat
    OBVIOUS
  <1> HIDE DEF F
  <1>2. \A i, j \in Nat : F * i \in Nat /\ F * (i + j) = F * i + F * j
    BY <1>1
  <1>3. F * (n + 1) = F * n + F
    BY <1>1
  <1>4. F * (n + (MaxErrors - n)) = F * n + F * (MaxErrors - n) /\ F * (MaxErrors - n) \in Nat
    BY <1>1, <1>2
  <1>5. n + (MaxErrors - n) = MaxErrors
    BY <1>1
  <1>6. F * MaxErrors = F * n + F * (MaxErrors - n)
    BY <1>4, <1>5
  <1>7. F * n <= F * MaxErrors
    BY <1>1, <1>2, <1>4, <1>6
  <1> QED BY <1>1, <1>2, <1>3, <1>7 DEF F, Rounds

\* Where the recorder is in its round.
LEMMA RoundTimes ==
    ASSUME SweepTypeOK, TimerInv
    PROVE  /\ flush = "Sleep" => InRound = FlushPeriod - timer
           /\ flush = "Collect" => InRound = FlushPeriod
           /\ flush = "Write" => InRound = FlushPeriod + timer
           /\ InRound \in 0..FlushPeriod + MaxWrite
  <1>1. /\ flush = "Sleep" => InRound = FlushPeriod - timer
        /\ flush = "Collect" => InRound = FlushPeriod
        /\ flush = "Write" => InRound = FlushPeriod + timer
    BY DEF InRound
  <1> QED BY <1>1, SweepNumbers DEF SweepTypeOK, TimerInv

\* The two limits.
LEMMA LimitsInRounds ==
    /\ RecordGap = Rounds(MaxErrors) + FlushPeriod + MaxWrite + 2
    /\ Established = Rounds(MaxErrors) + FlushPeriod + 2 * MaxWrite + 1
    /\ RecordGap \in Nat /\ Established \in Nat
  <1>1. Rounds(MaxErrors + 1) = Rounds(MaxErrors) + FlushPeriod + MaxWrite
        /\ Rounds(MaxErrors) \in Nat
    BY SweepNumbers, MoreRounds
  <1>2. 1 + MaxErrors = MaxErrors + 1
    BY SweepNumbers
  <1> QED BY <1>1, <1>2, SweepNumbers DEF RecordGap, Established

\* A connection of the established age has been recorded within the gap.
LEMMA EstablishedIsRecorded ==
    ASSUME SweepTypeOK, TimerInv, NEW c \in Conn, RecordedInTime(c)
    PROVE  openFor[c] < Established \/ Age < RecordGap
  <1>1. Rounds(errors) \in Nat /\ Rounds(MaxErrors) \in Nat /\ Rounds(errors) <= Rounds(MaxErrors)
    BY SweepNumbers, MoreRounds DEF SweepTypeOK
  <1>2. InRound \in 0..FlushPeriod + MaxWrite
    BY RoundTimes
  <1>3. openFor[c] \in Nat /\ Age \in Nat
    BY DEF SweepTypeOK, Age
  <1> QED BY <1>1, <1>2, <1>3, LimitsInRounds, SweepNumbers DEF RecordedInTime

\* Every step keeps the account.
LEMMA RecordStep ==
    ASSUME SweepTypeOK, TimerInv, TrackerInv, RecordInv, SweepTypeOK', TimerInv', [Next]_vars
    PROVE  RecordInv'
  <1> USE SweepNumbers
  <1>0. /\ Rounds(errors) \in Nat /\ InRound \in 0..FlushPeriod + MaxWrite
        /\ Age \in Nat
    BY MoreRounds, RoundTimes DEF SweepTypeOK, Age
  <1>1. CASE Executor
    <2>1. UNCHANGED <<half, lag, openFor, flush, active, timer, errors>>
      BY Zenon, <1>1, ExecutorFrame
    <2>2. \A c \in Conn : RecordedInTime(c)'
      BY Zenon, <2>1 DEF RecordInv, RecordedInTime, Age, InRound, Rounds
    <2>3. ASSUME idle' = "Decide", NEW c \in Conn
          PROVE  openFor'[c] < Established \/ IdleTime' < RecordGap
      <3>1. ReadLastActive
        BY <1>1, <2>3 DEF Executor, Sweep, SleepOn, DeadlineRace, WakeUp
      <3>2. IdleTime' = Age
        BY Zenon, <2>1, <3>1 DEF ReadLastActive, IdleTime, Age
      <3>3. openFor[c] < Established \/ Age < RecordGap
        BY EstablishedIsRecorded DEF RecordInv
      <3> QED BY <2>1, <3>2, <3>3
    <2> QED BY Zenon, <2>1, <2>2, <2>3 DEF RecordInv
  <1>2. CASE Recorder
    <2>1. UNCHANGED <<half, idle, seen, openFor, conn, long_lived_connections>>
      BY Zenon, <1>2, RecorderFrame
    <2>2. idle' = "Decide" =>
              \A c \in Conn : openFor'[c] < Established \/ IdleTime' < RecordGap
      BY Zenon, <2>1 DEF RecordInv, IdleTime
    <2>3. CASE Collect
      <3>1. /\ flush = "Collect" /\ flush' = "Write" /\ timer' = 0
            /\ UNCHANGED <<lag, errors>>
            /\ active' = (request_events \/ long_lived_connections > 0)
        BY Zenon, <2>3 DEF Collect, get_and_clear_active_backends
      <3>2. InRound' = InRound
        BY <3>1, RoundTimes DEF InRound
      <3>3. \A c \in Conn : RecordedInTime(c)'
        BY Zenon, <2>1, <3>1, <3>2 DEF RecordInv, RecordedInTime, Age, Rounds
      <3>4. ~active' => \A c \in Conn : openFor'[c] <= timer'
        <4>1. ~active' => \A c \in Conn : conn[c] # "Open"
          BY Zenon, <3>1, TrackerCounts
        <4>2. ~active' => \A c \in Conn : openFor[c] = 0
          BY Zenon, <4>1 DEF TrackerInv
        <4> QED BY <2>1, <3>1, <4>2
      <3> QED BY Zenon, <2>2, <3>3, <3>4 DEF RecordInv
    <2>4. CASE Write
      <3>1. /\ flush = "Write" /\ flush' = "Sleep" /\ timer' = FlushPeriod
            /\ \/ lag' = (IF active THEN 0 ELSE lag) /\ errors' = errors
               \/ active /\ errors < MaxErrors /\ errors' = errors + 1 /\ lag' = lag
        BY Zenon, <2>4 DEF Write
      <3>2. InRound' = 0 /\ InRound = FlushPeriod + timer /\ timer <= MaxWrite /\ timer \in Nat
        BY <3>1, RoundTimes DEF InRound, TimerInv, SweepTypeOK
      <3>3. ASSUME NEW c \in Conn PROVE RecordedInTime(c)'
        <4>0. openFor'[c] = openFor[c] /\ openFor[c] \in Nat /\ half' = half /\ half \in 0..1
              /\ lag \in Nat
          BY <2>1 DEF SweepTypeOK
        <4>1. CASE active /\ lag' = 0 /\ errors' = errors
          <5>1. Age' <= 1 /\ Age' \in Nat
            BY <4>0, <4>1 DEF Age
          <5>2. Rounds(errors)' = Rounds(errors)
            BY <4>1 DEF Rounds
          <5> QED BY <1>0, <3>2, <4>0, <5>1, <5>2 DEF RecordedInTime
        <4>2. CASE ~active /\ lag' = lag /\ errors' = errors
          <5>1. openFor[c] <= timer
            BY <3>1, <4>2 DEF RecordInv
          <5>2. Rounds(errors)' = Rounds(errors)
            BY <4>2 DEF Rounds
          <5> QED BY <1>0, <3>2, <4>0, <5>1, <5>2 DEF RecordedInTime
        <4>3. CASE errors' = errors + 1 /\ lag' = lag
          <5>1. Rounds(errors)' = Rounds(errors) + FlushPeriod + MaxWrite
            <6>1. Rounds(errors + 1) = Rounds(errors) + FlushPeriod + MaxWrite
              BY MoreRounds DEF SweepTypeOK
            <6> QED BY <4>3, <6>1 DEF Rounds
          <5>2. Age' = Age
            BY <4>0, <4>3 DEF Age
          <5>3. RecordedInTime(c)
            BY DEF RecordInv
          <5> QED BY <1>0, <3>2, <4>0, <5>1, <5>2, <5>3 DEF RecordedInTime
        <4> QED BY <3>1, <4>1, <4>2, <4>3
      <3>4. flush' # "Write"
        BY <3>1
      <3> QED BY Zenon, <2>2, <3>3, <3>4 DEF RecordInv
    <2>5. CASE NextRound
      <3>1. /\ flush = "Sleep" /\ timer = 0 /\ flush' = "Collect"
            /\ UNCHANGED <<lag, active, timer, errors>>
        BY Zenon, <2>5 DEF NextRound
      <3>2. InRound' = InRound
        BY <3>1, RoundTimes DEF InRound
      <3>3. \A c \in Conn : RecordedInTime(c)'
        BY Zenon, <2>1, <3>1, <3>2 DEF RecordInv, RecordedInTime, Age, Rounds
      <3>4. flush' # "Write"
        BY <3>1
      <3> QED BY Zenon, <2>2, <3>3, <3>4 DEF RecordInv
    <2> QED BY Zenon, <1>2, <2>3, <2>4, <2>5 DEF Recorder
  <1>3. ASSUME NEW d \in Conn, Handler(d) PROVE RecordInv'
    <2>1. UNCHANGED <<half, lag, idle, seen, flush, active, timer, errors>>
      BY Zenon, <1>3, HandlerFrame
    <2>2. \A c \in Conn : openFor'[c] <= openFor[c] /\ openFor'[c] \in Nat /\ openFor[c] \in Nat
      BY <1>3, HandlerTimes DEF SweepTypeOK
    <2>3. /\ Age' = Age /\ InRound' = InRound /\ IdleTime' = IdleTime
          /\ Rounds(errors)' = Rounds(errors)
      BY Zenon, <2>1 DEF Age, InRound, IdleTime, Rounds
    <2>4. ASSUME NEW c \in Conn PROVE RecordedInTime(c)'
      <3>1. RecordedInTime(c)
        BY DEF RecordInv
      <3> QED BY <1>0, <2>2, <2>3, <3>1 DEF RecordedInTime
    <2>5. flush' = "Write" /\ ~active' => \A c \in Conn : openFor'[c] <= timer'
      BY <2>1, <2>2 DEF RecordInv, SweepTypeOK
    <2>6. idle' = "Decide" =>
              \A c \in Conn : openFor'[c] < Established \/ IdleTime' < RecordGap
      BY <2>1, <2>2, <2>3, LimitsInRounds DEF RecordInv
    <2> QED BY Zenon, <2>4, <2>5, <2>6 DEF RecordInv
  <1>4. CASE HalfSecond
    <2>1. /\ flush \in {"Write", "Sleep"} /\ UNCHANGED <<idle, flush, active, errors>>
          /\ flush = "Write" => timer' = timer + 1
          /\ flush = "Sleep" => timer' = timer - 1 /\ timer > 0
      BY <1>4 DEF HalfSecond, SweepTypeOK
    <2>2. InRound' = InRound + 1
      <3>1. /\ flush = "Sleep" => InRound = FlushPeriod - timer
            /\ flush = "Write" => InRound = FlushPeriod + timer
        BY RoundTimes
      <3>2. /\ flush' = "Sleep" => InRound' = FlushPeriod - timer'
            /\ flush' = "Write" => InRound' = FlushPeriod + timer'
        BY DEF InRound
      <3> QED BY <2>1, <3>1, <3>2 DEF SweepTypeOK
    <2>3. Age' <= Age + 1 /\ Age' \in Nat
      BY <1>4 DEF HalfSecond, SweepTypeOK, Age, Older
    <2>4. \A c \in Conn : openFor'[c] <= openFor[c] + 1 /\ openFor'[c] \in Nat
                         /\ openFor[c] \in Nat
      BY <1>4 DEF HalfSecond, SweepTypeOK
    <2>5. Rounds(errors)' = Rounds(errors)
      BY Zenon, <2>1 DEF Rounds
    <2>6. ASSUME NEW c \in Conn PROVE RecordedInTime(c)'
      <3>1. RecordedInTime(c)
        BY DEF RecordInv
      <3> QED BY <1>0, <2>2, <2>3, <2>4, <2>5, <3>1 DEF RecordedInTime
    <2>7. flush' = "Write" /\ ~active' => \A c \in Conn : openFor'[c] <= timer'
      BY <2>1, <2>4 DEF RecordInv, SweepTypeOK
    <2>8. idle' # "Decide"
      BY Zenon, <1>4, <2>1 DEF HalfSecond
    <2> QED BY Zenon, <2>6, <2>7, <2>8 DEF RecordInv
  <1>5. CASE UNCHANGED vars
    BY Zenon, <1>5 DEF vars, RecordInv, RecordedInTime, Age, InRound, Rounds, IdleTime
  <1> QED BY Zenon, <1>1, <1>2, <1>3, <1>4, <1>5 DEF Next, Handler

-----------------------------------------------------------------------------
(* How long an idle backend can go without being swept.                    *)

\* Half seconds from the last connection to the end of the write that records it.
LastRecord == FlushPeriod + 2 * MaxWrite

\* Activity that is to be collected came after the last time it was, and what is
\* being written was collected at most a round after the last connection.
Pending ==
    request_events \/ long_lived_connections > 0 =>
        /\ flush = "Write" => quiet <= timer
        /\ flush = "Sleep" => quiet + timer <= MaxWrite + FlushPeriod
        /\ flush = "Collect" => quiet <= MaxWrite + FlushPeriod

Written == active => quiet <= MaxWrite + FlushPeriod + timer

\* Until the loop is left, last_active is not much older than max_idle_secs, nor
\* is the last connection much older than that.
NotOverdue ==
    idle \notin {"Swept", "Error"} =>
        Age <= 2 * MaxIdle + 1 /\ quiet <= Age + LastRecord

\* The loop sleeps for what is left of max_idle_secs since the last_active it has
\* read, which may have been replaced since.
LoopSleeps ==
    /\ idle \in {"Decide", "Sleep"} => lag <= seen
    /\ idle = "Sleep" => /\ IdleTime <= 2 * MaxIdle + 1
                         /\ wake > 0 => IdleTime + wake = 2 * MaxIdle

QuietInv == NotOverdue /\ LoopSleeps /\ Pending /\ Written

\* Every step keeps the account.
LEMMA QuietStep ==
    ASSUME SweepTypeOK, TimerInv, TrackerInv, QuietInv, SweepTypeOK', TrackerInv',
           [Next]_vars
    PROVE  QuietInv'
  <1> USE SweepNumbers
  <1>0. /\ Age \in Nat /\ IdleTime \in Nat /\ LastRecord \in Nat
        /\ LastRecord = FlushPeriod + 2 * MaxWrite
        /\ long_lived_connections \in Nat
    BY TrackerCounts DEF SweepTypeOK, Age, IdleTime, LastRecord
  <1>1. CASE Executor
    <2>1. UNCHANGED <<half, lag, request_events, long_lived_connections, flush, active, timer,
                      quiet>>
      BY Zenon, <1>1, ExecutorFrame
    <2>2. Age' = Age
      BY Zenon, <2>1 DEF Age
    <2>3. NotOverdue' /\ LoopSleeps'
      <3>1. CASE ReadLastActive
        BY <2>1, <2>2, <3>1 DEF ReadLastActive, QuietInv, NotOverdue, LoopSleeps, SweepTypeOK
      <3>2. CASE Sweep \/ DeadlineRace
        BY <3>2 DEF Sweep, DeadlineRace, NotOverdue, LoopSleeps
      <3>3. CASE SleepOn
        <4>1. idle = "Decide" /\ IdleTime <= 2 * MaxIdle /\ wake' = 2 * MaxIdle - IdleTime
              /\ seen' = seen /\ idle' = "Sleep"
          BY Zenon, <3>3 DEF SleepOn
        <4>2. IdleTime' = IdleTime
          BY Zenon, <2>1, <4>1 DEF IdleTime
        <4> QED BY <1>0, <2>1, <2>2, <4>1, <4>2 DEF QuietInv, NotOverdue, LoopSleeps
      <3>4. CASE WakeUp
        BY <2>1, <2>2, <3>4 DEF WakeUp, QuietInv, NotOverdue, LoopSleeps
      <3> QED BY Zenon, <1>1, <3>1, <3>2, <3>3, <3>4 DEF Executor
    <2>4. Pending' /\ Written'
      BY Zenon, <2>1 DEF QuietInv, Pending, Written
    <2> QED BY Zenon, <2>3, <2>4 DEF QuietInv
  <1>2. CASE Recorder
    <2>1. UNCHANGED <<half, idle, seen, wake, long_lived_connections, quiet>>
      BY Zenon, <1>2, RecorderFrame
    <2>2. IdleTime' = IdleTime
      BY Zenon, <2>1 DEF IdleTime
    <2>3. CASE Collect
      <3>1. /\ flush = "Collect" /\ flush' = "Write" /\ timer' = 0 /\ lag' = lag
            /\ active' = (request_events \/ long_lived_connections > 0)
            /\ ~request_events'
        BY Zenon, <2>3 DEF Collect, get_and_clear_active_backends
      <3>2. Age' = Age
        BY Zenon, <2>1, <3>1 DEF Age
      <3>3. Written'
        <4>1. active' => quiet <= MaxWrite + FlushPeriod
          BY Zenon, <3>1 DEF QuietInv, Pending
        <4> QED BY <2>1, <3>1, <4>1 DEF Written
      <3>4. Pending'
        <4>1. long_lived_connections > 0 => quiet <= 0
          BY TrackerCounts DEF TrackerInv, SweepTypeOK
        <4> QED BY <2>1, <3>1, <4>1 DEF Pending
      <3>5. NotOverdue' /\ LoopSleeps'
        BY Zenon, <2>1, <2>2, <3>1, <3>2 DEF QuietInv, NotOverdue, LoopSleeps
      <3> QED BY Zenon, <3>3, <3>4, <3>5 DEF QuietInv
    <2>4. CASE Write
      <3>1. /\ flush = "Write" /\ flush' = "Sleep" /\ timer' = FlushPeriod /\ ~active'
            /\ lag' = lag \/ (active /\ lag' = 0)
            /\ request_events' = request_events
        BY Zenon, <2>4 DEF Write, proxyVars
      <3>2. timer <= MaxWrite /\ timer \in Nat /\ quiet \in Nat
        BY <3>1 DEF TimerInv, SweepTypeOK
      <3>3. Pending' /\ Written'
        <4>1. request_events \/ long_lived_connections > 0 => quiet <= timer
          BY Zenon, <3>1 DEF QuietInv, Pending
        <4>2. quiet <= timer => quiet' + timer' <= MaxWrite + FlushPeriod
          BY <2>1, <3>1, <3>2
        <4>3. flush' # "Write" /\ flush' # "Collect"
          BY <3>1
        <4> QED BY Zenon, <2>1, <3>1, <4>1, <4>2, <4>3 DEF Pending, Written
      <3>4. CASE lag' = lag
        <4>1. Age' = Age
          BY Zenon, <2>1, <3>4 DEF Age
        <4>2. NotOverdue' /\ LoopSleeps'
          BY Zenon, <2>1, <2>2, <3>4, <4>1 DEF QuietInv, NotOverdue, LoopSleeps
        <4> QED BY Zenon, <3>3, <4>2 DEF QuietInv
      <3>5. CASE active /\ lag' = 0
        <4>1. Age' \in Nat /\ Age' <= 1 /\ lag' <= seen'
          BY <2>1, <3>5 DEF Age, SweepTypeOK
        <4>2. quiet <= LastRecord
          BY <3>2, <3>5 DEF QuietInv, Written, LastRecord
        <4>3. Age' <= 2 * MaxIdle + 1 /\ quiet' <= Age' + LastRecord
          <5>1. quiet' = quiet
            BY Zenon, <2>1
          <5>2. Age' <= 2 * MaxIdle + 1
            BY <4>1
          <5>3. \A a \in Nat : quiet <= a + LastRecord
            BY <1>0, <3>2, <4>2
          <5> QED BY Zenon, <4>1, <5>1, <5>2, <5>3
        <4>4. NotOverdue' /\ LoopSleeps'
          BY Zenon, <2>1, <2>2, <4>1, <4>3 DEF QuietInv, NotOverdue, LoopSleeps
        <4> QED BY Zenon, <3>3, <4>4 DEF QuietInv
      <3> QED BY Zenon, <3>1, <3>4, <3>5
    <2>5. CASE NextRound
      <3>1. /\ flush = "Sleep" /\ timer = 0 /\ flush' = "Collect"
            /\ UNCHANGED <<lag, active, timer, request_events>>
        BY Zenon, <2>5 DEF NextRound, proxyVars
      <3>2. Age' = Age
        BY Zenon, <2>1, <3>1 DEF Age
      <3>3. Written'
        BY <3>1 DEF TimerInv, Written
      <3>4. Pending'
        <4>1. request_events \/ long_lived_connections > 0 => quiet + timer <= MaxWrite + FlushPeriod
          BY Zenon, <3>1 DEF QuietInv, Pending
        <4>2. quiet + timer <= MaxWrite + FlushPeriod => quiet' <= MaxWrite + FlushPeriod
          BY <2>1, <3>1 DEF SweepTypeOK
        <4>3. flush' # "Write" /\ flush' # "Sleep"
          BY <3>1
        <4> QED BY Zenon, <2>1, <3>1, <4>1, <4>2, <4>3 DEF Pending
      <3>5. NotOverdue' /\ LoopSleeps'
        BY Zenon, <2>1, <2>2, <3>1, <3>2 DEF QuietInv, NotOverdue, LoopSleeps
      <3> QED BY Zenon, <3>3, <3>4, <3>5 DEF QuietInv
    <2> QED BY Zenon, <1>2, <2>3, <2>4, <2>5 DEF Recorder
  <1>3. ASSUME NEW d \in Conn, Handler(d) PROVE QuietInv'
    <2>1. UNCHANGED <<half, lag, idle, seen, wake, flush, active, timer>>
      BY Zenon, <1>3, HandlerFrame
    <2>2. Age' = Age /\ IdleTime' = IdleTime
      BY Zenon, <2>1 DEF Age, IdleTime
    <2>3. quiet' <= quiet /\ quiet' \in Nat /\ quiet \in Nat /\ timer \in Nat
      BY <1>3, HandlerTimes DEF SweepTypeOK
    <2>4. \/ quiet' = 0
          \/ long_lived_connections' > 0
          \/ request_events' = request_events
      BY Zenon, <1>3 DEF Handler, Request, Respond, SwitchProtocols, UpgradeFails,
         increment_connections, decrement_connections
    <2>5. long_lived_connections' > 0 => quiet' = 0
      <3>1. long_lived_connections' > 0 => \E c \in Conn : conn'[c] = "Open"
        <4>1. \A c \in Conn : c \in OpenConns' <=> conn'[c] = "Open"
          BY Zenon DEF OpenConns
        <4>2. OpenConns' \in SUBSET Conn
          BY Zenon DEF OpenConns
        <4> QED BY Zenon, <4>1, <4>2, CountIsRight DEF TrackerInv
      <3> QED BY <2>3, <3>1 DEF TrackerInv
    <2>6. request_events' \/ long_lived_connections' > 0 =>
              quiet' = 0 \/ request_events
      BY Zenon, <2>4, <2>5
    <2>7. Pending'
      <3>1. CASE quiet' = 0
        BY <2>1, <2>3, <3>1 DEF TimerInv, Pending
      <3>2. CASE request_events
        <4>1. /\ flush = "Write" => quiet <= timer
              /\ flush = "Sleep" => quiet + timer <= MaxWrite + FlushPeriod
              /\ flush = "Collect" => quiet <= MaxWrite + FlushPeriod
          BY Zenon, <3>2 DEF QuietInv, Pending
        <4>2. timer' = timer /\ flush' = flush
          BY Zenon, <2>1
        <4>3. flush = "Write" => quiet' <= timer
          BY <2>3, <4>1
        <4>4. flush = "Sleep" => quiet' + timer <= MaxWrite + FlushPeriod
          <5>1. \A m, n, q, t \in Nat : n <= q /\ q + t <= m => n + t <= m
            OBVIOUS
          <5>2. MaxWrite + FlushPeriod \in Nat
            OBVIOUS
          <5> QED BY Zenon, <2>3, <4>1, <5>1, <5>2
        <4>5. flush = "Collect" => quiet' <= MaxWrite + FlushPeriod
          BY <2>3, <4>1
        <4> QED BY Zenon, <4>2, <4>3, <4>4, <4>5 DEF Pending
      <3> QED BY Zenon, <2>6, <3>1, <3>2 DEF Pending
    <2>8. Written'
      BY <2>1, <2>3 DEF QuietInv, Written
    <2>9. NotOverdue'
      <3>1. quiet <= Age + LastRecord => quiet' <= Age + LastRecord
        BY <1>0, <2>3
      <3> QED BY Zenon, <2>1, <2>2, <3>1 DEF QuietInv, NotOverdue
    <2>10. LoopSleeps'
      BY Zenon, <2>1, <2>2 DEF QuietInv, LoopSleeps
    <2> QED BY Zenon, <2>7, <2>8, <2>9, <2>10 DEF QuietInv
  <1>4. CASE HalfSecond
    <2>1. /\ UNCHANGED <<idle, flush, active, request_events, long_lived_connections>>
          /\ idle \notin {"Read", "Decide"} /\ flush # "Collect"
          /\ idle = "Sleep" /\ wake = 0 => IdleTime <= 2 * MaxIdle
          /\ half' = 1 - half /\ lag' = Older(lag) /\ seen' = Older(seen)
      BY Zenon, <1>4 DEF HalfSecond
    <2>2. /\ flush = "Write" => timer' = timer + 1
          /\ flush = "Sleep" => timer' = timer - 1 /\ timer > 0
          /\ wake' = IF wake > 0 THEN wake - 1 ELSE 0
      BY <1>4 DEF HalfSecond
    <2>3. quiet' <= quiet + 1 /\ quiet' \in Nat /\ quiet \in Nat
      BY <1>4 DEF HalfSecond, SweepTypeOK
    <2>4. long_lived_connections > 0 => quiet' = 0
      <3>1. long_lived_connections > 0 => \E c \in Conn : conn[c] = "Open"
        BY TrackerCounts
      <3> QED BY <1>4, <3>1 DEF HalfSecond
    <2>5. Written'
      BY <2>1, <2>2, <2>3 DEF QuietInv, Written, TimerInv, SweepTypeOK
    <2>6. Pending'
      <3>1. request_events \/ long_lived_connections > 0 =>
               /\ flush = "Write" => quiet <= timer
               /\ flush = "Sleep" => quiet + timer <= MaxWrite + FlushPeriod
        BY Zenon DEF QuietInv, Pending
      <3>2. /\ flush = "Write" /\ quiet <= timer => quiet' <= timer'
            /\ flush = "Sleep" /\ quiet + timer <= MaxWrite + FlushPeriod
                   => quiet' + timer' <= MaxWrite + FlushPeriod
        <4>1. /\ timer \in Nat
              /\ flush = "Write" => timer' = timer + 1
              /\ flush = "Sleep" => timer' = timer - 1
          BY Zenon, <2>2 DEF SweepTypeOK
        <4> QED BY <2>3, <4>1
      <3> QED BY Zenon, <2>1, <3>1, <3>2 DEF Pending
    <2>7. CASE idle = "Sleep"
      <3>1. lag <= seen /\ IdleTime <= 2 * MaxIdle /\ Age <= IdleTime
        <4>1. /\ lag <= seen /\ IdleTime <= 2 * MaxIdle + 1
              /\ wake > 0 => IdleTime + wake = 2 * MaxIdle
              /\ wake = 0 => IdleTime <= 2 * MaxIdle
          BY Zenon, <2>1, <2>7 DEF QuietInv, LoopSleeps
        <4>2. wake \in Nat /\ lag \in Nat /\ seen \in Nat /\ half \in 0..1
          BY Zenon DEF SweepTypeOK
        <4>3. Age <= IdleTime
          BY <4>1, <4>2 DEF Age, IdleTime
        <4> QED BY <1>0, <4>1, <4>2, <4>3
      <3>2. Age' = Age + 1 /\ IdleTime' = IdleTime + 1 /\ lag' <= seen'
        BY <2>1, <3>1 DEF Age, IdleTime, Older, MaxLag, SweepTypeOK
      <3>3. IdleTime' <= 2 * MaxIdle + 1
        BY <1>0, <3>1, <3>2
      <3>4. wake' > 0 => IdleTime' + wake' = 2 * MaxIdle
        <4>1. wake > 0 => IdleTime + wake = 2 * MaxIdle
          BY Zenon, <2>7 DEF QuietInv, LoopSleeps
        <4>2. wake \in Nat
          BY Zenon DEF SweepTypeOK
        <4> QED BY <1>0, <2>2, <3>2, <4>1, <4>2
      <3>5. Age' <= 2 * MaxIdle + 1 /\ quiet' <= Age' + LastRecord
        <4>1. quiet <= Age + LastRecord
          BY <2>7 DEF QuietInv, NotOverdue
        <4> QED BY <1>0, <2>3, <3>1, <3>2, <4>1
      <3>6. NotOverdue' /\ LoopSleeps'
        BY Zenon, <2>1, <3>2, <3>3, <3>4, <3>5 DEF NotOverdue, LoopSleeps
      <3> QED BY Zenon, <2>5, <2>6, <3>6 DEF QuietInv
    <2>8. CASE idle \in {"Swept", "Error"}
      BY <2>1, <2>5, <2>6, <2>8 DEF QuietInv, NotOverdue, LoopSleeps
    <2> QED BY Zenon, <2>1, <2>7, <2>8 DEF SweepTypeOK
  <1>5. CASE UNCHANGED vars
    BY Zenon, <1>5 DEF vars, QuietInv, NotOverdue, LoopSleeps, Pending, Written, Age, IdleTime
  <1> QED BY Zenon, <1>1, <1>2, <1>3, <1>4, <1>5 DEF Next, Handler

-----------------------------------------------------------------------------

SweepInv == SweepTypeOK /\ TimerInv /\ TrackerInv /\ RecordInv /\ QuietInv

\* The invariant holds when the route has just been inserted.
LEMMA SweepInit == Init => SweepInv
  <1> SUFFICES ASSUME Init PROVE SweepInv
    OBVIOUS
  <1> USE SweepNumbers
  <1>1. SweepTypeOK /\ TimerInv
    BY DEF Init, SweepTypeOK, TimerInv
  <1>2. TrackerInv
    <2>1. OpenConns = {}
      BY DEF Init, OpenConns
    <2>2. Cardinality({}) = 0
      BY FS_EmptySet
    <2> QED BY <2>1, <2>2 DEF Init, TrackerInv
  <1>3. RecordInv
    <2>1. Rounds(errors) \in Nat /\ InRound \in 0..FlushPeriod + MaxWrite
      BY <1>1, MoreRounds, RoundTimes DEF SweepTypeOK
    <2>2. \A c \in Conn : openFor[c] = 0
      BY DEF Init
    <2>3. \A c \in Conn : RecordedInTime(c)
      BY <2>1, <2>2 DEF RecordedInTime
    <2>4. flush # "Write" /\ idle # "Decide"
      BY DEF Init
    <2> QED BY Zenon, <2>3, <2>4 DEF RecordInv
  <1>4. QuietInv
    BY DEF Init, QuietInv, NotOverdue, LoopSleeps, Pending, Written, Age, LastRecord
  <1> QED BY <1>1, <1>2, <1>3, <1>4 DEF SweepInv

\* The invariant holds in every state.
LEMMA SweepHolds == Spec => []SweepInv
  <1>1. ASSUME SweepInv, [Next]_vars PROVE SweepInv'
    <2>1. SweepTypeOK /\ TimerInv /\ TrackerInv /\ RecordInv /\ QuietInv
      BY Zenon, <1>1 DEF SweepInv
    <2>2. SweepTypeOK' /\ TimerInv'
      BY Zenon, <1>1, <2>1, SweepTypeStep
    <2>3. TrackerInv'
      BY Zenon, <1>1, <2>1, TrackerStep
    <2>4. RecordInv'
      BY Zenon, <1>1, <2>1, <2>2, RecordStep
    <2>5. QuietInv'
      BY Zenon, <1>1, <2>1, <2>2, <2>3, QuietStep
    <2> QED BY Zenon, <2>2, <2>3, <2>4, <2>5 DEF SweepInv
  <1>2. SweepInv /\ [Next]_vars => SweepInv'
    BY <1>1
  <1> QED BY <1>2, SweepInit, PTL DEF Spec

\* SweptOnTime: for any max_idle_secs and any duration of a write, the idle loop has
\* ended max_idle_secs, a round with two writes and a second after the last
\* connection; errors of record_connections do not make it later.
THEOREM IdleIsSweptOnTime == Spec => []SweptOnTime
  <1>1. SweepInv => SweptOnTime
    <2> SUFFICES ASSUME SweepInv, idle \notin {"Swept", "Error"} PROVE quiet < MaxQuiet
      BY DEF SweptOnTime
    <2>1. Age <= 2 * MaxIdle + 1 /\ quiet <= Age + LastRecord
      BY Zenon DEF SweepInv, QuietInv, NotOverdue
    <2>2. Age \in Nat /\ quiet \in Nat
      BY DEF SweepInv, SweepTypeOK, Age
    <2> QED BY <2>1, <2>2, SweepNumbers DEF LastRecord, MaxQuiet
  <1> QED BY <1>1, SweepHolds, PTL

\* EstablishedIsNotSwept: for any number of connections, errors and any duration of
\* a write, if max_idle_secs covers the time between two records, a sweep finds no
\* connection that has been open for that time and one more write.
THEOREM EstablishedIsKept == Spec => EstablishedIsNotSwept
  <1>1. SweepInv /\ [Next]_vars =>
            [Sweep /\ 2 * MaxIdle >= RecordGap =>
                 \A c \in Conn : openFor[c] < Established]_vars
    <2> SUFFICES ASSUME SweepInv, Sweep, 2 * MaxIdle >= RecordGap, NEW c \in Conn
                 PROVE  openFor[c] < Established
      BY Zenon
    <2>1. idle = "Decide" /\ IdleTime >= 2 * MaxIdle
      BY Zenon DEF Sweep
    <2>2. openFor[c] < Established \/ IdleTime < RecordGap
      BY Zenon, <2>1 DEF SweepInv, RecordInv
    <2>3. IdleTime \in Nat
      BY DEF SweepInv, SweepTypeOK, IdleTime
    <2> QED BY <2>1, <2>2, <2>3, SweepNumbers, LimitsInRounds
  <1> QED BY <1>1, SweepHolds, PTL DEF Spec, EstablishedIsNotSwept
=============================================================================
