----------------------------- MODULE Telemetry ------------------------------
(***************************************************************************)
(* What a drone reports of itself and of a running backend: the log_loop   *)
(* and stats_loop of a BackendMonitor (drone/src/agent/backend.rs), the    *)
(* streams of the Docker engine they read (engines/docker), and the events *)
(* of the drone's own tracing on their way to NATS (core/src/logging.rs).  *)
(* Docker, NATS and the timer of tokio are external.                       *)
(***************************************************************************)
EXTENDS Naturals, Sequences

CONSTANTS Capacity,      \* of the channel of trace messages (128)
          MaxLines,      \* bound: lines the backend writes
          MaxEvents,     \* bound: trace events of the rest of the drone
          MaxFailures,   \* bound: failed calls and broken streams
          MaxLoops       \* bound: monitors created

ASSUME TelemetryAssumption ==
    /\ Capacity \in Nat \ {0}
    /\ {MaxLines, MaxEvents, MaxFailures, MaxLoops} \subseteq Nat

VARIABLES
    monitored,  \* does the executor hold a BackendMonitor?
    running,    \* does the container run?
    lines,      \* what the backend wrote: "Text", or "Bytes" that are no text
    logPc,      \* log_loop: LogPc
    at,         \* number of lines it has read
    published,  \* numbers of the lines that were published
    unsent,     \* numbers of those whose publish failed
    statsPc,    \* stats_loop: StatsPc
    ticker,     \* the Interval: "Armed" (it will wake the loop) or "Fired"
    previous,   \* StatsStream::last: is there a sample?
    attached,   \* has attach_nats been called?
    queued,     \* messages in the channel
    doLogs,     \* do_logs: "Receive" or "Publish"
    loops, events, failures

logVars == <<lines, logPc, at, published, unsent>>
statsVars == <<statsPc, ticker, previous>>
traceVars == <<attached, queued, doLogs>>
telemetryVars == <<monitored, running, logVars, statsVars, traceVars, loops, events,
                   failures>>

LogPc == {"Off", "Next", "Publish", "Ended"}
StatsPc == {"Off", "Asleep", "Sample", "Publish", "Panicked"}

TelemetryTypeOK ==
    /\ {monitored, running, previous, attached} \subseteq BOOLEAN
    /\ lines \in Seq({"Text", "Bytes"})
    /\ logPc \in LogPc /\ statsPc \in StatsPc
    /\ at \in 0..Len(lines)
    /\ published \cup unsent \subseteq DOMAIN lines
    /\ ticker \in {"Armed", "Fired"}
    /\ queued \in 0..Capacity
    /\ doLogs \in {"Receive", "Publish"}

TelemetryInit ==
    /\ monitored = FALSE /\ running = TRUE /\ lines = <<>>
    /\ logPc = "Off" /\ at = 0 /\ published = {} /\ unsent = {}
    /\ statsPc = "Off" /\ ticker = "Armed" /\ previous = FALSE
    /\ attached = FALSE /\ queued = 0 /\ doLogs = "Receive"
    /\ loops = 0 /\ events = 0 /\ failures = 0

Failure == failures < MaxFailures /\ failures' = failures + 1

-----------------------------------------------------------------------------
(* Tracing *)

Least(m, n) == IF m < n THEN m ELSE n

\* LogManagerLogger::on_event for n events: what finds the channel full is
\* dropped.
Trace(n) ==
    /\ queued' = Least(queued + n, Capacity)
    /\ UNCHANGED <<attached, doLogs>>

OtherEvent ==
    /\ events < MaxEvents /\ events' = events + 1
    /\ Trace(1)
    /\ UNCHANGED <<monitored, running, logVars, statsVars, loops, failures>>

\* NATS is connected after tracing has begun.
attach_nats ==
    /\ ~attached
    /\ attached' = TRUE
    /\ UNCHANGED <<monitored, running, logVars, statsVars, queued, doLogs, loops,
                   events, failures>>

ReceiveLog ==
    /\ attached /\ doLogs = "Receive" /\ queued > 0
    /\ doLogs' = "Publish" /\ queued' = queued - 1
    /\ UNCHANGED <<monitored, running, logVars, statsVars, attached, loops, events,
                   failures>>

\* Mutated form: the error is logged.
MutPublishLog ==
    /\ doLogs = "Publish"
    /\ doLogs' = "Receive"
    /\ queued' \in {queued, Least(queued + 1, Capacity)}
    /\ UNCHANGED <<monitored, running, logVars, statsVars, attached, loops, events,
                   failures>>

\* It succeeds, or the error is printed; no event is made of it.
PublishLog ==
    /\ doLogs = "Publish"
    /\ doLogs' = "Receive"
    /\ UNCHANGED <<monitored, running, logVars, statsVars, attached, queued, loops,
                   events, failures>>

-----------------------------------------------------------------------------
(* The container *)

WriteLine(kind) ==
    /\ running /\ Len(lines) < MaxLines
    /\ lines' = Append(lines, kind)
    /\ UNCHANGED <<monitored, running, logPc, at, published, unsent, statsVars,
                   traceVars, loops, events, failures>>

ContainerExits ==
    /\ running
    /\ running' = FALSE
    /\ UNCHANGED <<monitored, logVars, statsVars, traceVars, loops, events, failures>>

-----------------------------------------------------------------------------
(* The monitor *)

\* Mutated form: the stream begins with the lines to come.
MutStartLoops ==
    /\ loops < MaxLoops
    /\ loops' = loops + 1
    /\ monitored' = TRUE
    /\ logPc' = "Next" /\ at' = Len(lines)
    /\ statsPc' = "Sample" /\ ticker' = "Armed" /\ previous' = FALSE
    /\ Trace(2)
    /\ UNCHANGED <<running, lines, published, unsent, events, failures>>

\* BackendMonitor::new, by a task or, also for a container that has exited
\* meanwhile, when the drone starts again.  The log is read from its beginning;
\* the first tick of the interval is immediate.  Each loop announces itself.
StartLoops ==
    /\ loops < MaxLoops
    /\ loops' = loops + 1
    /\ monitored' = TRUE
    /\ logPc' = "Next" /\ at' = 0
    /\ statsPc' = "Sample" /\ ticker' = "Armed" /\ previous' = FALSE
    /\ Trace(2)
    /\ UNCHANGED <<running, lines, published, unsent, events, failures>>

\* The monitor is dropped, which aborts both loops.
AbortLoops ==
    /\ monitored
    /\ monitored' = FALSE
    /\ logPc' = "Off" /\ statsPc' = "Off"
    /\ UNCHANGED <<running, lines, at, published, unsent, ticker, previous, traceVars,
                   loops, events, failures>>

-----------------------------------------------------------------------------
(* log_loop *)

\* log_stream passes over what is not text.
NextLine ==
    /\ logPc = "Next" /\ at < Len(lines)
    /\ at' = at + 1
    /\ logPc' = IF lines[at'] = "Text" THEN "Publish" ELSE "Next"
    /\ UNCHANGED <<monitored, running, lines, published, unsent, statsVars, traceVars,
                   loops, events, failures>>

PublishLine ==
    /\ logPc = "Publish"
    /\ logPc' = "Next"
    /\ \/ /\ published' = published \cup {at}
          /\ UNCHANGED <<unsent, traceVars, failures>>
       \/ /\ Failure /\ unsent' = unsent \cup {at}
          /\ Trace(1)
          /\ UNCHANGED published
    /\ UNCHANGED <<monitored, running, lines, at, statsVars, loops, events>>

\* Docker ends the stream after the last line of an exited container, or it
\* breaks: its error is passed over and the end follows.
LogStreamEnds ==
    /\ logPc = "Next"
    /\ \/ ~running /\ at = Len(lines) /\ UNCHANGED failures
       \/ Failure
    /\ logPc' = "Ended"
    /\ Trace(1)
    /\ UNCHANGED <<monitored, running, lines, at, published, unsent, statsVars, loops,
                   events>>

-----------------------------------------------------------------------------
(* stats_loop, StatsStream::poll_next, get_stats *)

\* The interval is polled.  If it has elapsed, a sample is asked for and the
\* timer set again, and the waker of this poll stays with it.
PollTicker ==
    /\ ticker' = "Armed"
    /\ statsPc' = IF ticker = "Fired" THEN "Sample" ELSE "Asleep"

\* The timer wakes a loop that sleeps.
Tick ==
    /\ statsPc = "Asleep" /\ ticker = "Armed"
    /\ statsPc' = "Sample"
    /\ UNCHANGED <<monitored, running, logVars, ticker, previous, traceVars, loops,
                   events, failures>>

\* It wakes the loop while that waits for something else, and does not keep
\* its waker.
TickMissed ==
    /\ statsPc \in {"Sample", "Publish"} /\ ticker = "Armed"
    /\ ticker' = "Fired"
    /\ UNCHANGED <<monitored, running, logVars, statsPc, previous, traceVars, loops,
                   events, failures>>

\* Mutated form: the sample is not kept.
MutSampled ==
    /\ statsPc = "Sample"
    /\ statsPc' = IF previous THEN "Publish" ELSE "Asleep"
    /\ UNCHANGED <<monitored, running, logVars, ticker, previous, traceVars, loops,
                   events, failures>>

\* The first sample is kept and the answer is Pending, without polling the
\* interval; later ones are published.  The sample of a container that does not
\* run lacks fields, and unwrap() panics.
Sampled ==
    /\ statsPc = "Sample"
    /\ previous' = TRUE
    /\ statsPc' = CASE ~previous -> "Asleep"
                    [] previous /\ running -> "Publish"
                    [] previous /\ ~running -> "Panicked"
    /\ UNCHANGED <<monitored, running, logVars, ticker, traceVars, loops, events,
                   failures>>

\* An error of stats() is passed over: filter_map polls the interval again.
SampleFails ==
    /\ statsPc = "Sample" /\ (~running \/ failures < MaxFailures)
    /\ failures' = IF running THEN failures + 1 ELSE failures
    /\ PollTicker
    /\ UNCHANGED <<monitored, running, logVars, previous, traceVars, loops, events>>

PublishStats ==
    /\ statsPc = "Publish"
    /\ PollTicker
    /\ \/ UNCHANGED <<traceVars, failures>>
       \/ Failure /\ Trace(1)
    /\ UNCHANGED <<monitored, running, logVars, previous, loops, events>>

-----------------------------------------------------------------------------
TelemetryNext ==
    \/ OtherEvent \/ attach_nats \/ ReceiveLog \/ PublishLog
    \/ \E kind \in {"Text", "Bytes"} : WriteLine(kind)
    \/ ContainerExits
    \/ StartLoops \/ AbortLoops
    \/ NextLine \/ PublishLine \/ LogStreamEnds
    \/ Tick \/ TickMissed \/ Sampled \/ SampleFails \/ PublishStats

-----------------------------------------------------------------------------
(* Properties *)

\* Docker answers the first stats() of every monitor before the next tick; its
\* comment speaks of one second in ten.
FirstSampleIsQuick ==
    statsPc = "Sample" /\ ~previous => ticker = "Armed"

\* The stats of a running, monitored backend go on for ever, although poll_next
\* answers Pending for the first sample and no poll has asked for a wake-up
\* since: the timer still has the waker of its last poll.  That is so as long
\* as it does not fire before the first sample is there.
StatsKeepComing ==
    []FirstSampleIsQuick /\ <>[](monitored /\ running) => []<>(statsPc = "Publish")

\* Every line of text a backend has written reaches log subscribers, those
\* included that it wrote before its monitor or while the drone was down,
\* unless their publish failed or the log stream broke.
LinesAreForwarded ==
    \A i \in 1..MaxLines :
        <>[](monitored /\ logPc # "Ended" /\ i \in DOMAIN lines /\ lines[i] = "Text")
            => <>(i \in published \cup unsent)

\* on_event: "make sure logging in this function call does not trigger an
\* infinite loop".  Once the drone has nothing to say the channel is emptied,
\* also when no message can be published.
TraceComesToRest ==
    <>[]attached => <>[](queued = 0 /\ doLogs = "Receive")
=============================================================================
