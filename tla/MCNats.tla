------------------------------- MODULE MCNats -------------------------------
(***************************************************************************)
(* DnsRecords, Jetstream and Telemetry for TLC.  The three have no         *)
(* variable in common and no action of one waits for another, so that      *)
(* every behaviour of all is made of one behaviour of each: they are       *)
(* checked one at a time, and scope says which of them moves.              *)
(***************************************************************************)
EXTENDS DnsRecords, Jetstream, Telemetry

VARIABLE scope

vars == <<scope, dnsVars, streamVars, telemetryVars>>

\* The k-th name has the k-th subject, as backends and drones have.
OwnSubject == [n \in Name |-> n]

\* All names have one, as DNS names of a cluster have (for EveryNameIsListed).
OneSubject == [n \in Name |-> 1]

Init ==
    /\ scope \in {"Records", "Stream", "Telemetry"}
    /\ RecordInit /\ StreamInit /\ TelemetryInit
    /\ scope # "Stream" => command = "Status"

Records(A) ==
    /\ scope = "Records" /\ A
    /\ UNCHANGED <<scope, streamVars, telemetryVars>>
Stream(A) ==
    /\ scope = "Stream" /\ A
    /\ UNCHANGED <<scope, dnsVars, telemetryVars>>
Telemetry(A) ==
    /\ scope = "Telemetry" /\ A
    /\ UNCHANGED <<scope, dnsVars, streamVars>>

Next == Records(RecordNext) \/ Stream(StreamNext) \/ Telemetry(TelemetryNext)

\* The loops of a monitor run, messages arrive, the controller subscribes or
\* fails to, and time passes.
RecordFairness ==
    /\ WF_vars(Records(Send)) /\ WF_vars(Records(Acknowledged))
    /\ WF_vars(Records(Wake)) /\ WF_vars(Records(Deliver))
    /\ WF_vars(Records(Subscribe \/ SubscribeFails)) /\ WF_vars(Records(Second))

\* The server goes on delivering and a client that follows goes on reading.
StreamFairness ==
    /\ WF_vars(Stream(\E s \in Stored : PushMessage(s)))
    /\ WF_vars(Stream(\E s \in Stored : Redeliver(s)))
    /\ WF_vars(Stream(\E s \in acks : AckArrives(s)))
    /\ WF_vars(Stream(ReadMessage))

\* Both loops and do_logs run when they can; calls return.
TelemetryFairness ==
    /\ WF_vars(Telemetry(ReceiveLog)) /\ WF_vars(Telemetry(PublishLog))
    /\ WF_vars(Telemetry(NextLine)) /\ WF_vars(Telemetry(PublishLine))
    /\ WF_vars(Telemetry(Tick)) /\ WF_vars(Telemetry(Sampled \/ SampleFails))
    /\ WF_vars(Telemetry(PublishStats))

FairSpec ==
    /\ Init /\ [][Next]_vars
    /\ RecordFairness /\ StreamFairness /\ TelemetryFairness
=============================================================================
