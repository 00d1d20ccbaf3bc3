----------------------------- MODULE DnsRecords -----------------------------
(***************************************************************************)
(* How the address of a running backend gets into DNS and out of it: the   *)
(* dns_loop of its BackendMonitor (drone/src/agent/backend.rs), the        *)
(* SetDnsRecord messages on NATS, and the controller's subscription and    *)
(* record map (controller/src/dns/mod.rs).  Backends do not share          *)
(* anything here, so there is one.  The map is what DnsServer shows it to  *)
(* be: the record with the time since it was set, served up to Ttl.        *)
(***************************************************************************)
EXTENDS Naturals, Sequences

CONSTANTS Ttl,          \* SetDnsRecord::ttl (60)
          Buffer,       \* TTL_BUFFER_SECONDS (10)
          MaxPublish,   \* seconds a publish_jetstream may take
          MaxDelay,     \* seconds a message may be on its way
          MaxErrors,    \* bound: publish errors and lost messages
          MaxOutages,   \* bound: controller restarts and lost subscriptions
          MaxMonitors   \* bound: monitors created

ASSUME DnsRecordsAssumption ==
    /\ {Ttl, Buffer, MaxPublish, MaxDelay} \subseteq Nat
    /\ {MaxErrors, MaxOutages, MaxMonitors} \subseteq Nat
    /\ Buffer < Ttl

Gone == Ttl + 1
LongOff == Ttl + MaxDelay + 1

VARIABLES
    owned,      \* does the executor hold a BackendMonitor?
    loop,       \* dns_loop: "Off", "Publish" (not sent yet), "Ack", "Sleep"
    timer,      \* seconds spent in a publish, or left to sleep
    inFlight,   \* ages of the messages on their way, oldest first
    sub,        \* the controller's subscription: "Up", "Down" or "Dead"
    age,        \* seconds since the record was set; Gone if there is none
    offFor,     \* seconds since the monitor was dropped, up to LongOff
    heard,      \* a record has arrived since the present monitor was made
    errors, outages, monitors

dnsVars == <<owned, loop, timer, inFlight, sub, age, offFor, heard, errors, outages,
          monitors>>

\* Mutated form: no margin.
Mut_send_period == Ttl

send_period == Ttl - Buffer

RecordTypeOK ==
    /\ loop \in {"Off", "Publish", "Ack", "Sleep"}
    /\ timer \in 0..Ttl \cup 0..MaxPublish
    /\ inFlight \in Seq(0..MaxDelay)
    /\ {owned, heard} \subseteq BOOLEAN
    /\ sub \in {"Up", "Down", "Dead"}
    /\ age \in 0..Gone
    /\ offFor \in 0..LongOff
    /\ errors \in 0..MaxErrors
    /\ outages \in 0..MaxOutages
    /\ monitors \in 0..MaxMonitors

RecordInit ==
    /\ owned = FALSE /\ loop = "Off" /\ timer = 0 /\ inFlight = <<>>
    /\ sub = "Down" /\ age = Gone /\ offFor = LongOff /\ heard = FALSE
    /\ errors = 0 /\ outages = 0 /\ monitors = 0

-----------------------------------------------------------------------------
(* The monitor *)

\* BackendMonitor::new; in place of a monitor that is there already, which is
\* dropped.
NewMonitor ==
    /\ monitors < MaxMonitors
    /\ monitors' = monitors + 1
    /\ owned' = TRUE /\ loop' = "Publish" /\ timer' = 0
    /\ offFor' = 0 /\ heard' = FALSE
    /\ UNCHANGED <<inFlight, sub, age, errors, outages>>

\* Dropping the monitor aborts its loops (AbortOnDrop).
DropMonitor ==
    /\ owned
    /\ owned' = FALSE /\ loop' = "Off" /\ timer' = 0
    /\ offFor' = 0 /\ heard' = FALSE
    /\ UNCHANGED <<inFlight, sub, age, errors, outages, monitors>>

Send ==
    /\ loop = "Publish"
    /\ loop' = "Ack"
    /\ inFlight' = Append(inFlight, 0)
    /\ UNCHANGED <<owned, timer, sub, age, offFor, heard, errors, outages, monitors>>

Sleep == loop' = "Sleep" /\ timer' = send_period

Acknowledged ==
    /\ loop = "Ack"
    /\ Sleep
    /\ UNCHANGED <<owned, inFlight, sub, age, offFor, heard, errors, outages, monitors>>

\* Mutated form: the error ends the loop.
MutPublishFails ==
    /\ loop \in {"Publish", "Ack"} /\ errors < MaxErrors
    /\ errors' = errors + 1
    /\ loop' = "Dead" /\ timer' = 0
    /\ UNCHANGED <<owned, inFlight, sub, age, offFor, heard, outages, monitors>>

\* An error is logged; the loop sleeps as if nothing had happened.
PublishFails ==
    /\ loop \in {"Publish", "Ack"} /\ errors < MaxErrors
    /\ errors' = errors + 1
    /\ Sleep
    /\ UNCHANGED <<owned, inFlight, sub, age, offFor, heard, outages, monitors>>

Wake ==
    /\ loop = "Sleep" /\ timer = 0
    /\ loop' = "Publish"
    /\ UNCHANGED <<owned, timer, inFlight, sub, age, offFor, heard, errors, outages,
                   monitors>>

-----------------------------------------------------------------------------
(* The network and the controller *)

\* A core NATS subscription: what arrives while it is down is lost.
Deliver ==
    /\ inFlight # <<>>
    /\ inFlight' = Tail(inFlight)
    /\ age' = IF sub = "Up" THEN 0 ELSE age
    /\ heard' = (heard \/ (sub = "Up" /\ owned))
    /\ UNCHANGED <<owned, loop, timer, sub, offFor, errors, outages, monitors>>

Lose ==
    /\ inFlight # <<>> /\ errors < MaxErrors
    /\ inFlight' = Tail(inFlight)
    /\ errors' = errors + 1
    /\ UNCHANGED <<owned, loop, timer, sub, age, offFor, heard, outages, monitors>>

\* The stream of the subscription ends; the map stays.
Disconnect ==
    /\ sub = "Up" /\ outages < MaxOutages
    /\ outages' = outages + 1
    /\ sub' = "Down" /\ heard' = FALSE
    /\ UNCHANGED <<owned, loop, timer, inFlight, age, offFor, errors, monitors>>

\* Mutated form: the subscription begins with what JetStream has stored.
MutSubscribe ==
    /\ sub = "Down"
    /\ sub' = "Up"
    /\ age' = IF monitors > 0 THEN 0 ELSE age
    /\ UNCHANGED <<owned, loop, timer, inFlight, offFor, heard, errors, outages,
                   monitors>>

Subscribe ==
    /\ sub = "Down"
    /\ sub' = "Up"
    /\ UNCHANGED <<owned, loop, timer, inFlight, age, offFor, heard, errors, outages,
                   monitors>>

\* `?` ends the task, and nobody awaits it: the server goes on answering from
\* a map that is not updated any more.
SubscribeFails ==
    /\ sub = "Down" /\ outages < MaxOutages
    /\ outages' = outages + 1
    /\ sub' = "Dead"
    /\ UNCHANGED <<owned, loop, timer, inFlight, age, offFor, heard, errors, monitors>>

\* The process of the controller ends and is started again, with empty maps.
ControllerRestarts ==
    /\ outages < MaxOutages
    /\ outages' = outages + 1
    /\ sub' = "Down" /\ age' = Gone /\ heard' = FALSE
    /\ UNCHANGED <<owned, loop, timer, inFlight, offFor, errors, monitors>>

Second ==
    /\ loop \in {"Publish", "Ack"} => timer < MaxPublish
    /\ loop = "Sleep" => timer > 0
    /\ \A i \in DOMAIN inFlight : inFlight[i] < MaxDelay
    /\ timer' = CASE loop \in {"Publish", "Ack"} -> timer + 1
                  [] loop = "Sleep" -> timer - 1
                  [] OTHER -> timer
    /\ inFlight' = [i \in DOMAIN inFlight |-> inFlight[i] + 1]
    /\ age' = IF age < Gone THEN age + 1 ELSE Gone
    /\ offFor' = IF ~owned /\ offFor < LongOff THEN offFor + 1 ELSE offFor
    /\ UNCHANGED <<owned, loop, sub, heard, errors, outages, monitors>>

RecordNext ==
    \/ NewMonitor \/ DropMonitor \/ Send \/ Acknowledged \/ PublishFails \/ Wake
    \/ Deliver \/ Lose \/ Disconnect \/ Subscribe \/ SubscribeFails
    \/ ControllerRestarts \/ Second

RecordSpec == RecordInit /\ [][RecordNext]_dnsVars

-----------------------------------------------------------------------------
(* Properties *)

Served == age <= Ttl

\* While a monitor lives, no message is lost and the subscription stays, its
\* record is served without a gap from the first one on: the loop sleeps
\* Buffer less than the record lives, which covers the rest of one publish,
\* the start of the next and a delivery if together they take at most Buffer.
NoGap ==
    heard /\ errors = 0 /\ 2 * MaxPublish + MaxDelay <= Buffer => Served

\* The record of a backend whose monitor was dropped is served for at most one
\* time to live and one delivery: nothing removes it, it only expires.
RecordExpires ==
    ~owned /\ offFor = LongOff => ~Served

\* A controller that restarts has no records, and the ones JetStream stored
\* are not read again; the loops send them again, and from some point on the
\* record of a living monitor is served without end.
RecordReturns ==
    <>[](owned /\ sub = "Up") => <>[]Served

-----------------------------------------------------------------------------
(* What a message of the program says, and the code does not do *)

\* controller/src/dns/mod.rs:120: "SetDnsRecord connection lost; reconnecting."
\* An error of the next subscribe() ends the task.
LostSubscriptionIsRenewed ==
    sub = "Down" ~> sub = "Up"
=============================================================================
