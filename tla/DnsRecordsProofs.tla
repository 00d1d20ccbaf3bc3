-------------------------- MODULE DnsRecordsProofs --------------------------
(***************************************************************************)
(* NoGap and RecordExpires for any time to live, buffer, duration of a     *)
(* publish and of a delivery, and any number of monitors and outages.      *)
(***************************************************************************)
EXTENDS DnsRecords, TLAPS

\* A loop runs if and only if it is owned; a record is heard of only then and
\* while the subscription is up.
OwnedRuns ==
    /\ owned => loop # "Off"
    /\ ~owned => loop = "Off"
    /\ heard => owned /\ sub = "Up"

\* The types the arguments need.
ClockTypeOK ==
    /\ loop \in {"Off", "Publish", "Ack", "Sleep"}
    /\ loop \in {"Publish", "Ack"} => timer \in 0..MaxPublish
    /\ loop = "Sleep" => timer \in 0..send_period
    /\ timer \in Nat
    /\ inFlight \in Seq(0..MaxDelay)
    /\ age \in 0..Gone
    /\ offFor \in 0..LongOff
    /\ errors \in Nat

\* The longest time between two messages of a monitor.
Interval == MaxPublish + send_period + MaxPublish

\* How old the record can be: with nothing on its way, the last message sent
\* has arrived, and the loop's timer says when it was sent; otherwise the one
\* before the oldest on its way has.
AgeBounded ==
    /\ inFlight # <<>> => age <= Interval + inFlight[1]
    /\ inFlight = <<>> /\ loop = "Ack" => age <= timer
    /\ inFlight = <<>> /\ loop = "Sleep" => age <= MaxPublish + (send_period - timer)
    /\ inFlight = <<>> /\ loop = "Publish" => age <= MaxPublish + send_period + timer

GapInv ==
    /\ ClockTypeOK
    /\ OwnedRuns
    /\ heard /\ errors = 0 => AgeBounded

\* What was sent before the monitor was dropped is at least as old as the drop,
\* and a record younger than the drop was on its way.
ExpiryInv ==
    /\ ClockTypeOK
    /\ OwnedRuns
    /\ ~owned => /\ \A i \in 1..Len(inFlight) : offFor <= inFlight[i]
                 /\ age = Gone \/ offFor <= age + MaxDelay

\* Times are natural numbers.
LEMMA TimesAreNumbers ==
    /\ Ttl \in Nat /\ Buffer \in Nat /\ MaxPublish \in Nat /\ MaxDelay \in Nat
    /\ send_period \in Nat /\ send_period + Buffer = Ttl
    /\ Gone = Ttl + 1 /\ LongOff = Ttl + MaxDelay + 1
BY DnsRecordsAssumption DEF send_period, Gone, LongOff

\* What the queue of messages becomes.
LEMMA QueueSteps ==
    ASSUME ClockTypeOK
    PROVE  /\ Append(inFlight, 0) \in Seq(0..MaxDelay)
           /\ inFlight # <<>> => Tail(inFlight) \in Seq(0..MaxDelay)
           /\ inFlight # <<>> => inFlight[1] \in 0..MaxDelay
BY TimesAreNumbers DEF ClockTypeOK

\* A second makes every message on its way a second older.
LEMMA QueueGrowsOlder ==
    ASSUME ClockTypeOK, Second
    PROVE  /\ inFlight' \in Seq(0..MaxDelay)
           /\ Len(inFlight') = Len(inFlight)
           /\ \A i \in 1..Len(inFlight) : inFlight'[i] = inFlight[i] + 1
<1>1. /\ inFlight \in Seq(0..MaxDelay) /\ DOMAIN inFlight = 1..Len(inFlight)
      /\ Len(inFlight) \in Nat
  BY DEF ClockTypeOK
<1>2. \A i \in 1..Len(inFlight) : inFlight[i] \in 0..MaxDelay /\ inFlight[i] < MaxDelay
  <2>1. \A i \in DOMAIN inFlight : inFlight[i] < MaxDelay
    BY Zenon DEF Second
  <2>2. \A i \in 1..Len(inFlight) : inFlight[i] \in 0..MaxDelay
    BY <1>1, TimesAreNumbers
  <2>. QED
    BY <1>1, <2>1, <2>2, Zenon
<1>3. \A i \in 1..Len(inFlight) : inFlight[i] + 1 \in 0..MaxDelay
  BY <1>2, TimesAreNumbers
<1>4. inFlight' = [i \in 1..Len(inFlight) |-> inFlight[i] + 1]
  BY <1>1 DEF Second
<1>5. inFlight' \in [1..Len(inFlight) -> 0..MaxDelay]
  BY <1>3, <1>4
<1>. QED
  BY <1>1, <1>4, <1>5

\* Every step keeps the types: timers stay within what they count to.
LEMMA ClockTypeStep ==
    ASSUME ClockTypeOK, [RecordNext]_dnsVars
    PROVE  ClockTypeOK'
<1>. USE TimesAreNumbers
<1>1. CASE NewMonitor
  BY <1>1 DEF NewMonitor, ClockTypeOK
<1>2. CASE DropMonitor
  BY <1>2 DEF DropMonitor, ClockTypeOK
<1>3. CASE Send
  BY <1>3, QueueSteps DEF Send, ClockTypeOK
<1>4. CASE Acknowledged
  BY <1>4 DEF Acknowledged, ClockTypeOK, Sleep
<1>5. CASE PublishFails
  BY <1>5 DEF PublishFails, ClockTypeOK, Sleep
<1>6. CASE Wake
  BY <1>6 DEF Wake, ClockTypeOK
<1>7. CASE Deliver
  BY <1>7, QueueSteps DEF Deliver, ClockTypeOK
<1>8. CASE Lose
  BY <1>8, QueueSteps DEF Lose, ClockTypeOK
<1>9. CASE Disconnect
  BY <1>9 DEF Disconnect, ClockTypeOK
<1>10. CASE Subscribe
  BY <1>10 DEF Subscribe, ClockTypeOK
<1>11. CASE SubscribeFails
  BY <1>11 DEF SubscribeFails, ClockTypeOK
<1>12. CASE ControllerRestarts
  BY <1>12 DEF ControllerRestarts, ClockTypeOK
<1>13. CASE Second
  <2>1. /\ loop' = loop /\ errors' = errors
        /\ inFlight' \in Seq(0..MaxDelay)
    BY <1>13, QueueGrowsOlder DEF Second
  <2>2. /\ age' = IF age < Gone THEN age + 1 ELSE Gone
        /\ offFor' = offFor \/ (offFor < LongOff /\ offFor' = offFor + 1)
    BY <1>13 DEF Second
  <2>3. age' \in 0..Gone /\ offFor' \in 0..LongOff
    BY <2>2 DEF ClockTypeOK
  <2>4. CASE loop \in {"Publish", "Ack"}
    <3>1. timer < MaxPublish /\ timer' = timer + 1
      BY <1>13, <2>4 DEF Second
    <3>. QED
      BY <2>1, <2>3, <2>4, <3>1 DEF ClockTypeOK
  <2>5. CASE loop = "Sleep"
    <3>1. timer > 0 /\ timer' = timer - 1
      BY <1>13, <2>5 DEF Second
    <3>. QED
      BY <2>1, <2>3, <2>5, <3>1 DEF ClockTypeOK
  <2>6. CASE loop \notin {"Publish", "Ack", "Sleep"}
    <3>1. timer' = timer
      BY <1>13, <2>6 DEF Second
    <3>. QED
      BY <2>1, <2>3, <2>6, <3>1 DEF ClockTypeOK
  <2>. QED
    BY <2>4, <2>5, <2>6
<1>14. CASE UNCHANGED dnsVars
  BY <1>14 DEF dnsVars, ClockTypeOK
<1>. QED
  BY <1>1, <1>2, <1>3, <1>4, <1>5, <1>6, <1>7, <1>8, <1>9, <1>10,
     <1>11, <1>12, <1>13, <1>14 DEF RecordNext

\* Every step keeps owner and loop together: AbortOnDrop ends the loop.
LEMMA OwnedStep ==
    ASSUME OwnedRuns, [RecordNext]_dnsVars
    PROVE  OwnedRuns'
<1>1. CASE NewMonitor
  BY <1>1, Zenon DEF NewMonitor, OwnedRuns
<1>2. CASE DropMonitor
  BY <1>2, Zenon DEF DropMonitor, OwnedRuns
<1>3. CASE Send
  BY <1>3, Zenon DEF Send, OwnedRuns
<1>4. CASE Acknowledged
  BY <1>4, Zenon DEF Acknowledged, OwnedRuns, Sleep
<1>5. CASE PublishFails
  BY <1>5, Zenon DEF PublishFails, OwnedRuns, Sleep
<1>6. CASE Wake
  BY <1>6, Zenon DEF Wake, OwnedRuns
<1>7. CASE Deliver
  BY <1>7, Zenon DEF Deliver, OwnedRuns
<1>8. CASE Lose
  BY <1>8, Zenon DEF Lose, OwnedRuns
<1>9. CASE Disconnect
  BY <1>9, Zenon DEF Disconnect, OwnedRuns
<1>10. CASE Subscribe
  BY <1>10, Zenon DEF Subscribe, OwnedRuns
<1>11. CASE SubscribeFails
  BY <1>11, Zenon DEF SubscribeFails, OwnedRuns
<1>12. CASE ControllerRestarts
  BY <1>12, Zenon DEF ControllerRestarts, OwnedRuns
<1>13. CASE Second
  BY <1>13, Zenon DEF Second, OwnedRuns
<1>14. CASE UNCHANGED dnsVars
  BY <1>14, Zenon DEF dnsVars, OwnedRuns
<1>. QED
  BY <1>1, <1>2, <1>3, <1>4, <1>5, <1>6, <1>7, <1>8, <1>9, <1>10,
     <1>11, <1>12, <1>13, <1>14 DEF RecordNext

\* No step makes the record older than that: dns_loop sends the next one in
\* time, and messages arrive in their order.
LEMMA GapStep ==
    ASSUME GapInv, [RecordNext]_dnsVars
    PROVE  GapInv'
<1>1. ClockTypeOK /\ ClockTypeOK' /\ OwnedRuns /\ OwnedRuns'
  BY ClockTypeStep, OwnedStep DEF GapInv
<1>2. SUFFICES ASSUME heard', errors' = 0 PROVE AgeBounded'
  BY <1>1 DEF GapInv
<1>3. CASE NewMonitor \/ DropMonitor \/ Disconnect \/ ControllerRestarts
  BY <1>2, <1>3, Zenon DEF NewMonitor, DropMonitor, Disconnect, ControllerRestarts
<1>4. CASE PublishFails \/ Lose
  <2>1. errors' = errors + 1
    BY <1>4, Zenon DEF PublishFails, Lose
  <2>. QED
    BY <1>1, <1>2, <2>1 DEF ClockTypeOK
<1>5. CASE Subscribe \/ SubscribeFails
  <2>1. heard /\ sub = "Down"
    BY <1>2, <1>5, Zenon DEF Subscribe, SubscribeFails
  <2>. QED
    BY <1>1, <2>1 DEF OwnedRuns
<1>6. CASE Send
  <2>1. /\ heard /\ errors = 0 /\ age' = age /\ loop = "Publish"
        /\ inFlight' = Append(inFlight, 0)
    BY <1>2, <1>6 DEF Send
  <2>2. AgeBounded
    BY <2>1 DEF GapInv
  <2>3. inFlight' # <<>> /\ inFlight'[1] = IF inFlight = <<>> THEN 0 ELSE inFlight[1]
    BY <1>1, <2>1 DEF ClockTypeOK
  <2>4. age <= Interval + inFlight'[1]
    BY <1>1, <2>1, <2>2, <2>3, TimesAreNumbers DEF AgeBounded, ClockTypeOK, Interval
  <2>. QED
    BY <2>1, <2>3, <2>4 DEF AgeBounded, Interval
<1>7. CASE Acknowledged
  <2>1. /\ heard /\ errors = 0 /\ age' = age /\ inFlight' = inFlight
        /\ loop = "Ack" /\ loop' = "Sleep" /\ timer' = send_period
    BY <1>2, <1>7 DEF Acknowledged, Sleep
  <2>2. AgeBounded
    BY <2>1 DEF GapInv
  <2>. QED
    BY <1>1, <2>1, <2>2, TimesAreNumbers DEF AgeBounded, Interval, ClockTypeOK
<1>8. CASE Wake
  <2>1. /\ heard /\ errors = 0 /\ age' = age /\ inFlight' = inFlight
        /\ loop = "Sleep" /\ timer = 0 /\ loop' = "Publish" /\ timer' = timer
    BY <1>2, <1>8 DEF Wake
  <2>2. AgeBounded
    BY <2>1 DEF GapInv
  <2>. QED
    BY <1>1, <2>1, <2>2, TimesAreNumbers DEF AgeBounded, Interval, ClockTypeOK
<1>9. CASE Deliver
  <2>1. sub = "Up"
    BY <1>1, <1>2, <1>9, Zenon DEF Deliver, OwnedRuns
  <2>2. age' = 0
    BY <1>9, <2>1 DEF Deliver
  <2>3. inFlight' # <<>> => inFlight'[1] \in Nat
    BY <1>1, TimesAreNumbers DEF ClockTypeOK
  <2>4. timer' \in Nat
    BY <1>1 DEF ClockTypeOK
  <2>5. loop' = "Sleep" => timer' <= send_period
    BY <1>1, TimesAreNumbers DEF ClockTypeOK
  <2>6. ASSUME NEW n \in Nat
        PROVE  /\ 0 <= n /\ 0 <= Interval + n /\ 0 <= MaxPublish + send_period + n
               /\ n <= send_period => 0 <= MaxPublish + (send_period - n)
    BY TimesAreNumbers DEF Interval
  <2>7. inFlight' # <<>> => 0 <= Interval + inFlight'[1]
    BY <2>3, <2>6
  <2>8. /\ 0 <= timer' /\ 0 <= MaxPublish + send_period + timer'
        /\ loop' = "Sleep" => 0 <= MaxPublish + (send_period - timer')
    BY <2>4, <2>5, <2>6
  <2>. QED
    BY <2>2, <2>7, <2>8 DEF AgeBounded, Interval
<1>10. CASE Second
  <2>1. heard /\ errors = 0 /\ loop' = loop
    BY <1>2, <1>10 DEF Second
  <2>2. AgeBounded
    BY <2>1 DEF GapInv
  <2>3. age' <= age + 1 /\ age \in Nat /\ age' \in Nat
    BY SMTT(60), <1>1, <1>10, TimesAreNumbers DEF Second, ClockTypeOK
  <2>4. loop = "Sleep" => timer' = timer - 1
    BY <1>10 DEF Second
  <2>5. loop \in {"Publish", "Ack"} => timer' = timer + 1
    BY <1>10 DEF Second
  <2>6. CASE inFlight # <<>>
    <3>1. inFlight' # <<>> /\ inFlight'[1] = inFlight[1] + 1 /\ inFlight[1] \in Nat
      BY <1>1, <1>10, <2>6, QueueGrowsOlder, TimesAreNumbers DEF ClockTypeOK
    <3>. QED
      BY <2>2, <2>3, <2>6, <3>1, TimesAreNumbers DEF AgeBounded, Interval
  <2>7. CASE inFlight = <<>>
    <3>1. inFlight' = <<>>
      BY <1>1, <1>10, <2>7, QueueGrowsOlder DEF ClockTypeOK
    <3>2. timer \in Nat
      BY <1>1 DEF ClockTypeOK
    <3>. QED
      BY <2>1, <2>2, <2>3, <2>4, <2>5, <2>7, <3>1, <3>2, TimesAreNumbers
         DEF AgeBounded
  <2>. QED
    BY <2>6, <2>7
<1>11. CASE UNCHANGED dnsVars
  BY <1>2, <1>11 DEF dnsVars, GapInv, AgeBounded, Interval
<1>. QED
  BY <1>3, <1>4, <1>5, <1>6, <1>7, <1>8, <1>9, <1>10, <1>11 DEF RecordNext

\* After the drop nothing is sent: what is on its way only gets older.
LEMMA ExpiryStep ==
    ASSUME ExpiryInv, [RecordNext]_dnsVars
    PROVE  ExpiryInv'
<1>1. ClockTypeOK /\ ClockTypeOK' /\ OwnedRuns /\ OwnedRuns'
  BY ClockTypeStep, OwnedStep DEF ExpiryInv
<1>. DEFINE Behind == /\ \A i \in 1..Len(inFlight) : offFor <= inFlight[i]
                      /\ age = Gone \/ offFor <= age + MaxDelay
<1>2. SUFFICES ASSUME ~owned' PROVE Behind'
  BY <1>1 DEF ExpiryInv
<1>3. CASE NewMonitor
  BY <1>2, <1>3, Zenon DEF NewMonitor
<1>4. CASE DropMonitor
  <2>1. offFor' = 0
    BY <1>4 DEF DropMonitor
  <2>2. age' \in Nat /\ \A i \in 1..Len(inFlight') : inFlight'[i] \in Nat
    BY <1>1, TimesAreNumbers DEF ClockTypeOK
  <2>3. \A n \in Nat : 0 <= n /\ 0 <= n + MaxDelay
    BY TimesAreNumbers
  <2>. QED
    BY <2>1, <2>2, <2>3 DEF Gone
<1>5. CASE Send \/ Acknowledged \/ PublishFails \/ Wake
  <2>1. loop # "Off" /\ ~owned
    BY <1>2, <1>5 DEF Send, Acknowledged, PublishFails, Wake
  <2>. QED
    BY <1>1, <2>1 DEF OwnedRuns
<1>6. CASE Disconnect \/ Subscribe \/ SubscribeFails
  <2>1. ~owned /\ UNCHANGED <<inFlight, offFor, age>>
    BY <1>2, <1>6 DEF Disconnect, Subscribe, SubscribeFails
  <2>. QED
    BY <2>1 DEF ExpiryInv
<1>7. CASE ControllerRestarts
  <2>1. ~owned /\ UNCHANGED <<inFlight, offFor>> /\ age' = Gone
    BY <1>2, <1>7 DEF ControllerRestarts
  <2>. QED
    BY <2>1 DEF ExpiryInv, Gone
<1>8. CASE Deliver \/ Lose
  <2>1. /\ ~owned /\ inFlight # <<>> /\ inFlight' = Tail(inFlight) /\ offFor' = offFor
        /\ age' \in {0, age}
    BY <1>2, <1>8 DEF Deliver, Lose
  <2>2. Behind
    BY <2>1 DEF ExpiryInv
  <2>3. \A i \in 1..Len(inFlight') : inFlight'[i] = inFlight[i + 1] /\ i + 1 \in 1..Len(inFlight)
    BY <1>1, <2>1 DEF ClockTypeOK
  <2>4. offFor <= 0 + MaxDelay
    <3>1. inFlight[1] \in 0..MaxDelay /\ 1 \in 1..Len(inFlight)
      BY <1>1, <2>1, TimesAreNumbers DEF ClockTypeOK
    <3>2. offFor <= inFlight[1] /\ offFor \in Nat
      BY <1>1, <2>2, <3>1, TimesAreNumbers DEF ClockTypeOK
    <3>. QED
      BY <3>1, <3>2, TimesAreNumbers
  <2>. QED
    BY <2>1, <2>2, <2>3, <2>4 DEF Gone
<1>9. CASE Second
  <2>1. ~owned
    BY <1>2, <1>9 DEF Second
  <2>2. Behind
    BY <2>1 DEF ExpiryInv
  <2>3. /\ offFor \in Nat /\ offFor' \in Nat /\ age \in Nat /\ age' \in Nat
        /\ \A i \in 1..Len(inFlight) : inFlight[i] \in Nat
    BY SMTT(60), <1>1, TimesAreNumbers DEF ClockTypeOK
  <2>4. offFor' <= offFor + 1
    BY <1>9, <2>3 DEF Second
  <2>5. age' = Gone \/ age' = age + 1
    BY <1>9 DEF Second
  <2>6. age = Gone => age' = Gone
    BY <1>9, TimesAreNumbers DEF Second
  <2>7. \A i \in 1..Len(inFlight') : offFor' <= inFlight'[i]
    BY <1>1, <1>9, <2>2, <2>3, <2>4, QueueGrowsOlder
  <2>8. age' = Gone \/ offFor' <= age' + MaxDelay
    <3>1. \A n, o, p \in Nat : o <= n + MaxDelay /\ p <= o + 1 => p <= (n + 1) + MaxDelay
      BY TimesAreNumbers
    <3>. QED
      BY <2>2, <2>3, <2>4, <2>5, <2>6, <3>1
  <2>. QED
    BY <2>7, <2>8 DEF Gone
<1>10. CASE UNCHANGED dnsVars
  BY <1>2, <1>10 DEF dnsVars, ExpiryInv, Gone
<1>. QED
  BY <1>3, <1>4, <1>5, <1>6, <1>7, <1>8, <1>9, <1>10 DEF RecordNext

\* dns_loop with send_period: while a monitor lives and nothing is lost, its
\* record is served without a gap if two publishes and a delivery fit into the
\* buffer.
THEOREM ServedWithoutGap == RecordSpec => []NoGap
<1>1. RecordInit => GapInv
  BY TimesAreNumbers DEF RecordInit, GapInv, ClockTypeOK, OwnedRuns
<1>2. GapInv /\ [RecordNext]_dnsVars => GapInv'
  BY GapStep
<1>3. GapInv => NoGap
  <2>1. SUFFICES ASSUME GapInv, heard, errors = 0, 2 * MaxPublish + MaxDelay <= Buffer
                 PROVE  age <= Ttl
    BY DEF NoGap, Served
  <2>2. AgeBounded /\ loop \in {"Publish", "Ack", "Sleep"}
    BY <2>1 DEF GapInv, OwnedRuns, ClockTypeOK
  <2>3. /\ inFlight # <<>> => inFlight[1] \in 0..MaxDelay
        /\ loop \in {"Publish", "Ack"} => timer \in 0..MaxPublish
        /\ timer \in Nat /\ age \in Nat
    BY <2>1, TimesAreNumbers DEF GapInv, ClockTypeOK
  <2>. QED
    BY <2>1, <2>2, <2>3, TimesAreNumbers DEF AgeBounded, Interval
<1>. QED
  BY <1>1, <1>2, <1>3, PTL DEF RecordSpec

\* BackendMonitor and the record map: the record of a dropped monitor is gone
\* after one time to live and one delivery.
THEOREM DroppedRecordExpires == RecordSpec => []RecordExpires
<1>1. RecordInit => ExpiryInv
  BY TimesAreNumbers DEF RecordInit, ExpiryInv, ClockTypeOK, OwnedRuns
<1>2. ExpiryInv /\ [RecordNext]_dnsVars => ExpiryInv'
  BY ExpiryStep
<1>3. ExpiryInv => RecordExpires
  BY TimesAreNumbers DEF ExpiryInv, ClockTypeOK, RecordExpires, Served
<1>. QED
  BY <1>1, <1>2, <1>3, PTL DEF RecordSpec
=============================================================================
