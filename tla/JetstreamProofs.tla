--------------------------- MODULE JetstreamProofs --------------------------
(***************************************************************************)
(* InOrder and ListIsCurrent for every stream, filter, size of a batch,    *)
(* number of copies and of losses.                                         *)
(***************************************************************************)
EXTENDS Jetstream, FiniteSetTheorems, WellFoundedInduction, TLAPS

\* The types the argument needs.
OrderTypeOK ==
    /\ command \in {"Status", "List"}
    /\ stream \in Seq([name : Name, good : BOOLEAN])
    /\ next \in Nat \ {0} /\ last \in Nat
    /\ pending \in SUBSET Nat /\ acks \in SUBSET Nat
    /\ wire \in Seq(Nat)

OrderInv == OrderTypeOK /\ OneInFlight

USE DEF OrderTypeOK

\* The steps of publishers, of the server's clock and of the calls that set a
\* command up leave the consumer and the client's place in the stream alone.
Aside ==
    \/ \E w \in Writer : \/ PublishJetstream(w) \/ StreamCreated(w)
                         \/ CreateFails(w) \/ StoreFails(w)
    \/ Expire \/ Ensured \/ GotStream \/ CallFails \/ Interrupt \/ FetchUnreadable

\* A step aside, or a stuttering one, keeps what OrderInv is about.
LEMMA AsideKeeps ==
    ASSUME OrderInv, Aside \/ UNCHANGED streamVars
    PROVE  /\ OrderInv'
           /\ last' = last
<1>1. UNCHANGED <<command, stream, next, last, pending, acks, wire>>
  BY DEF Aside, PublishJetstream, StreamCreated, CreateFails, StoreFails, Expire,
         Ensured, GotStream, CallFails, Interrupt, FetchUnreadable, streamVars,
         serverVars, pushVars
<1>2. client' \in {"Ensure", "GetStream", "CreateConsumer"} =>
          client \in {"Ensure", "GetStream", "CreateConsumer"}
  BY DEF Aside, PublishJetstream, StreamCreated, CreateFails, StoreFails, Expire,
         Ensured, GotStream, CallFails, Interrupt, FetchUnreadable, streamVars
<1>3. OneInFlight'
  BY Zenon, <1>1, <1>2 DEF OrderInv, OneInFlight, Wanted, SubjectAt
<1>. QED
  BY <1>1, <1>3 DEF OrderInv

\* A stored message is behind everything the consumer has delivered.
LEMMA StoreKeeps ==
    ASSUME OrderInv, NEW w \in Writer, NEW n \in Name, StoreMessage(w, n)
    PROVE  /\ OrderInv'
           /\ last' = last
<1>1. UNCHANGED <<command, client, next, last, pending, acks, wire>>
  BY DEF StoreMessage, pushVars
<1>2. PICK g \in BOOLEAN : stream' = Append(stream, [name |-> n, good |-> g])
  BY DEF StoreMessage
<1>3. /\ stream' \in Seq([name : Name, good : BOOLEAN])
      /\ Len(stream') = Len(stream) + 1
      /\ \A r \in 1..Len(stream) : stream'[r] = stream[r]
  BY <1>2 DEF OrderInv
<1>4. \A r \in 1..Len(stream) : Wanted(r)' <=> Wanted(r)
  BY <1>3 DEF Wanted, SubjectAt
<1>5. ASSUME command = "Status"
      PROVE  \A r \in (last + 1)..(next - 2) : ~Wanted(r)'
  BY <1>3, <1>4, <1>5 DEF OrderInv, OneInFlight
<1>6. command' = "Status" => \A r \in (last' + 1)..(next' - 2) : ~Wanted(r)'
  BY <1>1, <1>5
<1>7. command' = "Status" => next' <= Len(stream') + 1
  BY <1>1, <1>3 DEF OrderInv, OneInFlight
<1>8. OneInFlight'
  BY <1>1, <1>6, <1>7 DEF OrderInv, OneInFlight
<1>. QED
  BY <1>1, <1>3, <1>8 DEF OrderInv

\* A command starts with a consumer that has delivered nothing.
LEMMA StartKeeps ==
    ASSUME OrderInv, RunCommand \/ ConsumerCreated
    PROVE  /\ OrderInv'
           /\ Following => last' = last
<1>1. CASE RunCommand
  <2>1. /\ UNCHANGED <<command, stream>>
        /\ next' = 1 /\ pending' = {} /\ wire' = <<>> /\ acks' = {} /\ last' = 0
    BY <1>1 DEF RunCommand, serverVars
  <2>2. OneInFlight'
    BY <2>1 DEF OrderInv, OneInFlight
  <2>. QED
    BY <1>1, <2>1, <2>2 DEF OrderInv, RunCommand, Following
<1>2. CASE ConsumerCreated
  <2>1. /\ UNCHANGED <<command, stream, next, wire, acks, last>>
        /\ pending' \in SUBSET Nat
        /\ command = "Status" => pending' = {}
    BY <1>2 DEF ConsumerCreated, serverVars, OrderInv, Stored
  <2>2. command = "Status" => next = 1 /\ last = 0
    BY <1>2 DEF OrderInv, OneInFlight, ConsumerCreated
  <2>3. OneInFlight'
    BY <1>2, <2>1, <2>2 DEF OrderInv, OneInFlight, ConsumerCreated
  <2>. QED
    BY <1>2, <2>1, <2>3 DEF OrderInv, ConsumerCreated, Following
<1>. QED
  BY <1>1, <1>2

\* A message is delivered for the first time only when the one before it was
\* acknowledged, hence read.
LEMMA PushKeeps ==
    ASSUME OrderInv, NEW s \in Stored, PushMessage(s)
    PROVE  /\ OrderInv'
           /\ last' = last
<1>1. /\ command = "Status" /\ UNCHANGED <<command, client, stream, acks, last>>
      /\ client = "Reading" /\ s \in 1..Len(stream) /\ s >= next /\ Wanted(s)
      /\ \A r \in next..(s - 1) : ~Wanted(r)
      /\ next' = s + 1 /\ pending' = pending \cup {s} /\ wire' = Append(wire, s)
  BY DEF OrderInv, PushMessage, Following, NextWanted, Stored, serverVars
<1>2. pending = {}
  <2>1. SUFFICES ASSUME pending = {next - 1} PROVE FALSE
    BY Zenon, <1>1 DEF OrderInv, OneInFlight
  <2>2. Cardinality(pending) = 1
    BY Zenon, <2>1, FS_Singleton
  <2>. QED
    BY <2>2 DEF PushMessage, max_ack_pending
<1>3. last = next - 1
  BY <1>1, <1>2 DEF OrderInv, OneInFlight
<1>4. \A i \in 1..Len(wire) : wire[i] = last
  BY <1>1, <1>3 DEF OrderInv, OneInFlight
<1>5. /\ wire' \in Seq(Nat) /\ Len(wire') = Len(wire) + 1
      /\ \A i \in 1..Len(wire) : wire'[i] = last
      /\ wire'[Len(wire) + 1] = s
  BY <1>1, <1>4 DEF OrderInv
<1>6. \A r \in (last + 1)..(next' - 2) : ~Wanted(r)'
  BY <1>1, <1>3 DEF OrderInv, Wanted, SubjectAt
<1>7. OneInFlight'
  BY SMTT(60), <1>1, <1>2, <1>3, <1>5, <1>6 DEF OrderInv, OneInFlight
<1>. QED
  BY <1>1, <1>5, <1>7 DEF OrderInv

\* Only the message delivered last can be delivered again.
LEMMA RedeliverKeeps ==
    ASSUME OrderInv, NEW s \in Stored, Redeliver(s)
    PROVE  /\ OrderInv'
           /\ last' = last
<1>1. /\ command = "Status" /\ client = "Reading" /\ s \in pending
      /\ UNCHANGED <<command, client, stream, next, pending, acks, last>>
      /\ wire' = Append(wire, s)
  BY DEF Redeliver, Following, serverVars
<1>2. s = next - 1
  BY <1>1 DEF OrderInv, OneInFlight
<1>3. /\ wire' \in Seq(Nat) /\ Len(wire') = Len(wire) + 1
      /\ \A i \in 1..Len(wire) : wire'[i] = wire[i]
      /\ wire'[Len(wire) + 1] = next - 1
  BY <1>1, <1>2 DEF OrderInv
<1>4. OneInFlight'
  BY SMTT(60), <1>1, <1>3 DEF OrderInv, OneInFlight, Wanted, SubjectAt
<1>. QED
  BY <1>1, <1>3, <1>4 DEF OrderInv

\* What is left when the first delivery is taken.
LEMMA TailOfWire ==
    ASSUME OrderInv, wire # <<>>
    PROVE  /\ Tail(wire) \in Seq(Nat) /\ Len(Tail(wire)) = Len(wire) - 1
           /\ Len(wire) \in Nat \ {0} /\ Head(wire) = wire[1]
           /\ \A i \in 1..(Len(wire) - 1) : Tail(wire)[i] = wire[i + 1]
BY DEF OrderInv

\* A lost delivery leaves the others in order.
LEMMA LoseKeeps ==
    ASSUME OrderInv, LoseDelivery
    PROVE  /\ OrderInv'
           /\ last' = last
<1>1. /\ command = "Status" /\ client = "Reading" /\ wire # <<>>
      /\ UNCHANGED <<command, client, stream, next, pending, acks, last>>
      /\ wire' = Tail(wire)
  BY DEF LoseDelivery, Following, serverVars
<1>2. OneInFlight'
  BY <1>1, TailOfWire DEF OrderInv, OneInFlight, Wanted, SubjectAt
<1>. QED
  BY <1>1, <1>2, TailOfWire DEF OrderInv

\* The client reads a copy of the message it has read last, or the next one
\* it wants; then everything behind is a copy of that one.
LEMMA ReadKeeps ==
    ASSUME OrderInv, ReadMessage
    PROVE  /\ OrderInv'
           /\ last' # last => /\ last' > last
                             /\ \A s \in (last + 1)..(last' - 1) : ~Wanted(s)
<1>1. /\ command = "Status" /\ client = "Reading" /\ wire # <<>>
      /\ UNCHANGED <<command, client, stream, next, pending>>
      /\ wire' = Tail(wire) /\ last' = wire[1]
      /\ acks' \subseteq acks \cup {last'}
  BY TailOfWire DEF ReadMessage, Following, serverVars
<1>2. last' \in {last, next - 1}
  BY <1>1, TailOfWire DEF OrderInv, OneInFlight
<1>3. CASE last' = last
  <2>1. OneInFlight'
    BY <1>1, <1>3, TailOfWire DEF OrderInv, OneInFlight, Wanted, SubjectAt
  <2>. QED
    BY <1>1, <1>3, <2>1, TailOfWire DEF OrderInv
<1>4. CASE last' = next - 1 /\ last' # last
  <2>1. ASSUME NEW i \in 1..Len(wire') PROVE wire'[i] = next - 1
    <3>1. wire'[i] = wire[i + 1] /\ 1 \in 1..Len(wire) /\ i + 1 \in 1..Len(wire)
      BY <1>1, TailOfWire
    <3>2. wire[1] = next - 1 /\ 1 < i + 1
      BY <1>1, <1>4
    <3>. QED
      BY <1>1, <3>1, <3>2 DEF OrderInv, OneInFlight
  <2>2. \A s \in acks' : s <= last'
    BY <1>1, <1>4 DEF OrderInv, OneInFlight
  <2>3. (last' + 1)..(next' - 2) = {}
    BY <1>1, <1>4 DEF OrderInv
  <2>4. OneInFlight'
    BY <1>1, <1>4, <2>1, <2>2, <2>3 DEF OrderInv, OneInFlight
  <2>. QED
    BY <1>1, <1>4, <2>4, TailOfWire DEF OrderInv, OneInFlight
<1>. QED
  BY <1>2, <1>3, <1>4

\* An acknowledgement is of a message that has been read.
LEMMA AckKeeps ==
    ASSUME OrderInv, NEW s \in acks, AckArrives(s)
    PROVE  /\ OrderInv'
           /\ last' = last
<1>1. /\ command = "Status" /\ client = "Reading"
      /\ UNCHANGED <<command, client, stream, next, wire, last>>
      /\ acks' = acks \ {s} /\ pending' = pending \ {s}
  BY DEF AckArrives, Following, serverVars
<1>2. \A r : Wanted(r)' <=> Wanted(r)
  BY <1>1 DEF Wanted, SubjectAt
<1>3. last < next - 1 => next - 1 \in pending'
  BY <1>1 DEF OrderInv, OneInFlight
<1>4. OneInFlight'
  BY <1>1, <1>2, <1>3 DEF OrderInv, OneInFlight
<1>. QED
  BY <1>1, <1>4 DEF OrderInv

\* A list is read by another command.
LEMMA FetchKeeps ==
    ASSUME OrderInv, Fetch
    PROVE  OrderInv' /\ last' = last
<1>1. /\ command = "List" /\ UNCHANGED <<command, stream, next, wire, acks, last>>
      /\ pending' = pending \cup FirstBatch
  BY DEF Fetch, Listing, serverVars
<1>2. Available \subseteq Nat
  BY DEF OrderInv, Available, Stored
<1>3. FirstBatch \subseteq Nat
  BY <1>2, Zenon DEF FirstBatch
<1>. QED
  BY <1>1, <1>3 DEF OrderInv, OneInFlight

\* Every step keeps the invariant, and moves the client's place in the stream
\* to the next message it wants, if at all.
LEMMA StepKeeps ==
    ASSUME OrderInv, [StreamNext]_streamVars
    PROVE  /\ OrderInv'
           /\ Following /\ last' # last =>
                 /\ last' > last
                 /\ \A s \in (last + 1)..(last' - 1) : ~Wanted(s)
<1>1. CASE Aside \/ UNCHANGED streamVars
  BY <1>1, AsideKeeps
<1>2. CASE \E w \in Writer, n \in Name : StoreMessage(w, n)
  BY <1>2, StoreKeeps
<1>3. CASE RunCommand \/ ConsumerCreated
  BY <1>3, StartKeeps
<1>4. CASE \E s \in Stored : PushMessage(s)
  BY <1>4, PushKeeps
<1>5. CASE \E s \in Stored : Redeliver(s)
  BY <1>5, RedeliverKeeps
<1>6. CASE LoseDelivery
  BY <1>6, LoseKeeps
<1>7. CASE ReadMessage
  BY <1>7, ReadKeeps
<1>8. CASE \E s \in acks : AckArrives(s)
  BY <1>8, AckKeeps
<1>9. CASE Fetch
  BY <1>9, FetchKeeps
<1>. QED
  BY <1>1, <1>2, <1>3, <1>4, <1>5, <1>6, <1>7, <1>8, <1>9 DEF StreamNext, Aside

\* subscribe_jetstream with max_ack_pending = 1: messages are read in order,
\* for any stream and filter and any number of writers, copies and losses.
THEOREM ReadInOrder == StreamSpec => InOrder
<1>1. StreamInit => OrderInv
  BY DEF StreamInit, OrderInv, OneInFlight
<1>2. OrderInv /\ [StreamNext]_streamVars => OrderInv'
  BY StepKeeps
<1>3. OrderInv /\ [StreamNext]_streamVars =>
          [Following /\ last' # last =>
               /\ last' > last
               /\ \A s \in (last + 1)..(last' - 1) : ~Wanted(s)]_streamVars
  BY StepKeeps
<1>. QED
  BY <1>1, <1>2, <1>3, PTL DEF StreamSpec, InOrder

-----------------------------------------------------------------------------
(* get_all *)

\* What the consumer passed over or delivered is in the Vec or was followed by
\* another message of its subject; at the end the same is true of everything
\* that is left of the stream up to then.
ListInv ==
    /\ Listing => \A s \in pending : /\ s \in 1..Len(stream)
                                     /\ s \in result \/ LaterOnes(s) # {}
    /\ client = "Done" /\ command = "List" =>
           /\ asOf \in 0..Len(stream)
           /\ \A s \in 1..asOf : s \in gone \cup result \/ \E r \in LaterOnes(s) : r <= asOf

\* A fetch with an empty batch means that nothing is left: the first message
\* that is would fit into any batch.
LEMMA EmptyBatch ==
    ASSUME OrderInv, FirstBatch = {}
    PROVE  Available = {}
<1>1. SUFFICES ASSUME Available # {} PROVE FALSE
  OBVIOUS
<1>2. Available \subseteq Nat
  BY DEF Available, Stored, OrderInv
<1>3. PICK m \in Available : \A r \in Available : ~(r < m)
  <2>1. PICK m \in Available : \A r \in Available : <<r, m>> \notin OpToRel(<, Nat)
    BY Zenon, <1>1, <1>2, NatLessThanWellFounded, WFMin
  <2>. QED
    BY Zenon, <1>2, <2>1 DEF OpToRel
<1>4. {r \in Available : r <= m} = {m}
  <2>1. m \in Nat /\ m <= m
    BY <1>2
  <2>2. ASSUME NEW r \in Available, r <= m PROVE r = m
    BY <1>2, <1>3, <2>1, <2>2
  <2>. QED
    BY <2>1, <2>2, Zenon
<1>5. Cardinality({r \in Available : r <= m}) <= Batch
  <2>1. Cardinality({m}) = 1
    BY FS_Singleton
  <2>2. Batch \in Nat \ {0}
    BY JetstreamAssumption
  <2>3. 1 <= Batch
    BY <2>2
  <2>. QED
    BY <1>4, <2>1, <2>3, Zenon
<1>. QED
  BY <1>3, <1>5 DEF FirstBatch

\* A stored message comes after all others of its subject and takes none away.
LEMMA LaterOnesStay ==
    ASSUME OrderInv, NEW w \in Writer, NEW n \in Name, StoreMessage(w, n),
           NEW s \in 1..Len(stream)
    PROVE  LaterOnes(s) \subseteq LaterOnes(s)'
<1>1. PICK g \in BOOLEAN : stream' = Append(stream, [name |-> n, good |-> g])
  BY DEF StoreMessage
<1>2. /\ DOMAIN stream = 1..Len(stream) /\ DOMAIN stream' = 1..(Len(stream) + 1)
      /\ Len(stream) \in Nat
      /\ \A r \in 1..Len(stream) : stream'[r] = stream[r]
  BY <1>1 DEF OrderInv
<1>3. \A r \in 1..Len(stream) : r \in DOMAIN stream' /\ SubjectAt(r)' = SubjectAt(r)
  BY <1>2 DEF SubjectAt
<1>. QED
  BY <1>2, <1>3 DEF LaterOnes, Stored

\* Every step keeps it, whatever is stored or removed between two fetches.
LEMMA ListStep ==
    ASSUME OrderInv, ListInv, [StreamNext]_streamVars
    PROVE  ListInv'
<1>1. CASE RunCommand \/ Ensured \/ GotStream \/ CallFails \/ FetchUnreadable
  <2>1. client' \notin {"Reading", "Done"}
    BY <1>1 DEF RunCommand, Ensured, GotStream, CallFails, FetchUnreadable
  <2>. QED
    BY <2>1 DEF ListInv, Listing
<1>2. CASE \/ Interrupt \/ LoseDelivery \/ ReadMessage
           \/ \E s \in Stored : PushMessage(s) \/ Redeliver(s)
           \/ \E s \in acks : AckArrives(s)
  <2>1. command' = "Status"
    BY SMTT(60), <1>2 DEF Interrupt, LoseDelivery, ReadMessage, PushMessage, Redeliver, AckArrives,
                Following, serverVars
  <2>. QED
    BY <2>1 DEF ListInv, Listing
<1>3. CASE \/ UNCHANGED streamVars
           \/ \E w \in Writer : \/ PublishJetstream(w) \/ StreamCreated(w)
                                \/ CreateFails(w) \/ StoreFails(w)
  <2>1. UNCHANGED <<stream, gone, command, client, pending, result, asOf>>
    BY SMTT(60), <1>3 DEF streamVars, PublishJetstream, StreamCreated, CreateFails, StoreFails,
                pushVars, listVars
  <2>. QED
    BY <2>1 DEF ListInv, Listing, LaterOnes, SubjectAt, Stored
<1>4. CASE Expire
  <2>1. /\ UNCHANGED <<stream, command, client, pending, result, asOf>>
        /\ gone \subseteq gone'
    BY <1>4 DEF Expire, pushVars, listVars
  <2>. QED
    BY <2>1 DEF ListInv, Listing, LaterOnes, SubjectAt, Stored
<1>5. CASE ConsumerCreated
  <2>1. /\ client' = "Reading" /\ UNCHANGED <<command, stream>>
        /\ command = "List" => pending' = {s \in Stored : LaterOnes(s) # {}}
    BY <1>5 DEF ConsumerCreated, serverVars
  <2>2. Stored = 1..Len(stream)
    BY DEF Stored, OrderInv
  <2>. QED
    BY <2>1, <2>2 DEF ListInv, Listing, LaterOnes, SubjectAt, Stored
<1>6. ASSUME NEW w \in Writer, NEW n \in Name, StoreMessage(w, n) PROVE ListInv'
  <2>1. /\ UNCHANGED <<command, client, pending, result, asOf>>
        /\ gone \subseteq gone'
    BY <1>6 DEF StoreMessage, pushVars, listVars
  <2>2. Len(stream) \in Nat /\ Len(stream') = Len(stream) + 1
    BY <1>6 DEF StoreMessage, OrderInv
  <2>3. \A s \in 1..Len(stream) : LaterOnes(s) \subseteq LaterOnes(s)'
    BY <1>6, LaterOnesStay
  <2>4. ASSUME Listing, NEW s \in pending
        PROVE  s \in 1..Len(stream') /\ (s \in result \/ LaterOnes(s)' # {})
    BY <2>2, <2>3, <2>4 DEF ListInv
  <2>5. ASSUME client = "Done", command = "List"
        PROVE  /\ asOf \in 0..Len(stream')
               /\ \A s \in 1..asOf :
                      s \in gone' \cup result \/ \E r \in LaterOnes(s)' : r <= asOf
    BY <2>1, <2>2, <2>3, <2>5 DEF ListInv
  <2>. QED
    BY <2>1, <2>4, <2>5 DEF ListInv, Listing
<1>7. CASE Fetch
  <2>1. /\ Listing /\ UNCHANGED <<command, stream, gone>>
        /\ result' = result \cup FirstBatch /\ pending' = pending \cup FirstBatch
    BY <1>7 DEF Fetch, serverVars
  <2>2. Stored = 1..Len(stream) /\ Len(stream) \in Nat /\ FirstBatch \subseteq Stored
    BY DEF Stored, OrderInv, FirstBatch, Available
  <2>3. \A s : LaterOnes(s)' = LaterOnes(s)
    BY <2>1 DEF LaterOnes, SubjectAt, Stored
  <2>4. CASE client' = client
    <3>1. client' # "Done"
      BY <2>1, <2>4 DEF Listing
    <3>2. \A s \in pending' : s \in 1..Len(stream) /\ (s \in result' \/ LaterOnes(s) # {})
      BY Zenon, <2>1, <2>2 DEF ListInv
    <3>. QED
      BY <2>1, <2>3, <3>1, <3>2 DEF ListInv
  <2>5. CASE FirstBatch = {} /\ client' = "Done" /\ asOf' = Len(stream)
    <3>1. \A s \in 1..Len(stream) : s \in gone \cup pending
      BY <2>2, <2>5, EmptyBatch DEF Available
    <3>2. \A s : \A r \in LaterOnes(s) : r <= Len(stream)
      BY <2>2 DEF LaterOnes
    <3>3. \A s \in 1..Len(stream) :
              s \in gone \cup result \/ \E r \in LaterOnes(s) : r <= Len(stream)
      BY <2>1, <3>1, <3>2 DEF ListInv
    <3>. QED
      BY <2>1, <2>2, <2>3, <2>5, <3>3 DEF ListInv, Listing
  <2>. QED
    BY <1>7, <2>4, <2>5 DEF Fetch
<1>. QED
  BY <1>1, <1>2, <1>3, <1>4, <1>5, <1>6, <1>7 DEF StreamNext

\* get_all: of every subject the list has the message that was the last one
\* when it made its last fetch, unless the server removed it.
THEOREM ListsAreCurrent == StreamSpec => []ListIsCurrent
<1>1. StreamInit => OrderInv /\ ListInv
  BY DEF StreamInit, OrderInv, OneInFlight, ListInv, Listing
<1>2. OrderInv /\ ListInv /\ [StreamNext]_streamVars => OrderInv' /\ ListInv'
  BY StepKeeps, ListStep
<1>3. OrderInv /\ ListInv => ListIsCurrent
  <2>1. SUFFICES ASSUME OrderInv, ListInv, client = "Done", command = "List",
                        NEW s \in 1..asOf, \A r \in LaterOnes(s) : r > asOf
                 PROVE  s \in gone \cup result
    BY DEF ListIsCurrent
  <2>2. asOf \in Nat /\ LaterOnes(s) \subseteq Nat
    BY <2>1 DEF ListInv, LaterOnes, Stored, OrderInv
  <2>. QED
    BY <2>1, <2>2 DEF ListInv
<1>. QED
  BY <1>1, <1>2, <1>3, PTL DEF StreamSpec
=============================================================================
