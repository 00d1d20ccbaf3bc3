----------------------------- MODULE Jetstream ------------------------------
(***************************************************************************)
(* JetStream as TypedNats uses it (core/src/nats.rs) and the commands of   *)
(* the command line client that read from it (cli/src/main.rs): tasks of a *)
(* drone publish to one stream, and a client either follows the stream     *)
(* (`status`, an ordered push consumer) or lists what it holds             *)
(* (`list-drones`, `list-dns`: get_all with a pull consumer).  The server  *)
(* is external.  A stored message is known by its number in the stream.    *)
(***************************************************************************)
EXTENDS Naturals, Sequences, FiniteSets

CONSTANTS Name,          \* what messages are about: backends, drones, DNS names
          Subject,
          SubjectOf,     \* [Name -> Subject]
          Filter,        \* subjects that `status` subscribes to
          Writer,        \* tasks that publish, of one process
          PerSubject,    \* max_messages_per_subject is 1 (drone_status)
          Batch,         \* messages in an answer to fetch()
          MaxMessages,   \* bound: messages stored
          MaxCopies,     \* bound: copies of a message on the wire
          MaxLosses      \* bound: lost or failed calls, unreadable messages

ASSUME JetstreamAssumption ==
    /\ SubjectOf \in [Name -> Subject]
    /\ Filter \subseteq Subject
    /\ PerSubject \in BOOLEAN
    /\ {MaxMessages, MaxLosses} \subseteq Nat
    /\ {Batch, MaxCopies} \subseteq Nat \ {0}

VARIABLES
    exists,     \* has the stream been created on the server?
    created,    \* is it in the process's jetstream_created_streams?
    writer,     \* [Writer -> WriterPc]  where its publish_jetstream is
    stream,     \* messages stored: [name, good], good if it can be parsed
    gone,       \* numbers of messages the server has removed
    command,    \* what the client runs: "Status" or "List"
    client,     \* ClientPc
    next,       \* the consumer: it has delivered what it wants below this
    pending,    \* delivered, not acknowledged
    wire,       \* deliveries on their way, in order
    acks,       \* acknowledgements on their way
    last,       \* number of the message the client read last
    result,     \* get_all: numbers of the messages in the Vec
    asOf,       \* get_all: length of the stream at the fetch that was empty
    losses

streamVars == <<exists, created, writer, stream, gone, command, client, next,
                pending, wire, acks, last, result, asOf, losses>>
serverVars == <<exists, created, writer, stream, gone, command>>
listVars == <<result, asOf>>
pushVars == <<next, pending, wire, acks, last>>

WriterPc == {"Idle", "Create", "Publish"}
ClientPc == {"Off", "Ensure", "GetStream", "CreateConsumer", "Reading", "Done",
             "Failed"}

Stored == DOMAIN stream
SubjectAt(s) == SubjectOf[stream[s].name]
Wanted(s) == SubjectAt(s) \in Filter

\* Messages of the same subject that follow message s.
LaterOnes(s) == {r \in Stored : r > s /\ SubjectAt(r) = SubjectAt(s)}

StreamTypeOK ==
    /\ {exists, created} \subseteq BOOLEAN
    /\ writer \in [Writer -> WriterPc]
    /\ stream \in Seq([name : Name, good : BOOLEAN])
    /\ gone \subseteq Stored
    /\ command \in {"Status", "List"}
    /\ client \in ClientPc
    /\ next \in Nat \ {0} /\ last \in Nat /\ asOf \in Nat
    /\ {pending, acks, result} \subseteq SUBSET Nat
    /\ wire \in Seq(Nat)
    /\ losses \in 0..MaxLosses

StreamInit ==
    /\ exists = FALSE /\ created = FALSE
    /\ writer = [w \in Writer |-> "Idle"]
    /\ stream = <<>> /\ gone = {}
    /\ command \in {"Status", "List"}
    /\ client = "Off"
    /\ next = 1 /\ pending = {} /\ wire = <<>> /\ acks = {} /\ last = 0
    /\ result = {} /\ asOf = 0
    /\ losses = 0

\* Something goes wrong, at most MaxLosses times.
Loss == losses < MaxLosses /\ losses' = losses + 1

-----------------------------------------------------------------------------
(* publish_jetstream *)

\* ensure_jetstream_exists looks at the set, which all tasks share, and awaits
\* the creation if the stream is not in it; several tasks may do so at once.
PublishJetstream(w) ==
    /\ writer[w] = "Idle" /\ Len(stream) < MaxMessages
    /\ writer' = [writer EXCEPT ![w] = IF created THEN "Publish" ELSE "Create"]
    /\ UNCHANGED <<exists, created, stream, gone, command, client, pushVars,
                   listVars, losses>>

StreamCreated(w) ==
    /\ writer[w] = "Create"
    /\ exists' = TRUE /\ created' = TRUE
    /\ writer' = [writer EXCEPT ![w] = "Publish"]
    /\ UNCHANGED <<stream, gone, command, client, pushVars, listVars, losses>>

\* The error goes to the caller; the next call tries again.
CreateFails(w) ==
    /\ writer[w] = "Create" /\ Loss
    /\ writer' = [writer EXCEPT ![w] = "Idle"]
    /\ UNCHANGED <<exists, created, stream, gone, command, client, pushVars,
                   listVars>>

\* The server stores the message, and removes what the stream's limit excludes;
\* the call returns with its answer or an error.  Only the streams that are
\* listed have limits: the one of backend states keeps everything.
StoreMessage(w, n) ==
    /\ writer[w] = "Publish" /\ Len(stream) < MaxMessages
    /\ writer' = [writer EXCEPT ![w] = "Idle"]
    /\ \E g \in BOOLEAN :
           /\ stream' = Append(stream, [name |-> n, good |-> g])
           /\ IF g THEN UNCHANGED losses ELSE Loss
    /\ gone' = IF command = "List" /\ PerSubject
               THEN gone \cup {s \in Stored : SubjectAt(s) = SubjectOf[n]}
               ELSE gone
    /\ UNCHANGED <<exists, created, command, client, pushVars, listVars>>

StoreFails(w) ==
    /\ writer[w] = "Publish" /\ Loss
    /\ writer' = [writer EXCEPT ![w] = "Idle"]
    /\ UNCHANGED <<exists, created, stream, gone, command, client, pushVars,
                   listVars>>

\* max_age: messages are removed in their order.
Expire ==
    /\ command = "List"
    /\ \E s \in Stored \ gone :
           /\ \A r \in Stored \ gone : s <= r
           /\ gone' = gone \cup {s}
    /\ UNCHANGED <<exists, created, writer, stream, command, client, pushVars,
                   listVars, losses>>

-----------------------------------------------------------------------------
(* The client's command: the calls subscribe_jetstream and get_all share *)

RunCommand ==
    /\ client \in {"Off", "Done", "Failed"}
    /\ client' = "Ensure"
    /\ next' = 1 /\ pending' = {} /\ wire' = <<>> /\ acks' = {} /\ last' = 0
    /\ result' = {} /\ asOf' = 0
    /\ UNCHANGED <<serverVars, losses>>

\* The client is a process of its own and knows of no stream; an error of
\* ensure_jetstream_exists is ignored.
Ensured ==
    /\ client = "Ensure"
    /\ client' = "GetStream"
    /\ \/ exists' = TRUE /\ UNCHANGED losses
       \/ Loss /\ UNCHANGED exists
    /\ UNCHANGED <<created, writer, stream, gone, command, pushVars, listVars>>

GotStream ==
    /\ client = "GetStream" /\ exists
    /\ client' = "CreateConsumer"
    /\ UNCHANGED <<serverVars, pushVars, listVars, losses>>

\* The consumer starts with the first message the stream holds
\* (DeliverPolicy::All), or with the last one of every subject
\* (LastPerSubject); those it passes over count as delivered.
ConsumerCreated ==
    /\ client = "CreateConsumer"
    /\ client' = "Reading"
    /\ pending' = IF command = "Status" THEN {}
                  ELSE {s \in Stored : LaterOnes(s) # {}}
    /\ UNCHANGED <<serverVars, next, wire, acks, last, listVars, losses>>

\* `?`: the command ends with an error.
CallFails ==
    /\ \/ client = "GetStream" /\ ~exists /\ UNCHANGED losses
       \/ client \in {"GetStream", "CreateConsumer"} /\ Loss
       \/ client = "Reading" /\ command = "List" /\ Loss
    /\ client' = "Failed"
    /\ UNCHANGED <<serverVars, pushVars, listVars>>

\* Ctrl-C ends `status`; nothing else does.
Interrupt ==
    /\ client = "Reading" /\ command = "Status"
    /\ client' = "Done"
    /\ UNCHANGED <<serverVars, pushVars, listVars, losses>>

-----------------------------------------------------------------------------
(* subscribe_jetstream, JetstreamSubscription::next *)

Following == client = "Reading" /\ command = "Status"

\* Mutated form: two unacknowledged messages.
Mut_max_ack_pending == 2

max_ack_pending == 1

\* The first wanted message that was not delivered.
NextWanted(s) ==
    /\ s \in Stored /\ s >= next /\ Wanted(s)
    /\ \A r \in next..(s - 1) : ~Wanted(r)

PushMessage(s) ==
    /\ Following
    /\ NextWanted(s)
    /\ Cardinality(pending) < max_ack_pending
    /\ next' = s + 1
    /\ pending' = pending \cup {s}
    /\ wire' = Append(wire, s)
    /\ UNCHANGED <<serverVars, client, acks, last, listVars, losses>>

Copies(s) == Cardinality({i \in DOMAIN wire : wire[i] = s})

\* The server has waited long enough for the acknowledgement of s, which may
\* still be unread, read, or acknowledged without its knowing.
Redeliver(s) ==
    /\ Following
    /\ s \in pending /\ Copies(s) < MaxCopies
    /\ wire' = Append(wire, s)
    /\ UNCHANGED <<serverVars, client, next, pending, acks, last, listVars,
                   losses>>

LoseDelivery ==
    /\ Following /\ wire # <<>> /\ Loss
    /\ wire' = Tail(wire)
    /\ UNCHANGED <<serverVars, client, next, pending, acks, last, listVars>>

\* Mutated form: a message that cannot be parsed is not acknowledged.
MutReadMessage ==
    /\ Following
    /\ wire # <<>>
    /\ wire' = Tail(wire)
    /\ last' = Head(wire)
    /\ \/ /\ acks' = IF stream[Head(wire)].good THEN acks \cup {Head(wire)} ELSE acks
          /\ UNCHANGED losses
       \/ Loss /\ UNCHANGED acks
    /\ UNCHANGED <<serverVars, client, next, pending, listVars>>

\* next() acknowledges a message before it parses it; an error of either is
\* logged, and a message that cannot be parsed is passed over.
ReadMessage ==
    /\ Following
    /\ wire # <<>>
    /\ wire' = Tail(wire)
    /\ last' = Head(wire)
    /\ \/ acks' = acks \cup {Head(wire)} /\ UNCHANGED losses
       \/ Loss /\ UNCHANGED acks
    /\ UNCHANGED <<serverVars, client, next, pending, listVars>>

AckArrives(s) ==
    /\ Following
    /\ s \in acks
    /\ acks' = acks \ {s}
    /\ pending' = pending \ {s}
    /\ UNCHANGED <<serverVars, client, next, wire, last, listVars, losses>>

-----------------------------------------------------------------------------
(* get_all: it fetches until a batch is empty and acknowledges nothing *)

Listing == client = "Reading" /\ command = "List"

\* What the consumer has not delivered yet.
Available == {s \in Stored : s \notin gone \cup pending}

\* The first Batch of them.  An unacknowledged message is delivered again after
\* half a minute, when the command has ended.
FirstBatch == {s \in Available : Cardinality({r \in Available : r <= s}) <= Batch}

\* Mutated form: one batch is enough.
MutFetch ==
    /\ Listing
    /\ \A s \in FirstBatch : stream[s].good
    /\ result' = result \cup FirstBatch
    /\ pending' = pending \cup FirstBatch
    /\ asOf' = Len(stream)
    /\ client' = "Done"
    /\ UNCHANGED <<serverVars, next, wire, acks, last, losses>>

Fetch ==
    /\ Listing
    /\ \A s \in FirstBatch : stream[s].good
    /\ result' = result \cup FirstBatch
    /\ pending' = pending \cup FirstBatch
    /\ \/ FirstBatch # {} /\ UNCHANGED <<client, asOf>>
       \/ FirstBatch = {} /\ client' = "Done" /\ asOf' = Len(stream)
    /\ UNCHANGED <<serverVars, next, wire, acks, last, losses>>

\* A message that cannot be parsed ends the command.
FetchUnreadable ==
    /\ Listing
    /\ \E s \in FirstBatch : ~stream[s].good
    /\ client' = "Failed"
    /\ UNCHANGED <<serverVars, pushVars, listVars, losses>>

-----------------------------------------------------------------------------
StreamNext ==
    \/ \E w \in Writer : \/ PublishJetstream(w) \/ StreamCreated(w)
                         \/ CreateFails(w) \/ StoreFails(w)
                         \/ \E n \in Name : StoreMessage(w, n)
    \/ Expire
    \/ RunCommand \/ Ensured \/ GotStream \/ ConsumerCreated \/ CallFails
    \/ Interrupt
    \/ LoseDelivery \/ ReadMessage
    \/ \E s \in Stored : PushMessage(s) \/ Redeliver(s)
    \/ \E s \in acks : AckArrives(s)
    \/ Fetch \/ FetchUnreadable

StreamSpec == StreamInit /\ [][StreamNext]_streamVars

-----------------------------------------------------------------------------
(* Properties *)

\* subscribe_jetstream: "Returns an ORDERED stream of messages".  With one
\* unacknowledged message, `status` sees every message it wants in the order of
\* the stream, each one perhaps several times in a row, whatever deliveries are
\* repeated or lost and whatever acknowledgements are late or lost.
InOrder ==
    [][Following /\ last' # last =>
           /\ last' > last
           /\ \A s \in (last + 1)..(last' - 1) : ~Wanted(s)]_streamVars

\* Why: everything on its way is a copy of the message read last or, behind
\* these, of the one delivered last, which is the next one the client wants and
\* unacknowledged until it has been read.
OneInFlight ==
    command = "Status" =>
        /\ client \in {"Ensure", "GetStream", "CreateConsumer"} => next = 1
        /\ last < next /\ next <= Len(stream) + 1
        /\ \A r \in (last + 1)..(next - 2) : ~Wanted(r)
        /\ pending \subseteq {next - 1}
        /\ last < next - 1 => next - 1 \in pending
        /\ \A s \in acks : s <= last
        /\ \A i \in 1..Len(wire) : wire[i] \in {last, next - 1}
        /\ \A i, j \in 1..Len(wire) :
               i < j /\ wire[i] = next - 1 => wire[j] = next - 1

\* Every message of the stream reaches a client that goes on following it,
\* one that cannot be parsed and a lost acknowledgement do not stop it.
StatusIsComplete ==
    \A s \in 1..MaxMessages :
        <>[](Following /\ s \in Stored /\ Wanted(s)) => <>[](last >= s)

\* A list has, of every subject, the message that was the last one when get_all
\* made its last fetch, unless the server removed it: neither batches nor
\* messages that are stored or replaced while it reads make it miss one.
ListIsCurrent ==
    client = "Done" /\ command = "List" =>
        \A s \in 1..asOf :
            (\A r \in LaterOnes(s) : r > asOf) => s \in gone \cup result

-----------------------------------------------------------------------------
(* What a document says, and the code does not do *)

\* docs/docs/getting-started.md:121: "To list DNS records being served by
\* plane, run: plane-cli list-dns".  The subject of a SetDnsRecord has the
\* cluster and the kind, not the name: several names have one subject, and
\* get_all takes the last message of each subject.
EveryNameIsListed ==
    client = "Done" /\ command = "List" =>
        \A s \in (1..asOf) \ gone :
            \E r \in result : stream[r].name = stream[s].name
=============================================================================
