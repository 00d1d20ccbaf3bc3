----------------------------- MODULE DnsServer ------------------------------
(***************************************************************************)
(* The controller's DNS server (controller/src/dns/mod.rs): the loop that  *)
(* stores SetDnsRecord messages and the lookups that read them, on the     *)
(* wall clock.  `log` is what a reader of the documentation would keep     *)
(* instead: every record with the time at which it was set.                *)
(***************************************************************************)
EXTENDS TtlStore

CONSTANTS Name,          \* RecordKey: host name and cluster
          Value,         \* the values that parse as an IPv4 address ...
          BadValue,      \* ... and those that do not
          MaxTime,       \* bound: the clock stops here
          MaxRecords     \* bound: SetDnsRecord messages

ASSUME DnsAssumption ==
    /\ {Ttl, MaxTime, MaxRecords} \subseteq Nat
    /\ Value \cap BadValue = {}

VARIABLES now, a_record_map, txt_record_map, log,
          stepped        \* the wall clock was set back (bound: once)

vars == <<now, a_record_map, txt_record_map, log, stepped>>

Kind == {"A", "TXT"}

TypeOK ==
    /\ now \in 0..MaxTime
    /\ DOMAIN a_record_map.inner \subseteq Name
    /\ \A k \in DOMAIN a_record_map.inner : a_record_map.inner[k].value \in Value
    /\ DOMAIN txt_record_map.inner \subseteq Name
    /\ \A k \in DOMAIN txt_record_map.inner :
           \A i \in DOMAIN txt_record_map.inner[k].value :
               txt_record_map.inner[k].value[i].value \in Value \cup BadValue
    /\ Len(log) <= MaxRecords
    /\ stepped \in BOOLEAN

Init ==
    /\ now = 0
    /\ a_record_map = NewMap
    /\ txt_record_map = NewMap
    /\ log = <<>>
    /\ stepped = FALSE

Logged(kind, k, v) ==
    log' = Append(log, [kind |-> kind, key |-> k, value |-> v, time |-> now])

\* Mutated form: the value is stored unparsed.
MutSetA(k, v) ==
    /\ a_record_map' = Map_insert(a_record_map, k, v, now)
    /\ Logged("A", k, v)

\* A message of kind A is stored if its value parses; otherwise it is dropped.
SetA(k, v) ==
    \/ /\ v \in Value
       /\ a_record_map' = Map_insert(a_record_map, k, v, now)
       /\ Logged("A", k, v)
    \/ /\ v \in BadValue
       /\ UNCHANGED <<a_record_map, log>>

SetTxt(k, v) ==
    /\ txt_record_map' = Multi_insert(txt_record_map, k, v, now, now)
    /\ Logged("TXT", k, v)

SetRecord(k, v) ==
    /\ Len(log) < MaxRecords
    /\ \/ SetA(k, v) /\ UNCHANGED txt_record_map
       \/ SetTxt(k, v) /\ UNCHANGED a_record_map
    /\ UNCHANGED <<now, stepped>>

\* do_lookup compacts the map it reads.
LookupA ==
    /\ a_record_map' = Map_compact(a_record_map, now)
    /\ UNCHANGED <<now, txt_record_map, log, stepped>>

LookupTxt(k) ==
    /\ txt_record_map' = Multi_compact(txt_record_map, k, now)
    /\ UNCHANGED <<now, a_record_map, log, stepped>>

\* SystemTime::now() goes on, or is corrected.
Clock ==
    /\ \/ now < MaxTime /\ now' = now + 1 /\ UNCHANGED stepped
       \/ ~stepped /\ stepped' = TRUE /\ now' \in 0..now - 1
    /\ UNCHANGED <<a_record_map, txt_record_map, log>>

Next ==
    \/ \E k \in Name, v \in Value \cup BadValue : SetRecord(k, v)
    \/ LookupA
    \/ \E k \in Name : LookupTxt(k)
    \/ Clock

Spec == Init /\ [][Next]_vars

\* The answer section of a response.
do_lookup(kind, k) ==
    IF kind = "A" THEN Map_get(a_record_map, k, now)
    ELSE Multi_iter(txt_record_map, k, now)

-----------------------------------------------------------------------------
(* Properties *)

\* The positions in the log of a name's records, and the last of them.
Records(kind, k) == {i \in 1..Len(log) : log[i].kind = kind /\ log[i].key = k}

Latest(kind, k) == {i \in Records(kind, k) : \A j \in Records(kind, k) : j <= i}

\* The answer r holds the values at the positions S, each once, oldest first.
Lists(r, S) ==
    \E at \in [1..Len(r) -> S] :
        /\ \A i, j \in 1..Len(r) : i < j => at[i] < at[j]
        /\ \A n \in S : \E i \in 1..Len(r) : at[i] = n
        /\ \A i \in 1..Len(r) : r[i] = log[at[i]].value

\* Unless the clock was set back, a lookup of kind A answers with the value
\* set last, up to and including the second in which its time to live ends,
\* whatever lookups came in between: compaction stays invisible although it
\* only looks at the front of a queue with one entry for every insertion.
AddressIsExact ==
    ~stepped => \A k \in Name :
        Lists(do_lookup("A", k), {i \in Latest("A", k) : now <= log[i].time + Ttl})

\* Unless the clock was set back, a lookup of kind TXT answers with every
\* value set less than a time to live ago, oldest first, and does not lose the
\* list of a name that was idle.
TextIsExact ==
    ~stepped => \A k \in Name :
        Lists(do_lookup("TXT", k), {i \in Records("TXT", k) : now < log[i].time + Ttl})

\* Every entry of the address map is in the queue with its current expiry, so
\* that a compaction will find it, also after the clock was set back; without
\* it the map would grow for ever.
EntriesAreQueued ==
    \A k \in DOMAIN a_record_map.inner :
        \E i \in 1..Len(a_record_map.queue) :
            a_record_map.queue[i] =
                [expiry |-> a_record_map.inner[k].expiry, key |-> k]

-----------------------------------------------------------------------------
(* What comments of the source say, and the code does not do *)

\* ttl_map.rs:7: "A HashMap which enforces a time-to-live of records inserted
\* into it."
TimeToLiveIsEnforced ==
    \A k \in Name :
        do_lookup("A", k) # <<>> => \A i \in Latest("A", k) : now <= log[i].time + Ttl

\* ttl_map.rs:13: "Compaction happens automatically when values are read or
\* written."
WritesCompact ==
    [][log' # log /\ log'[Len(log')].kind = "A" =>
           a_record_map' = Map_compact(a_record_map', now)]_vars
=============================================================================
