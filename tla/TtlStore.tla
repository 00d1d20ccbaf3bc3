------------------------------ MODULE TtlStore ------------------------------
(***************************************************************************)
(* TtlMap, TtlList and TtlMultistore (controller/src/ttl_store) as         *)
(* operators on their values.  A TtlMap is a record of                     *)
(*   inner: a function from keys to [expiry, value]                        *)
(*   queue: the sequence of [expiry, key] in order of insertion            *)
(* and a TtlList a sequence of [expiry, value].  last_compaction only      *)
(* decides what is logged and is left out.  The operators that take        *)
(* &mut self return the new value.                                         *)
(***************************************************************************)
EXTENDS Naturals, Sequences

CONSTANT Ttl

Put(f, k, v) == [x \in DOMAIN f \cup {k} |-> IF x = k THEN v ELSE f[x]]

\* Where a compaction of s stops: at the first entry that expires at `time` or
\* later, whatever comes behind it.
StopsAt(s, time) ==
    CHOOSE i \in 1..Len(s) + 1 :
        /\ \A j \in 1..i - 1 : s[j].expiry < time
        /\ i <= Len(s) => s[i].expiry >= time

NewMap == [inner |-> <<>>, queue |-> <<>>]

\* Mutated form: a key is queued when it is new.
MutMap_insert(m, k, v, time) ==
    [inner |-> Put(m.inner, k, [expiry |-> time + Ttl, value |-> v]),
     queue |-> IF k \in DOMAIN m.inner THEN m.queue
               ELSE Append(m.queue, [expiry |-> time + Ttl, key |-> k])]

Map_insert(m, k, v, time) ==
    [inner |-> Put(m.inner, k, [expiry |-> time + Ttl, value |-> v]),
     queue |-> Append(m.queue, [expiry |-> time + Ttl, key |-> k])]

\* The entry gets the current time as its expiry and no place in the queue.
Map_get_or_insert_with(m, k, v, now) ==
    IF k \in DOMAIN m.inner THEN m
    ELSE [m EXCEPT !.inner = Put(@, k, [expiry |-> now, value |-> v])]

\* Mutated form: a key that leaves the queue leaves the map.
MutMap_compact(m, time) ==
    LET i == StopsAt(m.queue, time)
        popped == {m.queue[j].key : j \in 1..i - 1}
    IN  [inner |-> [k \in DOMAIN m.inner \ popped |-> m.inner[k]],
         queue |-> SubSeq(m.queue, i, Len(m.queue))]

\* Entries leave the queue while they are older than `time`; their key leaves
\* the map unless a later insertion has given it a later expiry.
Map_compact(m, time) ==
    LET i == StopsAt(m.queue, time)
        popped == {m.queue[j].key : j \in 1..i - 1}
        gone == {k \in popped \cap DOMAIN m.inner : m.inner[k].expiry < time}
    IN  [inner |-> [k \in DOMAIN m.inner \ gone |-> m.inner[k]],
         queue |-> SubSeq(m.queue, i, Len(m.queue))]

\* What get and get_mut find after the compaction: <<value>>, or <<>>.
Map_get(m, k, time) ==
    LET c == Map_compact(m, time)
    IN  IF k \in DOMAIN c.inner THEN <<c.inner[k].value>> ELSE <<>>

NewList == <<>>

List_push(l, v, time) == Append(l, [expiry |-> time + Ttl, value |-> v])

\* Mutated form: the boundary of the map.
MutList_compact(l, time) ==
    SubSeq(l, StopsAt(l, time), Len(l))

\* Unlike the map, the list drops an entry at its expiry.
List_compact(l, time) ==
    SubSeq(l, StopsAt(l, time + 1), Len(l))

List_iter(l, time) ==
    LET c == List_compact(l, time) IN [j \in 1..Len(c) |-> c[j].value]

Multi_insert(m, k, v, time, now) ==
    LET n == Map_get_or_insert_with(m, k, NewList, now)
    IN  [n EXCEPT !.inner[k].value = List_push(@, v, time)]

\* The map after iter: the map is compacted, and then the list of the key.
Multi_compact(m, k, time) ==
    LET n == Map_compact(m, time)
    IN  IF k \in DOMAIN n.inner
        THEN [n EXCEPT !.inner[k].value = List_compact(@, time)]
        ELSE n

Multi_iter(m, k, time) ==
    LET found == Map_get(m, k, time)
    IN  IF found = <<>> THEN <<>> ELSE List_iter(found[1], time)
=============================================================================
