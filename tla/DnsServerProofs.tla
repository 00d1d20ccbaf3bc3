-------------------------- MODULE DnsServerProofs --------------------------
(***************************************************************************)
(* The answers of the DNS server for any names, values, times to live and  *)
(* any number of records and lookups.                                      *)
(*                                                                         *)
(* A store that is compacted now and then holds, at any time, what has not *)
(* expired and perhaps more.  DnsInv says which: every address set last is *)
(* in the map or has expired, every list is a part of the log that misses  *)
(* only what has expired, and both the queue and the log are in the order  *)
(* of time, so that a compaction that stops at the first entry it keeps    *)
(* leaves nothing behind that a lookup must not see.                       *)
(***************************************************************************)
EXTENDS DnsServer, SequenceTheorems, WellFoundedInduction, TLAPS

AnyValue == Value \cup BadValue
Queued == [expiry : Nat, key : Name]
Item == [expiry : Nat, value : AnyValue]

\* A TtlMap with values in V.
MapTypeOK(m, V) ==
    /\ m = [inner |-> m.inner, queue |-> m.queue]
    /\ DOMAIN m.inner \subseteq Name
    /\ m.inner \in [DOMAIN m.inner -> [expiry : Nat, value : V]]
    /\ m.queue \in Seq(Queued)

\* A TtlMultistore never queues a key.
MultiTypeOK(m) == MapTypeOK(m, Seq(Item)) /\ m.queue = <<>>

DnsTypeOK ==
    /\ now \in 0..MaxTime
    /\ stepped \in BOOLEAN
    /\ MapTypeOK(a_record_map, Value)
    /\ MultiTypeOK(txt_record_map)
    /\ log \in Seq([kind : Kind, key : Name, value : AnyValue, time : Nat])
    /\ Len(log) <= MaxRecords

\* Records are logged in the order of their times.
LogIsOrdered ==
    \A i \in 1..Len(log) :
        /\ log[i].time <= now
        /\ \A j \in i..Len(log) : log[i].time <= log[j].time

\* Keys are queued in the order of their expiry.
QueueIsOrdered ==
    \A i \in 1..Len(a_record_map.queue) :
        /\ a_record_map.queue[i].expiry <= now + Ttl
        /\ \A j \in i..Len(a_record_map.queue) :
               a_record_map.queue[i].expiry <= a_record_map.queue[j].expiry

\* The map holds the address set last, or that address has expired.
AddressIsHeld(k) ==
    /\ k \in DOMAIN a_record_map.inner => Latest("A", k) # {}
    /\ \A i \in Latest("A", k) :
           IF k \in DOMAIN a_record_map.inner
           THEN a_record_map.inner[k] = [expiry |-> log[i].time + Ttl, value |-> log[i].value]
           ELSE log[i].time + Ttl < now

ListOf(k) ==
    IF k \in DOMAIN txt_record_map.inner THEN txt_record_map.inner[k].value ELSE <<>>

\* At time t the list l holds the records S of the log g in order, but for some that
\* have expired; at says where in the log the items are.
HoldsAt(l, S, g, t, at) ==
    /\ at \in [1..Len(l) -> S]
    /\ \A i, j \in 1..Len(l) : i < j => at[i] < at[j]
    /\ \A i \in 1..Len(l) : l[i] = [expiry |-> g[at[i]].time + Ttl, value |-> g[at[i]].value]
    /\ \A n \in S : (\E i \in 1..Len(l) : at[i] = n) \/ g[n].time + Ttl <= t

TextIsHeld(k) ==
    \E at \in [1..Len(ListOf(k)) -> Records("TXT", k)] :
        HoldsAt(ListOf(k), Records("TXT", k), log, now, at)

ExactInv ==
    ~stepped => /\ LogIsOrdered /\ QueueIsOrdered
                /\ \A k \in Name : AddressIsHeld(k) /\ TextIsHeld(k)

-----------------------------------------------------------------------------
(* The stores *)

\* Times are natural numbers.
LEMMA DnsNumbers == Ttl \in Nat /\ MaxTime \in Nat /\ MaxRecords \in Nat
  BY DnsAssumption

\* A set of natural numbers has a least element.
LEMMA LeastNumber ==
    ASSUME NEW T \in SUBSET Nat, T # {}
    PROVE  \E x \in T : \A y \in T : x <= y
<1>1. PICK x \in T : \A y \in T : ~(<<y, x>> \in OpToRel(<, Nat))
  BY Zenon, NatLessThanWellFounded, WFMin
<1>2. \A y \in T : ~(y < x)
  BY Zenon, <1>1 DEF OpToRel
<1>. QED
  BY <1>2

\* A compaction stops: at the first entry that has not expired, or at the end.
LEMMA StopsAtFirst ==
    ASSUME NEW s, Len(s) \in Nat, \A i \in 1..Len(s) : s[i].expiry \in Nat, NEW time \in Nat
    PROVE  /\ StopsAt(s, time) \in 1..Len(s) + 1
           /\ \A j \in 1..StopsAt(s, time) - 1 : s[j].expiry < time
           /\ StopsAt(s, time) <= Len(s) => s[StopsAt(s, time)].expiry >= time
<1>. DEFINE T == {i \in 1..Len(s) + 1 : i <= Len(s) => s[i].expiry >= time}
<1>1. PICK x \in T : \A y \in T : x <= y
  <2>1. Len(s) + 1 \in T /\ T \in SUBSET Nat
    OBVIOUS
  <2>. QED
    BY Zenon, <2>1, LeastNumber
<1>2. \A j \in 1..x - 1 : s[j].expiry < time
  <2>1. SUFFICES ASSUME NEW j \in 1..x - 1, ~(s[j].expiry < time) PROVE FALSE
    BY Zenon
  <2>2. j \in T
    BY <2>1
  <2>. QED
    BY <1>1, <2>1, <2>2
<1>3. \E i \in 1..Len(s) + 1 : /\ \A j \in 1..i - 1 : s[j].expiry < time
                               /\ i <= Len(s) => s[i].expiry >= time
  BY Zenon, <1>1, <1>2
<1>. QED
  BY Zenon, <1>3 DEF StopsAt

\* An empty queue is not compacted.
LEMMA NothingToCompact ==
    ASSUME NEW time \in Nat
    PROVE  StopsAt(<<>>, time) = 1
<1>1. Len(<<>>) = 0 /\ \A i \in 1..Len(<<>>) : <<>>[i].expiry \in Nat
  OBVIOUS
<1>2. StopsAt(<<>>, time) \in 1..Len(<<>>) + 1
  BY <1>1, StopsAtFirst
<1>. QED
  BY <1>1, <1>2

\* What a compaction that stops at i keeps, and what it drops.
CompactedTo(m, time, i, c) ==
    /\ i \in 1..Len(m.queue) + 1 /\ Len(m.queue) \in Nat
    /\ \A j \in 1..i - 1 : m.queue[j].expiry < time
    /\ i <= Len(m.queue) => m.queue[i].expiry >= time
    /\ \A k \in DOMAIN c.inner : k \in DOMAIN m.inner /\ c.inner[k] = m.inner[k]
    /\ \A k \in DOMAIN m.inner : k \notin DOMAIN c.inner => m.inner[k].expiry < time
    /\ \A k \in DOMAIN m.inner : \A j \in 1..i - 1 :
           m.queue[j].key = k /\ m.inner[k].expiry < time => k \notin DOMAIN c.inner
    /\ Len(c.queue) = Len(m.queue) - i + 1
    /\ \A j \in 1..Len(c.queue) : c.queue[j] = m.queue[i + j - 1]

\* TtlMap::compact.
LEMMA MapCompacted ==
    ASSUME NEW V, NEW m, MapTypeOK(m, V), NEW time \in Nat, NEW c, c = Map_compact(m, time)
    PROVE  MapTypeOK(c, V) /\ \E i \in Nat : CompactedTo(m, time, i, c)
<1>. DEFINE i == StopsAt(m.queue, time)
            popped == {m.queue[j].key : j \in 1..i - 1}
            gone == {k \in popped \cap DOMAIN m.inner : m.inner[k].expiry < time}
<1>1. /\ m.queue \in Seq(Queued) /\ Len(m.queue) \in Nat
      /\ \A j \in 1..Len(m.queue) : m.queue[j] \in Queued /\ m.queue[j].expiry \in Nat
  <2>1. m.queue \in Seq(Queued)
    BY Zenon DEF MapTypeOK
  <2>2. Len(m.queue) \in Nat /\ \A j \in 1..Len(m.queue) : m.queue[j] \in Queued
    BY <2>1
  <2>3. \A q \in Queued : q.expiry \in Nat
    BY DEF Queued
  <2>. QED
    BY Zenon, <2>1, <2>2, <2>3
<1>2. /\ i \in 1..Len(m.queue) + 1
      /\ \A j \in 1..i - 1 : m.queue[j].expiry < time
      /\ i <= Len(m.queue) => m.queue[i].expiry >= time
  BY Zenon, <1>1, StopsAtFirst
<1>3. /\ c.inner = [k \in DOMAIN m.inner \ gone |-> m.inner[k]]
      /\ c.queue = SubSeq(m.queue, i, Len(m.queue))
      /\ c = [inner |-> c.inner, queue |-> c.queue]
  BY Zenon DEF Map_compact
<1>. HIDE DEF i
<1>4. /\ c.queue \in Seq(Queued) /\ Len(c.queue) = Len(m.queue) - i + 1
      /\ \A j \in 1..Len(c.queue) : c.queue[j] = m.queue[i + j - 1]
  BY SMTT(60), <1>1, <1>2, <1>3, SubSeqProperties
<1>5. /\ DOMAIN c.inner = DOMAIN m.inner \ gone
      /\ \A k \in DOMAIN c.inner : c.inner[k] = m.inner[k]
  BY <1>3
<1>6. c.inner \in [DOMAIN c.inner -> [expiry : Nat, value : V]]
  BY <1>3, <1>5 DEF MapTypeOK
<1>7. MapTypeOK(c, V)
  BY Zenon, <1>3, <1>4, <1>5, <1>6 DEF MapTypeOK
<1>8. \A k \in DOMAIN m.inner : k \notin DOMAIN c.inner => m.inner[k].expiry < time
  BY Zenon, <1>5
<1>9. \A k \in DOMAIN m.inner : \A j \in 1..i - 1 :
          m.queue[j].key = k /\ m.inner[k].expiry < time => k \notin DOMAIN c.inner
  BY Zenon, <1>5
<1>10. CompactedTo(m, time, i, c)
  BY Zenon, <1>1, <1>2, <1>4, <1>5, <1>8, <1>9 DEF CompactedTo
<1>11. i \in Nat
  BY <1>1, <1>2
<1>. QED
  BY Zenon, <1>7, <1>10, <1>11

\* What an insertion adds.
InsertedTo(m, k, v, time, c) ==
    /\ DOMAIN c.inner = DOMAIN m.inner \cup {k}
    /\ c.inner[k] = [expiry |-> time + Ttl, value |-> v]
    /\ \A x \in DOMAIN m.inner : x # k => c.inner[x] = m.inner[x]
    /\ Len(c.queue) = Len(m.queue) + 1 /\ Len(m.queue) \in Nat
    /\ c.queue[Len(m.queue) + 1] = [expiry |-> time + Ttl, key |-> k]
    /\ \A j \in 1..Len(m.queue) : c.queue[j] = m.queue[j]

\* TtlMap::insert.
LEMMA MapInserted ==
    ASSUME NEW V, NEW m, MapTypeOK(m, V), NEW k \in Name, NEW v \in V, NEW time \in Nat,
           NEW c, c = Map_insert(m, k, v, time)
    PROVE  MapTypeOK(c, V) /\ InsertedTo(m, k, v, time, c)
<1>1. time + Ttl \in Nat
  BY DnsNumbers
<1>2. /\ c.inner = [x \in DOMAIN m.inner \cup {k} |->
                        IF x = k THEN [expiry |-> time + Ttl, value |-> v] ELSE m.inner[x]]
      /\ c.queue = Append(m.queue, [expiry |-> time + Ttl, key |-> k])
      /\ c = [inner |-> c.inner, queue |-> c.queue]
  BY DEF Map_insert, Put
<1>3. m.queue \in Seq(Queued) /\ [expiry |-> time + Ttl, key |-> k] \in Queued
  BY <1>1 DEF MapTypeOK, Queued
<1>4. /\ c.queue \in Seq(Queued) /\ Len(c.queue) = Len(m.queue) + 1 /\ Len(m.queue) \in Nat
      /\ c.queue[Len(m.queue) + 1] = [expiry |-> time + Ttl, key |-> k]
      /\ \A j \in 1..Len(m.queue) : c.queue[j] = m.queue[j]
  <2>. DEFINE e == [expiry |-> time + Ttl, key |-> k]
  <2>1. m.queue \in Seq(Queued) /\ e \in Queued /\ c.queue = Append(m.queue, e)
    BY Zenon, <1>2, <1>3
  <2>. HIDE DEF e
  <2>2. /\ c.queue \in Seq(Queued) /\ Len(c.queue) = Len(m.queue) + 1 /\ Len(m.queue) \in Nat
        /\ c.queue[Len(m.queue) + 1] = e
        /\ \A j \in 1..Len(m.queue) : c.queue[j] = m.queue[j]
    BY <2>1, AppendProperties, LenProperties
  <2>. QED
    BY Zenon, <2>2 DEF e
<1>5. /\ DOMAIN c.inner = DOMAIN m.inner \cup {k}
      /\ c.inner[k] = [expiry |-> time + Ttl, value |-> v]
      /\ \A x \in DOMAIN m.inner : x # k => c.inner[x] = m.inner[x]
  BY Zenon, <1>2
<1>6. c.inner \in [DOMAIN c.inner -> [expiry : Nat, value : V]]
  BY <1>1, <1>2 DEF MapTypeOK
<1>7. MapTypeOK(c, V)
  BY Zenon, <1>2, <1>4, <1>5, <1>6 DEF MapTypeOK
<1>. QED
  BY Zenon, <1>4, <1>5, <1>7 DEF InsertedTo

\* The list c is l from s on, where the first item is that has not expired.
CutAt(l, time, s, c) ==
    /\ Len(l) \in Nat /\ s \in 1..Len(l) + 1 /\ Len(c) = Len(l) - s + 1
    /\ \A j \in 1..Len(c) : c[j] = l[s + j - 1]
    /\ \A j \in 1..s - 1 : l[j].expiry <= time
    /\ s <= Len(l) => l[s].expiry > time

\* What TtlList::compact keeps.
LEMMA ListCompacted ==
    ASSUME NEW l \in Seq(Item), NEW time \in Nat, NEW c, c = List_compact(l, time),
           NEW s, s = StopsAt(l, time + 1)
    PROVE  c \in Seq(Item) /\ CutAt(l, time, s, c)
<1>1. /\ Len(l) \in Nat /\ time + 1 \in Nat
      /\ \A j \in 1..Len(l) : l[j] \in Item /\ l[j].expiry \in Nat
  <2>1. Len(l) \in Nat /\ \A j \in 1..Len(l) : l[j] \in Item
    OBVIOUS
  <2>2. \A e \in Item : e.expiry \in Nat
    BY DEF Item
  <2>3. time + 1 \in Nat
    OBVIOUS
  <2>. QED
    BY Zenon, <2>1, <2>2, <2>3
<1>2. /\ s \in 1..Len(l) + 1
      /\ \A j \in 1..s - 1 : l[j].expiry < time + 1
      /\ s <= Len(l) => l[s].expiry >= time + 1
  BY Zenon, <1>1, StopsAtFirst
<1>3. c = SubSeq(l, s, Len(l))
  BY Zenon DEF List_compact
<1>4. c \in Seq(Item) /\ Len(c) = Len(l) - s + 1 /\ \A j \in 1..Len(c) : c[j] = l[s + j - 1]
  BY <1>1, <1>2, <1>3, SubSeqProperties
<1>5. /\ \A j \in 1..s - 1 : l[j].expiry <= time
      /\ s <= Len(l) => l[s].expiry > time
  BY <1>1, <1>2
<1>. QED
  BY Zenon, <1>1, <1>2, <1>4, <1>5 DEF CutAt

\* The map of a TtlMultistore, that queues nothing, keeps every key.
LEMMA UnqueuedIsKept ==
    ASSUME NEW V, NEW m, MapTypeOK(m, V), m.queue = <<>>, NEW time \in Nat
    PROVE  Map_compact(m, time) = m
<1>1. StopsAt(m.queue, time) = 1
  BY Zenon, NothingToCompact
<1>2. SubSeq(m.queue, 1, Len(m.queue)) = m.queue
  BY SubSeqEmpty
<1>3. \A x : {m.queue[j].key : j \in 1..1 - 1} \cap x = {}
  OBVIOUS
<1>4. Map_compact(m, time) =
          [inner |-> [k \in DOMAIN m.inner \ {} |-> m.inner[k]], queue |-> m.queue]
  BY <1>1, <1>2, <1>3 DEF Map_compact
<1>5. [k \in DOMAIN m.inner \ {} |-> m.inner[k]] = m.inner
  BY DEF MapTypeOK
<1>6. m = [inner |-> m.inner, queue |-> m.queue]
  BY Zenon DEF MapTypeOK
<1>. QED
  BY <1>4, <1>5, <1>6

\* What an insertion adds to the list of k.
PushedTo(m, k, v, time, c) ==
    /\ DOMAIN c.inner = DOMAIN m.inner \cup {k}
    /\ c.inner[k].value = Append(IF k \in DOMAIN m.inner THEN m.inner[k].value ELSE <<>>,
                                 [expiry |-> time + Ttl, value |-> v])
    /\ \A x \in DOMAIN m.inner : x # k => c.inner[x] = m.inner[x]

\* TtlMultistore::insert.
LEMMA MultiInserted ==
    ASSUME NEW m, MultiTypeOK(m), NEW k \in Name, NEW v \in AnyValue,
           NEW time \in Nat, NEW c, c = Multi_insert(m, k, v, time, time)
    PROVE  MultiTypeOK(c) /\ PushedTo(m, k, v, time, c)
<1>. USE DEF MultiTypeOK
<1>. DEFINE n == Map_get_or_insert_with(m, k, NewList, time)
            e == [expiry |-> time + Ttl, value |-> v]
            old == IF k \in DOMAIN m.inner THEN m.inner[k].value ELSE <<>>
<1>1. e \in Item
  BY DnsNumbers DEF Item
<1>2. /\ n = [inner |-> n.inner, queue |-> n.queue] /\ n.queue = <<>>
      /\ DOMAIN n.inner = DOMAIN m.inner \cup {k}
      /\ n.inner \in [DOMAIN n.inner -> [expiry : Nat, value : Seq(Item)]]
      /\ n.inner[k].value = old
      /\ \A x \in DOMAIN m.inner : x # k => n.inner[x] = m.inner[x]
  <2>1. CASE k \in DOMAIN m.inner
    <3>1. n = m
      BY Zenon, <2>1 DEF Map_get_or_insert_with
    <3>2. DOMAIN m.inner = DOMAIN m.inner \cup {k}
      BY <2>1
    <3>3. old = m.inner[k].value
      BY Zenon, <2>1
    <3>. QED
      BY Zenon, <3>1, <3>2, <3>3 DEF MapTypeOK
  <2>2. CASE k \notin DOMAIN m.inner
    <3>1. n = [m EXCEPT !.inner = Put(m.inner, k, [expiry |-> time, value |-> <<>>])]
      BY Zenon, <2>2 DEF Map_get_or_insert_with, NewList
    <3>2. m = [inner |-> m.inner, queue |-> <<>>]
      BY Zenon DEF MapTypeOK
    <3>3. /\ n.inner = Put(m.inner, k, [expiry |-> time, value |-> <<>>]) /\ n.queue = <<>>
          /\ n = [inner |-> n.inner, queue |-> n.queue]
      BY <3>1, <3>2
    <3>4. n.inner = [x \in DOMAIN m.inner \cup {k} |->
                        IF x = k THEN [expiry |-> time, value |-> <<>>] ELSE m.inner[x]]
      BY Zenon, <3>3 DEF Put
    <3>5. m.inner \in [DOMAIN m.inner -> [expiry : Nat, value : Seq(Item)]]
      BY Zenon DEF MapTypeOK
    <3>6. [expiry |-> time, value |-> <<>>] \in [expiry : Nat, value : Seq(Item)]
      OBVIOUS
    <3>. HIDE DEF n
    <3>7. /\ DOMAIN n.inner = DOMAIN m.inner \cup {k}
          /\ n.inner \in [DOMAIN n.inner -> [expiry : Nat, value : Seq(Item)]]
      BY <3>4, <3>5, <3>6
    <3>8. /\ n.inner[k].value = <<>>
          /\ \A x \in DOMAIN m.inner : x # k => n.inner[x] = m.inner[x]
      BY <3>4
    <3>. QED
      BY Zenon, <2>2, <3>3, <3>7, <3>8
  <2>. QED
    BY Zenon, <2>1, <2>2
<1>3. c = [n EXCEPT !.inner[k].value = Append(n.inner[k].value, e)]
  BY DEF Multi_insert, List_push
<1>. HIDE DEF n, e
<1>4. /\ c.queue = <<>> /\ c = [inner |-> c.inner, queue |-> c.queue]
      /\ c.inner = [n.inner EXCEPT ![k].value = Append(n.inner[k].value, e)]
  BY Zenon, <1>2, <1>3
<1>5. n.inner[k] \in [expiry : Nat, value : Seq(Item)]
  BY <1>2
<1>6. Append(n.inner[k].value, e) \in Seq(Item)
  BY <1>1, <1>5
<1>7. /\ DOMAIN c.inner = DOMAIN m.inner \cup {k}
      /\ c.inner[k].value = Append(n.inner[k].value, e)
      /\ \A x \in DOMAIN m.inner : x # k => c.inner[x] = m.inner[x]
  BY <1>2, <1>4, <1>5
<1>8. c.inner \in [DOMAIN c.inner -> [expiry : Nat, value : Seq(Item)]]
  <2>. DEFINE changed == [n.inner[k] EXCEPT !.value = Append(n.inner[k].value, e)]
  <2>1. changed \in [expiry : Nat, value : Seq(Item)]
    BY Zenon, <1>5, <1>6
  <2>2. c.inner = [n.inner EXCEPT ![k] = changed]
    BY <1>4
  <2>3. n.inner \in [DOMAIN n.inner -> [expiry : Nat, value : Seq(Item)]]
    BY Zenon, <1>2
  <2>. HIDE DEF changed
  <2>. QED
    BY Zenon, <2>1, <2>2, <2>3
<1>9. DOMAIN c.inner \subseteq Name /\ c.queue \in Seq(Queued)
  BY <1>4, <1>7 DEF MapTypeOK
<1>. QED
  BY Zenon, <1>2, <1>4, <1>7, <1>8, <1>9 DEF MapTypeOK, PushedTo, e

\* Only the list of k is compacted.
ListCompactedTo(m, k, time, c) ==
    /\ DOMAIN c.inner = DOMAIN m.inner
    /\ k \in DOMAIN m.inner => c.inner[k].value = List_compact(m.inner[k].value, time)
    /\ \A x \in DOMAIN m.inner : x # k => c.inner[x] = m.inner[x]

\* TtlMultistore::iter: what it does to the store.
LEMMA MultiCompacted ==
    ASSUME NEW m, MultiTypeOK(m), NEW k \in Name,
           NEW time \in Nat, NEW c, c = Multi_compact(m, k, time)
    PROVE  MultiTypeOK(c) /\ ListCompactedTo(m, k, time, c)
<1>. USE DEF MultiTypeOK
<1>1. Map_compact(m, time) = m
  BY Zenon, UnqueuedIsKept
<1>2. CASE k \notin DOMAIN m.inner
  BY Zenon, <1>1, <1>2 DEF Multi_compact, ListCompactedTo
<1>3. CASE k \in DOMAIN m.inner
  <2>. DEFINE l == List_compact(m.inner[k].value, time)
  <2>1. c = [m EXCEPT !.inner[k].value = l]
    BY <1>1, <1>3 DEF Multi_compact
  <2>2. m = [inner |-> m.inner, queue |-> <<>>]
    BY Zenon DEF MapTypeOK
  <2>3. m.inner[k] \in [expiry : Nat, value : Seq(Item)]
    BY <1>3 DEF MapTypeOK
  <2>4. m.inner[k].value \in Seq(Item)
    BY <2>3
  <2>5. l \in Seq(Item)
    BY Zenon, <2>4, ListCompacted
  <2>. HIDE DEF l
  <2>6. /\ c.queue = <<>> /\ c = [inner |-> c.inner, queue |-> c.queue]
        /\ c.inner = [m.inner EXCEPT ![k].value = l]
    BY <2>1, <2>2
  <2>7. m.inner \in [DOMAIN m.inner -> [expiry : Nat, value : Seq(Item)]]
    BY Zenon DEF MapTypeOK
  <2>8. /\ DOMAIN c.inner = DOMAIN m.inner /\ c.inner[k].value = l
        /\ \A x \in DOMAIN m.inner : x # k => c.inner[x] = m.inner[x]
    BY <1>3, <2>3, <2>6, <2>7
  <2>9. c.inner \in [DOMAIN c.inner -> [expiry : Nat, value : Seq(Item)]]
    BY Zenon, <1>3, <2>3, <2>5, <2>6, <2>7
  <2>. QED
    BY Zenon, <2>6, <2>8, <2>9 DEF MapTypeOK, ListCompactedTo, l
<1>. QED
  BY Zenon, <1>2, <1>3

\* What TtlMultistore::iter finds.
LEMMA MultiFound ==
    ASSUME NEW m, MultiTypeOK(m), NEW k \in Name, NEW time \in Nat
    PROVE  Multi_iter(m, k, time) =
               IF k \in DOMAIN m.inner THEN List_iter(m.inner[k].value, time) ELSE <<>>
<1>. USE DEF MultiTypeOK
<1>1. Map_compact(m, time) = m
  BY Zenon, UnqueuedIsKept
<1>2. Map_get(m, k, time) = IF k \in DOMAIN m.inner THEN <<m.inner[k].value>> ELSE <<>>
  BY Zenon, <1>1 DEF Map_get
<1>3. \A x : <<x>> # <<>> /\ <<x>>[1] = x
  OBVIOUS
<1>. QED
  BY Zenon, <1>2, <1>3 DEF Multi_iter

-----------------------------------------------------------------------------
(* Types, and the queue *)

LogEntry == [kind : Kind, key : Name, value : AnyValue, time : Nat]

\* A record that is logged goes to the end.
LEMMA LogGrows ==
    ASSUME DnsTypeOK, NEW kind \in Kind, NEW k \in Name, NEW v \in AnyValue, Logged(kind, k, v)
    PROVE  /\ log' \in Seq(LogEntry) /\ Len(log) \in Nat /\ Len(log') = Len(log) + 1
           /\ \A i \in 1..Len(log) : log'[i] = log[i]
           /\ log'[Len(log) + 1] = [kind |-> kind, key |-> k, value |-> v, time |-> now]
<1>. DEFINE e == [kind |-> kind, key |-> k, value |-> v, time |-> now]
<1>1. e \in LogEntry
  BY DnsNumbers DEF DnsTypeOK, LogEntry
<1>2. log \in Seq(LogEntry) /\ log' = Append(log, e)
  BY Zenon DEF DnsTypeOK, LogEntry, Logged
<1>. HIDE DEF e
<1>3. /\ log' \in Seq(LogEntry) /\ Len(log) \in Nat /\ Len(log') = Len(log) + 1
      /\ \A i \in 1..Len(log) : log'[i] = log[i]
      /\ log'[Len(log) + 1] = e
  BY <1>1, <1>2, AppendProperties, LenProperties
<1>. QED
  BY Zenon, <1>3 DEF e

\* The steps of the server: an address or a text is set, a value that does not
\* parse is dropped, a lookup compacts, the clock goes on.
LEMMA DnsSteps ==
    ASSUME [Next]_vars
    PROVE  \/ \E k \in Name, v \in Value :
                  /\ Len(log) < MaxRecords /\ Logged("A", k, v)
                  /\ a_record_map' = Map_insert(a_record_map, k, v, now)
                  /\ UNCHANGED <<txt_record_map, now, stepped>>
           \/ \E k \in Name, v \in AnyValue :
                  /\ Len(log) < MaxRecords /\ Logged("TXT", k, v)
                  /\ txt_record_map' = Multi_insert(txt_record_map, k, v, now, now)
                  /\ UNCHANGED <<a_record_map, now, stepped>>
           \/ LookupA \/ (\E k \in Name : LookupTxt(k)) \/ Clock \/ UNCHANGED vars
  BY Zenon DEF Next, SetRecord, SetA, SetTxt, AnyValue, vars

\* Every step keeps the types.
LEMMA DnsTypeStep ==
    ASSUME DnsTypeOK, [Next]_vars
    PROVE  DnsTypeOK'
<1>. USE DnsNumbers
<1>0. now \in Nat
  BY DEF DnsTypeOK
<1>1. ASSUME NEW k \in Name, NEW v \in Value, Len(log) < MaxRecords, Logged("A", k, v),
             a_record_map' = Map_insert(a_record_map, k, v, now),
             UNCHANGED <<txt_record_map, now, stepped>>
      PROVE  DnsTypeOK'
  <2>1. MapTypeOK(a_record_map, Value)'
    <3>1. MapTypeOK(a_record_map, Value)
      BY Zenon DEF DnsTypeOK
    <3>2. MapTypeOK(a_record_map', Value)
      BY Zenon, <1>0, <1>1, <3>1, MapInserted
    <3>. QED
      BY Zenon, <3>2 DEF MapTypeOK
  <2>2. log' \in Seq(LogEntry) /\ Len(log) \in Nat /\ Len(log') = Len(log) + 1
    BY Zenon, <1>1, LogGrows DEF Kind, AnyValue
  <2>3. Len(log') <= MaxRecords
    BY <1>1, <2>2
  <2>. QED
    BY Zenon, <1>1, <2>1, <2>2, <2>3 DEF DnsTypeOK, MultiTypeOK, MapTypeOK, LogEntry
<1>2. ASSUME NEW k \in Name, NEW v \in AnyValue, Len(log) < MaxRecords, Logged("TXT", k, v),
             txt_record_map' = Multi_insert(txt_record_map, k, v, now, now),
             UNCHANGED <<a_record_map, now, stepped>>
      PROVE  DnsTypeOK'
  <2>1. MultiTypeOK(txt_record_map')
    BY Zenon, <1>0, <1>2, MultiInserted DEF DnsTypeOK
  <2>2. log' \in Seq(LogEntry) /\ Len(log) \in Nat /\ Len(log') = Len(log) + 1
    BY Zenon, <1>2, LogGrows DEF Kind
  <2>3. Len(log') <= MaxRecords
    BY <1>2, <2>2
  <2>. QED
    BY Zenon, <1>2, <2>1, <2>2, <2>3 DEF DnsTypeOK, MultiTypeOK, MapTypeOK, LogEntry
<1>3. CASE LookupA
  <2>1. MapTypeOK(a_record_map, Value)
    BY Zenon DEF DnsTypeOK
  <2>2. MapTypeOK(a_record_map', Value)
    BY Zenon, <1>0, <1>3, <2>1, MapCompacted DEF LookupA
  <2>. QED
    BY Zenon, <1>3, <2>2 DEF LookupA, DnsTypeOK, MultiTypeOK, MapTypeOK
<1>4. ASSUME NEW k \in Name, LookupTxt(k) PROVE DnsTypeOK'
  <2>2. MultiTypeOK(txt_record_map')
    BY Zenon, <1>0, <1>4, MultiCompacted DEF LookupTxt, DnsTypeOK
  <2>. QED
    BY Zenon, <1>4, <2>2 DEF LookupTxt, DnsTypeOK, MultiTypeOK, MapTypeOK
<1>5. CASE Clock
  <2>1. now' \in 0..MaxTime
    BY <1>0, <1>5 DEF Clock, DnsTypeOK
  <2>2. stepped' \in BOOLEAN
    BY Zenon, <1>5 DEF Clock, DnsTypeOK
  <2>. QED
    BY Zenon, <1>5, <2>1, <2>2 DEF Clock, DnsTypeOK, MultiTypeOK, MapTypeOK
<1>6. CASE UNCHANGED vars
  BY Zenon, <1>6 DEF vars, DnsTypeOK, MultiTypeOK, MapTypeOK
<1>. QED
  BY Zenon, <1>1, <1>2, <1>3, <1>4, <1>5, <1>6, DnsSteps

\* A compaction that leaves a key in the map leaves it in the queue.
LEMMA QueueStep ==
    ASSUME DnsTypeOK, EntriesAreQueued, [Next]_vars
    PROVE  EntriesAreQueued'
<1>. USE DnsNumbers
<1>. DEFINE m == a_record_map
            E(x) == [expiry |-> m.inner[x].expiry, key |-> x]
<1>0. now \in Nat /\ MapTypeOK(m, Value)
  BY DEF DnsTypeOK
<1>1. ASSUME UNCHANGED a_record_map PROVE EntriesAreQueued'
  BY Zenon, <1>1 DEF EntriesAreQueued
<1>2. ASSUME NEW k \in Name, NEW v \in Value,
             a_record_map' = Map_insert(a_record_map, k, v, now)
      PROVE  EntriesAreQueued'
  <2>1. /\ DOMAIN m'.inner = DOMAIN m.inner \cup {k}
        /\ m'.inner[k] = [expiry |-> now + Ttl, value |-> v]
        /\ \A x \in DOMAIN m.inner : x # k => m'.inner[x] = m.inner[x]
        /\ Len(m'.queue) = Len(m.queue) + 1 /\ Len(m.queue) \in Nat
        /\ m'.queue[Len(m.queue) + 1] = [expiry |-> now + Ttl, key |-> k]
        /\ \A j \in 1..Len(m.queue) : m'.queue[j] = m.queue[j]
    <3>1. InsertedTo(m, k, v, now, m')
      BY Zenon, <1>0, <1>2, MapInserted
    <3>. QED
      BY Zenon, <3>1 DEF InsertedTo
  <2>2. ASSUME NEW x \in DOMAIN m'.inner
        PROVE  \E i \in 1..Len(m'.queue) : m'.queue[i] = E(x)'
    <3>1. CASE x = k
      <4>1. Len(m.queue) + 1 \in 1..Len(m'.queue) /\ m'.inner[k].expiry = now + Ttl
        BY <2>1
      <4>. QED
        BY Zenon, <2>1, <3>1, <4>1
    <3>2. CASE x # k
      <4>1. x \in DOMAIN m.inner /\ m'.inner[x] = m.inner[x]
        BY Zenon, <2>1, <2>2, <3>2
      <4>2. PICK i \in 1..Len(m.queue) : m.queue[i] = E(x)
        BY Zenon, <4>1 DEF EntriesAreQueued
      <4>3. i \in 1..Len(m'.queue)
        BY <2>1
      <4>. QED
        BY Zenon, <2>1, <4>1, <4>2, <4>3
    <3>. QED
      BY Zenon, <3>1, <3>2
  <2>. QED
    BY Zenon, <2>2 DEF EntriesAreQueued
<1>3. CASE LookupA
  <2>1. PICK s \in Nat : CompactedTo(m, now, s, m')
    BY Zenon, <1>0, <1>3, MapCompacted DEF LookupA
  <2>2. /\ s \in 1..Len(m.queue) + 1 /\ Len(m.queue) \in Nat
        /\ \A j \in 1..s - 1 : m.queue[j].expiry < now
        /\ \A x \in DOMAIN m'.inner : x \in DOMAIN m.inner /\ m'.inner[x] = m.inner[x]
        /\ \A x \in DOMAIN m.inner : \A j \in 1..s - 1 :
               m.queue[j].key = x /\ m.inner[x].expiry < now => x \notin DOMAIN m'.inner
        /\ Len(m'.queue) = Len(m.queue) - s + 1
        /\ \A j \in 1..Len(m'.queue) : m'.queue[j] = m.queue[s + j - 1]
    BY Zenon, <2>1 DEF CompactedTo
  <2>3. ASSUME NEW x \in DOMAIN m'.inner
        PROVE  \E i \in 1..Len(m'.queue) : m'.queue[i] = E(x)'
    <3>1. x \in DOMAIN m.inner /\ m'.inner[x] = m.inner[x]
      BY Zenon, <2>2, <2>3
    <3>2. PICK i \in 1..Len(m.queue) : m.queue[i] = E(x)
      BY Zenon, <3>1 DEF EntriesAreQueued
    <3>3. m.queue[i].key = x /\ m.queue[i].expiry = m.inner[x].expiry
      BY <3>2
    <3>4. i \notin 1..s - 1
      BY Zenon, <2>2, <2>3, <3>1, <3>3
    <3>5. i - s + 1 \in 1..Len(m'.queue) /\ s + (i - s + 1) - 1 = i
      BY <2>2, <3>4
    <3>6. m'.queue[i - s + 1] = m.queue[i]
      BY Zenon, <2>2, <3>5
    <3>. QED
      BY Zenon, <3>1, <3>2, <3>5, <3>6
  <2>. QED
    BY Zenon, <2>3 DEF EntriesAreQueued
<1>4. ASSUME Clock \/ (\E k \in Name : LookupTxt(k)) \/ UNCHANGED vars
      PROVE  UNCHANGED a_record_map
  BY Zenon, <1>4 DEF Clock, LookupTxt, vars
<1>. QED
  BY Zenon, <1>1, <1>2, <1>3, <1>4, DnsSteps

-----------------------------------------------------------------------------
(* The answers, while the clock goes on *)

\* A new record is the latest of its name and kind, and of no other.
LEMMA RecordsGrow ==
    ASSUME DnsTypeOK, NEW kind \in Kind, NEW k \in Name, NEW v \in AnyValue, Logged(kind, k, v),
           NEW c \in Kind, NEW x \in Name
    PROVE  /\ Records(c, x) \subseteq 1..Len(log)
           /\ \A i \in Records(c, x) : log'[i] = log[i]
           /\ c = kind /\ x = k => /\ Records(c, x)' = Records(c, x) \cup {Len(log) + 1}
                                  /\ Latest(c, x)' = {Len(log) + 1}
           /\ ~(c = kind /\ x = k) => /\ Records(c, x)' = Records(c, x)
                                     /\ Latest(c, x)' = Latest(c, x)
<1>. DEFINE n == Len(log) + 1
<1>1. /\ Len(log) \in Nat /\ Len(log') = n
      /\ \A i \in 1..Len(log) : log'[i] = log[i]
      /\ log'[n] = [kind |-> kind, key |-> k, value |-> v, time |-> now]
  BY Zenon, LogGrows
<1>2. Records(c, x) \subseteq 1..Len(log)
  BY DEF Records
<1>3. log'[n].kind = kind /\ log'[n].key = k
  BY <1>1
<1>4. \A i \in 1..n : i \in 1..Len(log) \/ i = n
  BY <1>1
<1>5. n \in 1..n /\ \A i \in 1..Len(log) : i \in 1..n /\ i # n
  BY <1>1
<1>6. ASSUME c = kind, x = k
      PROVE  Records(c, x)' = Records(c, x) \cup {n}
  BY <1>1, <1>3, <1>4, <1>5, <1>6 DEF Records
<1>7. ASSUME ~(c = kind /\ x = k)
      PROVE  Records(c, x)' = Records(c, x)
  BY <1>1, <1>3, <1>4, <1>5, <1>7 DEF Records
<1>8. ASSUME c = kind, x = k PROVE Latest(c, x)' = {n}
  <2>1. \A i \in Records(c, x) : i <= n /\ ~(n <= i)
    BY <1>1, <1>2
  <2>2. n <= n
    BY <1>1
  <2>3. Latest(c, x)' = {i \in Records(c, x)' : \A j \in Records(c, x)' : j <= i}
    BY Zenon DEF Latest
  <2>. QED
    BY <1>6, <1>8, <2>1, <2>2, <2>3
<1>9. ASSUME ~(c = kind /\ x = k) PROVE Latest(c, x)' = Latest(c, x)
  BY Zenon, <1>7, <1>9 DEF Latest
<1>. QED
  BY Zenon, <1>1, <1>2, <1>6, <1>7, <1>8, <1>9

\* A new record for its own name.
LEMMA OwnRecords ==
    ASSUME DnsTypeOK, NEW c \in Kind, NEW k \in Name, NEW v \in AnyValue, Logged(c, k, v)
    PROVE  /\ Records(c, k)' = Records(c, k) \cup {Len(log) + 1}
           /\ Latest(c, k)' = {Len(log) + 1}
           /\ \A i \in Records(c, k) : log'[i] = log[i]
<1>1. c = c /\ k = k
  OBVIOUS
<1>. QED
  BY <1>1, RecordsGrow

\* A new record for any other name or kind.
LEMMA OtherRecords ==
    ASSUME DnsTypeOK, NEW kind \in Kind, NEW k \in Name, NEW v \in AnyValue, Logged(kind, k, v),
           NEW c \in Kind, NEW x \in Name, c # kind \/ x # k
    PROVE  /\ Records(c, x)' = Records(c, x) /\ Latest(c, x)' = Latest(c, x)
           /\ \A i \in Records(c, x) : log'[i] = log[i]
<1>1. ~(c = kind /\ x = k)
  OBVIOUS
<1>. QED
  BY <1>1, RecordsGrow

\* Without a new record nothing changes.
LEMMA RecordsStay ==
    ASSUME log' = log, NEW c, NEW x
    PROVE  Records(c, x)' = Records(c, x) /\ Latest(c, x)' = Latest(c, x)
  BY Zenon DEF Records, Latest

\* Unless the clock is set back, time goes on, in steps that change nothing else.
LEMMA TimeGoesOn ==
    ASSUME DnsTypeOK, [Next]_vars, ~stepped'
    PROVE  /\ ~stepped /\ now \in Nat /\ now' \in Nat /\ now <= now'
           /\ ~Clock => now' = now
<1>1. now \in Nat
  BY DnsNumbers DEF DnsTypeOK
<1>2. now' = now => now' \in Nat /\ now <= now'
  BY <1>1
<1>3. ASSUME Clock PROVE now' = now + 1 /\ stepped' = stepped
  <2>1. stepped' # TRUE
    BY Zenon
  <2>. QED
    BY Zenon, <1>3, <2>1 DEF Clock
<1>4. now' = now + 1 => now' \in Nat /\ now <= now'
  BY <1>1
<1>5. ~Clock => now' = now /\ stepped' = stepped
  BY Zenon, DnsSteps DEF LookupA, LookupTxt, vars
<1>6. stepped' = stepped
  BY Zenon, <1>3, <1>5
<1>7. ~stepped
  BY <1>6
<1>. QED
  BY Zenon, <1>1, <1>2, <1>3, <1>4, <1>5, <1>7

\* Every step keeps the order of the log.
LEMMA LogStep ==
    ASSUME DnsTypeOK, LogIsOrdered, [Next]_vars, ~stepped'
    PROVE  LogIsOrdered'
<1>1. now \in Nat /\ now' \in Nat /\ now <= now' /\ (~Clock => now' = now)
  BY Zenon, TimeGoesOn
<1>2. \A i \in 1..Len(log) : log[i].time \in Nat
  <2>1. \A i \in 1..Len(log) : log[i] \in LogEntry
    <3>1. log \in Seq(LogEntry)
      BY Zenon DEF DnsTypeOK, LogEntry
    <3>. QED
      BY <3>1
  <2>2. \A e \in LogEntry : e.time \in Nat
    BY DEF LogEntry
  <2>. QED
    BY Zenon, <2>1, <2>2
<1>3. CASE log' = log
  BY <1>1, <1>2, <1>3 DEF LogIsOrdered
<1>4. ASSUME NEW c \in Kind, NEW k \in Name, NEW v \in AnyValue, Logged(c, k, v), now' = now
      PROVE  LogIsOrdered'
  <2>1. /\ Len(log) \in Nat /\ Len(log') = Len(log) + 1
        /\ \A i \in 1..Len(log) : log'[i] = log[i]
        /\ log'[Len(log) + 1] = [kind |-> c, key |-> k, value |-> v, time |-> now]
    BY Zenon, <1>4, LogGrows
  <2>2. log'[Len(log) + 1].time = now
    BY <2>1
  <2>3. \A i \in 1..Len(log) : log[i].time <= now
    BY Zenon DEF LogIsOrdered
  <2>4. \A i \in 1..Len(log') : i \in 1..Len(log) \/ i = Len(log) + 1
    BY <2>1
  <2>5. \A i \in 1..Len(log') : log'[i].time <= now'
    BY <1>1, <1>4, <2>1, <2>2, <2>3, <2>4
  <2>6. ASSUME NEW i \in 1..Len(log'), NEW j \in i..Len(log') PROVE log'[i].time <= log'[j].time
    <3>1. CASE j = Len(log) + 1
      BY <1>4, <2>2, <2>5, <3>1
    <3>2. CASE j # Len(log) + 1
      <4>1. i \in 1..Len(log) /\ j \in i..Len(log) /\ j \in 1..Len(log)
        BY <2>1, <3>2
      <4>. QED
        BY Zenon, <2>1, <4>1 DEF LogIsOrdered
    <3>. QED
      BY <3>1, <3>2
  <2>. QED
    BY Zenon, <2>5, <2>6 DEF LogIsOrdered
<1>5. ASSUME LookupA \/ (\E k \in Name : LookupTxt(k)) \/ Clock \/ UNCHANGED vars
      PROVE  log' = log
  BY Zenon, <1>5 DEF LookupA, LookupTxt, Clock, vars
<1>6. "A" \in Kind /\ "TXT" \in Kind /\ Value \subseteq AnyValue
  BY DEF Kind, AnyValue
<1>. QED
  BY Zenon, <1>3, <1>4, <1>5, <1>6, DnsSteps

\* Every step keeps the order of the queue.
LEMMA OrderStep ==
    ASSUME DnsTypeOK, QueueIsOrdered, [Next]_vars, ~stepped'
    PROVE  QueueIsOrdered'
<1>. USE DnsNumbers
<1>. DEFINE q == a_record_map.queue
<1>0. now \in Nat /\ now' \in Nat /\ now <= now' /\ (~Clock => now' = now)
  BY Zenon, TimeGoesOn
<1>1. Len(q) \in Nat /\ \A i \in 1..Len(q) : q[i].expiry \in Nat
  <2>1. q \in Seq(Queued)
    BY Zenon DEF DnsTypeOK, MapTypeOK
  <2>2. Len(q) \in Nat /\ \A i \in 1..Len(q) : q[i] \in Queued
    BY <2>1
  <2>3. \A e \in Queued : e.expiry \in Nat
    BY DEF Queued
  <2>. QED
    BY Zenon, <2>2, <2>3
<1>2. /\ \A i \in 1..Len(q) : q[i].expiry <= now + Ttl
      /\ \A i \in 1..Len(q) : \A j \in i..Len(q) : q[i].expiry <= q[j].expiry
  BY Zenon DEF QueueIsOrdered
<1>3. SUFFICES /\ \A i \in 1..Len(q') : q'[i].expiry <= now' + Ttl
               /\ \A i \in 1..Len(q') : \A j \in i..Len(q') : q'[i].expiry <= q'[j].expiry
  BY Zenon DEF QueueIsOrdered
<1>4. CASE UNCHANGED a_record_map
  <2>1. q' = q
    BY Zenon, <1>4
  <2>. HIDE DEF q
  <2>. QED
    BY SMTT(60), <1>0, <1>1, <1>2, <2>1
<1>5. ASSUME NEW k \in Name, NEW v \in Value,
             a_record_map' = Map_insert(a_record_map, k, v, now), now' = now
      PROVE  /\ \A i \in 1..Len(q') : q'[i].expiry <= now' + Ttl
             /\ \A i \in 1..Len(q') : \A j \in i..Len(q') : q'[i].expiry <= q'[j].expiry
  <2>1. InsertedTo(a_record_map, k, v, now, a_record_map')
    BY Zenon, <1>0, <1>5, MapInserted DEF DnsTypeOK
  <2>2. /\ Len(q') = Len(q) + 1
        /\ q'[Len(q) + 1] = [expiry |-> now + Ttl, key |-> k]
        /\ \A j \in 1..Len(q) : q'[j] = q[j]
    BY Zenon, <2>1 DEF InsertedTo
  <2>3. q'[Len(q) + 1].expiry = now + Ttl
    BY <2>2
  <2>. HIDE DEF q
  <2>4. \A i \in 1..Len(q') : i \in 1..Len(q) \/ i = Len(q) + 1
    BY <1>1, <2>2
  <2>5. \A i \in 1..Len(q') : q'[i].expiry <= now' + Ttl
    BY <1>0, <1>2, <1>5, <2>2, <2>3, <2>4
  <2>6. ASSUME NEW i \in 1..Len(q'), NEW j \in i..Len(q') PROVE q'[i].expiry <= q'[j].expiry
    <3>1. CASE j = Len(q) + 1
      BY <1>5, <2>3, <2>5, <3>1
    <3>2. CASE j # Len(q) + 1
      <4>1. i \in 1..Len(q) /\ j \in i..Len(q) /\ j \in 1..Len(q)
        BY <1>1, <2>2, <3>2
      <4>. QED
        BY Zenon, <1>2, <2>2, <4>1
    <3>. QED
      BY <3>1, <3>2
  <2>. QED
    BY Zenon, <2>5, <2>6
<1>6. ASSUME LookupA
      PROVE  /\ \A i \in 1..Len(q') : q'[i].expiry <= now' + Ttl
             /\ \A i \in 1..Len(q') : \A j \in i..Len(q') : q'[i].expiry <= q'[j].expiry
  <2>1. PICK s \in Nat : CompactedTo(a_record_map, now, s, a_record_map')
    BY Zenon, <1>0, <1>6, MapCompacted DEF LookupA, DnsTypeOK
  <2>2. /\ s \in 1..Len(q) + 1 /\ Len(q') = Len(q) - s + 1
        /\ \A j \in 1..Len(q') : q'[j] = q[s + j - 1]
    BY Zenon, <2>1 DEF CompactedTo
  <2>3. now' = now
    BY Zenon, <1>6 DEF LookupA
  <2>. HIDE DEF q
  <2>4. /\ \A i \in 1..Len(q') : s + i - 1 \in 1..Len(q)
        /\ \A i \in 1..Len(q') : \A j \in i..Len(q') :
               j \in 1..Len(q') /\ s + j - 1 \in (s + i - 1)..Len(q)
    BY <1>1, <2>2
  <2>. QED
    BY Zenon, <1>2, <2>2, <2>3, <2>4
<1>7. ASSUME (\E k \in Name : LookupTxt(k)) \/ Clock \/ UNCHANGED vars
      PROVE  UNCHANGED a_record_map
  BY Zenon, <1>7 DEF LookupTxt, Clock, vars
<1>. QED
  BY Zenon, <1>4, <1>5, <1>6, <1>7, DnsSteps

\* Times in the log are natural numbers.
LEMMA LogTimes ==
    ASSUME DnsTypeOK, NEW c, NEW x, NEW i \in Records(c, x)
    PROVE  i \in 1..Len(log) /\ log[i].time \in Nat
<1>1. i \in 1..Len(log)
  BY DEF Records
<1>2. log \in Seq(LogEntry)
  BY Zenon DEF DnsTypeOK, LogEntry
<1>3. log[i] \in LogEntry
  BY <1>1, <1>2
<1>. QED
  BY <1>1, <1>3 DEF LogEntry

\* Every step keeps the address set last, until it has expired.
LEMMA AddressStep ==
    ASSUME DnsTypeOK, [Next]_vars, ~stepped', NEW x \in Name, AddressIsHeld(x)
    PROVE  AddressIsHeld(x)'
<1>. USE DnsNumbers
<1>. DEFINE m == a_record_map
            Entry(i) == [expiry |-> log[i].time + Ttl, value |-> log[i].value]
<1>0. now \in Nat /\ now' \in Nat /\ now <= now' /\ MapTypeOK(m, Value)
  BY Zenon, TimeGoesOn DEF DnsTypeOK
<1>1. "A" \in Kind /\ "TXT" \in Kind /\ "A" # "TXT" /\ Value \subseteq AnyValue
  BY DEF Kind, AnyValue
<1>2. \A i \in Latest("A", x) : /\ i \in Records("A", x)
                                /\ log[i].time + Ttl < now => log[i].time + Ttl < now'
  <2>1. \A i \in Latest("A", x) : i \in Records("A", x)
    BY Zenon DEF Latest
  <2>2. \A t \in Nat : t + Ttl < now => t + Ttl < now'
    BY <1>0
  <2>. QED
    BY Zenon, <2>1, <2>2, LogTimes
<1>3. /\ x \in DOMAIN m.inner => Latest("A", x) # {}
      /\ \A i \in Latest("A", x) : x \in DOMAIN m.inner => m.inner[x] = Entry(i)
      /\ \A i \in Latest("A", x) : x \notin DOMAIN m.inner => log[i].time + Ttl < now
  BY Zenon DEF AddressIsHeld
<1>4. SUFFICES
      /\ x \in DOMAIN m'.inner => Latest("A", x)' # {}
      /\ \A i \in Latest("A", x)' : x \in DOMAIN m'.inner => m'.inner[x] = Entry(i)'
      /\ \A i \in Latest("A", x)' : x \notin DOMAIN m'.inner => log'[i].time + Ttl < now'
  BY Zenon DEF AddressIsHeld
<1>5. ASSUME NEW k \in Name, NEW v \in Value, Logged("A", k, v),
             m' = Map_insert(m, k, v, now)
      PROVE
      /\ x \in DOMAIN m'.inner => Latest("A", x)' # {}
      /\ \A i \in Latest("A", x)' : x \in DOMAIN m'.inner => m'.inner[x] = Entry(i)'
      /\ \A i \in Latest("A", x)' : x \notin DOMAIN m'.inner => log'[i].time + Ttl < now'
  <2>1. /\ DOMAIN m'.inner = DOMAIN m.inner \cup {k}
        /\ m'.inner[k] = [expiry |-> now + Ttl, value |-> v]
        /\ \A y \in DOMAIN m.inner : y # k => m'.inner[y] = m.inner[y]
    <3>1. InsertedTo(m, k, v, now, m')
      BY Zenon, <1>0, <1>5, MapInserted
    <3>. QED
      BY Zenon, <3>1 DEF InsertedTo
  <2>2. CASE x = k
    <3>1. Latest("A", x)' = {Len(log) + 1} /\ x \in DOMAIN m'.inner
      <4>1. Latest("A", k)' = {Len(log) + 1}
        BY Zenon, <1>1, <1>5, OwnRecords
      <4>. QED
        BY Zenon, <2>1, <2>2, <4>1
    <3>2. log'[Len(log) + 1] = [kind |-> "A", key |-> k, value |-> v, time |-> now]
      BY Zenon, <1>1, <1>5, LogGrows
    <3>3. log'[Len(log) + 1].time = now /\ log'[Len(log) + 1].value = v
      BY <3>2
    <3>. QED
      BY Zenon, <2>1, <2>2, <3>1, <3>3
  <2>3. CASE x # k
    <3>1. /\ Latest("A", x)' = Latest("A", x)
          /\ \A i \in Records("A", x) : log'[i] = log[i]
      BY ZenonT(60), <1>1, <1>5, <2>3, OtherRecords
    <3>2. /\ x \in DOMAIN m'.inner <=> x \in DOMAIN m.inner
          /\ x \in DOMAIN m'.inner => m'.inner[x] = m.inner[x]
      BY Zenon, <2>1, <2>3
    <3>. QED
      BY Zenon, <1>2, <1>3, <3>1, <3>2
  <2>. QED
    BY Zenon, <2>2, <2>3
<1>6. ASSUME NEW k \in Name, NEW v \in AnyValue, Logged("TXT", k, v), m' = m
      PROVE
      /\ x \in DOMAIN m'.inner => Latest("A", x)' # {}
      /\ \A i \in Latest("A", x)' : x \in DOMAIN m'.inner => m'.inner[x] = Entry(i)'
      /\ \A i \in Latest("A", x)' : x \notin DOMAIN m'.inner => log'[i].time + Ttl < now'
  <2>1. /\ Latest("A", x)' = Latest("A", x)
        /\ \A i \in Records("A", x) : log'[i] = log[i]
    BY ZenonT(60), <1>1, <1>6, OtherRecords
  <2>. QED
    BY Zenon, <1>2, <1>3, <1>6, <2>1
<1>7. CASE LookupA
  <2>1. /\ Latest("A", x)' = Latest("A", x) /\ log' = log
    BY Zenon, <1>7, RecordsStay DEF LookupA
  <2>2. PICK s \in Nat : CompactedTo(m, now, s, m')
    BY Zenon, <1>0, <1>7, MapCompacted DEF LookupA
  <2>3. /\ x \in DOMAIN m'.inner => x \in DOMAIN m.inner /\ m'.inner[x] = m.inner[x]
        /\ x \in DOMAIN m.inner /\ x \notin DOMAIN m'.inner => m.inner[x].expiry < now
    BY Zenon, <2>2 DEF CompactedTo
  <2>4. \A i : Entry(i).expiry = log[i].time + Ttl
    OBVIOUS
  <2>5. \A i \in Latest("A", x) : x \notin DOMAIN m'.inner => log[i].time + Ttl < now
    BY Zenon, <1>3, <2>3, <2>4
  <2>. QED
    BY Zenon, <1>2, <1>3, <2>1, <2>3, <2>5
<1>8. ASSUME log' = log, m' = m
      PROVE
      /\ x \in DOMAIN m'.inner => Latest("A", x)' # {}
      /\ \A i \in Latest("A", x)' : x \in DOMAIN m'.inner => m'.inner[x] = Entry(i)'
      /\ \A i \in Latest("A", x)' : x \notin DOMAIN m'.inner => log'[i].time + Ttl < now'
  <2>1. Latest("A", x)' = Latest("A", x)
    BY Zenon, <1>8, RecordsStay
  <2>. QED
    BY Zenon, <1>2, <1>3, <1>8, <2>1
<1>9. ASSUME (\E k \in Name : LookupTxt(k)) \/ Clock \/ UNCHANGED vars
      PROVE  log' = log /\ m' = m
  BY Zenon, <1>9 DEF LookupTxt, Clock, vars
<1>. QED
  BY Zenon, <1>5, <1>6, <1>7, <1>8, <1>9, DnsSteps

\* The list of a name.
LEMMA ListType ==
    ASSUME DnsTypeOK, NEW x \in Name
    PROVE  ListOf(x) \in Seq(Item) /\ Len(ListOf(x)) \in Nat
<1>1. x \in DOMAIN txt_record_map.inner =>
          txt_record_map.inner[x] \in [expiry : Nat, value : Seq(Item)]
  BY DEF DnsTypeOK, MultiTypeOK, MapTypeOK
<1>2. x \in DOMAIN txt_record_map.inner => txt_record_map.inner[x].value \in Seq(Item)
  BY <1>1
<1>3. <<>> \in Seq(Item)
  OBVIOUS
<1>4. ListOf(x) \in Seq(Item)
  BY Zenon, <1>2, <1>3 DEF ListOf
<1>. QED
  BY <1>4

\* Time passes over a list that stays the same.
LEMMA TextStays ==
    ASSUME DnsTypeOK, NEW x \in Name, TextIsHeld(x), now \in Nat, now' \in Nat, now <= now',
           ListOf(x)' = ListOf(x), Records("TXT", x)' = Records("TXT", x),
           \A i \in Records("TXT", x) : log'[i] = log[i]
    PROVE  TextIsHeld(x)'
<1>. DEFINE l == ListOf(x)
            S == Records("TXT", x)
<1>1. PICK at \in [1..Len(l) -> S] : HoldsAt(l, S, log, now, at)
  BY Zenon DEF TextIsHeld
<1>2. \A n \in S : log[n].time + Ttl <= now => log[n].time + Ttl <= now'
  <2>1. \A t \in Nat : t + Ttl <= now => t + Ttl <= now'
    BY DnsNumbers
  <2>. QED
    BY Zenon, <2>1, LogTimes
<1>. HIDE DEF l, S
<1>3. /\ \A i, j \in 1..Len(l) : i < j => at[i] < at[j]
      /\ \A i \in 1..Len(l) :
             l[i] = [expiry |-> log[at[i]].time + Ttl, value |-> log[at[i]].value]
      /\ \A n \in S : (\E i \in 1..Len(l) : at[i] = n) \/ log[n].time + Ttl <= now
  BY Zenon, <1>1 DEF HoldsAt
<1>4. /\ \A n \in S : log'[n] = log[n]
      /\ \A i \in 1..Len(l) : at[i] \in S
  BY <1>1 DEF S
<1>5. HoldsAt(l, S, log', now', at)
  BY Zenon, <1>1, <1>2, <1>3, <1>4 DEF HoldsAt
<1>6. ListOf(x)' = l /\ Records("TXT", x)' = S
  BY Zenon DEF l, S
<1>. QED
  BY Zenon, <1>1, <1>5, <1>6 DEF TextIsHeld

\* A list that gets the next record holds one more.
LEMMA PushHolds ==
    ASSUME NEW l \in Seq(Item), NEW S, NEW g, NEW h, NEW t, NEW at, HoldsAt(l, S, g, t, at),
           NEW n \in Nat, S \subseteq 1..n - 1, \A i \in S : h[i] = g[i],
           NEW e \in Item, e = [expiry |-> h[n].time + Ttl, value |-> h[n].value]
    PROVE  \E new \in [1..Len(Append(l, e)) -> S \cup {n}] :
               HoldsAt(Append(l, e), S \cup {n}, h, t, new)
<1>. DEFINE c == Append(l, e)
            R == S \cup {n}
            new == [i \in 1..Len(l) + 1 |-> IF i = Len(l) + 1 THEN n ELSE at[i]]
<1>1. /\ Len(l) \in Nat /\ Len(c) = Len(l) + 1 /\ c[Len(l) + 1] = e
      /\ \A i \in 1..Len(l) : c[i] = l[i]
  BY AppendProperties, LenProperties
<1>2. /\ at \in [1..Len(l) -> S]
      /\ \A i, j \in 1..Len(l) : i < j => at[i] < at[j]
      /\ \A i \in 1..Len(l) : l[i] = [expiry |-> g[at[i]].time + Ttl, value |-> g[at[i]].value]
      /\ \A m \in S : (\E i \in 1..Len(l) : at[i] = m) \/ g[m].time + Ttl <= t
  BY Zenon DEF HoldsAt
<1>3. \A i \in 1..Len(l) : at[i] \in S /\ at[i] \in 1..n - 1 /\ i # Len(l) + 1
  <2>1. \A i \in 1..Len(l) : at[i] \in S
    BY Zenon, <1>2
  <2>2. \A i \in 1..Len(l) : i # Len(l) + 1
    BY <1>1
  <2>. QED
    BY Zenon, <2>1, <2>2
<1>4. /\ new \in [1..Len(l) + 1 -> R] /\ new[Len(l) + 1] = n
      /\ \A i \in 1..Len(l) : new[i] = at[i]
  BY <1>1, <1>3
<1>. HIDE DEF c, new
<1>5. ASSUME NEW i \in 1..Len(c), NEW j \in 1..Len(c), i < j PROVE new[i] < new[j]
  <2>1. i \in 1..Len(l)
    BY <1>1, <1>5
  <2>2. CASE j = Len(l) + 1
    BY SMTT(60), <1>3, <1>4, <2>1, <2>2
  <2>3. CASE j # Len(l) + 1
    <3>1. j \in 1..Len(l)
      BY <1>1, <2>3
    <3>. QED
      BY Zenon, <1>2, <1>4, <1>5, <2>1, <3>1
  <2>. QED
    BY <2>2, <2>3
<1>6. ASSUME NEW i \in 1..Len(c)
      PROVE  c[i] = [expiry |-> h[new[i]].time + Ttl, value |-> h[new[i]].value]
  <2>1. CASE i = Len(l) + 1
    BY Zenon, <1>1, <1>4, <2>1
  <2>2. CASE i # Len(l) + 1
    <3>1. i \in 1..Len(l)
      BY <1>1, <2>2
    <3>2. new[i] = at[i] /\ h[at[i]] = g[at[i]] /\ c[i] = l[i]
      BY Zenon, <1>1, <1>3, <1>4, <3>1
    <3>. QED
      BY Zenon, <1>2, <3>1, <3>2
  <2>. QED
    BY Zenon, <2>1, <2>2
<1>7. ASSUME NEW m \in R PROVE (\E i \in 1..Len(c) : new[i] = m) \/ h[m].time + Ttl <= t
  <2>1. CASE m = n
    <3>1. Len(l) + 1 \in 1..Len(c)
      BY <1>1
    <3>. QED
      BY Zenon, <1>4, <2>1, <3>1
  <2>2. CASE m \in S
    <3>1. \A i \in 1..Len(l) : i \in 1..Len(c)
      BY <1>1
    <3>. QED
      BY Zenon, <1>2, <1>4, <2>2, <3>1
  <2>. QED
    BY Zenon, <2>1, <2>2
<1>8. new \in [1..Len(c) -> R]
  BY Zenon, <1>1, <1>4
<1>9. HoldsAt(c, R, h, t, new)
  BY Zenon, <1>5, <1>6, <1>7, <1>8 DEF HoldsAt
<1>. QED
  BY Zenon, <1>8, <1>9 DEF c

\* A list that is compacted loses what has expired.
LEMMA CompactHolds ==
    ASSUME NEW l \in Seq(Item), NEW S, NEW g, NEW t \in Nat, NEW at, HoldsAt(l, S, g, t, at),
           NEW c, c = List_compact(l, t)
    PROVE  \E new \in [1..Len(c) -> S] : HoldsAt(c, S, g, t, new)
<1>1. PICK s : s = StopsAt(l, t + 1)
  OBVIOUS
<1>2. /\ Len(l) \in Nat /\ s \in 1..Len(l) + 1 /\ Len(c) = Len(l) - s + 1
      /\ \A j \in 1..Len(c) : c[j] = l[s + j - 1]
      /\ \A j \in 1..s - 1 : l[j].expiry <= t
  <2>1. CutAt(l, t, s, c)
    BY Zenon, <1>1, ListCompacted
  <2>. QED
    BY Zenon, <2>1 DEF CutAt
<1>3. /\ at \in [1..Len(l) -> S]
      /\ \A i, j \in 1..Len(l) : i < j => at[i] < at[j]
      /\ \A i \in 1..Len(l) : l[i] = [expiry |-> g[at[i]].time + Ttl, value |-> g[at[i]].value]
      /\ \A m \in S : (\E i \in 1..Len(l) : at[i] = m) \/ g[m].time + Ttl <= t
  BY Zenon DEF HoldsAt
<1>. DEFINE new == [j \in 1..Len(c) |-> at[s + j - 1]]
<1>4. /\ \A j \in 1..Len(c) : s + j - 1 \in 1..Len(l)
      /\ \A i, j \in 1..Len(c) : i < j => s + i - 1 < s + j - 1
      /\ \A i \in 1..Len(l) : i \in 1..s - 1 \/ (i - s + 1 \in 1..Len(c) /\ s + (i - s + 1) - 1 = i)
  BY SMTT(60), <1>2
<1>5. new \in [1..Len(c) -> S] /\ \A j \in 1..Len(c) : new[j] = at[s + j - 1]
  BY Zenon, <1>3, <1>4
<1>. HIDE DEF new
<1>6. ASSUME NEW i \in 1..Len(c), NEW j \in 1..Len(c), i < j PROVE new[i] < new[j]
  <2>1. PICK p \in 1..Len(l), q \in 1..Len(l) : p = s + i - 1 /\ q = s + j - 1 /\ p < q
    BY Zenon, <1>4, <1>6
  <2>2. new[i] = at[p] /\ new[j] = at[q]
    BY Zenon, <1>5, <2>1
  <2>. QED
    BY Zenon, <1>3, <2>1, <2>2
<1>7. ASSUME NEW i \in 1..Len(c)
      PROVE  c[i] = [expiry |-> g[new[i]].time + Ttl, value |-> g[new[i]].value]
  <2>1. PICK q \in 1..Len(l) : q = s + i - 1
    BY Zenon, <1>4
  <2>2. c[i] = l[q] /\ new[i] = at[q]
    BY Zenon, <1>2, <1>5, <2>1
  <2>. QED
    BY Zenon, <1>3, <2>2
<1>8. ASSUME NEW m \in S PROVE (\E i \in 1..Len(c) : new[i] = m) \/ g[m].time + Ttl <= t
  <2>1. CASE \E i \in 1..Len(l) : at[i] = m
    <3>1. PICK i \in 1..Len(l) : at[i] = m
      BY Zenon, <2>1
    <3>2. l[i].expiry = g[m].time + Ttl
      <4>1. l[i] = [expiry |-> g[m].time + Ttl, value |-> g[m].value]
        BY Zenon, <1>3, <3>1
      <4>. QED
        BY <4>1
    <3>3. CASE i \in 1..s - 1
      BY Zenon, <1>2, <3>2, <3>3
    <3>4. CASE i \notin 1..s - 1
      <4>1. PICK j \in 1..Len(c) : s + j - 1 = i
        BY Zenon, <1>4, <3>4
      <4>. QED
        BY Zenon, <1>5, <3>1, <4>1
    <3>. QED
      BY Zenon, <3>3, <3>4
  <2>. QED
    BY Zenon, <1>3, <2>1
<1>. QED
  BY Zenon, <1>5, <1>6, <1>7, <1>8 DEF HoldsAt

\* Every step keeps the lists.
LEMMA TextStep ==
    ASSUME DnsTypeOK, [Next]_vars, ~stepped', NEW x \in Name, TextIsHeld(x)
    PROVE  TextIsHeld(x)'
<1>. USE DnsNumbers
<1>. DEFINE m == txt_record_map
            S == Records("TXT", x)
<1>0. now \in Nat /\ now' \in Nat /\ now <= now' /\ (~Clock => now' = now) /\ MultiTypeOK(m)
  BY Zenon, TimeGoesOn DEF DnsTypeOK
<1>1. "A" \in Kind /\ "TXT" \in Kind /\ "A" # "TXT" /\ Value \subseteq AnyValue
  BY DEF Kind, AnyValue
<1>2. ListOf(x) \in Seq(Item) /\ Len(log) \in Nat
  BY ListType DEF DnsTypeOK
<1>3. PICK at \in [1..Len(ListOf(x)) -> S] : HoldsAt(ListOf(x), S, log, now, at)
  BY Zenon DEF TextIsHeld
<1>4. ASSUME NEW k \in Name, NEW v \in Value, Logged("A", k, v), m' = m PROVE TextIsHeld(x)'
  <2>1. ListOf(x)' = ListOf(x)
    BY Zenon, <1>4 DEF ListOf
  <2>2. S' = S /\ \A i \in S : log'[i] = log[i]
    <3>1. v \in AnyValue /\ ("TXT" # "A" \/ x # k)
      BY Zenon, <1>1, <1>4
    <3>. QED
      BY ZenonT(60), <1>1, <1>4, <3>1, OtherRecords
  <2>. QED
    BY Zenon, <1>0, <2>1, <2>2, TextStays
<1>5. ASSUME NEW k \in Name, NEW v \in AnyValue, Logged("TXT", k, v), now' = now,
             m' = Multi_insert(m, k, v, now, now)
      PROVE  TextIsHeld(x)'
  <2>1. PushedTo(m, k, v, now, m')
    BY Zenon, <1>0, <1>5, MultiInserted
  <2>2. /\ DOMAIN m'.inner = DOMAIN m.inner \cup {k}
        /\ m'.inner[k].value = Append(ListOf(k), [expiry |-> now + Ttl, value |-> v])
        /\ \A y \in DOMAIN m.inner : y # k => m'.inner[y] = m.inner[y]
    BY Zenon, <2>1 DEF PushedTo, ListOf
  <2>3. CASE x # k
    <3>1. ListOf(x)' = ListOf(x)
      BY Zenon, <2>2, <2>3 DEF ListOf
    <3>2. S' = S /\ \A i \in S : log'[i] = log[i]
      BY ZenonT(60), <1>1, <1>5, <2>3, OtherRecords
    <3>. QED
      BY Zenon, <1>0, <3>1, <3>2, TextStays
  <2>4. CASE x = k
    <3>. DEFINE n == Len(log) + 1
                e == [expiry |-> now + Ttl, value |-> v]
    <3>1. ListOf(x)' = Append(ListOf(x), e)
      BY Zenon, <2>2, <2>4 DEF ListOf
    <3>2. S' = S \cup {n} /\ \A i \in S : log'[i] = log[i]
      BY Zenon, <1>1, <1>5, <2>4, OwnRecords
    <3>3. log'[n] = [kind |-> "TXT", key |-> k, value |-> v, time |-> now]
      BY Zenon, <1>1, <1>5, LogGrows
    <3>4. e = [expiry |-> log'[n].time + Ttl, value |-> log'[n].value] /\ e \in Item
      BY <1>0, <3>3 DEF Item
    <3>5. n \in Nat /\ S \subseteq 1..n - 1
      BY <1>2 DEF Records
    <3>. HIDE DEF n, e, S
    <3>6. \E new \in [1..Len(Append(ListOf(x), e)) -> S \cup {n}] :
              HoldsAt(Append(ListOf(x), e), S \cup {n}, log', now, new)
      BY Zenon, <1>2, <1>3, <3>2, <3>4, <3>5, PushHolds
    <3>. QED
      BY Zenon, <1>5, <3>1, <3>2, <3>6 DEF TextIsHeld, S
  <2>. QED
    BY Zenon, <2>3, <2>4
<1>6. ASSUME NEW k \in Name, LookupTxt(k) PROVE TextIsHeld(x)'
  <2>1. log' = log /\ now' = now /\ S' = S
    BY Zenon, <1>6, RecordsStay DEF LookupTxt
  <2>2. ListCompactedTo(m, k, now, m')
    BY Zenon, <1>0, <1>6, MultiCompacted DEF LookupTxt
  <2>3. CASE x = k /\ x \in DOMAIN m.inner
    <3>1. ListOf(x)' = List_compact(ListOf(x), now)
      BY Zenon, <2>2, <2>3 DEF ListCompactedTo, ListOf
    <3>2. \E new \in [1..Len(ListOf(x)') -> S] : HoldsAt(ListOf(x)', S, log, now, new)
      BY Zenon, <1>0, <1>2, <1>3, <3>1, CompactHolds
    <3>. QED
      BY Zenon, <2>1, <3>2 DEF TextIsHeld
  <2>4. CASE ~(x = k /\ x \in DOMAIN m.inner)
    <3>1. ListOf(x)' = ListOf(x)
      BY Zenon, <2>2, <2>4 DEF ListCompactedTo, ListOf
    <3>. QED
      BY Zenon, <1>0, <2>1, <3>1, TextStays
  <2>. QED
    BY Zenon, <2>3, <2>4
<1>7. ASSUME LookupA \/ Clock \/ UNCHANGED vars PROVE TextIsHeld(x)'
  <2>1. log' = log /\ m' = m
    BY Zenon, <1>7 DEF LookupA, Clock, vars
  <2>2. S' = S /\ ListOf(x)' = ListOf(x)
    BY Zenon, <2>1, RecordsStay DEF ListOf
  <2>. QED
    BY Zenon, <1>0, <2>1, <2>2, TextStays
<1>. QED
  BY Zenon, <1>4, <1>5, <1>6, <1>7, DnsSteps

-----------------------------------------------------------------------------
(* The invariant *)

DnsInv == DnsTypeOK /\ EntriesAreQueued /\ ExactInv

\* A server that starts holds nothing, and was sent nothing.
LEMMA DnsStarts == Init => DnsInv
<1>. SUFFICES ASSUME Init PROVE DnsInv
  OBVIOUS
<1>. USE DnsNumbers
<1>1. /\ now = 0 /\ stepped = FALSE /\ log = <<>> /\ Len(log) = 0
      /\ a_record_map.inner = <<>> /\ a_record_map.queue = <<>> /\ Len(a_record_map.queue) = 0
      /\ txt_record_map.inner = <<>> /\ txt_record_map.queue = <<>>
      /\ a_record_map = [inner |-> a_record_map.inner, queue |-> a_record_map.queue]
      /\ txt_record_map = [inner |-> txt_record_map.inner, queue |-> txt_record_map.queue]
  BY DEF Init, NewMap
<1>2. DOMAIN <<>> = {} /\ 1..0 = {} /\ \A V : <<>> \in [{} -> V] /\ <<>> \in Seq(V)
  OBVIOUS
<1>3. MapTypeOK(a_record_map, Value) /\ MultiTypeOK(txt_record_map)
  BY Zenon, <1>1, <1>2 DEF MapTypeOK, MultiTypeOK
<1>4. DnsTypeOK
  <2>1. 0 \in 0..MaxTime /\ 0 <= MaxRecords
    OBVIOUS
  <2>. QED
    BY Zenon, <1>1, <1>2, <1>3, <2>1 DEF DnsTypeOK
<1>5. EntriesAreQueued /\ LogIsOrdered /\ QueueIsOrdered
  BY Zenon, <1>1, <1>2 DEF EntriesAreQueued, LogIsOrdered, QueueIsOrdered
<1>6. ASSUME NEW k \in Name PROVE AddressIsHeld(k) /\ TextIsHeld(k)
  <2>1. \A kind : Records(kind, k) = {}
    BY Zenon, <1>1, <1>2 DEF Records
  <2>2. ListOf(k) = <<>> /\ Latest("A", k) = {}
    BY Zenon, <1>1, <1>2, <2>1 DEF ListOf, Latest
  <2>3. AddressIsHeld(k)
    BY Zenon, <1>1, <1>2, <2>2 DEF AddressIsHeld
  <2>4. 1..Len(<<>>) = {}
    OBVIOUS
  <2>5. <<>> \in [{} -> Records("TXT", k)]
    BY Zenon, <1>2
  <2>6. HoldsAt(<<>>, Records("TXT", k), log, now, <<>>)
    BY Zenon, <2>1, <2>4, <2>5 DEF HoldsAt
  <2>. QED
    BY Zenon, <2>2, <2>3, <2>4, <2>5, <2>6 DEF TextIsHeld
<1>. QED
  BY Zenon, <1>4, <1>5, <1>6 DEF DnsInv, ExactInv

\* Every step keeps the invariant.
LEMMA DnsInvStep == DnsInv /\ [Next]_vars => DnsInv'
<1>. SUFFICES ASSUME DnsTypeOK, EntriesAreQueued, ExactInv, [Next]_vars PROVE DnsInv'
  BY Zenon DEF DnsInv
<1>1. DnsTypeOK' /\ EntriesAreQueued'
  BY Zenon, DnsTypeStep, QueueStep
<1>2. ASSUME ~stepped'
      PROVE  LogIsOrdered' /\ QueueIsOrdered' /\ \A k \in Name : AddressIsHeld(k)' /\ TextIsHeld(k)'
  <2>1. LogIsOrdered /\ QueueIsOrdered /\ \A k \in Name : AddressIsHeld(k) /\ TextIsHeld(k)
    BY Zenon, <1>2, TimeGoesOn DEF ExactInv
  <2>. QED
    BY Zenon, <1>2, <2>1, LogStep, OrderStep, AddressStep, TextStep
<1>. QED
  BY Zenon, <1>1, <1>2 DEF DnsInv, ExactInv

\* DnsInv always holds.
LEMMA DnsInvHolds == Spec => []DnsInv
  BY DnsStarts, DnsInvStep, PTL DEF Spec

-----------------------------------------------------------------------------
(* The answers *)

\* An answer without a value lists no record.
LEMMA NothingIsListed == Lists(<<>>, {})
<1>1. 1..Len(<<>>) = {} /\ <<>> \in [{} -> {}]
  OBVIOUS
<1>. QED
  BY Zenon, <1>1 DEF Lists

\* An entry of the address map that has expired is among those that the next lookup
\* drops: its place in the queue is in front of every one that has not expired.
LEMMA ExpiredIsDropped ==
    ASSUME DnsTypeOK, EntriesAreQueued, QueueIsOrdered, NEW k \in DOMAIN a_record_map.inner,
           a_record_map.inner[k].expiry < now, NEW s \in Nat, NEW c,
           CompactedTo(a_record_map, now, s, c)
    PROVE  k \notin DOMAIN c.inner
<1>. DEFINE m == a_record_map
<1>1. PICK i \in 1..Len(m.queue) : m.queue[i] = [expiry |-> m.inner[k].expiry, key |-> k]
  BY Zenon DEF EntriesAreQueued
<1>2. m.queue[i].expiry = m.inner[k].expiry /\ m.queue[i].key = k
  BY <1>1
<1>3. /\ s \in 1..Len(m.queue) + 1 /\ Len(m.queue) \in Nat
      /\ s <= Len(m.queue) => m.queue[s].expiry >= now
      /\ \A j \in 1..s - 1 : m.queue[j].key = k => k \notin DOMAIN c.inner
  BY Zenon DEF CompactedTo
<1>4. now \in Nat /\ m.queue \in Seq(Queued)
  BY DnsNumbers DEF DnsTypeOK, MapTypeOK
<1>5. \A j \in 1..Len(m.queue) : m.queue[j].expiry \in Nat
  <2>1. \A j \in 1..Len(m.queue) : m.queue[j] \in Queued
    BY <1>4
  <2>. QED
    BY <2>1 DEF Queued
<1>6. i \in 1..s - 1
  <2>1. SUFFICES ASSUME ~(i \in 1..s - 1) PROVE FALSE
    BY Zenon
  <2>2. s \in 1..Len(m.queue) /\ i \in s..Len(m.queue) /\ s <= Len(m.queue)
    BY <1>3, <2>1
  <2>3. m.queue[s].expiry <= m.queue[i].expiry
    BY Zenon, <2>2 DEF QueueIsOrdered
  <2>4. m.queue[s].expiry \in Nat /\ m.queue[i].expiry \in Nat /\ m.queue[s].expiry >= now
        /\ m.queue[i].expiry < now
    BY Zenon, <1>1, <1>2, <1>3, <1>5, <2>2
  <2>. QED
    BY <1>4, <2>3, <2>4
<1>. QED
  BY Zenon, <1>2, <1>3, <1>6

\* What a lookup of kind A finds.
LEMMA AddressFound ==
    ASSUME DnsTypeOK, EntriesAreQueued, QueueIsOrdered, NEW k \in Name, AddressIsHeld(k)
    PROVE  Lists(do_lookup("A", k), {i \in Latest("A", k) : now <= log[i].time + Ttl})
<1>. USE DnsNumbers
<1>. DEFINE m == a_record_map
            c == Map_compact(m, now)
            T == {i \in Latest("A", k) : now <= log[i].time + Ttl}
            r == do_lookup("A", k)
<1>1. now \in Nat /\ MapTypeOK(m, Value)
  BY DEF DnsTypeOK
<1>2. PICK s \in Nat : CompactedTo(m, now, s, c)
  BY Zenon, <1>1, MapCompacted
<1>3. r = IF k \in DOMAIN c.inner THEN <<c.inner[k].value>> ELSE <<>>
  BY Zenon DEF do_lookup, Map_get
<1>4. \A i \in Latest("A", k) : /\ i \in Nat /\ log[i].time \in Nat
                               /\ \A j \in Latest("A", k) : j <= i
  <2>1. \A i \in Latest("A", k) : i \in Records("A", k) /\ \A j \in Latest("A", k) : j <= i
    BY Zenon DEF Latest
  <2>2. \A i \in Records("A", k) : i \in 1..Len(log) /\ log[i].time \in Nat
    BY Zenon, LogTimes
  <2>3. \A i \in 1..Len(log) : i \in Nat
    OBVIOUS
  <2>. QED
    BY Zenon, <2>1, <2>2, <2>3
<1>5. CASE k \notin DOMAIN c.inner
  <2>1. ASSUME NEW i \in Latest("A", k) PROVE log[i].time + Ttl < now
    <3>1. CASE k \in DOMAIN m.inner
      <4>1. m.inner[k].expiry < now
        BY Zenon, <1>2, <1>5, <3>1 DEF CompactedTo
      <4>2. m.inner[k] = [expiry |-> log[i].time + Ttl, value |-> log[i].value]
        BY Zenon, <2>1, <3>1 DEF AddressIsHeld
      <4>3. m.inner[k].expiry = log[i].time + Ttl
        BY <4>2
      <4>. QED
        BY Zenon, <4>1, <4>3
    <3>. QED
      BY Zenon, <2>1, <3>1 DEF AddressIsHeld
  <2>2. T = {}
    BY <1>1, <1>4, <2>1
  <2>. QED
    BY Zenon, <1>3, <1>5, <2>2, NothingIsListed
<1>6. CASE k \in DOMAIN c.inner
  <2>1. k \in DOMAIN m.inner /\ c.inner[k] = m.inner[k]
    BY Zenon, <1>2, <1>6 DEF CompactedTo
  <2>2. PICK i \in Latest("A", k) :
            m.inner[k] = [expiry |-> log[i].time + Ttl, value |-> log[i].value]
    BY Zenon, <2>1 DEF AddressIsHeld
  <2>3. m.inner[k].expiry = log[i].time + Ttl /\ m.inner[k].value = log[i].value
    BY <2>2
  <2>4. ~(m.inner[k].expiry < now)
    BY Zenon, <1>2, <1>6, <2>1, ExpiredIsDropped
  <2>5. now <= log[i].time + Ttl
    BY <1>1, <1>4, <2>3, <2>4
  <2>6. T = {i}
    <3>1. \A j \in Latest("A", k) : j = i
      BY <1>4
    <3>. QED
      BY Zenon, <2>5, <3>1
  <2>7. r = <<log[i].value>>
    BY Zenon, <1>3, <1>6, <2>1, <2>3
  <2>. HIDE DEF r, T
  <2>8. Len(r) = 1 /\ r[1] = log[i].value
    BY <2>7
  <2>. DEFINE at == [j \in 1..1 |-> i]
  <2>9. /\ 1..Len(r) = {1} /\ at \in [1..Len(r) -> T] /\ at[1] = i /\ ~(1 < 1)
    BY <2>6, <2>8
  <2>. HIDE DEF at
  <2>10. Lists(r, T)
    BY Zenon, <2>6, <2>8, <2>9 DEF Lists
  <2>. QED
    BY Zenon, <2>10 DEF r, T
<1>. QED
  BY Zenon, <1>5, <1>6

\* What a lookup of kind TXT finds.
LEMMA TextFound ==
    ASSUME DnsTypeOK, LogIsOrdered, NEW k \in Name, TextIsHeld(k)
    PROVE  Lists(do_lookup("TXT", k), {i \in Records("TXT", k) : now < log[i].time + Ttl})
<1>. USE DnsNumbers
<1>. DEFINE m == txt_record_map
            l == ListOf(k)
            S == Records("TXT", k)
            T == {i \in S : now < log[i].time + Ttl}
            r == do_lookup("TXT", k)
<1>1. now \in Nat /\ MultiTypeOK(m) /\ l \in Seq(Item)
  BY ListType DEF DnsTypeOK
<1>2. PICK at \in [1..Len(l) -> S] : HoldsAt(l, S, log, now, at)
  BY Zenon DEF TextIsHeld
<1>3. r = IF k \in DOMAIN m.inner THEN List_iter(m.inner[k].value, now) ELSE <<>>
  <2>1. "TXT" # "A"
    OBVIOUS
  <2>. QED
    BY Zenon, <1>1, <2>1, MultiFound DEF do_lookup
<1>4. \A i \in S : i \in 1..Len(log) /\ log[i].time \in Nat
  BY Zenon, LogTimes
<1>5. CASE k \notin DOMAIN m.inner
  <2>1. l = <<>> /\ r = <<>>
    BY Zenon, <1>3, <1>5 DEF ListOf
  <2>2. 1..Len(<<>>) = {}
    OBVIOUS
  <2>3. \A i \in S : log[i].time + Ttl <= now
    BY Zenon, <1>2, <2>1, <2>2 DEF HoldsAt
  <2>4. T = {}
    BY <1>1, <1>4, <2>3
  <2>. QED
    BY Zenon, <2>1, <2>4, NothingIsListed
<1>6. CASE k \in DOMAIN m.inner
  <2>. DEFINE c == List_compact(l, now)
  <2>1. r = [j \in 1..Len(c) |-> c[j].value]
    BY Zenon, <1>3, <1>6 DEF ListOf, List_iter
  <2>2. PICK s : CutAt(l, now, s, c)
    BY Zenon, <1>1, ListCompacted
  <2>3. PICK new \in [1..Len(c) -> S] : HoldsAt(c, S, log, now, new)
    BY Zenon, <1>1, <1>2, CompactHolds
  <2>. HIDE DEF c, r
  <2>4. /\ Len(c) \in Nat
        /\ Len(c) >= 1 => c[1].expiry > now
    <3>1. /\ Len(l) \in Nat /\ s \in 1..Len(l) + 1 /\ Len(c) = Len(l) - s + 1
          /\ \A j \in 1..Len(c) : c[j] = l[s + j - 1]
          /\ s <= Len(l) => l[s].expiry > now
      BY Zenon, <2>2 DEF CutAt
    <3>2. Len(c) \in Nat /\ s + 1 - 1 = s
          /\ (Len(c) >= 1 => 1 \in 1..Len(c) /\ s <= Len(l))
      BY <3>1
    <3>. QED
      BY Zenon, <3>1, <3>2
  <2>5. /\ \A i, j \in 1..Len(c) : i < j => new[i] < new[j]
        /\ \A i \in 1..Len(c) : c[i] = [expiry |-> log[new[i]].time + Ttl, value |-> log[new[i]].value]
        /\ \A n \in S : (\E i \in 1..Len(c) : new[i] = n) \/ log[n].time + Ttl <= now
    BY Zenon, <2>3 DEF HoldsAt
  <2>6. Len(r) = Len(c) /\ \A i \in 1..Len(c) : r[i] = log[new[i]].value
    <3>1. ASSUME NEW i \in 1..Len(c) PROVE c[i].value = log[new[i]].value
      <4>1. c[i] = [expiry |-> log[new[i]].time + Ttl, value |-> log[new[i]].value]
        BY Zenon, <2>5
      <4>. QED
        BY <4>1
    <3>2. Len(r) = Len(c) /\ \A i \in 1..Len(c) : r[i] = c[i].value
      BY <2>1, <2>4
    <3>. QED
      BY Zenon, <3>1, <3>2
  <2>7. ASSUME NEW j \in 1..Len(c) PROVE new[j] \in T
    <3>1. 1 \in 1..Len(c) /\ Len(c) >= 1 /\ (j = 1 \/ 1 < j)
      BY <2>4
    <3>2. new[1] \in S /\ new[j] \in S
      BY <2>3, <3>1
    <3>3. new[1] \in 1..Len(log) /\ new[j] \in new[1]..Len(log)
      <4>1. new[1] \in 1..Len(log) /\ new[j] \in 1..Len(log)
        BY Zenon, <1>4, <3>2
      <4>2. j = 1 \/ new[1] < new[j]
        BY Zenon, <2>5, <3>1
      <4>. QED
        BY <4>1, <4>2
    <3>4. log[new[1]].time <= log[new[j]].time
      BY Zenon, <3>3 DEF LogIsOrdered
    <3>5. log[new[1]].time + Ttl > now
      <4>1. c[1] = [expiry |-> log[new[1]].time + Ttl, value |-> log[new[1]].value]
        BY Zenon, <2>5, <3>1
      <4>2. c[1].expiry = log[new[1]].time + Ttl
        BY <4>1
      <4>. QED
        BY Zenon, <2>4, <3>1, <4>2
    <3>6. log[new[1]].time \in Nat /\ log[new[j]].time \in Nat
      BY Zenon, <1>4, <3>2
    <3>7. now < log[new[j]].time + Ttl
      BY SMTT(30), <1>1, <3>4, <3>5, <3>6
    <3>. QED
      BY Zenon, <3>2, <3>7
  <2>8. ASSUME NEW n \in T PROVE \E i \in 1..Len(c) : new[i] = n
    <3>1. ~(log[n].time + Ttl <= now)
      BY <1>1, <1>4
    <3>. QED
      BY Zenon, <2>5, <3>1
  <2>9. new \in [1..Len(c) -> T]
    BY <2>3, <2>7
  <2>. HIDE DEF T, S
  <2>10. 1..Len(r) = 1..Len(c)
    BY Zenon, <2>6
  <2>11. /\ new \in [1..Len(r) -> T]
         /\ \A i, j \in 1..Len(r) : i < j => new[i] < new[j]
         /\ \A n \in T : \E i \in 1..Len(r) : new[i] = n
         /\ \A i \in 1..Len(r) : r[i] = log[new[i]].value
    BY Zenon, <2>5, <2>6, <2>8, <2>9, <2>10
  <2>12. Lists(r, T)
    BY Zenon, <2>11 DEF Lists
  <2>. QED
    BY Zenon, <2>12 DEF r, T, S
<1>. QED
  BY Zenon, <1>5, <1>6

-----------------------------------------------------------------------------
(* The theorems *)

\* The stores hold what was parsed, under names that were set.
THEOREM DnsTypes == Spec => []TypeOK
<1>1. DnsInv => TypeOK
  <2>. SUFFICES ASSUME DnsTypeOK PROVE TypeOK
    BY Zenon DEF DnsInv
  <2>1. ASSUME NEW k \in DOMAIN a_record_map.inner PROVE a_record_map.inner[k].value \in Value
    <3>1. a_record_map.inner[k] \in [expiry : Nat, value : Value]
      BY DEF DnsTypeOK, MapTypeOK
    <3>. QED
      BY <3>1
  <2>2. ASSUME NEW k \in DOMAIN txt_record_map.inner,
               NEW i \in DOMAIN txt_record_map.inner[k].value
        PROVE  txt_record_map.inner[k].value[i].value \in Value \cup BadValue
    <3>1. txt_record_map.inner[k] \in [expiry : Nat, value : Seq(Item)]
      BY DEF DnsTypeOK, MultiTypeOK, MapTypeOK
    <3>2. txt_record_map.inner[k].value \in Seq(Item)
      BY <3>1
    <3>3. txt_record_map.inner[k].value[i] \in Item
      BY <3>2
    <3>. QED
      BY <3>3 DEF Item, AnyValue
  <2>. QED
    BY Zenon, <2>1, <2>2 DEF TypeOK, DnsTypeOK, MultiTypeOK, MapTypeOK
<1>. QED
  BY <1>1, DnsInvHolds, PTL

\* A compaction of TtlMap misses no entry: each is in the queue with the expiry that
\* the map has for it, also after the clock was set back.
THEOREM NoEntryIsForgotten == Spec => []EntriesAreQueued
<1>1. DnsInv => EntriesAreQueued
  BY Zenon DEF DnsInv
<1>. QED
  BY <1>1, DnsInvHolds, PTL

\* While the clock goes forward, a lookup of kind A answers with the address set last
\* up to the end of its time to live, for any number of names, records and lookups.
THEOREM AddressesAreExact == Spec => []AddressIsExact
<1>1. DnsInv => AddressIsExact
  BY Zenon, AddressFound DEF DnsInv, ExactInv, AddressIsExact
<1>. QED
  BY <1>1, DnsInvHolds, PTL

\* While the clock goes forward, a lookup of kind TXT answers with exactly the values
\* set less than a time to live ago, in the order in which they were set.
THEOREM TextsAreExact == Spec => []TextIsExact
<1>1. DnsInv => TextIsExact
  BY Zenon, TextFound DEF DnsInv, ExactInv, TextIsExact
<1>. QED
  BY <1>1, DnsInvHolds, PTL
=============================================================================
