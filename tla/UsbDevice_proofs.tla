-------------------------- MODULE UsbDevice_proofs --------------------------
(***************************************************************************)
(* Proofs about UsbDevice, for any device with a valid configuration, any  *)
(* sizes of the tables and of the rings that it fits, and any number of    *)
(* reports.                                                                *)
(***************************************************************************)
EXTENDS UsbDevice, NaturalsInduction, WellFoundedInduction, FiniteSetTheorems,
        SequenceTheorems, TLAPS

-----------------------------------------------------------------------------
(* Requests on the ring, entries of the table and events.                  *)

Entry == [place : Places, request : Request]

Event == [type : {"control", "interrupt", "command"}, place : Places, ok : BOOLEAN]

\* An event that says that a control transfer is completed.
Completes(event) == event.type = "control" /\ event.ok

PostedIn(evs) == {k \in DOMAIN evs : Completes(evs[k])}

DueOn(ring) == {k \in DOMAIN ring : ring[k].ioc}

OneEntry(table, place) ==
  \E e \in DOMAIN table : \A f \in DOMAIN table : table[f].place = place <=> f = e

\* What a request that has been completed has done to the device.
Done(dev, request) ==
  /\ request = "SetConfiguration" => dev.configured
  /\ request = "SetProtocol" => dev.boot

\* Each completion to come has an entry, and no two have the same; the entry is of the
\* request that is completed. One that is posted has done what it is for, since of a
\* request without data the last stage completes it.
Matched(ring, table, evs, dev) ==
  /\ \A k \in PostedIn(evs) :
       /\ OneEntry(table, evs[k].place)
       /\ \A j \in PostedIn(evs) : evs[j].place = evs[k].place => j = k
       /\ \A j \in DueOn(ring) : ring[j].place # evs[k].place
       /\ \A e \in DOMAIN table : table[e].place = evs[k].place => Done(dev, table[e].request)
  /\ \A k \in DueOn(ring) :
       /\ OneEntry(table, ring[k].place)
       /\ \A j \in DueOn(ring) : ring[j].place = ring[k].place => j = k
       /\ \A e \in DOMAIN table :
            table[e].place = ring[k].place => table[e].request = ring[k].request
       /\ ring[k].request \in {"SetConfiguration", "SetProtocol"} => ring[k].stage = "status"

\* The tail of a sequence, place by place.
LEMMA TailFacts ==
  ASSUME NEW S, NEW s \in Seq(S), s # <<>>
  PROVE  /\ Tail(s) \in Seq(S) /\ Len(Tail(s)) = Len(s) - 1 /\ Head(s) = s[1]
         /\ Len(s) \in Nat \ {0} /\ 1 \in DOMAIN s
         /\ DOMAIN Tail(s) = 1..(Len(s) - 1) /\ DOMAIN s = 1..Len(s)
         /\ \A k \in DOMAIN Tail(s) : k + 1 \in DOMAIN s /\ Tail(s)[k] = s[k + 1]
         /\ \A k \in DOMAIN s : k # 1 => k - 1 \in DOMAIN Tail(s) /\ Tail(s)[k - 1] = s[k]
OBVIOUS

\* What a longer sequence has at each place.
LEMMA AppendFacts ==
  ASSUME NEW S, NEW s \in Seq(S), NEW x \in S
  PROVE  /\ Append(s, x) \in Seq(S) /\ Len(Append(s, x)) = Len(s) + 1
         /\ DOMAIN Append(s, x) = 1..(Len(s) + 1) /\ DOMAIN s = 1..Len(s) /\ Len(s) \in Nat
         /\ \A k \in DOMAIN s : k \in DOMAIN Append(s, x) /\ Append(s, x)[k] = s[k]
         /\ Len(s) + 1 \in DOMAIN Append(s, x) /\ Append(s, x)[Len(s) + 1] = x
         /\ \A k \in DOMAIN Append(s, x) : k \in DOMAIN s \/ k = Len(s) + 1
OBVIOUS

\* A sequence without one of its entries.
LEMMA RemoveAtFacts ==
  ASSUME NEW S, NEW s \in Seq(S), NEW k \in 1..Len(s)
  PROVE  /\ RemoveAt(s, k) \in Seq(S) /\ Len(RemoveAt(s, k)) = Len(s) - 1
         /\ DOMAIN RemoveAt(s, k) = 1..(Len(s) - 1)
         /\ \A i \in 1..(Len(s) - 1) : RemoveAt(s, k)[i] = IF i < k THEN s[i] ELSE s[i + 1]
<1>0. \A i \in 1..Len(s) : s[i] \in S
  OBVIOUS
<1>1. PICK front \in Seq(S) : front = SubSeq(s, 1, k - 1)
  <2>1. \A i \in 1..(k - 1) : s[i] \in S
    BY <1>0
  <2>2. SubSeq(s, 1, k - 1) \in Seq(S)
    BY <2>1, SubSeqProperties
  <2> QED
    BY <2>2
<1>2. PICK back \in Seq(S) : back = SubSeq(s, k + 1, Len(s))
  <2>1. \A i \in (k + 1)..Len(s) : s[i] \in S
    BY <1>0
  <2>2. SubSeq(s, k + 1, Len(s)) \in Seq(S)
    BY <2>1, SubSeqProperties
  <2> QED
    BY <2>2
<1>3. Len(front) = k - 1 /\ \A i \in 1..(k - 1) : front[i] = s[i]
  BY <1>1
<1>4. Len(back) = Len(s) - k /\ \A i \in 1..(Len(s) - k) : back[i] = s[k + i]
  BY <1>2
<1>5. RemoveAt(s, k) = front \o back
  BY <1>1, <1>2 DEF RemoveAt
<1>6. front \o back \in Seq(S) /\ Len(front \o back) = Len(s) - 1
  BY <1>3, <1>4
<1>7. ASSUME NEW i \in 1..(Len(s) - 1)
      PROVE  (front \o back)[i] = IF i < k THEN s[i] ELSE s[i + 1]
  <2>1. CASE i < k
    BY <1>3, <1>4, <1>7, <2>1
  <2>2. CASE ~(i < k)
    <3>1. i - (k - 1) \in 1..(Len(s) - k) /\ k + (i - (k - 1)) = i + 1
      BY <1>7, <2>2
    <3>2. (front \o back)[i] = back[i - (k - 1)]
      BY <1>3, <1>4, <1>6, <1>7, <2>2
    <3> QED
      BY <1>4, <2>2, <3>1, <3>2
  <2> QED
    BY <2>1, <2>2
<1> QED
  BY <1>5, <1>6, <1>7

\* A stage that is passed is not on the ring any more, and what the device has done
\* stays done.
LEMMA MatchedPass ==
  ASSUME NEW ring \in Seq(TRB), NEW table \in Seq(Entry), NEW evs \in Seq(Event), NEW dev, NEW dev2,
         Matched(ring, table, evs, dev), ring # <<>>,
         \A request \in Request : Done(dev, request) => Done(dev2, request)
  PROVE  Matched(Tail(ring), table, evs, dev2)
<1>1. \A k \in DueOn(Tail(ring)) :
        k \in Nat /\ k + 1 \in DueOn(ring) /\ Tail(ring)[k] = ring[k + 1]
  BY TailFacts DEF DueOn
<1>2. \A e \in DOMAIN table : table[e].request \in Request
  <2>1. \A e \in DOMAIN table : table[e] \in Entry
    OBVIOUS
  <2> QED
    BY <2>1 DEF Entry
<1>3. ASSUME NEW k \in PostedIn(evs)
      PROVE  /\ OneEntry(table, evs[k].place)
             /\ \A j \in PostedIn(evs) : evs[j].place = evs[k].place => j = k
             /\ \A j \in DueOn(Tail(ring)) : Tail(ring)[j].place # evs[k].place
             /\ \A e \in DOMAIN table :
                  table[e].place = evs[k].place => Done(dev2, table[e].request)
  <2>1. \A j \in DueOn(Tail(ring)) : Tail(ring)[j].place # evs[k].place
    <3>1. \A j \in DueOn(ring) : ring[j].place # evs[k].place
      BY DEF Matched
    <3> SUFFICES ASSUME NEW j \in DueOn(Tail(ring)) PROVE Tail(ring)[j].place # evs[k].place
      OBVIOUS
    <3>2. PICK i \in DueOn(ring) : Tail(ring)[j] = ring[i]
      BY <1>1
    <3> QED
      BY <3>1, <3>2
  <2>2. \A e \in DOMAIN table :
          table[e].place = evs[k].place => Done(dev2, table[e].request)
    BY <1>2 DEF Matched
  <2> QED
    BY <2>1, <2>2 DEF Matched
<1>4. ASSUME NEW k \in DueOn(Tail(ring))
      PROVE  /\ OneEntry(table, Tail(ring)[k].place)
             /\ \A j \in DueOn(Tail(ring)) : Tail(ring)[j].place = Tail(ring)[k].place => j = k
             /\ \A e \in DOMAIN table :
                  table[e].place = Tail(ring)[k].place => table[e].request = Tail(ring)[k].request
             /\ Tail(ring)[k].request \in {"SetConfiguration", "SetProtocol"} =>
                  Tail(ring)[k].stage = "status"
  <2>1. k + 1 \in DueOn(ring) /\ Tail(ring)[k] = ring[k + 1] /\ k \in Nat
    BY <1>1
  <2>2. ASSUME NEW j \in DueOn(Tail(ring)), Tail(ring)[j].place = Tail(ring)[k].place PROVE j = k
    <3>1. j + 1 = k + 1
      BY <1>1, <2>1, <2>2 DEF Matched
    <3> QED
      BY <1>1, <2>1, <3>1
  <2>3. PICK i \in DueOn(ring) : Tail(ring)[k] = ring[i]
    BY <2>1
  <2>4. /\ OneEntry(table, ring[i].place)
        /\ \A e \in DOMAIN table :
             table[e].place = ring[i].place => table[e].request = ring[i].request
        /\ ring[i].request \in {"SetConfiguration", "SetProtocol"} => ring[i].stage = "status"
    BY DEF Matched
  <2> QED
    BY <2>2, <2>3, <2>4
<1> QED
  BY <1>3, <1>4 DEF Matched

\* The stage that completes a request moves from the ring to an event.
LEMMA MatchedComplete ==
  ASSUME NEW ring \in Seq(TRB), NEW table \in Seq(Entry), NEW evs \in Seq(Event), NEW dev, NEW dev2,
         NEW event \in Event,
         Matched(ring, table, evs, dev), ring # <<>>, Head(ring).ioc,
         Completes(event), event.place = Head(ring).place,
         \A request \in Request : Done(dev, request) => Done(dev2, request),
         Head(ring).stage = "status" => Done(dev2, Head(ring).request)
  PROVE  Matched(Tail(ring), table, Append(evs, event), dev2)
<1>1. PICK evs2 \in Seq(Event) : evs2 = Append(evs, event)
  BY AppendFacts
<1>2. PICK rest \in Seq(TRB) : rest = Tail(ring)
  BY TailFacts
<1>3. Matched(rest, table, evs, dev2)
  BY <1>2, MatchedPass
<1>4. 1 \in DueOn(ring) /\ Head(ring) = ring[1]
  BY TailFacts DEF DueOn
<1>5. \A j \in DueOn(rest) : rest[j].place # event.place
  <2>1. \A j \in DueOn(rest) : j \in Nat \ {0} /\ j + 1 \in DueOn(ring) /\ rest[j] = ring[j + 1]
    BY <1>2, TailFacts DEF DueOn
  <2>2. \A j \in DueOn(ring) : ring[j].place = event.place => j = 1
    BY <1>4 DEF Matched
  <2> SUFFICES ASSUME NEW j \in DueOn(rest), rest[j].place = event.place PROVE FALSE
    OBVIOUS
  <2>3. j + 1 = 1
    BY <2>1, <2>2
  <2> QED
    BY <2>1, <2>3
<1>6. \A k \in PostedIn(evs2) : \/ k \in PostedIn(evs) /\ evs2[k] = evs[k]
                                \/ k = Len(evs) + 1 /\ evs2[k] = event
  BY <1>1, AppendFacts DEF PostedIn
<1>7. \A k \in PostedIn(evs) : evs[k].place # event.place
  BY <1>4 DEF Matched
<1>8. OneEntry(table, event.place)
  BY <1>4 DEF Matched
<1>9. ASSUME NEW e \in DOMAIN table, table[e].place = event.place PROVE Done(dev2, table[e].request)
  <2>1. table[e].request = ring[1].request
    BY <1>4, <1>9 DEF Matched
  <2>2. ring[1].request \in {"SetConfiguration", "SetProtocol"} => ring[1].stage = "status"
    BY <1>4 DEF Matched
  <2> QED
    BY <1>4, <2>1, <2>2 DEF Done
<1>10. ASSUME NEW k \in PostedIn(evs2)
      PROVE  /\ OneEntry(table, evs2[k].place)
             /\ \A j \in PostedIn(evs2) : evs2[j].place = evs2[k].place => j = k
             /\ \A j \in DueOn(rest) : rest[j].place # evs2[k].place
             /\ \A e \in DOMAIN table :
                  table[e].place = evs2[k].place => Done(dev2, table[e].request)
  <2>1. CASE k \in PostedIn(evs) /\ evs2[k] = evs[k]
    BY <1>3, <1>6, <1>7, <2>1 DEF Matched
  <2>2. CASE k = Len(evs) + 1 /\ evs2[k] = event
    BY <1>5, <1>6, <1>7, <1>8, <1>9, <2>2
  <2> QED
    BY <1>6, <2>1, <2>2
<1>11. Matched(rest, table, evs2, dev2)
  BY <1>3, <1>10 DEF Matched
<1> QED
  BY <1>1, <1>2, <1>11

\* An event that completes no control transfer does not matter.
LEMMA MatchedPost ==
  ASSUME NEW ring \in Seq(TRB), NEW table \in Seq(Entry), NEW evs \in Seq(Event), NEW dev,
         NEW event \in Event, Matched(ring, table, evs, dev), ~Completes(event)
  PROVE  Matched(ring, table, Append(evs, event), dev)
<1>1. PICK evs2 \in Seq(Event) : evs2 = Append(evs, event)
  BY AppendFacts
<1>2. \A k \in PostedIn(evs2) : k \in PostedIn(evs) /\ evs2[k] = evs[k]
  BY <1>1, AppendFacts DEF PostedIn
<1>3. Matched(ring, table, evs2, dev)
  BY <1>2 DEF Matched
<1> QED
  BY <1>1, <1>3

\* An event that is taken off leaves those behind it matched.
LEMMA MatchedDrop ==
  ASSUME NEW ring \in Seq(TRB), NEW table \in Seq(Entry), NEW evs \in Seq(Event), NEW dev,
         Matched(ring, table, evs, dev), evs # <<>>
  PROVE  Matched(ring, table, Tail(evs), dev)
<1>1. PICK evs2 \in Seq(Event) : evs2 = Tail(evs)
  BY TailFacts
<1>2. \A k \in PostedIn(evs2) : k \in Nat /\ k + 1 \in PostedIn(evs) /\ evs2[k] = evs[k + 1]
  BY <1>1, TailFacts DEF PostedIn
<1>3. ASSUME NEW k \in PostedIn(evs2)
      PROVE  /\ OneEntry(table, evs2[k].place)
             /\ \A j \in PostedIn(evs2) : evs2[j].place = evs2[k].place => j = k
             /\ \A j \in DueOn(ring) : ring[j].place # evs2[k].place
             /\ \A e \in DOMAIN table :
                  table[e].place = evs2[k].place => Done(dev, table[e].request)
  <2>1. k + 1 \in PostedIn(evs) /\ evs2[k] = evs[k + 1] /\ k \in Nat
    BY <1>2
  <2>2. ASSUME NEW j \in PostedIn(evs2), evs2[j].place = evs2[k].place PROVE j = k
    <3>1. j + 1 = k + 1
      BY <1>2, <2>1, <2>2 DEF Matched
    <3> QED
      BY <1>2, <2>1, <3>1
  <2> QED
    BY <2>1, <2>2 DEF Matched
<1> QED
  BY <1>1, <1>3 DEF Matched

\* When the event at the front is answered, its entry goes with it, and is not the one
\* of another.
LEMMA MatchedAnswer ==
  ASSUME NEW ring \in Seq(TRB), NEW table \in Seq(Entry), NEW evs \in Seq(Event), NEW dev,
         NEW k \in 1..Len(table),
         Matched(ring, table, evs, dev), evs # <<>>, Completes(Head(evs)),
         table[k].place = Head(evs).place
  PROVE  Matched(ring, RemoveAt(table, k), Tail(evs), dev)
<1>1. PICK evs2 \in Seq(Event) : evs2 = Tail(evs)
  BY TailFacts
<1>2. PICK table2 \in Seq(Entry) : table2 = RemoveAt(table, k)
  BY RemoveAtFacts
<1>3. 1 \in PostedIn(evs) /\ Head(evs) = evs[1]
  BY TailFacts DEF PostedIn
<1>4. Matched(ring, table, evs2, dev)
  BY <1>1, MatchedDrop
<1>5. \A i \in PostedIn(evs2) : evs2[i].place # table[k].place
  <2>1. \A i \in PostedIn(evs2) :
          i \in Nat \ {0} /\ i + 1 \in PostedIn(evs) /\ evs2[i] = evs[i + 1]
    BY <1>1, TailFacts DEF PostedIn
  <2>2. \A i \in PostedIn(evs) : evs[i].place = table[k].place => i = 1
    BY <1>3 DEF Matched
  <2> SUFFICES ASSUME NEW i \in PostedIn(evs2), evs2[i].place = table[k].place PROVE FALSE
    OBVIOUS
  <2>3. i + 1 = 1
    BY <2>1, <2>2
  <2> QED
    BY <2>1, <2>3
<1>6. \A i \in DueOn(ring) : ring[i].place # table[k].place
  BY <1>3 DEF Matched
<1>7. /\ Len(table) \in Nat /\ DOMAIN table = 1..Len(table) /\ k \in 1..Len(table)
      /\ DOMAIN table2 = 1..(Len(table) - 1)
      /\ \A i \in 1..(Len(table) - 1) : table2[i] = IF i < k THEN table[i] ELSE table[i + 1]
  <2>1. Len(table) \in Nat /\ DOMAIN table = 1..Len(table)
    OBVIOUS
  <2> QED
    BY <1>2, <2>1, RemoveAtFacts
<1>8. ASSUME NEW place, place # table[k].place, OneEntry(table, place)
      PROVE  OneEntry(table2, place)
  <2>1. PICK e \in DOMAIN table : \A f \in DOMAIN table : table[f].place = place <=> f = e
    BY <1>8 DEF OneEntry
  <2>2. e # k /\ e \in 1..Len(table) /\ e \in Int /\ k \in Int
    BY <1>7, <1>8, <2>1
  <2>3. PICK e2 : e2 = IF e < k THEN e ELSE e - 1
    OBVIOUS
  <2>4. e2 \in 1..(Len(table) - 1)
    BY <1>7, <2>2, <2>3
  <2>5. ASSUME NEW f \in DOMAIN table2 PROVE table2[f].place = place <=> f = e2
    <3>1. f \in 1..(Len(table) - 1)
      BY <1>7
    <3>2. PICK g : g = IF f < k THEN f ELSE f + 1
      OBVIOUS
    <3>3. table2[f] = table[g] /\ g \in DOMAIN table
      BY <1>7, <3>1, <3>2
    <3>4. f \in Int
      BY <1>7, <3>1
    <3>5. g = e <=> f = e2
      BY <2>2, <2>3, <3>2, <3>4
    <3> QED
      BY <2>1, <3>3, <3>5
  <2>6. e2 \in DOMAIN table2
    BY <1>7, <2>4
  <2> QED
    BY <2>5, <2>6 DEF OneEntry
<1>9. \A i \in DOMAIN table2 : \E e \in DOMAIN table : table2[i] = table[e]
  <2> SUFFICES ASSUME NEW i \in DOMAIN table2 PROVE \E e \in DOMAIN table : table2[i] = table[e]
    OBVIOUS
  <2>1. PICK e : e = IF i < k THEN i ELSE i + 1
    OBVIOUS
  <2>2. e \in DOMAIN table /\ table2[i] = table[e]
    BY <1>7, <2>1
  <2> QED
    BY <2>2
<1>10. ASSUME NEW i \in PostedIn(evs2)
       PROVE  /\ OneEntry(table2, evs2[i].place)
              /\ \A e \in DOMAIN table2 :
                   table2[e].place = evs2[i].place => Done(dev, table2[e].request)
  <2>1. /\ OneEntry(table, evs2[i].place)
        /\ \A e \in DOMAIN table : table[e].place = evs2[i].place => Done(dev, table[e].request)
    BY <1>4 DEF Matched
  <2>2. OneEntry(table2, evs2[i].place)
    BY <1>5, <1>8, <2>1
  <2> QED
    BY <1>9, <2>1, <2>2
<1>11. ASSUME NEW i \in DueOn(ring)
       PROVE  /\ OneEntry(table2, ring[i].place)
              /\ \A e \in DOMAIN table2 :
                   table2[e].place = ring[i].place => table2[e].request = ring[i].request
  <2>1. /\ OneEntry(table, ring[i].place)
        /\ \A e \in DOMAIN table :
             table[e].place = ring[i].place => table[e].request = ring[i].request
    BY <1>4 DEF Matched
  <2>2. OneEntry(table2, ring[i].place)
    BY <1>6, <1>8, <2>1
  <2> QED
    BY <1>9, <2>1, <2>2
<1>12. Matched(ring, table2, evs2, dev)
  BY <1>4, <1>10, <1>11 DEF Matched
<1> QED
  BY <1>1, <1>2, <1>12

-----------------------------------------------------------------------------
(* Requests and their places on the ring.                                  *)

\* A place that far away is found with at most one turn of the ring.
LEMMA PlaceIs ==
  ASSUME NEW w \in Places, NEW n \in 0..RingSize
  PROVE  Place(w, n) = IF w + n < RingSize - 1 THEN w + n
                       ELSE IF w + n < 2 * (RingSize - 1) THEN w + n - (RingSize - 1)
                       ELSE w + n - 2 * (RingSize - 1)
<1>1. RingSize \in Nat /\ RingSize >= 6
  BY TablesAssumption
<1>2. \A m \in Nat \ {0} : \A r \in 0..(m - 1) : r % m = r /\ (r + m) % m = r
  BY Z3
<1>3. \A m \in Nat \ {0} : \A r \in 0..(m - 1) : (r + 2 * m) % m = r
  BY Z3
<1> QED
  BY <1>1, <1>2, <1>3 DEF Place, Places

\* No place is outside of the ring.
LEMMA PlacesAreKept ==
  ASSUME NEW w \in Places, NEW n \in 0..RingSize
  PROVE  Place(w, n) \in Places
<1>1. RingSize \in Nat /\ RingSize >= 6
  BY TablesAssumption
<1> QED
  BY <1>1, PlaceIs DEF Places

ControlType ==
  [ring : Seq(TRB), write_index : Places, setup_stage_map : Seq(Entry), event_waiters : Seq(Request)]

DeviceType ==
  [configured : BOOLEAN, boot : BOOLEAN, endpoints : BOOLEAN,
   halted : SUBSET {"control", "interrupt"}, plugged : BOOLEAN]

\* A table that is not full has the entry that is put into it, and the others.
LEMMA PutFacts ==
  ASSUME NEW S, NEW table \in Seq(S), NEW entry \in S, NEW size \in Nat
  PROVE  /\ Put(table, entry, size) \in Seq(S)
         /\ Len(table) <= size => Len(Put(table, entry, size)) <= size
         /\ Len(table) < size => Put(table, entry, size) = Append(table, entry)
BY DEF Put

\* One sequence behind another.
LEMMA ConcatFacts ==
  ASSUME NEW S, NEW a \in Seq(S), NEW b \in Seq(S)
  PROVE  /\ a \o b \in Seq(S) /\ Len(a \o b) = Len(a) + Len(b)
         /\ \A k \in 1..Len(a) : (a \o b)[k] = a[k]
         /\ \A k \in 1..Len(b) : (a \o b)[Len(a) + k] = b[k]
OBVIOUS

\* What a request of n stages leaves of the control endpoint c.
Requested(c, request, n, t) ==
  /\ Len(t.ring) = Len(c.ring) + n
  /\ \A k \in 1..Len(c.ring) : t.ring[k] = c.ring[k]
  /\ \A k \in 1..n : /\ t.ring[Len(c.ring) + k].place = Place(c.write_index, k - 1)
                     /\ t.ring[Len(c.ring) + k].request = request
  /\ DueOn(t.ring) = DueOn(c.ring) \union {Len(c.ring) + 2}
  /\ n = 2 => t.ring[Len(c.ring) + 2].stage = "status"
  /\ t.write_index = Place(c.write_index, n)
  /\ t.setup_stage_map =
       Put(c.setup_stage_map, [place |-> Place(c.write_index, 1), request |-> request], SetupEntries)

\* What ControlTransfer makes of the control endpoint c.
LEMMA TransferFacts ==
  ASSUME NEW c \in ControlType, NEW request \in Request, NEW data \in BOOLEAN,
         data => request \in GetDescriptor, NEW issuer \in BOOLEAN, NEW t, t = ControlTransfer(c, request, data, issuer),
         NEW size, size = IF data THEN 3 ELSE 2
  PROVE  /\ t \in ControlType /\ Requested(c, request, size, t)
         /\ t.event_waiters =
              IF issuer THEN Put(c.event_waiters, request, WaiterEntries) ELSE c.event_waiters
<1>0. PICK n : n = size
  OBVIOUS
<1>1. PICK stages : stages = IF data THEN <<"setup", "data", "status">> ELSE <<"setup", "status">>
  OBVIOUS
<1>2. n \in {2, 3} /\ DOMAIN stages = 1..n
  <2>1. CASE data
    BY <1>0, <1>1, <2>1
  <2>2. CASE ~data
    BY <1>0, <1>1, <2>2
  <2> QED
    BY <2>1, <2>2
<1>3. \A k \in 1..n : stages[k] \in {"setup", "data", "status"}
  <2>1. CASE data
    BY <1>0, <1>1, <2>1
  <2>2. CASE ~data
    BY <1>0, <1>1, <2>2
  <2> QED
    BY <2>1, <2>2
<1>4. RingSize \in Nat /\ RingSize >= 6 /\ SetupEntries \in Nat /\ WaiterEntries \in Nat
  BY TablesAssumption
<1>5. \A k \in 0..3 : Place(c.write_index, k) \in Places
  BY <1>4, PlacesAreKept DEF ControlType
<1>6. PICK trbs : trbs = [k \in 1..n |-> [place |-> Place(c.write_index, k - 1), stage |-> stages[k],
                                           request |-> request, ioc |-> k = 2]]
  OBVIOUS
<1>7. trbs \in Seq(TRB) /\ Len(trbs) = n
  <2>3. \A k \in 1..n : stages[k] = "data" => request \in GetDescriptor
    <3>1. CASE data
      BY <3>1
    <3>2. CASE ~data
      BY <1>0, <1>1, <3>2
    <3> QED
      BY <3>1, <3>2
  <2>1. \A k \in 1..n : trbs[k] \in TRB
    BY <1>2, <1>3, <1>5, <1>6, <2>3 DEF TRB
  <2>2. trbs \in [1..n -> TRB]
    BY <1>6, <2>1
  <2> QED
    BY <1>2, <2>2
<1>8. t = [ring |-> c.ring \o trbs,
           write_index |-> Place(c.write_index, Len(trbs)),
           setup_stage_map |->
             Put(c.setup_stage_map, [place |-> trbs[2].place, request |-> request], SetupEntries),
           event_waiters |->
             IF issuer THEN Put(c.event_waiters, request, WaiterEntries) ELSE c.event_waiters]
  BY <1>1, <1>2, <1>6 DEF ControlTransfer
<1>9. c.ring \in Seq(TRB) /\ c.setup_stage_map \in Seq(Entry) /\ c.event_waiters \in Seq(Request)
  BY DEF ControlType
<1>10. PICK ring : ring = c.ring \o trbs
  OBVIOUS
<1>21. /\ ring \in Seq(TRB) /\ Len(ring) = Len(c.ring) + n
       /\ \A k \in 1..Len(c.ring) : ring[k] = c.ring[k]
       /\ \A k \in 1..n : ring[Len(c.ring) + k] = trbs[k]
  <2>1. PICK a \in Seq(TRB) : a = c.ring
    BY <1>9
  <2>2. /\ a \o trbs \in Seq(TRB) /\ Len(a \o trbs) = Len(a) + Len(trbs)
        /\ \A k \in 1..Len(a) : (a \o trbs)[k] = a[k]
        /\ \A k \in 1..Len(trbs) : (a \o trbs)[Len(a) + k] = trbs[k]
    <3>1. PICK b \in Seq(TRB) : b = trbs
      BY <1>7
    <3>2. /\ a \o b \in Seq(TRB) /\ Len(a \o b) = Len(a) + Len(b)
          /\ \A k \in 1..Len(a) : (a \o b)[k] = a[k]
          /\ \A k \in 1..Len(b) : (a \o b)[Len(a) + k] = b[k]
      BY ConcatFacts
    <3> QED
      BY <3>1, <3>2
  <2> QED
    BY <1>7, <1>10, <2>1, <2>2
<1>11. trbs[2].place = Place(c.write_index, 1)
  BY <1>2, <1>6
<1>12. PICK table : table = Put(c.setup_stage_map, [place |-> Place(c.write_index, 1), request |-> request], SetupEntries)
  OBVIOUS
<1>13. PICK waiters : waiters = IF issuer THEN Put(c.event_waiters, request, WaiterEntries) ELSE c.event_waiters
  OBVIOUS
<1>14. table \in Seq(Entry) /\ waiters \in Seq(Request)
  <2>1. [place |-> Place(c.write_index, 1), request |-> request] \in Entry
    BY <1>5 DEF Entry
  <2> QED
    BY <1>4, <1>9, <1>12, <1>13, <2>1, PutFacts
<1>15. t = [ring |-> ring, write_index |-> Place(c.write_index, n), setup_stage_map |-> table, event_waiters |-> waiters]
  BY <1>7, <1>8, <1>10, <1>11, <1>12, <1>13
<1>16. Place(c.write_index, n) \in Places
  BY <1>2, <1>5
<1>17. t \in ControlType
  BY <1>14, <1>15, <1>16, <1>21 DEF ControlType
<1>18. \A k \in 1..n : ring[Len(c.ring) + k].place = Place(c.write_index, k - 1)
                      /\ ring[Len(c.ring) + k].request = request
  BY <1>6, <1>21
<1>22. \A k \in 1..n : trbs[k].ioc <=> k = 2
  <2> SUFFICES ASSUME NEW k \in 1..n PROVE trbs[k].ioc <=> k = 2
    OBVIOUS
  <2>1. PICK second \in BOOLEAN : second <=> k = 2
    OBVIOUS
  <2>2. trbs[k] = [place |-> Place(c.write_index, k - 1), stage |-> stages[k],
                   request |-> request, ioc |-> second]
    BY <1>6, <2>1
  <2>3. trbs[k].ioc = second
    BY <2>2
  <2> QED
    BY <2>1, <2>3
<1>23. DueOn(ring) = DueOn(c.ring) \union {Len(c.ring) + 2}
  <2>1. /\ DOMAIN ring = 1..(Len(c.ring) + n) /\ DOMAIN c.ring = 1..Len(c.ring)
        /\ Len(c.ring) \in Nat
    BY <1>9, <1>21
  <2>2. ASSUME NEW k \in DOMAIN ring
        PROVE  k \in DueOn(ring) <=> k \in DueOn(c.ring) \/ k = Len(c.ring) + 2
    <3>1. CASE k \in 1..Len(c.ring)
      BY <1>21, <2>1, <3>1 DEF DueOn
    <3>2. CASE k \notin 1..Len(c.ring)
      <4>1. PICK j \in 1..n : k = Len(c.ring) + j
        <5>1. k - Len(c.ring) \in 1..n /\ k = Len(c.ring) + (k - Len(c.ring))
          BY <1>2, <2>1, <2>2, <3>2
        <5> QED
          BY <5>1
      <4>2. k \in DueOn(ring) <=> j = 2
        BY <1>21, <1>22, <2>2, <4>1 DEF DueOn
      <4>3. k \notin DueOn(c.ring)
        BY <2>1, <3>2 DEF DueOn
      <4>4. j = 2 <=> k = Len(c.ring) + 2
        BY <1>2, <2>1, <4>1
      <4> QED
        BY <4>2, <4>3, <4>4
    <3> QED
      BY <3>1, <3>2
  <2>3. DueOn(c.ring) \union {Len(c.ring) + 2} \subseteq DOMAIN ring
    BY <1>2, <2>1 DEF DueOn
  <2>4. DueOn(ring) \subseteq DOMAIN ring
    BY DEF DueOn
  <2> QED
    BY <2>2, <2>3, <2>4
<1>19. n = 2 => ring[Len(c.ring) + 2].stage = "status"
  <2> SUFFICES ASSUME n = 2 PROVE ring[Len(c.ring) + 2].stage = "status"
    OBVIOUS
  <2>1. stages[2] = "status" /\ n = 2
    BY <1>0, <1>1
  <2>2. ring[Len(c.ring) + 2] = trbs[2]
    BY <1>21, <2>1
  <2>3. trbs[2].stage = "status"
    BY <1>6, <2>1
  <2> QED
    BY <2>2, <2>3
<1>20. /\ t.ring = ring /\ t.write_index = Place(c.write_index, n)
       /\ t.setup_stage_map = table /\ t.event_waiters = waiters
  BY <1>15
<1> QED
  BY <1>0, <1>12, <1>13, <1>17, <1>18, <1>19, <1>20, <1>21, <1>23 DEF Requested

\* A request with a data stage.
LEMMA DataRequested ==
  ASSUME NEW c \in ControlType, NEW request \in Request, request \in GetDescriptor,
         NEW t, t = ControlTransfer(c, request, TRUE, FALSE)
  PROVE  t \in ControlType /\ Requested(c, request, 3, t) /\ t.event_waiters = c.event_waiters
BY TransferFacts

\* A request without.
LEMMA NoDataRequested ==
  ASSUME NEW c \in ControlType, NEW request \in Request,
         NEW t, t = ControlTransfer(c, request, FALSE, FALSE)
  PROVE  t \in ControlType /\ Requested(c, request, 2, t) /\ t.event_waiters = c.event_waiters
BY TransferFacts

\* The only request under way.
LEMMA MatchedFirst ==
  ASSUME NEW c \in ControlType, NEW evs \in Seq(Event), NEW dev \in DeviceType,
         NEW request \in Request, NEW n \in {2, 3}, request \in GetDescriptor \/ n = 2,
         c.setup_stage_map = <<>>, DueOn(c.ring) = {}, PostedIn(evs) = {},
         NEW t \in ControlType, Requested(c, request, n, t)
  PROVE  /\ Matched(t.ring, t.setup_stage_map, evs, dev)
         /\ Len(t.setup_stage_map) = 1 /\ t.setup_stage_map[1].request = request
<1>2. Requested(c, request, n, t)
  OBVIOUS
<1>3. Place(c.write_index, 1) \in Places
  <2>1. c.write_index \in Places /\ 1 \in 0..RingSize
    BY TablesAssumption DEF ControlType
  <2> QED
    BY <2>1, PlacesAreKept
<1>4. PICK entry \in Entry : entry = [place |-> Place(c.write_index, 1), request |-> request]
  BY <1>3 DEF Entry
<1>5. t.setup_stage_map = <<entry>>
  <2>1. Len(c.setup_stage_map) = 0 /\ SetupEntries > 0
    BY TablesAssumption
  <2>2. Put(c.setup_stage_map, entry, SetupEntries) = Append(c.setup_stage_map, entry)
    BY <2>1 DEF Put
  <2>3. t.setup_stage_map = Put(c.setup_stage_map, entry, SetupEntries)
    BY <1>2, <1>4 DEF Requested
  <2>4. Append(<<>>, entry) = <<entry>>
    OBVIOUS
  <2> QED
    BY <2>2, <2>3, <2>4
<1>6. DueOn(t.ring) = {Len(c.ring) + 2}
  BY <1>2 DEF Requested
<1>9. /\ t.ring[Len(c.ring) + 2].place = entry.place
      /\ t.ring[Len(c.ring) + 2].request = request
      /\ entry.request = request
  <2>1. 2 \in 1..n
    OBVIOUS
  <2>2. t.ring[Len(c.ring) + 2].place = Place(c.write_index, 2 - 1)
        /\ t.ring[Len(c.ring) + 2].request = request
    BY <1>2, <2>1 DEF Requested
  <2>3. entry.place = Place(c.write_index, 1) /\ entry.request = request
    BY <1>4
  <2>4. 2 - 1 = 1
    OBVIOUS
  <2> QED
    BY <2>2, <2>3, <2>4
<1>10. OneEntry(<<entry>>, entry.place)
  BY DEF OneEntry
<1>11. Matched(t.ring, <<entry>>, evs, dev)
  <2>1. request \in {"SetConfiguration", "SetProtocol"} => t.ring[Len(c.ring) + 2].stage = "status"
    BY <1>2 DEF Requested, GetDescriptor
  <2>2. \A e \in DOMAIN <<entry>> : <<entry>>[e] = entry
    OBVIOUS
  <2> QED
    BY <1>6, <1>9, <1>10, <2>1, <2>2 DEF Matched
<1>12. Len(<<entry>>) = 1 /\ <<entry>>[1] = entry
  OBVIOUS
<1> QED
  BY <1>5, <1>6, <1>9, <1>11, <1>12

-----------------------------------------------------------------------------
(* The requests of OnEndpointsConfigured.                                  *)

\* The control endpoint after n requests, of which the first one was put at w.
Asked(c, n, w) ==
  /\ c \in ControlType
  /\ Len(c.ring) = 2 * n /\ Len(c.setup_stage_map) = n
  /\ c.write_index = Place(w, 2 * n)
  /\ \A k \in 1..(2 * n) : c.ring[k].place = Place(w, k - 1) /\ c.ring[k].request = "SetProtocol"
  /\ \A k \in DueOn(c.ring) : c.ring[k].stage = "status" /\ \E i \in 1..n : k = 2 * i
  /\ \A i \in 1..n : c.setup_stage_map[i] = [place |-> Place(w, 2 * i - 1), request |-> "SetProtocol"]
  /\ ToSet(c.event_waiters) \subseteq {"SetProtocol"}
  /\ Len(c.event_waiters) <= WaiterEntries
  /\ n > 0 => "SetProtocol" \in ToSet(c.event_waiters)

\* Going on from a place on the ring.
LEMMA PlaceOfPlace ==
  ASSUME NEW w \in Places, NEW m \in Nat, NEW n \in Nat, m + n <= RingSize
  PROVE  Place(Place(w, m), n) = Place(w, m + n)
<1>1. RingSize \in Nat /\ RingSize >= 6 /\ m \in 0..RingSize /\ n \in 0..RingSize /\ m + n \in 0..RingSize
  BY TablesAssumption
<1>2. PICK there \in Places : there = Place(w, m)
  BY <1>1, PlacesAreKept
<1>3. Places = 0..(RingSize - 2)
  BY DEF Places
<1>4. Place(w, m) = IF w + m < RingSize - 1 THEN w + m
                    ELSE IF w + m < 2 * (RingSize - 1) THEN w + m - (RingSize - 1)
                    ELSE w + m - 2 * (RingSize - 1)
  BY <1>1, PlaceIs
<1>5. Place(w, m + n) = IF w + (m + n) < RingSize - 1 THEN w + (m + n)
                        ELSE IF w + (m + n) < 2 * (RingSize - 1) THEN w + (m + n) - (RingSize - 1)
                        ELSE w + (m + n) - 2 * (RingSize - 1)
  BY <1>1, PlaceIs
<1>6. Place(there, n) = IF there + n < RingSize - 1 THEN there + n
                        ELSE IF there + n < 2 * (RingSize - 1) THEN there + n - (RingSize - 1)
                        ELSE there + n - 2 * (RingSize - 1)
  BY <1>1, PlaceIs
<1> QED
  BY <1>1, <1>2, <1>3, <1>4, <1>5, <1>6

\* Two places less than a turn apart are not the same.
LEMMA PlacesDiffer ==
  ASSUME NEW w \in Places, NEW m \in 0..(RingSize - 2), NEW n \in 0..(RingSize - 2),
         Place(w, m) = Place(w, n)
  PROVE  m = n
<1>1. RingSize \in Nat /\ RingSize >= 6 /\ m \in 0..RingSize /\ n \in 0..RingSize
  BY TablesAssumption
<1>2. Places = 0..(RingSize - 2)
  BY DEF Places
<1>3. \A k \in 0..(RingSize - 2) :
        \/ w + k < RingSize - 1 /\ Place(w, k) = w + k
        \/ w + k >= RingSize - 1 /\ Place(w, k) = w + k - (RingSize - 1)
  <2> SUFFICES ASSUME NEW k \in 0..(RingSize - 2)
               PROVE  \/ w + k < RingSize - 1 /\ Place(w, k) = w + k
                      \/ w + k >= RingSize - 1 /\ Place(w, k) = w + k - (RingSize - 1)
    OBVIOUS
  <2>1. k \in 0..RingSize /\ w + k < 2 * (RingSize - 1)
    BY <1>1, <1>2
  <2> QED
    BY <1>1, <1>2, <2>1, PlaceIs
<1>4. PICK p : p = Place(w, m)
  OBVIOUS
<1>5. \/ w + m < RingSize - 1 /\ p = w + m
      \/ w + m >= RingSize - 1 /\ p = w + m - (RingSize - 1)
  BY <1>3, <1>4
<1>6. \/ w + n < RingSize - 1 /\ p = w + n
      \/ w + n >= RingSize - 1 /\ p = w + n - (RingSize - 1)
  BY <1>3, <1>4
<1> QED
  BY ONLY <1>1, <1>2, <1>5, <1>6, w \in Places, m \in 0..(RingSize - 2), n \in 0..(RingSize - 2)

\* One request more of the class driver.
LEMMA AskedOnce ==
  ASSUME NEW c, NEW n \in Nat, NEW w \in Places, Asked(c, n, w),
         2 * (n + 1) <= RingSize - 2, n + 1 <= SetupEntries,
         NEW t, t = ControlTransfer(c, "SetProtocol", FALSE, TRUE)
  PROVE  Asked(t, n + 1, w)
<1>1. c \in ControlType
  BY DEF Asked
<1>2. /\ t \in ControlType
      /\ Len(t.ring) = Len(c.ring) + 2
      /\ \A k \in 1..Len(c.ring) : t.ring[k] = c.ring[k]
      /\ \A k \in 1..2 :
           /\ t.ring[Len(c.ring) + k].place = Place(c.write_index, k - 1)
           /\ t.ring[Len(c.ring) + k].request = "SetProtocol"
      /\ DueOn(t.ring) = DueOn(c.ring) \union {Len(c.ring) + 2}
      /\ t.ring[Len(c.ring) + 2].stage = "status"
      /\ t.write_index = Place(c.write_index, 2)
      /\ t.setup_stage_map =
           Put(c.setup_stage_map, [place |-> Place(c.write_index, 1), request |-> "SetProtocol"], SetupEntries)
      /\ t.event_waiters = Put(c.event_waiters, "SetProtocol", WaiterEntries)
  <2>1. "SetProtocol" \in Request
    BY DEF Request
  <2>2. /\ t \in ControlType /\ Requested(c, "SetProtocol", 2, t)
        /\ t.event_waiters = Put(c.event_waiters, "SetProtocol", WaiterEntries)
    BY <1>1, <2>1, TransferFacts
  <2> QED
    BY <2>2 DEF Requested
<1>3. RingSize \in Nat /\ RingSize >= 6 /\ SetupEntries \in Nat /\ WaiterEntries \in Nat \ {0}
  BY TablesAssumption
<1>4. /\ Len(c.ring) = 2 * n /\ Len(c.setup_stage_map) = n
      /\ c.write_index = Place(w, 2 * n)
  BY DEF Asked
<1>5. /\ Place(c.write_index, 0) = Place(w, 2 * n)
      /\ Place(c.write_index, 1) = Place(w, 2 * n + 1)
      /\ Place(c.write_index, 2) = Place(w, 2 * n + 2)
  <2>1. 2 * n \in Nat /\ 2 * n + 2 <= RingSize
    BY <1>3
  <2>2. \A i \in 0..2 : Place(Place(w, 2 * n), i) = Place(w, 2 * n + i)
    BY <1>3, <2>1, PlaceOfPlace
  <2>3. Place(Place(w, 2 * n), 0) = Place(w, 2 * n + 0)
    BY <2>2
  <2> QED
    BY <1>4, <2>2, <2>3
<1>16. \A i \in 0..1 : Place(c.write_index, i) = Place(w, 2 * n + i)
  BY <1>5
<1>6. PICK entry \in Entry : entry = [place |-> Place(w, 2 * (n + 1) - 1), request |-> "SetProtocol"]
  <2>1. 2 * (n + 1) - 1 \in 0..RingSize
    BY <1>3
  <2>2. Place(w, 2 * (n + 1) - 1) \in Places
    BY <2>1, PlacesAreKept
  <2> QED
    BY <2>2 DEF Entry, Request
<1>7. t.setup_stage_map = Append(c.setup_stage_map, entry) /\ c.setup_stage_map \in Seq(Entry)
  <2>1. c.setup_stage_map \in Seq(Entry)
    BY <1>1 DEF ControlType
  <2>2. 2 * (n + 1) - 1 = 2 * n + 1
    OBVIOUS
  <2>3. Len(c.setup_stage_map) < SetupEntries
    BY <1>3, <1>4
  <2> QED
    BY <1>2, <1>5, <1>6, <2>1, <2>2, <2>3 DEF Put
<1>8. /\ Len(t.setup_stage_map) = n + 1
      /\ \A i \in 1..(n + 1) :
           t.setup_stage_map[i] = [place |-> Place(w, 2 * i - 1), request |-> "SetProtocol"]
  <2>1. \A i \in 1..n : c.setup_stage_map[i] = [place |-> Place(w, 2 * i - 1), request |-> "SetProtocol"]
    BY DEF Asked
  <2>2. /\ Len(Append(c.setup_stage_map, entry)) = n + 1
        /\ \A i \in 1..n : Append(c.setup_stage_map, entry)[i] = c.setup_stage_map[i]
        /\ Append(c.setup_stage_map, entry)[n + 1] = entry
    BY <1>4, <1>7
  <2>3. \A i \in 1..(n + 1) : i \in 1..n \/ i = n + 1
    OBVIOUS
  <2> QED
    BY <1>6, <1>7, <2>1, <2>2, <2>3
<1>15. PICK m \in Nat : m = 2 * n
  OBVIOUS
<1>9. /\ Len(c.ring) = m /\ Len(t.ring) = m + 2 /\ 2 * (n + 1) = m + 2
      /\ \A k \in 1..m : t.ring[k] = c.ring[k]
      /\ \A k \in 1..2 : t.ring[m + k].place = Place(c.write_index, k - 1)
                         /\ t.ring[m + k].request = "SetProtocol"
  <2>1. Len(c.ring) = m
    BY <1>4, <1>15
  <2>2. 2 * (n + 1) = m + 2
    BY <1>15
  <2>3. /\ Len(t.ring) = Len(c.ring) + 2
        /\ \A k \in 1..Len(c.ring) : t.ring[k] = c.ring[k]
        /\ \A k \in 1..2 : t.ring[Len(c.ring) + k].place = Place(c.write_index, k - 1)
                           /\ t.ring[Len(c.ring) + k].request = "SetProtocol"
    BY <1>2
  <2> QED
    BY <2>1, <2>2, <2>3, Zenon
<1>10. ASSUME NEW k \in 1..(m + 2)
       PROVE  t.ring[k].place = Place(w, k - 1) /\ t.ring[k].request = "SetProtocol"
  <2>1. CASE k \in 1..m
    <3>1. c.ring[k].place = Place(w, k - 1) /\ c.ring[k].request = "SetProtocol"
      BY <1>15, <2>1 DEF Asked
    <3> QED
      BY <1>9, <2>1, <3>1
  <2>2. CASE k \notin 1..m
    <3>1. PICK j \in 1..2 : k = m + j
      <4>1. k - m \in 1..2 /\ k = m + (k - m)
        BY <2>2
      <4> QED
        BY <4>1
    <3>2. Place(c.write_index, j - 1) = Place(w, m + (j - 1))
      BY <1>5, <1>15, <1>16, <3>1
    <3>3. m + (j - 1) = k - 1
      BY <3>1
    <3> QED
      BY <1>9, <3>1, <3>2, <3>3
  <2> QED
    BY <2>1, <2>2
<1>11. ASSUME NEW k \in DueOn(t.ring)
       PROVE  t.ring[k].stage = "status" /\ \E i \in 1..(n + 1) : k = 2 * i
  <2>1. CASE k \in DueOn(c.ring)
    <3>1. k \in 1..Len(c.ring)
      BY <1>1, <2>1 DEF ControlType, DueOn
    <3>2. c.ring[k].stage = "status" /\ \E i \in 1..n : k = 2 * i
      BY <2>1 DEF Asked
    <3>3. t.ring[k].stage = "status"
      BY <1>2, <3>1, <3>2
    <3>4. PICK i \in 1..n : k = 2 * i
      BY <3>2
    <3>5. i \in 1..(n + 1)
      OBVIOUS
    <3> QED
      BY <3>3, <3>4, <3>5
  <2>2. CASE k = Len(c.ring) + 2
    <3>1. n + 1 \in 1..(n + 1) /\ k = 2 * (n + 1)
      BY <1>4, <2>2
    <3> QED
      BY <1>2, <2>2, <3>1
  <2>3. k \in DueOn(c.ring) \/ k = Len(c.ring) + 2
    BY <1>2
  <2> QED
    BY <2>1, <2>2, <2>3
<1>12. t.write_index = Place(w, 2 * (n + 1))
  <2>1. 2 * (n + 1) = 2 * n + 2
    OBVIOUS
  <2> QED
    BY <1>2, <1>5, <2>1
<1>13. Len(t.ring) = 2 * (n + 1)
  BY <1>9
<1>14. /\ ToSet(t.event_waiters) \subseteq {"SetProtocol"}
       /\ Len(t.event_waiters) <= WaiterEntries
       /\ "SetProtocol" \in ToSet(t.event_waiters)
  <2>1. /\ ToSet(c.event_waiters) \subseteq {"SetProtocol"}
        /\ Len(c.event_waiters) <= WaiterEntries
    BY DEF Asked
  <2>2. PICK waiters \in Seq(Request) : waiters = c.event_waiters
    BY <1>1 DEF ControlType
  <2>3. CASE Len(waiters) < WaiterEntries
    <3>1. t.event_waiters = Append(waiters, "SetProtocol")
      BY <1>2, <2>2, <2>3 DEF Put
    <3>2. PICK request \in Request : request = "SetProtocol"
      BY DEF Request
    <3>3. /\ Len(Append(waiters, request)) = Len(waiters) + 1
          /\ Len(waiters) + 1 \in DOMAIN Append(waiters, request)
          /\ Append(waiters, request)[Len(waiters) + 1] = request
          /\ \A k \in DOMAIN waiters : Append(waiters, request)[k] = waiters[k]
          /\ \A k \in DOMAIN Append(waiters, request) : k \in DOMAIN waiters \/ k = Len(waiters) + 1
      BY AppendFacts
    <3>4. PICK longer : longer = Append(waiters, "SetProtocol")
      OBVIOUS
    <3>5. /\ longer[Len(waiters) + 1] = "SetProtocol" /\ Len(waiters) + 1 \in DOMAIN longer
          /\ Len(longer) = Len(waiters) + 1
          /\ \A k \in DOMAIN longer : longer[k] = "SetProtocol"
      <4>1. \A k \in DOMAIN waiters : waiters[k] = "SetProtocol"
        BY <2>1, <2>2 DEF ToSet
      <4> QED
        BY <3>2, <3>3, <3>4, <4>1
    <3>6. Len(longer) <= WaiterEntries
      BY <1>3, <2>3, <3>5
    <3> QED
      BY <3>1, <3>4, <3>5, <3>6 DEF ToSet
  <2>4. CASE ~(Len(waiters) < WaiterEntries)
    <3>1. t.event_waiters = waiters
      BY <1>2, <2>2, <2>4 DEF Put
    <3>2. 1 \in DOMAIN waiters
      BY <1>3, <2>4
    <3>3. waiters[1] = "SetProtocol"
      BY <2>1, <2>2, <3>2 DEF ToSet
    <3> QED
      BY <2>1, <2>2, <3>1, <3>2, <3>3 DEF ToSet
  <2> QED
    BY <2>3, <2>4
<1> QED
  BY <1>2, <1>8, <1>9, <1>10, <1>11, <1>12, <1>13, <1>14 DEF Asked

\* However many requests there are, each one has its entry.
LEMMA MatchedAsked ==
  ASSUME NEW c, NEW n \in Nat, NEW w \in Places, Asked(c, n, w), 2 * n <= RingSize - 2,
         NEW evs \in Seq(Event), NEW dev, PostedIn(evs) = {}
  PROVE  Matched(c.ring, c.setup_stage_map, evs, dev)
<1>1. /\ DOMAIN c.ring = 1..(2 * n) /\ DOMAIN c.setup_stage_map = 1..n
      /\ RingSize \in Nat /\ DueOn(c.ring) \subseteq DOMAIN c.ring
  BY TablesAssumption DEF Asked, ControlType, DueOn
<1>2. /\ \A k \in 1..(2 * n) : c.ring[k].place = Place(w, k - 1) /\ c.ring[k].request = "SetProtocol"
      /\ \A i \in 1..n : /\ c.setup_stage_map[i].place = Place(w, 2 * i - 1)
                         /\ c.setup_stage_map[i].request = "SetProtocol"
  <2>1. \A i \in 1..n :
          c.setup_stage_map[i] = [place |-> Place(w, 2 * i - 1), request |-> "SetProtocol"]
    BY DEF Asked
  <2>2. \A k \in 1..(2 * n) : c.ring[k].place = Place(w, k - 1) /\ c.ring[k].request = "SetProtocol"
    BY DEF Asked
  <2>3. ASSUME NEW i \in 1..n
        PROVE  /\ c.setup_stage_map[i].place = Place(w, 2 * i - 1)
               /\ c.setup_stage_map[i].request = "SetProtocol"
    <3>1. PICK place : place = Place(w, 2 * i - 1)
      OBVIOUS
    <3>2. c.setup_stage_map[i] = [place |-> place, request |-> "SetProtocol"]
      BY <2>1, <3>1
    <3> QED
      BY <3>1, <3>2
  <2> QED
    BY <2>2, <2>3
<1>3. ASSUME NEW k \in 1..(2 * n), NEW j \in 1..(2 * n), Place(w, k - 1) = Place(w, j - 1)
      PROVE  k = j
  <2>1. k - 1 \in 0..(RingSize - 2) /\ j - 1 \in 0..(RingSize - 2)
    BY <1>1
  <2>2. k - 1 = j - 1
    BY <1>3, <2>1, PlacesDiffer
  <2> QED
    BY <2>2
<1>4. ASSUME NEW k \in DueOn(c.ring)
      PROVE  /\ OneEntry(c.setup_stage_map, c.ring[k].place)
             /\ \A j \in DueOn(c.ring) : c.ring[j].place = c.ring[k].place => j = k
             /\ \A e \in DOMAIN c.setup_stage_map : c.setup_stage_map[e].request = c.ring[k].request
             /\ c.ring[k].stage = "status"
  <2>1. k \in 1..(2 * n)
    BY <1>1
  <2>2. PICK i \in 1..n : k = 2 * i
    BY DEF Asked
  <2>3. ASSUME NEW f \in 1..n PROVE c.setup_stage_map[f].place = c.ring[k].place <=> f = i
    <3>1. 2 * f \in 1..(2 * n) /\ c.setup_stage_map[f].place = Place(w, 2 * f - 1)
      BY <1>2
    <3>2. c.ring[k].place = Place(w, k - 1)
      BY <1>2, <2>1
    <3>3. Place(w, 2 * f - 1) = Place(w, k - 1) => 2 * f = k
      BY <1>3, <2>1, <3>1
    <3> QED
      BY <2>2, <3>1, <3>2, <3>3
  <2>4. OneEntry(c.setup_stage_map, c.ring[k].place)
    <3>1. i \in DOMAIN c.setup_stage_map
      BY <1>1
    <3>2. \A f \in DOMAIN c.setup_stage_map : c.setup_stage_map[f].place = c.ring[k].place <=> f = i
      BY <1>1, <2>3
    <3> QED
      BY <3>1, <3>2 DEF OneEntry
  <2>5. \A j \in DueOn(c.ring) : c.ring[j].place = c.ring[k].place => j = k
    BY <1>1, <1>2, <1>3, <2>1
  <2>6. c.ring[k].stage = "status"
    BY DEF Asked
  <2> QED
    BY <1>1, <1>2, <2>1, <2>4, <2>5, <2>6
<1> QED
  BY <1>4 DEF Matched

Below == {pair \in Nat \X Nat : pair[1] < pair[2]}

\* The order of the natural numbers as a relation is well-founded.
LEMMA BelowIsWellFounded == IsWellFoundedOn(Below, Nat)
<1>1. Below = OpToRel(<, Nat)
  BY Zenon DEF Below, OpToRel
<1> QED
  BY <1>1, NatLessThanWellFounded

\* A set of numbers has a least one.
LEMMA LeastNumber ==
  ASSUME NEW S, S \subseteq Nat, S # {}
  PROVE  \E least \in S : \A n \in S : least <= n
<1>1. PICK least \in S : \A n \in S : ~(<<n, least>> \in Below)
  <2>1. S \in SUBSET Nat
    OBVIOUS
  <2> QED
    BY <2>1, BelowIsWellFounded, WFMin
<1>2. \A n \in S : ~(n < least)
  BY <1>1 DEF Below
<1> QED
  BY <1>2

\* Induction, with a set for the property: one that has 0 and with each number the next
\* one has them all.
LEMMA AllNumbers ==
  ASSUME NEW S, S \subseteq Nat, 0 \in S, \A n \in S : n + 1 \in S
  PROVE  S = Nat
<1> SUFFICES ASSUME Nat \ S # {} PROVE FALSE
  OBVIOUS
<1>1. PICK least \in Nat \ S : \A n \in Nat \ S : least <= n
  <2>1. Nat \ S \subseteq Nat
    OBVIOUS
  <2> QED
    BY <2>1, LeastNumber
<1>2. least - 1 \in Nat /\ least - 1 \notin Nat \ S /\ least = (least - 1) + 1
  BY <1>1
<1> QED
  BY <1>1, <1>2

\* The recursion in OnEndpointsConfigured defines a function.
LEMMA AskingIsDefined ==
  ASSUME NEW c, NEW N \in Nat
  PROVE  \E f : f = [n \in 0..N |-> IF n = 0 THEN c
                                    ELSE ControlTransfer(f[n - 1], "SetProtocol", FALSE, TRUE)]
<1> DEFINE IsAsking(f, n) ==
      f = [k \in 0..n |-> IF k = 0 THEN c ELSE ControlTransfer(f[k - 1], "SetProtocol", FALSE, TRUE)]
<1>1. PICK Defined : Defined = {n \in Nat : \E f : IsAsking(f, n)}
  OBVIOUS
<1>2. 0 \in Defined
  <2>1. PICK f : f = [k \in 0..0 |-> c]
    OBVIOUS
  <2>2. IsAsking(f, 0)
    <3>1. \A k \in 0..0 : k = 0
      OBVIOUS
    <3> QED
      BY <2>1, <3>1
  <2> QED
    BY <1>1, <2>2
<1>3. ASSUME NEW n \in Defined PROVE n + 1 \in Defined
  <2>1. PICK f : IsAsking(f, n)
    BY <1>1
  <2>2. PICK g : g = [k \in 0..(n + 1) |->
                       IF k <= n THEN f[k] ELSE ControlTransfer(f[n], "SetProtocol", FALSE, TRUE)]
    OBVIOUS
  <2>3. n \in Nat
    BY <1>1
  <2>4. ASSUME NEW k \in 0..(n + 1)
        PROVE  g[k] = IF k = 0 THEN c ELSE ControlTransfer(g[k - 1], "SetProtocol", FALSE, TRUE)
    <3>1. CASE k = 0
      BY <2>1, <2>2, <2>3, <3>1
    <3>2. CASE k \in 1..n
      <4>1. k - 1 \in 0..(n + 1) /\ k - 1 <= n /\ k \in 0..n /\ k # 0
        BY <2>3, <3>2
      <4>2. g[k - 1] = f[k - 1] /\ g[k] = f[k]
        BY <2>2, <4>1
      <4>3. f[k] = ControlTransfer(f[k - 1], "SetProtocol", FALSE, TRUE)
        BY <2>1, <4>1
      <4> QED
        BY <4>1, <4>2, <4>3
    <3>3. CASE k = n + 1
      <4>1. k - 1 = n /\ n \in 0..(n + 1) /\ n <= n /\ ~(k <= n) /\ k # 0
        BY <2>3, <3>3
      <4>2. g[n] = f[n] /\ g[k] = ControlTransfer(f[n], "SetProtocol", FALSE, TRUE)
        BY <2>2, <4>1
      <4> QED
        BY <4>1, <4>2
    <3>4. k = 0 \/ k \in 1..n \/ k = n + 1
      BY <2>3
    <3> QED
      BY <3>1, <3>2, <3>3, <3>4
  <2>5. IsAsking(g, n + 1)
    <3>1. PICK h : h = [k \in 0..(n + 1) |-> IF k = 0 THEN c
                         ELSE ControlTransfer(g[k - 1], "SetProtocol", FALSE, TRUE)]
      OBVIOUS
    <3>2. \A k \in 0..(n + 1) : g[k] = h[k]
      BY <2>4, <3>1
    <3>3. g = h
      BY <2>2, <3>1, <3>2
    <3> QED
      BY <3>1, <3>3
  <2> HIDE DEF IsAsking
  <2>6. n + 1 \in Nat /\ \E h : IsAsking(h, n + 1)
    BY <2>3, <2>5
  <2> QED
    BY <1>1, <2>3, <2>6
<1>4. N \in Defined
  <2>1. Defined \subseteq Nat
    BY <1>1
  <2> QED
    BY <1>2, <1>3, <2>1, AllNumbers
<1> QED
  BY <1>1, <1>4

\* As many requests as there are endpoint numbers with the driver.
LEMMA EndpointsAsked ==
  ASSUME OnEndpointsConfigured, NEW N \in Nat, N = Cardinality(class_drivers),
         NEW w \in Places, Asked(control, 0, w), 2 * N <= RingSize - 2, N <= SetupEntries
  PROVE  Asked(control', N, w)
<1>1. PICK f : /\ f = [n \in 0..N |-> IF n = 0 THEN control
                                      ELSE ControlTransfer(f[n - 1], "SetProtocol", FALSE, TRUE)]
               /\ control' = f[N]
  <2>1. \E f : f = [n \in 0..Cardinality(class_drivers) |-> IF n = 0 THEN control
                      ELSE ControlTransfer(f[n - 1], "SetProtocol", FALSE, TRUE)]
    <3>1. Cardinality(class_drivers) \in Nat
      OBVIOUS
    <3> QED
      BY <3>1, AskingIsDefined
  <2>2. PICK f : /\ f = [n \in 0..Cardinality(class_drivers) |-> IF n = 0 THEN control
                           ELSE ControlTransfer(f[n - 1], "SetProtocol", FALSE, TRUE)]
                 /\ control' = f[Cardinality(class_drivers)]
    BY <2>1 DEF OnEndpointsConfigured
  <2> QED
    BY <2>2
<1>2. PICK So : So = {n \in Nat : n <= N => Asked(f[n], n, w)}
  OBVIOUS
<1>3. 0 \in So
  <2>1. f[0] = control
    BY <1>1
  <2> QED
    BY <1>2, <2>1
<1>4. ASSUME NEW n \in So PROVE n + 1 \in So
  <2>1. n \in Nat /\ (n <= N => Asked(f[n], n, w))
    BY <1>2
  <2>2. CASE n + 1 <= N
    <3>1. n + 1 \in 0..N /\ n + 1 # 0 /\ (n + 1) - 1 = n /\ n <= N
      BY <2>1, <2>2
    <3>2. f[n + 1] = ControlTransfer(f[n], "SetProtocol", FALSE, TRUE)
      BY <1>1, <3>1
    <3>3. 2 * (n + 1) <= RingSize - 2 /\ n + 1 <= SetupEntries
      BY <2>1, <2>2, TablesAssumption
    <3>4. Asked(f[n + 1], n + 1, w)
      BY <2>1, <3>1, <3>2, <3>3, AskedOnce
    <3> QED
      BY <1>2, <2>1, <3>4
  <2>3. CASE ~(n + 1 <= N)
    BY <1>2, <2>1, <2>3
  <2> QED
    BY <2>2, <2>3
<1>5. N \in So
  <2>1. So \subseteq Nat
    BY <1>2
  <2> QED
    BY <1>3, <1>4, <2>1, AllNumbers
<1>6. N <= N
  OBVIOUS
<1> QED
  BY <1>1, <1>2, <1>5, <1>6

-----------------------------------------------------------------------------
(* The invariant.                                                          *)

\* Every completion to come has its entry; what is in the table of waiters is what the
\* class driver asked.
RequestsMatch ==
  /\ Matched(control.ring, control.setup_stage_map, events, device)
  /\ ToSet(control.event_waiters) \subseteq {"SetProtocol"}
  /\ \A e \in DOMAIN control.setup_stage_map :
       control.setup_stage_map[e].request = "SetProtocol" =>
         "SetProtocol" \in ToSet(control.event_waiters)
  /\ Len(control.ring) <= RingSize - 2

\* How many TRBs come behind the one that completes the request under way.
Behind(phase) == IF phase = 3 THEN 0 ELSE 1

\* During the initialization one request is under way, and of the one before at
\* most the status stage is left on the ring.
OneAtATime ==
  /\ Len(control.setup_stage_map) <= 1
  /\ Len(control.ring) <= 4
  /\ Posted # {} => Due = {}
  /\ \A j, k \in Posted : j = k
  /\ \A k \in DOMAIN control.ring : k \in Due <=> k = Len(control.ring) - Behind(initialize_phase)

\* Nothing is asked of the device.
Unasked == control.ring = <<>> /\ control.setup_stage_map = <<>> /\ Posted = {}

\* How far the device is, in the phases of the port and its own. With the device
\* initialized, the port is in the phase of the initialization still only if
\* ConfigureEndpoints has given up.
Stages ==
  /\ port_config_phase = "kAddressingDevice" =>
       /\ initialize_phase = 0
       /\ control.ring = <<>> /\ control.setup_stage_map = <<>> /\ events = <<>>
  /\ port_config_phase = "kInitializingDevice" /\ ~is_initialized =>
       initialize_phase \in 1..3 /\ OneAtATime
  /\ port_config_phase = "kInitializingDevice" /\ is_initialized => Unasked
  /\ port_config_phase = "kConfiguringEndpoints" => Unasked
  /\ port_config_phase \in {"kConfiguringEndpoints", "kConfigured"} => is_initialized
  /\ port_config_phase = "kAddressingDevice" => ~is_initialized

\* From SetConfiguration on there is a class driver, with endpoints that fit into
\* the tables; from the end of the initialization on it has its endpoint.
DriverFits ==
  /\ IsFiniteSet(class_drivers)
  /\ 2 * Cardinality(class_drivers) <= RingSize - 2
  /\ Cardinality(class_drivers) <= SetupEntries
  /\ initialize_phase >= 3 =>
       /\ hid.kind # "none"
       /\ \E e \in DOMAIN ep_configs : IsInterruptIn(ep_configs[e])
       /\ \A e \in DOMAIN ep_configs : ep_configs[e].ep_id.number \in class_drivers
  /\ is_initialized =>
       initialize_phase = 4 /\ hid.in.number \in class_drivers /\ device.configured

ReadingsIn(evs) == {k \in DOMAIN evs : evs[k].type = "interrupt"}

HasReport(evs) == \E k \in ReadingsIn(evs) : evs[k].ok

\* The driver reads one report at a time, from the first answer on; the buffer has
\* the report sent last, and the driver the one that it told of last.
Reading ==
  /\ hid.phase # 0 => port_config_phase = "kConfigured"
  /\ hid.phase # 2 => interrupt_ins = 0 /\ ReadingsIn(events) = {} /\ sent = <<>> /\ told = <<>>
  /\ hid.phase = 2 => device.boot
  /\ interrupt_ins \in 0..1
  /\ ReadingsIn(events) # {} => interrupt_ins = 0
  /\ \A j, k \in ReadingsIn(events) : j = k
  /\ Len(sent) = Len(told) + (IF HasReport(events) THEN 1 ELSE 0)
  /\ hid_buf = IF sent = <<>> THEN NoReport ELSE sent[Len(sent)]
  /\ hid.previous = IF told = <<>> THEN NoReport ELSE sent[Len(told)]

UsbInv ==
  TypeOK /\ RequestsMatch /\ Stages /\ DriverFits /\ Reading /\ ObserversToldRight

\* The type invariant in four parts.
FlowTypes ==
  /\ config \in Configurations
  /\ port_config_phase \in {"kAddressingDevice", "kInitializingDevice",
                            "kConfiguringEndpoints", "kConfigured"}
  /\ initialize_phase \in 0..4
  /\ is_initialized \in BOOLEAN
  /\ buf \in {"none"} \union GetDescriptor

HidType == [kind : {"none", "keyboard", "mouse"}, phase : 0..2, in : EndpointID, previous : Report]

DriverTypes ==
  /\ ep_configs \in Seq([ep_id : EndpointID, interrupt : BOOLEAN])
  /\ Len(ep_configs) <= EpConfigEntries
  /\ class_drivers \subseteq Nat \ {0}
  /\ transfer_rings \subseteq EndpointID
  /\ hid \in HidType

ControlTypes ==
  /\ control \in ControlType
  /\ Len(control.setup_stage_map) <= SetupEntries
  /\ Len(control.event_waiters) <= WaiterEntries

ReportTypes ==
  /\ hid_buf \in Report
  /\ interrupt_ins \in Nat
  /\ events \in Seq(Event)
  /\ device \in DeviceType
  /\ sent \in Seq(Report) /\ told \in Seq(Report)

\* The parts together are the type invariant, before a step and after it.
LEMMA TypeParts ==
  /\ TypeOK <=> FlowTypes /\ DriverTypes /\ ControlTypes /\ ReportTypes
  /\ TypeOK' <=> FlowTypes' /\ DriverTypes' /\ ControlTypes' /\ ReportTypes'
BY Zenon DEF TypeOK, FlowTypes, DriverTypes, ControlTypes, ReportTypes, HidType, DeviceType, ControlType,
             TRB, Entry, Event

\* The types that the lemmas about requests and events need.
LEMMA Types ==
  ASSUME TypeOK
  PROVE  /\ control \in ControlType /\ events \in Seq(Event)
         /\ control.ring \in Seq(TRB) /\ control.setup_stage_map \in Seq(Entry)
         /\ control.event_waiters \in Seq(Request) /\ control.write_index \in Places
         /\ Posted = PostedIn(events) /\ Due = DueOn(control.ring)
<1>1. control \in ControlType
  BY DEF TypeOK, ControlType, TRB, Entry
<1>2. events \in Seq(Event)
  BY DEF TypeOK, Event
<1>3. Posted = PostedIn(events) /\ Due = DueOn(control.ring)
  BY DEF Posted, Due, PostedIn, DueOn, Completes
<1> QED
  BY <1>1, <1>2, <1>3 DEF ControlType

\* What a handler finds at the front.
LEMMA HeadFacts ==
  ASSUME TypeOK, NEW type, Handling(type)
  PROVE  /\ events # <<>> /\ events' = Tail(events) /\ Tail(events) \in Seq(Event)
         /\ Head(events) = events[1] /\ Head(events) \in Event /\ 1 \in DOMAIN events
         /\ Head(events).type = type
         /\ UNCHANGED <<config, buf, hid_buf, device, sent>>
<1>1. events \in Seq(Event)
  BY Types
<1>2. events # <<>> /\ events' = Tail(events) /\ Head(events).type = type
      /\ UNCHANGED <<config, buf, hid_buf, device, sent>>
  BY DEF Handling
<1>3. Head(events) = events[1] /\ 1 \in DOMAIN events /\ Tail(events) \in Seq(Event)
  BY <1>1, <1>2, TailFacts
<1>4. events[1] \in Event
  BY <1>1, <1>3
<1> QED
  BY <1>2, <1>3, <1>4

\* Min picks the least number of a set of numbers.
LEMMA MinIsLeast ==
  ASSUME NEW S, S \subseteq Nat, S # {}
  PROVE  Min(S) \in S /\ \A n \in S : Min(S) <= n
BY LeastNumber DEF Min

\* Max picks the greatest number of a set of numbers up to a bound.
LEMMA MaxIsGreatest ==
  ASSUME NEW bound \in Nat, NEW S, S \subseteq 1..bound, S # {}
  PROVE  Max(S) \in S /\ \A n \in S : n <= Max(S)
<1> DEFINE Gaps == {bound - n : n \in S}
<1>1. Gaps \subseteq Nat /\ Gaps # {}
  <2>1. \A n \in S : bound - n \in Nat
    OBVIOUS
  <2>2. PICK n \in S : TRUE
    OBVIOUS
  <2>3. bound - n \in Gaps
    BY <2>2
  <2> QED
    BY <2>1, <2>3
<1>2. PICK gap \in Gaps : \A g \in Gaps : gap <= g
  BY <1>1, LeastNumber
<1>3. PICK greatest \in S : gap = bound - greatest
  BY <1>2
<1>4. \A n \in S : n <= greatest
  BY <1>2, <1>3
<1> QED
  BY <1>3, <1>4 DEF Max

\* The entry that EntryOf finds is one for the event's place.
LEMMA EntryIsFound ==
  ASSUME TypeOK, NEW event, \E e \in DOMAIN control.setup_stage_map :
           control.setup_stage_map[e].place = event.place
  PROVE  /\ EntryOf(event) \in 1..Len(control.setup_stage_map)
         /\ control.setup_stage_map[EntryOf(event)].place = event.place
<1>1. PICK table \in Seq(Entry) : table = control.setup_stage_map
  BY Types
<1>2. PICK places : places = {i \in 1..Len(table) : table[i].place = event.place}
  OBVIOUS
<1>3. EntryOf(event) = IF places # {} THEN Min(places) ELSE 0
  BY <1>1, <1>2 DEF EntryOf, SelectInSeq
<1>4. places # {} /\ places \subseteq Nat
  BY <1>1, <1>2
<1>5. Min(places) \in places
  BY <1>4, MinIsLeast
<1> QED
  BY <1>1, <1>2, <1>3, <1>4, <1>5

\* What the handler of a completed control transfer goes on with: the entry is there,
\* and its request has been done.
LEMMA ControlAnswered ==
  ASSUME UsbInv, OnControlEvent
  PROVE  \E k \in 1..Len(control.setup_stage_map), c \in ControlType, request \in Request :
           /\ control.setup_stage_map[k].place = Head(events).place
           /\ request = control.setup_stage_map[k].request /\ Done(device, request)
           /\ c.ring = control.ring /\ c.setup_stage_map = RemoveAt(control.setup_stage_map, k)
           /\ c.event_waiters = control.event_waiters /\ c.write_index = control.write_index
           /\ OnControlCompleted(request, c)
           /\ events # <<>> /\ Completes(Head(events)) /\ events' = Tail(events)
           /\ UNCHANGED <<config, buf, hid_buf, device, sent, told>>
<1>1. TypeOK /\ RequestsMatch
  BY DEF UsbInv
<1>2. /\ events # <<>> /\ events' = Tail(events) /\ Head(events) = events[1] /\ 1 \in DOMAIN events
      /\ Head(events).type = "control"
      /\ UNCHANGED <<config, buf, hid_buf, device, sent>>
  BY <1>1, HeadFacts DEF OnControlEvent
<1>3. Completes(Head(events)) /\ 1 \in PostedIn(events)
  BY <1>2 DEF OnControlEvent, Completes, PostedIn
<1>4. /\ OneEntry(control.setup_stage_map, events[1].place)
      /\ \A e \in DOMAIN control.setup_stage_map :
           control.setup_stage_map[e].place = events[1].place =>
             Done(device, control.setup_stage_map[e].request)
  BY <1>1, <1>3 DEF RequestsMatch, Matched
<1>5. PICK k \in 1..Len(control.setup_stage_map) :
        k = EntryOf(Head(events)) /\ control.setup_stage_map[k].place = Head(events).place
  <2>1. \E e \in DOMAIN control.setup_stage_map :
          control.setup_stage_map[e].place = Head(events).place
    BY <1>2, <1>4 DEF OneEntry
  <2> QED
    BY <1>1, <2>1, EntryIsFound
<1>6. /\ control \in ControlType /\ control.setup_stage_map \in Seq(Entry)
      /\ RemoveAt(control.setup_stage_map, k) \in Seq(Entry)
  <2>1. control \in ControlType /\ control.setup_stage_map \in Seq(Entry)
    BY <1>1, Types
  <2>2. RemoveAt(control.setup_stage_map, k) \in Seq(Entry)
    BY <2>1, RemoveAtFacts
  <2> QED
    BY <2>1, <2>2
<1>7. PICK c : c = [control EXCEPT !.setup_stage_map = RemoveAt(control.setup_stage_map, k)]
  OBVIOUS
<1>8. /\ c \in ControlType /\ c.ring = control.ring
      /\ c.setup_stage_map = RemoveAt(control.setup_stage_map, k)
      /\ c.event_waiters = control.event_waiters /\ c.write_index = control.write_index
  BY <1>6, <1>7 DEF ControlType
<1>9. PICK request \in Request : request = control.setup_stage_map[k].request
  <2>1. control.setup_stage_map[k] \in Entry
    BY <1>5, <1>6
  <2> QED
    BY <2>1 DEF Entry
<1>10. Done(device, request)
  <2>1. k \in DOMAIN control.setup_stage_map
    BY <1>6
  <2> QED
    BY <1>2, <1>4, <1>5, <1>9, <2>1
<1>11. k # 0
  OBVIOUS
<1>12. OnControlCompleted(request, c) /\ UNCHANGED told
  BY <1>5, <1>7, <1>9, <1>11 DEF OnControlEvent
<1> QED
  BY <1>2, <1>3, <1>5, <1>8, <1>9, <1>10, <1>12

-----------------------------------------------------------------------------
(* One request under way.                                                  *)

\* An empty sequence has no completion and no report.
LEMMA NothingIn ==
  /\ PostedIn(<<>>) = {} /\ DueOn(<<>>) = {} /\ ReadingsIn(<<>>) = {} /\ ~HasReport(<<>>)
BY DEF PostedIn, DueOn, ReadingsIn, HasReport

\* A request of n stages is the only one under way; its last stage but n - 2 completes it.
UnderWay(t, evs, dev, n) ==
  /\ Matched(t.ring, t.setup_stage_map, evs, dev)
  /\ \A e \in DOMAIN t.setup_stage_map : t.setup_stage_map[e].request # "SetProtocol"
  /\ Len(t.setup_stage_map) <= 1 /\ Len(t.setup_stage_map) <= SetupEntries
  /\ Len(t.ring) <= 4 /\ Len(t.ring) <= RingSize - 2
  /\ \A k \in DOMAIN t.ring : k \in DueOn(t.ring) <=> k = Len(t.ring) - (n - 2)

\* A request of the initialization, of which the one before has left one stage at most.
LEMMA RequestUnderWay ==
  ASSUME NEW c \in ControlType, NEW evs \in Seq(Event), NEW dev \in DeviceType,
         NEW request \in Request, NEW n \in {2, 3},
         request # "SetProtocol", request \in GetDescriptor \/ n = 2,
         c.setup_stage_map = <<>>, DueOn(c.ring) = {}, PostedIn(evs) = {}, Len(c.ring) <= 1,
         NEW t \in ControlType, Requested(c, request, n, t)
  PROVE  UnderWay(t, evs, dev, n)
<1>1. t \in ControlType /\ Requested(c, request, n, t)
  OBVIOUS
<1>2. /\ Matched(t.ring, t.setup_stage_map, evs, dev)
      /\ Len(t.setup_stage_map) = 1 /\ t.setup_stage_map[1].request = request
  BY MatchedFirst
<1>12. DueOn(t.ring) = {Len(c.ring) + 2}
  BY <1>1 DEF Requested
<1>3. Len(c.ring) \in Nat /\ t.ring \in Seq(TRB) /\ t.setup_stage_map \in Seq(Entry)
  BY <1>1 DEF ControlType
<1>4. PICK size \in Nat : size = Len(c.ring) /\ size <= 1
  BY <1>3
<1>5. Len(t.ring) = size + n
  BY <1>1, <1>4 DEF Requested
<1>6. size + 2 = Len(t.ring) - (n - 2)
  BY <1>5
<1>7. DueOn(t.ring) = {size + 2} /\ size + 2 \in DOMAIN t.ring
  <2>1. size + 2 \in 1..Len(t.ring)
    BY <1>5
  <2> QED
    BY <1>3, <1>4, <1>12, <2>1
<1>8. DOMAIN t.setup_stage_map = 1..Len(t.setup_stage_map)
  BY <1>3
<1>9. Len(t.ring) <= 4 /\ Len(t.ring) <= RingSize - 2
  BY <1>4, <1>5, TablesAssumption
<1>10. Len(t.setup_stage_map) <= 1 /\ Len(t.setup_stage_map) <= SetupEntries
  BY <1>2, TablesAssumption
<1>11. \A e \in DOMAIN t.setup_stage_map : t.setup_stage_map[e].request # "SetProtocol"
  BY <1>2, <1>8
<1> QED
  BY <1>1, <1>2, <1>6, <1>7, <1>9, <1>10, <1>11 DEF UnderWay

\* With such a request the invariant's parts about requests hold after the step.
LEMMA RequestLeaves ==
  ASSUME NEW c \in ControlType, NEW request \in Request, NEW n \in {2, 3},
         request # "SetProtocol", request \in GetDescriptor \/ n = 2,
         c.setup_stage_map = <<>>, DueOn(c.ring) = {}, Len(c.ring) <= 1,
         ToSet(c.event_waiters) \subseteq {"SetProtocol"}, Len(c.event_waiters) <= WaiterEntries,
         control' \in ControlType, Requested(c, request, n, control'),
         control'.event_waiters = c.event_waiters,
         events' \in Seq(Event), PostedIn(events') = {}, device' \in DeviceType,
         Behind(initialize_phase') = n - 2
  PROVE  ControlTypes' /\ RequestsMatch' /\ OneAtATime'
<1>1. PICK evs \in Seq(Event), dev \in DeviceType, t \in ControlType :
        evs = events' /\ dev = device' /\ t = control'
  OBVIOUS
<1>2. PostedIn(evs) = {} /\ Requested(c, request, n, t) /\ t.event_waiters = c.event_waiters
  BY <1>1
<1>3. /\ Matched(t.ring, t.setup_stage_map, evs, dev)
      /\ \A e \in DOMAIN t.setup_stage_map : t.setup_stage_map[e].request # "SetProtocol"
      /\ Len(t.setup_stage_map) <= 1 /\ Len(t.setup_stage_map) <= SetupEntries
      /\ Len(t.ring) <= 4 /\ Len(t.ring) <= RingSize - 2
      /\ \A k \in DOMAIN t.ring : k \in DueOn(t.ring) <=> k = Len(t.ring) - (n - 2)
  <2>1. UnderWay(t, evs, dev, n)
    BY <1>2, RequestUnderWay
  <2> QED
    BY <2>1 DEF UnderWay
<1>4. ControlTypes'
  BY <1>1, <1>2, <1>3 DEF ControlTypes
<1>5. RequestsMatch'
  BY <1>1, <1>2, <1>3 DEF RequestsMatch
<1>6. OneAtATime'
  <2>1. Posted' = {} /\ Due' = DueOn(control'.ring)
    BY <1>1, <1>2 DEF Posted, PostedIn, Completes, Due, DueOn
  <2> QED
    BY <1>1, <1>3, <2>1 DEF OneAtATime
<1> QED
  BY <1>4, <1>5, <1>6

\* The first request for a descriptor is put on an empty ring.
LEMMA InitializeDeviceStep ==
  ASSUME UsbInv, InitializeDevice
  PROVE  UsbInv'
<1>1. /\ TypeOK /\ RequestsMatch /\ Stages /\ DriverFits /\ Reading /\ ObserversToldRight
      /\ FlowTypes /\ DriverTypes /\ ControlTypes /\ ReportTypes
  BY TypeParts DEF UsbInv
<1>2. /\ port_config_phase' = "kInitializingDevice" /\ is_initialized' = FALSE /\ initialize_phase' = 1
      /\ UNCHANGED <<config, buf, ep_configs, class_drivers, hid, hid_buf, transfer_rings,
                     interrupt_ins, events, device, sent, told>>
  BY DEF InitializeDevice, driver
<1>3. control.ring = <<>> /\ control.setup_stage_map = <<>> /\ events = <<>>
  BY <1>1 DEF InitializeDevice, Stages
<1>4. PICK request \in Request : request = "GetDescriptor_Device"
  BY DEF Request
<1>5. /\ control' \in ControlType /\ control'.event_waiters = control.event_waiters
      /\ Requested(control, request, 3, control')
  <2>1. request \in GetDescriptor
    BY <1>4 DEF GetDescriptor
  <2> QED
    BY <1>1, <1>4, <2>1, DataRequested DEF InitializeDevice, ControlTypes
<1>6. ControlTypes' /\ RequestsMatch' /\ OneAtATime'
  <2>1. PICK c \in ControlType, n \in {2, 3} : c = control /\ n = 3
    BY <1>1 DEF ControlTypes
  <2>2. c.setup_stage_map = <<>> /\ DueOn(c.ring) = {} /\ Len(c.ring) <= 1
    BY <1>3, <2>1, NothingIn
  <2>3. ToSet(c.event_waiters) \subseteq {"SetProtocol"} /\ Len(c.event_waiters) <= WaiterEntries
    BY <1>1, <2>1 DEF RequestsMatch, ControlTypes
  <2>4. Requested(c, request, n, control') /\ control'.event_waiters = c.event_waiters
    BY <1>5, <2>1
  <2>5. events' \in Seq(Event) /\ PostedIn(events') = {} /\ device' \in DeviceType
    BY <1>1, <1>2, <1>3, NothingIn DEF ReportTypes
  <2>6. Behind(initialize_phase') = n - 2
    BY <1>2, <2>1 DEF Behind
  <2>7. request \in GetDescriptor /\ request # "SetProtocol"
    BY <1>4 DEF GetDescriptor
  <2> QED
    BY <1>5, <2>2, <2>3, <2>4, <2>5, <2>6, <2>7, RequestLeaves
<1>7. TypeOK'
  <2>1. initialize_phase' \in 0..4
    <3>1. initialize_phase' = 1
      BY <1>2
    <3> QED
      BY <3>1
  <2>2. is_initialized' \in BOOLEAN
    BY <1>2, Zenon
  <2>3. FlowTypes' /\ DriverTypes' /\ ReportTypes'
    BY <1>1, <1>2, <2>1, <2>2 DEF FlowTypes, DriverTypes, ReportTypes
  <2> QED
    BY <1>6, <2>3, TypeParts
<1>8. Stages'
  BY <1>2, <1>6 DEF Stages
<1>9. DriverFits' /\ Reading' /\ ObserversToldRight'
  <2>1. DriverFits'
    BY <1>1, <1>2 DEF DriverFits
  <2>2. Reading'
    <3>1. hid.phase = 0
      BY <1>1 DEF Reading, InitializeDevice, DriverTypes, HidType
    <3> QED
      BY <1>1, <1>2, <3>1 DEF Reading
  <2>3. ObserversToldRight'
    BY <1>1, <1>2 DEF ObserversToldRight, KeysBefore, HeadBefore
  <2> QED
    BY <2>1, <2>2, <2>3
<1> QED
  BY <1>6, <1>7, <1>8, <1>9 DEF UsbInv

-----------------------------------------------------------------------------
(* Reports among the events.                                               *)

\* A report, or its failure, is put behind events that have none.
LEMMA ReadPost ==
  ASSUME NEW evs \in Seq(Event), NEW event \in Event, NEW evs2, evs2 = Append(evs, event)
  PROVE  /\ event.type = "interrupt" /\ ReadingsIn(evs) = {} =>
              /\ ReadingsIn(evs2) # {} /\ \A j, k \in ReadingsIn(evs2) : j = k
              /\ HasReport(evs2) <=> event.ok
         /\ event.type # "interrupt" =>
              /\ ReadingsIn(evs2) = ReadingsIn(evs)
              /\ HasReport(evs2) <=> HasReport(evs)
<1>1. /\ evs2 \in Seq(Event) /\ DOMAIN evs2 = 1..(Len(evs) + 1) /\ DOMAIN evs = 1..Len(evs)
      /\ Len(evs) \in Nat
      /\ \A k \in DOMAIN evs : k \in DOMAIN evs2 /\ evs2[k] = evs[k]
      /\ Len(evs) + 1 \in DOMAIN evs2 /\ evs2[Len(evs) + 1] = event
      /\ \A k \in DOMAIN evs2 : k \in DOMAIN evs \/ k = Len(evs) + 1
  BY AppendFacts
<1>2. ASSUME event.type = "interrupt", ReadingsIn(evs) = {}
      PROVE  /\ ReadingsIn(evs2) # {} /\ \A j, k \in ReadingsIn(evs2) : j = k
             /\ HasReport(evs2) <=> event.ok
  <2>1. \A k \in ReadingsIn(evs2) : k = Len(evs) + 1 /\ evs2[k] = event
    BY <1>1, <1>2 DEF ReadingsIn
  <2>2. Len(evs) + 1 \in ReadingsIn(evs2)
    BY <1>1, <1>2 DEF ReadingsIn
  <2> QED
    BY <2>1, <2>2 DEF HasReport
<1>3. ASSUME event.type # "interrupt"
      PROVE  /\ ReadingsIn(evs2) = ReadingsIn(evs)
             /\ HasReport(evs2) <=> HasReport(evs)
  <2>1. ReadingsIn(evs2) = ReadingsIn(evs)
    BY <1>1, <1>3 DEF ReadingsIn
  <2>2. \A k \in ReadingsIn(evs) : evs2[k] = evs[k]
    BY <1>1 DEF ReadingsIn
  <2> QED
    BY <2>1, <2>2 DEF HasReport
<1> QED
  BY <1>2, <1>3

\* The event at the front is taken off events of which at most one is a report.
LEMMA ReadDrop ==
  ASSUME NEW evs \in Seq(Event), evs # <<>>, \A j, k \in ReadingsIn(evs) : j = k,
         NEW evs2, evs2 = Tail(evs)
  PROVE  /\ Head(evs).type = "interrupt" =>
              /\ ReadingsIn(evs) # {} /\ ReadingsIn(evs2) = {} /\ ~HasReport(evs2)
              /\ HasReport(evs) <=> Head(evs).ok
         /\ Head(evs).type # "interrupt" =>
              /\ ReadingsIn(evs2) = {} <=> ReadingsIn(evs) = {}
              /\ \A j, k \in ReadingsIn(evs2) : j = k
              /\ HasReport(evs2) <=> HasReport(evs)
<1>1. /\ evs2 \in Seq(Event) /\ Head(evs) = evs[1] /\ 1 \in DOMAIN evs
      /\ DOMAIN evs2 = 1..(Len(evs) - 1) /\ DOMAIN evs = 1..Len(evs) /\ Len(evs) \in Nat \ {0}
      /\ \A k \in DOMAIN evs2 : k + 1 \in DOMAIN evs /\ evs2[k] = evs[k + 1]
      /\ \A k \in DOMAIN evs : k # 1 => k - 1 \in DOMAIN evs2 /\ evs2[k - 1] = evs[k]
  BY TailFacts
<1>2. \A k \in ReadingsIn(evs2) : k \in Nat \ {0} /\ k + 1 \in ReadingsIn(evs) /\ evs2[k] = evs[k + 1]
  BY <1>1 DEF ReadingsIn
<1>3. ASSUME Head(evs).type = "interrupt"
      PROVE  /\ ReadingsIn(evs) # {} /\ ReadingsIn(evs2) = {} /\ ~HasReport(evs2)
             /\ HasReport(evs) <=> Head(evs).ok
  <2>1. 1 \in ReadingsIn(evs)
    BY <1>1, <1>3 DEF ReadingsIn
  <2>2. \A k \in ReadingsIn(evs) : k = 1
    BY <2>1
  <2>3. ASSUME NEW k \in ReadingsIn(evs2) PROVE FALSE
    <3>1. k + 1 = 1 /\ k \in Nat \ {0}
      BY <1>2, <2>2
    <3> QED
      BY <3>1
  <2>4. HasReport(evs) <=> evs[1].ok
    BY <2>1, <2>2 DEF HasReport
  <2> QED
    BY <1>1, <2>1, <2>3, <2>4 DEF HasReport
<1>4. ASSUME Head(evs).type # "interrupt"
      PROVE  /\ ReadingsIn(evs2) = {} <=> ReadingsIn(evs) = {}
             /\ \A j, k \in ReadingsIn(evs2) : j = k
             /\ HasReport(evs2) <=> HasReport(evs)
  <2>1. \A k \in ReadingsIn(evs) : k - 1 \in ReadingsIn(evs2) /\ evs2[k - 1] = evs[k]
    BY <1>1, <1>4 DEF ReadingsIn
  <2>2. ASSUME NEW j \in ReadingsIn(evs2), NEW k \in ReadingsIn(evs2) PROVE j = k
    <3>1. j + 1 = k + 1 /\ j \in Nat /\ k \in Nat
      BY <1>2
    <3> QED
      BY <3>1
  <2>3. HasReport(evs2) => HasReport(evs)
    <3> SUFFICES ASSUME NEW k \in ReadingsIn(evs2), evs2[k].ok PROVE \E i \in ReadingsIn(evs) : evs[i].ok
      BY DEF HasReport
    <3>1. PICK i : i = k + 1
      OBVIOUS
    <3>2. i \in ReadingsIn(evs) /\ evs[i] = evs2[k]
      BY <1>2, <3>1
    <3> QED
      BY <3>2
  <2>4. HasReport(evs) => HasReport(evs2)
    <3> SUFFICES ASSUME NEW k \in ReadingsIn(evs), evs[k].ok PROVE \E i \in ReadingsIn(evs2) : evs2[i].ok
      BY DEF HasReport
    <3>1. PICK i : i = k - 1
      OBVIOUS
    <3>2. i \in ReadingsIn(evs2) /\ evs2[i] = evs[k]
      BY <2>1, <3>1
    <3> QED
      BY <3>2
  <2>5. ReadingsIn(evs2) = {} <=> ReadingsIn(evs) = {}
    <3>1. ReadingsIn(evs2) # {} => ReadingsIn(evs) # {}
      BY <1>2
    <3>2. ReadingsIn(evs) # {} => ReadingsIn(evs2) # {}
      BY <2>1
    <3> QED
      BY <3>1, <3>2
  <2> QED
    BY <2>2, <2>3, <2>4, <2>5
<1> QED
  BY <1>3, <1>4

\* Completions among the events that stay.
LEMMA PostedDrop ==
  ASSUME NEW evs \in Seq(Event), evs # <<>>, NEW evs2, evs2 = Tail(evs)
  PROVE  /\ PostedIn(evs2) # {} => PostedIn(evs) # {}
         /\ (\A j, k \in PostedIn(evs) : j = k) =>
              /\ \A j, k \in PostedIn(evs2) : j = k
              /\ Completes(Head(evs)) => PostedIn(evs2) = {}
<1>1. /\ Head(evs) = evs[1] /\ 1 \in DOMAIN evs
      /\ \A k \in PostedIn(evs2) : k \in Nat \ {0} /\ k + 1 \in PostedIn(evs)
  BY TailFacts DEF PostedIn
<1>2. PostedIn(evs2) # {} => PostedIn(evs) # {}
  BY <1>1
<1>3. ASSUME \A j, k \in PostedIn(evs) : j = k
      PROVE  /\ \A j, k \in PostedIn(evs2) : j = k
             /\ Completes(Head(evs)) => PostedIn(evs2) = {}
  <2>1. ASSUME NEW j \in PostedIn(evs2), NEW k \in PostedIn(evs2) PROVE j = k
    <3>1. j + 1 = k + 1 /\ j \in Nat /\ k \in Nat
      BY <1>1, <1>3
    <3> QED
      BY <3>1
  <2>2. ASSUME Completes(Head(evs)), NEW k \in PostedIn(evs2) PROVE FALSE
    <3>1. 1 \in PostedIn(evs)
      BY <1>1, <2>2 DEF PostedIn
    <3>2. k + 1 = 1 /\ k \in Nat \ {0}
      BY <1>1, <1>3, <3>1
    <3> QED
      BY <3>2
  <2> QED
    BY <2>1, <2>2
<1> QED
  BY <1>2, <1>3

-----------------------------------------------------------------------------
(* The steps that only take or put an event.                               *)

\* A step that only takes an event leaves the requests and the stages as they have to be.
LEMMA TakingKeepsRequests ==
  ASSUME UsbInv, events # <<>>, events' = Tail(events),
         UNCHANGED <<control, device, port_config_phase, initialize_phase, is_initialized>>
  PROVE  RequestsMatch' /\ Stages'
<1>1. TypeOK /\ RequestsMatch /\ Stages
  BY DEF UsbInv
<1>2. PICK evs \in Seq(Event), evs2 \in Seq(Event) : evs = events /\ evs2 = events' /\ evs2 = Tail(evs)
  BY <1>1, Types, TailFacts
<1>3. control.ring \in Seq(TRB) /\ control.setup_stage_map \in Seq(Entry)
  BY <1>1, Types
<1>4. RequestsMatch'
  <2>1. Matched(control.ring, control.setup_stage_map, evs, device)
    BY <1>1, <1>2 DEF RequestsMatch
  <2>2. Matched(control.ring, control.setup_stage_map, evs2, device)
    BY <1>2, <1>3, <2>1, MatchedDrop
  <2> QED
    BY <1>1, <1>2, <2>2 DEF RequestsMatch
<1>5. Stages'
  <2>1. /\ Posted = PostedIn(evs) /\ Posted' = PostedIn(evs2) /\ Due' = Due
    BY <1>2 DEF Posted, PostedIn, Completes, Due
  <2>2. /\ PostedIn(evs2) # {} => PostedIn(evs) # {}
        /\ (\A j, k \in PostedIn(evs) : j = k) => \A j, k \in PostedIn(evs2) : j = k
    BY <1>2, PostedDrop
  <2>3. OneAtATime => OneAtATime'
    BY <2>1, <2>2 DEF OneAtATime
  <2>4. port_config_phase # "kAddressingDevice"
    BY <1>1 DEF Stages
  <2> QED
    BY <1>1, <2>1, <2>2, <2>3, <2>4 DEF Stages, Unasked
<1> QED
  BY <1>4, <1>5

\* A step that puts an event, not of a completed control transfer, likewise.
LEMMA PostingKeepsRequests ==
  ASSUME UsbInv, NEW event \in Event, ~Completes(event), events' = Append(events, event),
         port_config_phase # "kAddressingDevice", device' \in DeviceType,
         device'.configured = device.configured, device'.boot = device.boot,
         UNCHANGED <<control, port_config_phase, initialize_phase, is_initialized>>
  PROVE  RequestsMatch' /\ Stages'
<1>1. TypeOK /\ RequestsMatch /\ Stages
  BY DEF UsbInv
<1>2. PICK evs \in Seq(Event), evs2 \in Seq(Event) :
        evs = events /\ evs2 = events' /\ evs2 = Append(evs, event)
  BY <1>1, Types, AppendFacts
<1>3. control.ring \in Seq(TRB) /\ control.setup_stage_map \in Seq(Entry)
  BY <1>1, Types
<1>4. PostedIn(evs2) = PostedIn(evs) /\ \A k \in PostedIn(evs) : evs2[k] = evs[k]
  BY <1>2, AppendFacts DEF PostedIn
<1>5. RequestsMatch'
  <2>1. Matched(control.ring, control.setup_stage_map, evs, device)
    BY <1>1, <1>2 DEF RequestsMatch
  <2>2. \A request \in Request : Done(device', request) <=> Done(device, request)
    BY DEF Done
  <2>3. \A e \in DOMAIN control.setup_stage_map : control.setup_stage_map[e].request \in Request
    <3>1. \A e \in DOMAIN control.setup_stage_map : control.setup_stage_map[e] \in Entry
      BY <1>3
    <3> QED
      BY <3>1 DEF Entry
  <2>4. Matched(control.ring, control.setup_stage_map, evs2, device')
    BY <1>4, <2>1, <2>2, <2>3 DEF Matched
  <2> QED
    BY <1>1, <1>2, <2>4 DEF RequestsMatch
<1>6. Stages'
  <2>1. /\ Posted = PostedIn(evs) /\ Posted' = PostedIn(evs2) /\ Due' = Due
    BY <1>2 DEF Posted, PostedIn, Completes, Due
  <2>2. OneAtATime => OneAtATime'
    BY <1>4, <2>1 DEF OneAtATime
  <2> QED
    BY <1>1, <1>4, <2>1, <2>2 DEF Stages, Unasked
<1> QED
  BY <1>5, <1>6

\* A failed transfer is taken off and nothing else changes.
LEMMA OnTransferFailedStep ==
  ASSUME UsbInv, OnTransferFailed
  PROVE  UsbInv'
<1>1. /\ TypeOK /\ RequestsMatch /\ Stages /\ DriverFits /\ Reading /\ ObserversToldRight
      /\ FlowTypes /\ DriverTypes /\ ControlTypes /\ ReportTypes
  BY TypeParts DEF UsbInv
<1>2. /\ events # <<>> /\ events' = Tail(events) /\ Tail(events) \in Seq(Event)
      /\ UNCHANGED <<config, buf, hid_buf, device, sent>>
  BY <1>1, HeadFacts DEF OnTransferFailed
<1>3. /\ ~Head(events).ok
      /\ UNCHANGED <<port_config_phase, initialize_phase, is_initialized, ep_configs, class_drivers,
                     hid, control, transfer_rings, interrupt_ins, told>>
  BY DEF OnTransferFailed, Ignored, phases, driver
<1>4. TypeOK'
  BY <1>1, <1>2, <1>3, TypeParts DEF FlowTypes, DriverTypes, ControlTypes, ReportTypes
<1>5. RequestsMatch' /\ Stages'
  BY <1>2, <1>3, TakingKeepsRequests
<1>6. DriverFits' /\ ObserversToldRight'
  BY <1>1, <1>2, <1>3 DEF DriverFits, ObserversToldRight, KeysBefore, HeadBefore
<1>7. Reading'
  <2>1. PICK evs \in Seq(Event), evs2 \in Seq(Event) : evs = events /\ evs2 = events' /\ evs2 = Tail(evs)
    BY <1>1, <1>2, Types
  <2>2. \A j, k \in ReadingsIn(evs) : j = k
    BY <1>1, <2>1 DEF Reading
  <2>3. /\ ReadingsIn(evs) = {} => ReadingsIn(evs2) = {}
        /\ \A j, k \in ReadingsIn(evs2) : j = k
        /\ HasReport(evs2) <=> HasReport(evs)
    <3>1. CASE Head(evs).type = "interrupt"
      BY <1>2, <1>3, <2>1, <2>2, <3>1, ReadDrop
    <3>2. CASE Head(evs).type # "interrupt"
      BY <1>2, <2>1, <2>2, <3>2, ReadDrop
    <3> QED
      BY <3>1, <3>2
  <2> QED
    BY <1>1, <1>2, <1>3, <2>1, <2>3 DEF Reading
<1> QED
  BY <1>4, <1>5, <1>6, <1>7 DEF UsbInv

\* The command's event does not complete a control transfer.
LEMMA ExecuteConfigureEndpointStep ==
  ASSUME UsbInv, ExecuteConfigureEndpoint
  PROVE  UsbInv'
<1>1. /\ TypeOK /\ RequestsMatch /\ Stages /\ DriverFits /\ Reading /\ ObserversToldRight
      /\ FlowTypes /\ DriverTypes /\ ControlTypes /\ ReportTypes
  BY TypeParts DEF UsbInv
<1>2. PICK ok \in BOOLEAN : /\ device' = [device EXCEPT !.endpoints = ok]
                            /\ events' = Append(events, [type |-> "command", place |-> 0, ok |-> ok])
  BY DEF ExecuteConfigureEndpoint, Post
<1>3. /\ port_config_phase = "kConfiguringEndpoints"
      /\ UNCHANGED <<config, port_config_phase, initialize_phase, is_initialized, buf, ep_configs,
                     class_drivers, hid, control, hid_buf, transfer_rings, interrupt_ins, sent, told>>
  BY DEF ExecuteConfigureEndpoint, phases, driver
<1>4. PICK event \in Event : event = [type |-> "command", place |-> 0, ok |-> ok]
  <2>1. 0 \in Places
    BY TablesAssumption DEF Places
  <2> QED
    BY <2>1 DEF Event
<1>5. event.type = "command" /\ ~Completes(event) /\ events' = Append(events, event)
  BY <1>2, <1>4 DEF Completes
<1>6. device' \in DeviceType /\ device'.configured = device.configured /\ device'.boot = device.boot
  BY <1>1, <1>2 DEF ReportTypes, DeviceType
<1>7. RequestsMatch' /\ Stages'
  BY <1>3, <1>5, <1>6, PostingKeepsRequests
<1>8. PICK evs \in Seq(Event), evs2 \in Seq(Event) :
        evs = events /\ evs2 = events' /\ evs2 = Append(evs, event)
  BY <1>1, <1>5, Types, AppendFacts
<1>9. TypeOK'
  BY <1>1, <1>3, <1>6, <1>8, TypeParts DEF FlowTypes, DriverTypes, ControlTypes, ReportTypes
<1>10. DriverFits' /\ ObserversToldRight'
  BY <1>1, <1>3, <1>6 DEF DriverFits, ObserversToldRight, KeysBefore, HeadBefore
<1>11. Reading'
  <2>1. ReadingsIn(evs2) = ReadingsIn(evs) /\ (HasReport(evs2) <=> HasReport(evs))
    BY <1>5, <1>8, ReadPost
  <2> QED
    BY <1>1, <1>3, <1>6, <1>8, <2>1 DEF Reading
<1> QED
  BY <1>7, <1>9, <1>10, <1>11 DEF UsbInv

\* A device that is not there any more has done what it has done.
LEMMA PullOutStep ==
  ASSUME UsbInv, PullOut
  PROVE  UsbInv'
<1>1. /\ TypeOK /\ RequestsMatch /\ Stages /\ DriverFits /\ Reading /\ ObserversToldRight
      /\ FlowTypes /\ DriverTypes /\ ControlTypes /\ ReportTypes
  BY TypeParts DEF UsbInv
<1>2. /\ device' = [device EXCEPT !.plugged = FALSE]
      /\ UNCHANGED <<config, port_config_phase, initialize_phase, is_initialized, buf, ep_configs,
                     class_drivers, hid, control, hid_buf, transfer_rings, interrupt_ins, events,
                     sent, told>>
  BY DEF PullOut, phases, driver
<1>3. device' \in DeviceType /\ device'.configured = device.configured /\ device'.boot = device.boot
  BY <1>1, <1>2 DEF ReportTypes, DeviceType
<1>4. TypeOK'
  BY <1>1, <1>2, <1>3, TypeParts DEF FlowTypes, DriverTypes, ControlTypes, ReportTypes
<1>5. RequestsMatch'
  <2>1. \A request : Done(device', request) <=> Done(device, request)
    BY <1>3 DEF Done
  <2> QED
    BY <1>1, <1>2, <2>1 DEF RequestsMatch, Matched
<1>6. Stages'
  BY <1>1, <1>2 DEF Stages, Unasked, OneAtATime, Posted, Due
<1>7. DriverFits' /\ ObserversToldRight'
  BY <1>1, <1>2, <1>3 DEF DriverFits, ObserversToldRight, KeysBefore, HeadBefore
<1>8. Reading'
  BY <1>1, <1>2, <1>3 DEF Reading
<1> QED
  BY <1>4, <1>5, <1>6, <1>7, <1>8 DEF UsbInv

\* A failed interrupt transfer is outstanding no more.
LEMMA FailInterruptInStep ==
  ASSUME UsbInv, FailInterruptIn
  PROVE  UsbInv'
<1>1. /\ TypeOK /\ RequestsMatch /\ Stages /\ DriverFits /\ Reading /\ ObserversToldRight
      /\ FlowTypes /\ DriverTypes /\ ControlTypes /\ ReportTypes
  BY TypeParts DEF UsbInv
<1>2. /\ interrupt_ins > 0 /\ interrupt_ins' = interrupt_ins - 1
      /\ device' = [device EXCEPT !.halted = @ \union {"interrupt"}]
      /\ events' = Append(events, [type |-> "interrupt", place |-> 0, ok |-> FALSE])
      /\ UNCHANGED <<config, port_config_phase, initialize_phase, is_initialized, buf, ep_configs,
                     class_drivers, hid, control, hid_buf, transfer_rings, sent, told>>
  BY DEF FailInterruptIn, CanReport, Post, phases, driver
<1>3. PICK event \in Event : event = [type |-> "interrupt", place |-> 0, ok |-> FALSE]
  <2>1. 0 \in Places
    BY TablesAssumption DEF Places
  <2> QED
    BY <2>1 DEF Event
<1>4. event.type = "interrupt" /\ ~event.ok /\ ~Completes(event) /\ events' = Append(events, event)
  BY <1>2, <1>3 DEF Completes
<1>5. device' \in DeviceType /\ device'.configured = device.configured /\ device'.boot = device.boot
  BY <1>1, <1>2 DEF ReportTypes, DeviceType
<1>6. interrupt_ins = 1 /\ interrupt_ins' = 0 /\ hid.phase = 2 /\ ReadingsIn(events) = {}
      /\ port_config_phase = "kConfigured"
  BY <1>1, <1>2 DEF Reading
<1>7. RequestsMatch' /\ Stages'
  BY <1>2, <1>4, <1>5, <1>6, PostingKeepsRequests
<1>8. PICK evs \in Seq(Event), evs2 \in Seq(Event) :
        evs = events /\ evs2 = events' /\ evs2 = Append(evs, event)
  BY <1>1, <1>4, Types, AppendFacts
<1>9. TypeOK'
  BY <1>1, <1>2, <1>5, <1>6, <1>8, TypeParts DEF FlowTypes, DriverTypes, ControlTypes, ReportTypes
<1>10. DriverFits' /\ ObserversToldRight'
  BY <1>1, <1>2, <1>5 DEF DriverFits, ObserversToldRight, KeysBefore, HeadBefore
<1>11. Reading'
  <2>1. (\A j, k \in ReadingsIn(evs2) : j = k) /\ ~HasReport(evs2)
    BY <1>4, <1>6, <1>8, ReadPost
  <2>2. ~HasReport(evs)
    BY <1>6, <1>8 DEF HasReport
  <2> QED
    BY <1>1, <1>2, <1>5, <1>6, <1>8, <2>1, <2>2 DEF Reading
<1> QED
  BY <1>7, <1>9, <1>10, <1>11 DEF UsbInv

-----------------------------------------------------------------------------
(* The steps of a report.                                                  *)

\* The report fills the buffer while the observers have been told of all before.
LEMMA SendReportStep ==
  ASSUME UsbInv, SendReport
  PROVE  UsbInv'
<1>1. /\ TypeOK /\ RequestsMatch /\ Stages /\ DriverFits /\ Reading /\ ObserversToldRight
      /\ FlowTypes /\ DriverTypes /\ ControlTypes /\ ReportTypes
  BY TypeParts DEF UsbInv
<1>2. PICK report \in Report : hid_buf' = report /\ sent' = Append(sent, report)
  BY DEF SendReport
<1>3. /\ interrupt_ins > 0 /\ interrupt_ins' = interrupt_ins - 1
      /\ events' = Append(events, [type |-> "interrupt", place |-> 0, ok |-> TRUE])
      /\ UNCHANGED <<config, port_config_phase, initialize_phase, is_initialized, buf, ep_configs,
                     class_drivers, hid, control, transfer_rings, device, told>>
  BY DEF SendReport, CanReport, Post, phases, driver
<1>4. PICK event \in Event : event = [type |-> "interrupt", place |-> 0, ok |-> TRUE]
  <2>1. 0 \in Places
    BY TablesAssumption DEF Places
  <2> QED
    BY <2>1 DEF Event
<1>5. event.type = "interrupt" /\ event.ok /\ ~Completes(event) /\ events' = Append(events, event)
  BY <1>3, <1>4 DEF Completes
<1>6. /\ interrupt_ins = 1 /\ interrupt_ins' = 0 /\ hid.phase = 2 /\ ReadingsIn(events) = {}
      /\ port_config_phase = "kConfigured" /\ Len(sent) = Len(told)
  BY <1>1, <1>3 DEF Reading, HasReport
<1>7. RequestsMatch' /\ Stages'
  <2>1. device' \in DeviceType
    BY <1>1, <1>3 DEF ReportTypes
  <2> QED
    BY <1>3, <1>5, <1>6, <2>1, PostingKeepsRequests
<1>8. PICK evs \in Seq(Event), evs2 \in Seq(Event) :
        evs = events /\ evs2 = events' /\ evs2 = Append(evs, event)
  BY <1>1, <1>5, Types, AppendFacts
<1>9. /\ sent' \in Seq(Report) /\ Len(sent') = Len(sent) + 1 /\ sent'[Len(sent) + 1] = report
      /\ \A k \in DOMAIN sent : k \in DOMAIN sent' /\ sent'[k] = sent[k]
      /\ DOMAIN sent = 1..Len(sent) /\ Len(sent) \in Nat
  <2>1. PICK s \in Seq(Report) : s = sent
    BY <1>1 DEF ReportTypes
  <2> QED
    BY <1>2, <2>1, AppendFacts
<1>10. TypeOK'
  BY <1>1, <1>2, <1>3, <1>6, <1>8, <1>9, TypeParts
     DEF FlowTypes, DriverTypes, ControlTypes, ReportTypes
<1>11. DOMAIN told = 1..Len(told) /\ Len(told) \in Nat
  BY <1>1 DEF ReportTypes
<1>12. DriverFits'
  BY <1>1, <1>3 DEF DriverFits
<1>13. ObserversToldRight'
  <2>1. ASSUME NEW k \in DOMAIN told
        PROVE  sent'[k] = sent[k] /\ KeysBefore(k)' = KeysBefore(k) /\ HeadBefore(k)' = HeadBefore(k)
    <3>1. k \in DOMAIN sent /\ (k # 1 => k - 1 \in DOMAIN sent)
      BY <1>6, <1>9, <1>11
    <3> QED
      BY <1>9, <3>1 DEF KeysBefore, HeadBefore
  <2> QED
    BY <1>1, <1>3, <2>1 DEF ObserversToldRight
<1>14. Reading'
  <2>1. ReadingsIn(evs2) # {} /\ (\A j, k \in ReadingsIn(evs2) : j = k) /\ HasReport(evs2)
    BY <1>5, <1>6, <1>8, ReadPost
  <2>2. Len(sent') = Len(told') + 1
    BY <1>3, <1>6, <1>9
  <2>3. hid_buf' = IF sent' = <<>> THEN NoReport ELSE sent'[Len(sent')]
    <3>1. sent' # <<>> /\ sent'[Len(sent')] = report
      BY <1>9
    <3> QED
      BY <1>2, <3>1
  <2>4. hid'.previous = IF told' = <<>> THEN NoReport ELSE sent'[Len(told')]
    <3>1. CASE told = <<>>
      BY <1>1, <1>3, <3>1 DEF Reading
    <3>2. CASE told # <<>>
      <4>1. Len(told) \in DOMAIN sent
        BY <1>1, <1>6, <1>9, <3>2 DEF ReportTypes
      <4>2. hid.previous = sent[Len(told)]
        BY <1>1, <3>2 DEF Reading
      <4> QED
        BY <1>3, <1>9, <3>2, <4>1, <4>2
    <3> QED
      BY <3>1, <3>2
  <2>5. hid'.phase = 2 /\ port_config_phase' = "kConfigured" /\ device'.boot /\ interrupt_ins' = 0
    BY <1>1, <1>3, <1>6 DEF Reading
  <2> QED
    BY <1>8, <2>1, <2>2, <2>3, <2>4, <2>5 DEF Reading
<1> QED
  BY <1>7, <1>10, <1>12, <1>13, <1>14 DEF UsbInv

\* The observers are told of the report in the buffer, and the next one is asked for.
LEMMA OnInterruptEventStep ==
  ASSUME UsbInv, OnInterruptEvent
  PROVE  UsbInv'
<1>1. /\ TypeOK /\ RequestsMatch /\ Stages /\ DriverFits /\ Reading /\ ObserversToldRight
      /\ FlowTypes /\ DriverTypes /\ ControlTypes /\ ReportTypes
  BY TypeParts DEF UsbInv
<1>2. /\ events # <<>> /\ events' = Tail(events) /\ Tail(events) \in Seq(Event)
      /\ Head(events).type = "interrupt" /\ Head(events).ok
      /\ UNCHANGED <<config, buf, hid_buf, device, sent>>
  BY <1>1, HeadFacts DEF OnInterruptEvent
<1>3. PICK evs \in Seq(Event), evs2 \in Seq(Event) : evs = events /\ evs2 = events' /\ evs2 = Tail(evs)
  BY <1>1, <1>2, Types
<1>4. /\ ReadingsIn(evs) # {} /\ ReadingsIn(evs2) = {} /\ ~HasReport(evs2) /\ HasReport(evs)
  <2>1. \A j, k \in ReadingsIn(evs) : j = k
    BY <1>1, <1>3 DEF Reading
  <2> QED
    BY <1>2, <1>3, <2>1, ReadDrop
<1>5. /\ hid.phase = 2 /\ port_config_phase = "kConfigured" /\ device.boot /\ interrupt_ins = 0
      /\ Len(sent) = Len(told) + 1
  BY <1>1, <1>3, <1>4 DEF Reading, DriverTypes, HidType
<1>6. hid.in.number \in class_drivers /\ hid.kind # "none"
  BY <1>1, <1>5 DEF Stages, DriverFits
<1>7. /\ told' = Append(told, News(hid_buf)) /\ hid' = [hid EXCEPT !.previous = hid_buf] /\ InterruptIn
      /\ UNCHANGED <<port_config_phase, initialize_phase, is_initialized, ep_configs, class_drivers,
                     control, transfer_rings>>
  BY <1>6 DEF OnInterruptEvent, phases
<1>8. RequestsMatch' /\ Stages'
  BY <1>2, <1>7, TakingKeepsRequests
<1>9. hid' \in HidType /\ hid'.previous = hid_buf /\ hid'.kind = hid.kind /\ hid'.phase = 2
      /\ hid'.in = hid.in
  BY <1>1, <1>5, <1>7 DEF DriverTypes, HidType, ReportTypes
<1>10. interrupt_ins' \in 0..1
  BY <1>5, <1>7 DEF InterruptIn
<1>11. PICK news \in Report : news = News(hid_buf)
  <2>1. hid.previous \in Report /\ hid_buf \in Report /\ 0 \in Heads
    BY <1>1, TablesAssumption DEF DriverTypes, HidType, ReportTypes
  <2>2. CASE hid.kind = "keyboard"
    <3>1. News(hid_buf) = [head |-> 0, keys |-> hid_buf.keys \ (hid.previous.keys \union {hid.previous.head})]
      BY <2>2 DEF News
    <3>2. hid_buf.keys \ (hid.previous.keys \union {hid.previous.head}) \in SUBSET Codes
      BY <2>1 DEF Report
    <3>3. News(hid_buf) \in Report
      BY <2>1, <3>1, <3>2 DEF Report
    <3> QED
      BY <3>3
  <2>3. CASE hid.kind # "keyboard"
    BY <2>1, <2>3 DEF News
  <2> QED
    BY <2>2, <2>3
<1>12. /\ told' \in Seq(Report) /\ Len(told') = Len(told) + 1 /\ told'[Len(told) + 1] = news
       /\ \A k \in DOMAIN told : told'[k] = told[k]
       /\ DOMAIN told' = 1..(Len(told) + 1) /\ DOMAIN told = 1..Len(told) /\ Len(told) \in Nat
  <2>1. PICK s \in Seq(Report) : s = told
    BY <1>1 DEF ReportTypes
  <2> QED
    BY <1>7, <1>11, <2>1, AppendFacts
<1>13. TypeOK'
  BY <1>1, <1>2, <1>7, <1>9, <1>10, <1>12, TypeParts
     DEF FlowTypes, DriverTypes, ControlTypes, ReportTypes
<1>14. DriverFits'
  BY <1>1, <1>2, <1>7, <1>9 DEF DriverFits
<1>15. /\ hid_buf = sent[Len(told) + 1]
       /\ hid.previous = IF told = <<>> THEN NoReport ELSE sent[Len(told)]
  <2>1. sent # <<>>
    BY <1>1, <1>5, <1>12 DEF ReportTypes
  <2> QED
    BY <1>1, <1>5, <2>1 DEF Reading
<1>16. ObserversToldRight'
  <2>1. ASSUME NEW k \in DOMAIN told'
        PROVE  IF hid.kind = "mouse" THEN told'[k] = sent[k]
               ELSE LET pressed == sent[k].keys \ KeysBefore(k) IN
                    /\ told'[k].keys \subseteq pressed
                    /\ pressed \ {HeadBefore(k)} \subseteq told'[k].keys
    <3>1. CASE k \in DOMAIN told
      <4>1. told'[k] = told[k]
        BY <1>12, <3>1
      <4> QED
        BY <1>1, <3>1, <4>1 DEF ObserversToldRight
    <3>2. CASE k = Len(told) + 1
      <4>1. told'[k] = news /\ hid_buf = sent[k]
        BY <1>12, <1>15, <3>2
      <4>2. CASE hid.kind = "mouse"
        BY <1>11, <4>1, <4>2 DEF News
      <4>3. CASE hid.kind = "keyboard"
        <5>1. news.keys = sent[k].keys \ (hid.previous.keys \union {hid.previous.head})
          BY <1>11, <4>1, <4>3 DEF News
        <5>2. KeysBefore(k) = hid.previous.keys /\ HeadBefore(k) = hid.previous.head
          <6>1. CASE told = <<>>
            <7>1. k = 1 /\ hid.previous = NoReport
              BY <1>15, <3>2, <6>1
            <7> QED
              BY <7>1 DEF KeysBefore, HeadBefore, NoReport
          <6>2. CASE told # <<>>
            <7>1. Len(told) # 0
              BY <1>1, <6>2 DEF ReportTypes
            <7>2. k # 1 /\ k - 1 = Len(told) /\ hid.previous = sent[Len(told)]
              BY <1>12, <1>15, <3>2, <6>2, <7>1
            <7> QED
              BY <7>2 DEF KeysBefore, HeadBefore
          <6> QED
            BY <6>1, <6>2
        <5> QED
          BY <4>1, <4>3, <5>1, <5>2
      <4>4. hid.kind = "mouse" \/ hid.kind = "keyboard"
        BY <1>1, <1>6 DEF DriverTypes, HidType
      <4> QED
        BY <4>2, <4>3, <4>4
    <3>3. k \in DOMAIN told \/ k = Len(told) + 1
      BY <1>12
    <3> QED
      BY <3>1, <3>2, <3>3
  <2> QED
    BY <1>2, <1>9, <2>1 DEF ObserversToldRight, KeysBefore, HeadBefore
<1>17. Reading'
  <2>1. Len(sent') = Len(told')
    BY <1>2, <1>5, <1>12
  <2>2. hid_buf' = IF sent' = <<>> THEN NoReport ELSE sent'[Len(sent')]
    BY <1>1, <1>2 DEF Reading
  <2>3. told' # <<>>
    BY <1>12
  <2>4. hid'.previous = sent'[Len(told')]
    BY <1>2, <1>9, <1>12, <1>15
  <2> QED
    BY <1>2, <1>3, <1>4, <1>5, <1>7, <1>9, <1>10, <2>1, <2>2, <2>3, <2>4 DEF Reading
<1> QED
  BY <1>8, <1>13, <1>14, <1>16, <1>17 DEF UsbInv

-----------------------------------------------------------------------------
(* The stages of a control transfer.                                       *)

\* The stage at the front of the ring is done or has failed: of a request under way
\* there is one stage less to come.
LEMMA PassingKeepsOrder ==
  ASSUME TypeOK, control.ring # <<>>, control' = [control EXCEPT !.ring = Tail(@)],
         NEW tail, tail = Tail(control.ring)
  PROVE  /\ control' \in ControlType /\ control'.ring = tail /\ tail \in Seq(TRB)
         /\ Len(tail) = Len(control.ring) - 1 /\ Len(control.ring) \in Nat \ {0}
         /\ control'.setup_stage_map = control.setup_stage_map
         /\ control'.event_waiters = control.event_waiters
         /\ Head(control.ring) \in TRB
         /\ \A k \in DOMAIN tail : /\ k \in Nat \ {0} /\ k + 1 \in DOMAIN control.ring
                                   /\ k \in DueOn(tail) <=> k + 1 \in DueOn(control.ring)
         /\ Head(control.ring).ioc <=> 1 \in DueOn(control.ring)
         /\ 1 \in DOMAIN control.ring
<1>1. PICK ring \in Seq(TRB) : ring = control.ring
  BY Types
<1>2. /\ tail \in Seq(TRB) /\ Len(tail) = Len(ring) - 1 /\ Len(ring) \in Nat \ {0}
      /\ Head(ring) = ring[1] /\ 1 \in DOMAIN ring
      /\ DOMAIN tail = 1..(Len(ring) - 1)
      /\ \A k \in DOMAIN tail : k + 1 \in DOMAIN ring /\ tail[k] = ring[k + 1]
  BY <1>1, TailFacts
<1>3. \A k \in DOMAIN tail : /\ k \in Nat \ {0} /\ k + 1 \in DOMAIN ring
                             /\ k \in DueOn(tail) <=> k + 1 \in DueOn(ring)
  BY <1>2 DEF DueOn
<1>4. Head(ring).ioc <=> 1 \in DueOn(ring)
  BY <1>2 DEF DueOn
<1>5. Head(ring) \in TRB
  BY <1>1, <1>2
<1>6. control \in ControlType
  BY Types
<1>7. /\ control' \in ControlType /\ control'.ring = tail
      /\ control'.setup_stage_map = control.setup_stage_map
      /\ control'.event_waiters = control.event_waiters
  BY <1>2, <1>6 DEF ControlType
<1> QED
  BY <1>1, <1>2, <1>3, <1>4, <1>5, <1>7

\* Where the ring can have anything.
LEMMA RingInUse ==
  ASSUME UsbInv, control.ring # <<>>
  PROVE  /\ port_config_phase \notin {"kAddressingDevice", "kConfiguringEndpoints"}
         /\ port_config_phase = "kInitializingDevice" =>
              ~is_initialized /\ OneAtATime /\ initialize_phase \in 1..3
BY DEF UsbInv, Stages, Unasked

\* The failed stage leaves the ring, and its event completes nothing.
LEMMA FailControlStageStep ==
  ASSUME UsbInv, FailControlStage
  PROVE  UsbInv'
<1>1. /\ TypeOK /\ RequestsMatch /\ Stages /\ DriverFits /\ Reading /\ ObserversToldRight
      /\ FlowTypes /\ DriverTypes /\ ControlTypes /\ ReportTypes
  BY TypeParts DEF UsbInv
<1>2. /\ control.ring # <<>> /\ control' = [control EXCEPT !.ring = Tail(@)]
      /\ device' = [device EXCEPT !.halted = @ \union {"control"}]
      /\ events' = Append(events, [type |-> "control", place |-> Head(control.ring).place, ok |-> FALSE])
      /\ UNCHANGED <<config, port_config_phase, initialize_phase, is_initialized, buf, ep_configs,
                     class_drivers, hid, hid_buf, transfer_rings, interrupt_ins, sent, told>>
  BY DEF FailControlStage, Post, phases, driver
<1>3. PICK tail \in Seq(TRB) : tail = Tail(control.ring)
  BY <1>1, <1>2, PassingKeepsOrder
<1>4. /\ control' \in ControlType /\ control'.ring = tail
      /\ Len(tail) = Len(control.ring) - 1 /\ Len(control.ring) \in Nat \ {0}
      /\ control'.setup_stage_map = control.setup_stage_map
      /\ control'.event_waiters = control.event_waiters
      /\ Head(control.ring) \in TRB
      /\ \A k \in DOMAIN tail : /\ k \in Nat \ {0} /\ k + 1 \in DOMAIN control.ring
                                /\ k \in DueOn(tail) <=> k + 1 \in DueOn(control.ring)
  BY <1>1, <1>2, <1>3, PassingKeepsOrder
<1>5. PICK event \in Event :
        event = [type |-> "control", place |-> Head(control.ring).place, ok |-> FALSE]
  BY <1>4 DEF Event, TRB
<1>6. event.type = "control" /\ ~Completes(event) /\ events' = Append(events, event)
  BY <1>2, <1>5 DEF Completes
<1>7. device' \in DeviceType /\ device'.configured = device.configured /\ device'.boot = device.boot
  BY <1>1, <1>2 DEF ReportTypes, DeviceType
<1>8. PICK evs \in Seq(Event), evs2 \in Seq(Event) :
        evs = events /\ evs2 = events' /\ evs2 = Append(evs, event)
  BY <1>1, <1>6, Types, AppendFacts
<1>9. PICK ring \in Seq(TRB), table \in Seq(Entry) : ring = control.ring /\ table = control.setup_stage_map
  BY <1>1, Types
<1>10. RequestsMatch'
  <2>1. Matched(ring, table, evs, device)
    BY <1>1, <1>8, <1>9 DEF RequestsMatch
  <2>2. \A request \in Request : Done(device, request) => Done(device', request)
    BY <1>7 DEF Done
  <2>3. PICK dev, dev2 : dev = device /\ dev2 = device'
    OBVIOUS
  <2>4. Matched(Tail(ring), table, evs, dev2)
    BY <1>2, <1>9, <2>1, <2>2, <2>3, MatchedPass
  <2>5. Matched(tail, table, evs, dev2)
    BY <1>3, <1>9, <2>4
  <2>6. Matched(tail, table, evs2, dev2)
    BY <1>6, <1>8, <2>5, MatchedPost
  <2>7. Len(tail) <= RingSize - 2
    BY <1>1, <1>4, TablesAssumption DEF RequestsMatch
  <2> QED
    BY <1>1, <1>4, <1>8, <1>9, <2>3, <2>6, <2>7 DEF RequestsMatch
<1>11. Stages'
  <2>1. PostedIn(evs2) = PostedIn(evs)
    BY <1>6, <1>8, AppendFacts DEF PostedIn
  <2>2. /\ Posted = PostedIn(evs) /\ Posted' = PostedIn(evs2)
        /\ Due = DueOn(control.ring) /\ Due' = DueOn(tail)
    BY <1>4, <1>8 DEF Posted, PostedIn, Completes, Due, DueOn
  <2>3. ASSUME OneAtATime PROVE OneAtATime'
    <3>1. \A k \in DOMAIN tail : k \in Due' <=> k = Len(tail) - Behind(initialize_phase)
      <4>1. Behind(initialize_phase) \in {0, 1}
        BY DEF Behind
      <4> SUFFICES ASSUME NEW k \in DOMAIN tail
                   PROVE  k \in Due' <=> k = Len(tail) - Behind(initialize_phase)
        OBVIOUS
      <4>2. k \in Due' <=> k + 1 \in Due
        BY <1>4, <2>2
      <4>3. k + 1 \in Due <=> k + 1 = Len(control.ring) - Behind(initialize_phase)
        BY <1>4, <2>3 DEF OneAtATime
      <4> QED
        BY <1>4, <4>1, <4>2, <4>3
    <3>2. Due' # {} => Due # {}
      BY <1>4, <2>2 DEF DueOn
    <3>3. Len(tail) <= 4
      BY <1>4, <2>3 DEF OneAtATime
    <3> QED
      BY <1>2, <1>4, <2>1, <2>2, <2>3, <3>1, <3>2, <3>3 DEF OneAtATime
  <2> QED
    BY <1>1, <1>2, <2>3, RingInUse DEF Stages
<1>12. TypeOK'
  BY <1>1, <1>2, <1>4, <1>7, <1>8, TypeParts DEF FlowTypes, DriverTypes, ControlTypes, ReportTypes
<1>13. DriverFits' /\ ObserversToldRight'
  BY <1>1, <1>2, <1>7 DEF DriverFits, ObserversToldRight, KeysBefore, HeadBefore
<1>14. Reading'
  <2>1. ReadingsIn(evs2) = ReadingsIn(evs) /\ (HasReport(evs2) <=> HasReport(evs))
    BY <1>6, <1>8, ReadPost
  <2> QED
    BY <1>1, <1>2, <1>7, <1>8, <2>1 DEF Reading
<1> QED
  BY <1>10, <1>11, <1>12, <1>13, <1>14 DEF UsbInv

\* A stage leaves the ring; the one that completes the request puts the only event of it.
LEMMA ControlStageStep ==
  ASSUME UsbInv, ControlStage
  PROVE  UsbInv'
<1>1. /\ TypeOK /\ RequestsMatch /\ Stages /\ DriverFits /\ Reading /\ ObserversToldRight
      /\ FlowTypes /\ DriverTypes /\ ControlTypes /\ ReportTypes
  BY TypeParts DEF UsbInv
<1>2. PICK trb : trb = Head(control.ring)
  OBVIOUS
<1>3. /\ control.ring # <<>> /\ control' = [control EXCEPT !.ring = Tail(@)]
      /\ buf' = IF trb.stage = "data" THEN trb.request ELSE buf
      /\ device' = IF trb.stage # "status" THEN device
                   ELSE [device EXCEPT !.configured = @ \/ trb.request = "SetConfiguration",
                                       !.boot = @ \/ trb.request = "SetProtocol"]
      /\ UNCHANGED <<config, port_config_phase, initialize_phase, is_initialized, ep_configs,
                     class_drivers, hid, hid_buf, transfer_rings, interrupt_ins, sent, told>>
  BY <1>2 DEF ControlStage, phases, driver
<1>4. IF trb.ioc THEN events' = Append(events, [type |-> "control", place |-> trb.place, ok |-> TRUE])
      ELSE events' = events
  BY <1>2 DEF ControlStage, Post
<1>5. PICK tail \in Seq(TRB) : tail = Tail(control.ring)
  BY <1>1, <1>3, PassingKeepsOrder
<1>6. /\ control' \in ControlType /\ control'.ring = tail
      /\ Len(tail) = Len(control.ring) - 1 /\ Len(control.ring) \in Nat \ {0}
      /\ control'.setup_stage_map = control.setup_stage_map
      /\ control'.event_waiters = control.event_waiters
      /\ trb \in TRB /\ (trb.ioc <=> 1 \in DueOn(control.ring)) /\ 1 \in DOMAIN control.ring
      /\ \A k \in DOMAIN tail : /\ k \in Nat \ {0} /\ k + 1 \in DOMAIN control.ring
                                /\ k \in DueOn(tail) <=> k + 1 \in DueOn(control.ring)
  BY <1>1, <1>2, <1>3, <1>5, PassingKeepsOrder
<1>7. /\ device' \in DeviceType
      /\ device.configured => device'.configured
      /\ device.boot => device'.boot
      /\ trb.stage = "status" => Done(device', trb.request)
  <2>1. device \in DeviceType
    BY <1>1 DEF ReportTypes
  <2>2. CASE trb.stage # "status"
    BY <1>3, <2>1, <2>2
  <2>3. CASE trb.stage = "status"
    <3>1. PICK configured \in BOOLEAN : configured <=> device.configured \/ trb.request = "SetConfiguration"
      OBVIOUS
    <3>2. PICK boot \in BOOLEAN : boot <=> device.boot \/ trb.request = "SetProtocol"
      OBVIOUS
    <3>3. device' = [device EXCEPT !.configured = configured, !.boot = boot]
      BY <1>3, <2>1, <2>3, <3>1, <3>2 DEF DeviceType
    <3>4. device' \in DeviceType /\ device'.configured = configured /\ device'.boot = boot
      BY <2>1, <3>3 DEF DeviceType
    <3> QED
      BY <3>1, <3>2, <3>4 DEF Done
  <2> QED
    BY <2>2, <2>3
<1>8. buf' \in {"none"} \union GetDescriptor
  <2>1. trb.stage = "data" => trb.request \in GetDescriptor
    BY <1>6 DEF TRB
  <2> QED
    BY <1>1, <1>3, <2>1 DEF FlowTypes
<1>9. PICK ring \in Seq(TRB), table \in Seq(Entry), evs \in Seq(Event),
           dev \in DeviceType, dev2 \in DeviceType :
        /\ ring = control.ring /\ table = control.setup_stage_map /\ evs = events
        /\ dev = device /\ dev2 = device'
  BY <1>1, <1>7, Types DEF ReportTypes
<1>10. PICK event \in Event : event = [type |-> "control", place |-> trb.place, ok |-> TRUE]
  BY <1>6 DEF Event, TRB
<1>11. event.type = "control" /\ Completes(event) /\ event.place = trb.place
  BY <1>10 DEF Completes
<1>12. PICK evs2 \in Seq(Event) :
        /\ evs2 = events'
        /\ \/ trb.ioc /\ evs2 = Append(evs, event)
           \/ ~trb.ioc /\ evs2 = evs
  <2>1. CASE trb.ioc
    <3>1. events' = Append(evs, event)
      BY <1>4, <1>9, <1>10, <2>1
    <3>2. PICK longer \in Seq(Event) : longer = Append(evs, event)
      BY AppendFacts
    <3> QED
      BY <2>1, <3>1, <3>2
  <2>2. CASE ~trb.ioc
    BY <1>4, <1>9, <2>2
  <2> QED
    BY <2>1, <2>2
<1>13. \A request \in Request : Done(dev, request) => Done(dev2, request)
  BY <1>7, <1>9 DEF Done
<1>14. Matched(ring, table, evs, dev)
  BY <1>1, <1>9 DEF RequestsMatch
<1>15. Matched(tail, table, evs2, dev2)
  <2>1. ring # <<>> /\ Head(ring) = trb /\ tail = Tail(ring)
    BY <1>2, <1>3, <1>5, <1>9
  <2>2. CASE trb.ioc
    <3>1. Head(ring).stage = "status" => Done(dev2, Head(ring).request)
      BY <1>7, <1>9, <2>1
    <3>2. Head(ring).ioc /\ event.place = Head(ring).place
      BY <1>11, <2>1, <2>2
    <3>3. Matched(Tail(ring), table, Append(evs, event), dev2)
      BY <1>11, <1>13, <1>14, <2>1, <3>1, <3>2, MatchedComplete
    <3> QED
      BY <1>12, <2>1, <2>2, <3>3
  <2>3. CASE ~trb.ioc
    <3>1. Matched(Tail(ring), table, evs, dev2)
      BY <1>13, <1>14, <2>1, MatchedPass
    <3> QED
      BY <1>12, <2>1, <2>3, <3>1
  <2> QED
    BY <2>2, <2>3
<1>16. RequestsMatch'
  <2>1. Len(tail) <= RingSize - 2
    BY <1>1, <1>6, TablesAssumption DEF RequestsMatch
  <2> QED
    BY <1>1, <1>6, <1>9, <1>12, <1>15, <2>1 DEF RequestsMatch
<1>17. Stages'
  <2>1. /\ Posted = PostedIn(evs) /\ Posted' = PostedIn(evs2)
        /\ Due = DueOn(control.ring) /\ Due' = DueOn(tail)
    BY <1>6, <1>9, <1>12 DEF Posted, PostedIn, Completes, Due, DueOn
  <2>2. \A k \in PostedIn(evs2) : \/ k \in PostedIn(evs)
                                  \/ trb.ioc /\ k = Len(evs) + 1
    BY <1>12, AppendFacts DEF PostedIn
  <2>3. ASSUME OneAtATime PROVE OneAtATime'
    <3>1. PICK n \in Nat, behind \in {0, 1} :
            n = Len(control.ring) /\ behind = Behind(initialize_phase) /\ n # 0
      BY <1>6 DEF Behind
    <3>2. \A k \in DOMAIN control.ring : k \in Due <=> k = n - behind
      BY <2>3, <3>1 DEF OneAtATime
    <3>3. Len(tail) = n - 1
      BY <1>6, <3>1
    <3>4. \A k \in DOMAIN tail : k \in Due' <=> k = Len(tail) - behind
      <4> SUFFICES ASSUME NEW k \in DOMAIN tail PROVE k \in Due' <=> k = Len(tail) - behind
        OBVIOUS
      <4>1. k \in Nat /\ (k \in Due' <=> k + 1 \in Due) /\ k + 1 \in DOMAIN control.ring
        BY <1>6, <2>1
      <4> QED
        BY <3>1, <3>2, <3>3, <4>1
    <3>5. Due' # {} => Due # {}
      BY <1>6, <2>1 DEF DueOn
    <3>6. trb.ioc => Posted = {} /\ Due' = {}
      <4> SUFFICES ASSUME trb.ioc PROVE Posted = {} /\ Due' = {}
        OBVIOUS
      <4>1. 1 \in Due /\ 1 \in DOMAIN control.ring
        BY <1>6, <2>1
      <4>2. 1 = n - behind
        BY <3>2, <4>1
      <4>3. ASSUME NEW k \in Due' PROVE FALSE
        <5>1. k \in DOMAIN tail /\ k \in Nat \ {0}
          BY <1>6, <2>1, <4>3 DEF DueOn
        <5>2. k = Len(tail) - behind
          BY <3>4, <4>3, <5>1
        <5> QED
          BY <3>1, <3>3, <4>2, <5>1, <5>2
      <4> QED
        BY <2>3, <4>1, <4>3 DEF OneAtATime
    <3>7. (Posted' # {} => Due' = {}) /\ \A j, k \in Posted' : j = k
      <4>1. CASE trb.ioc
        BY <2>1, <2>2, <3>6, <4>1
      <4>2. CASE ~trb.ioc
        BY <2>1, <2>2, <2>3, <3>5, <4>2 DEF OneAtATime
      <4> QED
        BY <4>1, <4>2
    <3>8. Len(control'.setup_stage_map) <= 1 /\ Len(control'.ring) <= 4
      BY <1>6, <2>3 DEF OneAtATime
    <3> QED
      BY <1>3, <1>6, <3>1, <3>4, <3>7, <3>8 DEF OneAtATime
  <2> QED
    BY <1>1, <1>3, <2>3, RingInUse DEF Stages
<1>18. TypeOK'
  BY <1>1, <1>3, <1>6, <1>7, <1>8, <1>12, TypeParts
     DEF FlowTypes, DriverTypes, ControlTypes, ReportTypes
<1>19. DriverFits' /\ ObserversToldRight'
  BY <1>1, <1>3, <1>7 DEF DriverFits, ObserversToldRight, KeysBefore, HeadBefore
<1>20. Reading'
  <2>1. ReadingsIn(evs2) = ReadingsIn(evs) /\ (HasReport(evs2) <=> HasReport(evs))
    <3>1. CASE evs2 = evs
      BY <3>1
    <3>2. CASE evs2 = Append(evs, event)
      BY <1>11, <3>2, ReadPost
    <3> QED
      BY <1>12, <3>1, <3>2
  <2> QED
    BY <1>1, <1>3, <1>7, <1>9, <1>12, <2>1 DEF Reading
<1> QED
  BY <1>16, <1>17, <1>18, <1>19, <1>20 DEF UsbInv

-----------------------------------------------------------------------------
(* The endpoints are configured.                                           *)

\* The control endpoint before the first request of the class driver.
LEMMA NothingAsked ==
  ASSUME NEW c \in ControlType, c.ring = <<>>, c.setup_stage_map = <<>>,
         ToSet(c.event_waiters) \subseteq {"SetProtocol"}, Len(c.event_waiters) <= WaiterEntries
  PROVE  Asked(c, 0, c.write_index)
<1>1. c.write_index \in Places
  BY DEF ControlType
<1>2. c.write_index = Place(c.write_index, 2 * 0)
  <2>1. RingSize \in Nat /\ RingSize >= 6 /\ 0 \in 0..RingSize /\ 2 * 0 = 0
    BY TablesAssumption
  <2>2. Place(c.write_index, 0) = IF c.write_index + 0 < RingSize - 1 THEN c.write_index + 0
                                  ELSE IF c.write_index + 0 < 2 * (RingSize - 1)
                                         THEN c.write_index + 0 - (RingSize - 1)
                                         ELSE c.write_index + 0 - 2 * (RingSize - 1)
    BY <1>1, <2>1, PlaceIs
  <2> QED
    BY <1>1, <2>1, <2>2 DEF Places
<1>3. DueOn(c.ring) = {}
  BY DEF DueOn
<1>4. Len(c.ring) = 2 * 0 /\ Len(c.setup_stage_map) = 0 /\ 1..(2 * 0) = {} /\ 1..0 = {}
  OBVIOUS
<1> QED
  BY <1>2, <1>3, <1>4 DEF Asked

\* What all the requests of the class driver leave, in numbers.
LEMMA AskedFits ==
  ASSUME NEW c, NEW n \in Nat, NEW w \in Places, Asked(c, n, w), 2 * n <= RingSize - 2,
         n <= SetupEntries
  PROVE  /\ c \in ControlType
         /\ Len(c.ring) <= RingSize - 2 /\ Len(c.setup_stage_map) <= SetupEntries
         /\ Len(c.event_waiters) <= WaiterEntries
         /\ ToSet(c.event_waiters) \subseteq {"SetProtocol"}
         /\ \A e \in DOMAIN c.setup_stage_map : "SetProtocol" \in ToSet(c.event_waiters)
<1>1. /\ c \in ControlType
      /\ Len(c.ring) = 2 * n /\ Len(c.setup_stage_map) = n
      /\ Len(c.event_waiters) <= WaiterEntries
      /\ ToSet(c.event_waiters) \subseteq {"SetProtocol"}
      /\ n > 0 => "SetProtocol" \in ToSet(c.event_waiters)
  BY DEF Asked
<1>2. DOMAIN c.setup_stage_map = 1..n
  BY <1>1 DEF ControlType
<1>3. \A e \in 1..n : n > 0
  OBVIOUS
<1> QED
  BY <1>1, <1>2, <1>3

\* The class driver's requests are put on a ring on which there is nothing else.
LEMMA OnConfigureEndpointCompletedStep ==
  ASSUME UsbInv, OnConfigureEndpointCompleted
  PROVE  UsbInv'
<1>1. /\ TypeOK /\ RequestsMatch /\ Stages /\ DriverFits /\ Reading /\ ObserversToldRight
      /\ FlowTypes /\ DriverTypes /\ ControlTypes /\ ReportTypes
  BY TypeParts DEF UsbInv
<1>2. /\ events # <<>> /\ events' = Tail(events) /\ Tail(events) \in Seq(Event)
      /\ Head(events).type = "command"
      /\ UNCHANGED <<config, buf, hid_buf, device, sent>>
  BY <1>1, HeadFacts DEF OnConfigureEndpointCompleted
<1>3. PICK evs \in Seq(Event), evs2 \in Seq(Event) : evs = events /\ evs2 = events' /\ evs2 = Tail(evs)
  BY <1>1, <1>2, Types
<1>4. /\ ReadingsIn(evs2) = {} <=> ReadingsIn(evs) = {}
      /\ \A j, k \in ReadingsIn(evs2) : j = k
      /\ HasReport(evs2) <=> HasReport(evs)
  <2>1. \A j, k \in ReadingsIn(evs) : j = k
    BY <1>1, <1>3 DEF Reading
  <2>2. Head(evs).type # "interrupt"
    BY <1>2, <1>3
  <2> QED
    BY <1>2, <1>3, <2>1, <2>2, ReadDrop
<1>5. CASE port_config_phase = "kConfiguringEndpoints"
  <2>1. /\ OnEndpointsConfigured /\ port_config_phase' = "kConfigured"
        /\ UNCHANGED <<initialize_phase, is_initialized, ep_configs, class_drivers, transfer_rings,
                       interrupt_ins, told>>
    BY <1>5 DEF OnConfigureEndpointCompleted
  <2>2. /\ control.ring = <<>> /\ control.setup_stage_map = <<>> /\ PostedIn(evs) = {}
        /\ is_initialized
    BY <1>1, <1>3, <1>5, Types DEF Stages, Unasked
  <2>3. PostedIn(evs2) = {}
    BY <1>2, <1>3, <2>2, PostedDrop
  <2>4. PICK N \in Nat, w \in Places, dev \in DeviceType :
          N = Cardinality(class_drivers) /\ w = control.write_index /\ dev = device
    BY <1>1, FS_CardinalityType DEF DriverFits, ControlTypes, ControlType, ReportTypes
  <2>5. 2 * N <= RingSize - 2 /\ N <= SetupEntries
    BY <1>1, <2>4 DEF DriverFits
  <2>6. Asked(control, 0, w)
    <3>1. PICK c \in ControlType : c = control
      BY <1>1 DEF ControlTypes
    <3>2. /\ c.ring = <<>> /\ c.setup_stage_map = <<>> /\ w = c.write_index
          /\ ToSet(c.event_waiters) \subseteq {"SetProtocol"} /\ Len(c.event_waiters) <= WaiterEntries
      BY <1>1, <2>2, <2>4, <3>1 DEF RequestsMatch, ControlTypes
    <3>3. Asked(c, 0, c.write_index)
      BY <3>2, NothingAsked
    <3> QED
      BY <3>1, <3>2, <3>3
  <2>7. PICK c : c = control' /\ Asked(c, N, w)
    BY <2>1, <2>4, <2>5, <2>6, EndpointsAsked
  <2>8. Matched(c.ring, c.setup_stage_map, evs2, dev)
    BY <2>3, <2>5, <2>7, MatchedAsked
  <2>9. /\ c \in ControlType
        /\ Len(c.ring) <= RingSize - 2 /\ Len(c.setup_stage_map) <= SetupEntries
        /\ Len(c.event_waiters) <= WaiterEntries
        /\ ToSet(c.event_waiters) \subseteq {"SetProtocol"}
        /\ \A e \in DOMAIN c.setup_stage_map : "SetProtocol" \in ToSet(c.event_waiters)
    BY <2>5, <2>7, AskedFits
  <2>10. ControlTypes' /\ RequestsMatch'
    BY <1>2, <1>3, <2>4, <2>7, <2>8, <2>9 DEF ControlTypes, RequestsMatch
  <2>11. hid.phase = 0
    BY <1>1, <1>5 DEF Reading
  <2>12. /\ hid' \in HidType /\ hid'.phase \in {0, 1} /\ hid'.kind = hid.kind
         /\ hid'.in = hid.in /\ hid'.previous = hid.previous
    <3>1. hid' = IF class_drivers = {} THEN hid ELSE [hid EXCEPT !.phase = 1]
      BY <2>1 DEF OnEndpointsConfigured
    <3>2. hid \in HidType
      BY <1>1 DEF DriverTypes
    <3> QED
      BY <2>11, <3>1, <3>2 DEF HidType
  <2>13. TypeOK'
    BY <1>1, <1>2, <2>1, <2>10, <2>12, TypeParts DEF FlowTypes, DriverTypes, ReportTypes
  <2>14. Stages'
    BY <2>1, <2>2 DEF Stages
  <2>15. DriverFits' /\ ObserversToldRight'
    BY <1>1, <1>2, <2>1, <2>12 DEF DriverFits, ObserversToldRight, KeysBefore, HeadBefore
  <2>16. Reading'
    BY <1>1, <1>2, <1>3, <1>4, <2>1, <2>11, <2>12 DEF Reading
  <2> QED
    BY <2>10, <2>13, <2>14, <2>15, <2>16 DEF UsbInv
<1>6. CASE port_config_phase # "kConfiguringEndpoints"
  <2>1. UNCHANGED <<port_config_phase, initialize_phase, is_initialized, ep_configs, class_drivers,
                    hid, control, transfer_rings, interrupt_ins, told>>
    BY <1>6 DEF OnConfigureEndpointCompleted, Ignored, phases, driver
  <2>2. TypeOK'
    BY <1>1, <1>2, <2>1, TypeParts DEF FlowTypes, DriverTypes, ControlTypes, ReportTypes
  <2>3. RequestsMatch' /\ Stages'
    BY <1>2, <2>1, TakingKeepsRequests
  <2>4. DriverFits' /\ ObserversToldRight'
    BY <1>1, <1>2, <2>1 DEF DriverFits, ObserversToldRight, KeysBefore, HeadBefore
  <2>5. Reading'
    BY <1>1, <1>2, <1>3, <1>4, <2>1 DEF Reading
  <2> QED
    BY <2>2, <2>3, <2>4, <2>5 DEF UsbInv
<1> QED
  BY <1>5, <1>6

-----------------------------------------------------------------------------
(* A request is answered.                                                  *)

\* No request is under way, and of the last one nothing is left that the next would
\* have to be behind.
Idle(c, evs) ==
  /\ c.setup_stage_map = <<>> /\ PostedIn(evs) = {} /\ DueOn(c.ring) = {}
  /\ Len(c.ring) <= Behind(initialize_phase)

\* When a request has been answered during the initialization, there is no other.
LEMMA AnswerLeavesIdle ==
  ASSUME UsbInv, NEW k \in 1..Len(control.setup_stage_map), NEW c \in ControlType,
         c.ring = control.ring, c.setup_stage_map = RemoveAt(control.setup_stage_map, k),
         events # <<>>, Completes(Head(events)), events' = Tail(events),
         port_config_phase = "kInitializingDevice", ~is_initialized
  PROVE  Idle(c, events') /\ initialize_phase \in 1..3
<1>1. TypeOK /\ OneAtATime /\ initialize_phase \in 1..3
  BY Zenon DEF UsbInv, Stages
<1>2. PICK evs \in Seq(Event), evs2 \in Seq(Event) : evs = events /\ evs2 = events' /\ evs2 = Tail(evs)
  BY <1>1, Types, TailFacts
<1>3. Posted = PostedIn(evs) /\ Due = DueOn(c.ring)
  BY <1>1, <1>2, Types
<1>4. 1 \in PostedIn(evs)
  BY <1>2, TailFacts DEF PostedIn
<1>5. PostedIn(evs2) = {}
  <2>1. \A i, j \in PostedIn(evs) : i = j
    BY <1>1, <1>3 DEF OneAtATime
  <2>2. evs # <<>> /\ Completes(Head(evs))
    BY <1>2
  <2> QED
    BY <1>2, <2>1, <2>2, PostedDrop
<1>6. DueOn(c.ring) = {}
  BY <1>1, <1>3, <1>4 DEF OneAtATime
<1>7. c.setup_stage_map = <<>>
  <2>1. PICK table \in Seq(Entry) : table = control.setup_stage_map
    BY <1>1, Types
  <2>2. Len(table) <= 1 /\ k \in 1..Len(table)
    BY <1>1, <2>1 DEF OneAtATime
  <2>3. RemoveAt(table, k) \in Seq(Entry) /\ Len(RemoveAt(table, k)) = Len(table) - 1
    BY <2>2, RemoveAtFacts
  <2>4. PICK rest \in Seq(Entry) : rest = c.setup_stage_map /\ Len(rest) = Len(table) - 1
    BY <2>1, <2>3
  <2>5. Len(rest) = 0
    BY <2>2, <2>4
  <2> QED
    BY <2>4, <2>5
<1>8. Len(c.ring) <= Behind(initialize_phase)
  <2>1. PICK n \in Nat, behind \in {0, 1} : n = Len(c.ring) /\ behind = Behind(initialize_phase)
    BY DEF ControlType, Behind
  <2>2. DOMAIN c.ring = 1..n
    BY <2>1 DEF ControlType
  <2>3. \A i \in 1..n : i # n - behind
    BY <1>1, <1>3, <1>6, <2>1, <2>2 DEF OneAtATime
  <2>4. n - behind \notin 1..n
    BY <2>3
  <2> QED
    BY <2>1, <2>4
<1> QED
  BY <1>1, <1>2, <1>5, <1>6, <1>7, <1>8 DEF Idle

\* The answer to a request has been taken off the events and its entry off the table, which
\* gives the control endpoint c; the handler goes on with that.
Taken(c, request) ==
  /\ OnControlCompleted(request, c) /\ Done(device, request)
  /\ c.ring = control.ring /\ c.event_waiters = control.event_waiters
  /\ Matched(c.ring, c.setup_stage_map, events', device)
  /\ Len(c.setup_stage_map) <= SetupEntries
  /\ \A e \in DOMAIN c.setup_stage_map :
       c.setup_stage_map[e].request = "SetProtocol" => "SetProtocol" \in ToSet(c.event_waiters)
  /\ port_config_phase \in {"kInitializingDevice", "kConfigured"}
  /\ port_config_phase = "kInitializingDevice" =>
       ~is_initialized /\ Idle(c, events') /\ initialize_phase \in 1..3
  /\ events' \in Seq(Event)
  /\ ReadingsIn(events') = {} <=> ReadingsIn(events) = {}
  /\ \A i, j \in ReadingsIn(events') : i = j
  /\ HasReport(events') <=> HasReport(events)
  /\ UNCHANGED <<config, buf, hid_buf, device, sent, told>>

\* Every completed control transfer is handled so.
LEMMA AnswerTaken ==
  ASSUME UsbInv, OnControlEvent
  PROVE  \E c \in ControlType, request \in Request : Taken(c, request)
<1>1. TypeOK /\ RequestsMatch /\ Stages /\ Reading /\ ControlTypes /\ FlowTypes
  BY TypeParts DEF UsbInv
<1>2. PICK k \in 1..Len(control.setup_stage_map), c \in ControlType, request \in Request :
        /\ control.setup_stage_map[k].place = Head(events).place
        /\ request = control.setup_stage_map[k].request /\ Done(device, request)
        /\ c.ring = control.ring /\ c.setup_stage_map = RemoveAt(control.setup_stage_map, k)
        /\ c.event_waiters = control.event_waiters /\ c.write_index = control.write_index
        /\ OnControlCompleted(request, c)
        /\ events # <<>> /\ Completes(Head(events)) /\ events' = Tail(events)
        /\ UNCHANGED <<config, buf, hid_buf, device, sent, told>>
  BY ControlAnswered
<1>3. PICK evs \in Seq(Event), evs2 \in Seq(Event) : evs = events /\ evs2 = events' /\ evs2 = Tail(evs)
  BY <1>1, <1>2, Types, TailFacts
<1>4. PICK ring \in Seq(TRB), table \in Seq(Entry), rest \in Seq(Entry) :
        ring = c.ring /\ table = control.setup_stage_map /\ rest = c.setup_stage_map
  BY <1>1, Types DEF ControlType
<1>5. k \in 1..Len(table) /\ rest = RemoveAt(table, k) /\ evs # <<>> /\ Completes(Head(evs))
      /\ table[k].place = Head(evs).place
  BY <1>2, <1>3, <1>4
<1>6. Matched(ring, rest, evs2, device)
  <2>1. Matched(ring, table, evs, device)
    BY <1>1, <1>2, <1>3, <1>4 DEF RequestsMatch
  <2>2. Matched(ring, RemoveAt(table, k), Tail(evs), device)
    BY <1>5, <2>1, MatchedAnswer
  <2> QED
    BY <1>3, <1>5, <2>2
<1>7. /\ Len(rest) = Len(table) - 1 /\ DOMAIN rest = 1..(Len(table) - 1)
      /\ DOMAIN table = 1..Len(table) /\ Len(table) \in Nat
      /\ \A i \in 1..(Len(table) - 1) : rest[i] = IF i < k THEN table[i] ELSE table[i + 1]
  <2>1. Len(table) \in Nat /\ DOMAIN table = 1..Len(table)
    OBVIOUS
  <2>2. PICK j \in 1..Len(table) : j = k
    BY <1>5
  <2>3. /\ Len(RemoveAt(table, j)) = Len(table) - 1
        /\ DOMAIN RemoveAt(table, j) = 1..(Len(table) - 1)
        /\ \A i \in 1..(Len(table) - 1) : RemoveAt(table, j)[i] = IF i < j THEN table[i] ELSE table[i + 1]
    BY RemoveAtFacts
  <2> QED
    BY <1>5, <2>1, <2>2, <2>3
<1>8. Len(rest) <= SetupEntries
  BY <1>1, <1>4, <1>7, TablesAssumption DEF ControlTypes
<1>9. \A e \in DOMAIN rest :
        rest[e].request = "SetProtocol" => "SetProtocol" \in ToSet(c.event_waiters)
  <2>1. \A e \in DOMAIN rest : \E f \in DOMAIN table : rest[e] = table[f]
    <3> SUFFICES ASSUME NEW e \in DOMAIN rest PROVE \E f \in DOMAIN table : rest[e] = table[f]
      OBVIOUS
    <3>1. PICK f : f = IF e < k THEN e ELSE e + 1
      OBVIOUS
    <3>2. f \in DOMAIN table /\ rest[e] = table[f]
      BY <1>7, <3>1
    <3> QED
      BY <3>2
  <2> QED
    BY <1>1, <1>2, <1>4, <2>1 DEF RequestsMatch
<1>10. /\ port_config_phase \in {"kInitializingDevice", "kConfigured"}
       /\ port_config_phase = "kInitializingDevice" => ~is_initialized
  <2>1. 1 \in PostedIn(evs)
    BY <1>3, <1>5, TailFacts DEF PostedIn
  <2>2. Posted # {}
    BY <1>1, <1>3, <2>1, Types
  <2> QED
    BY <1>1, <1>2, <2>2 DEF FlowTypes, Stages, Unasked
<1>11. port_config_phase = "kInitializingDevice" =>
         ~is_initialized /\ Idle(c, events') /\ initialize_phase \in 1..3
  BY <1>2, <1>10, AnswerLeavesIdle
<1>12. /\ ReadingsIn(evs2) = {} <=> ReadingsIn(evs) = {}
       /\ \A i, j \in ReadingsIn(evs2) : i = j
       /\ HasReport(evs2) <=> HasReport(evs)
  <2>1. \A i, j \in ReadingsIn(evs) : i = j
    BY <1>1, <1>3 DEF Reading
  <2>2. Head(evs).type # "interrupt"
    BY <1>5 DEF Completes
  <2> QED
    BY <1>3, <1>5, <2>1, <2>2, ReadDrop
<1> QED
  BY <1>2, <1>3, <1>4, <1>6, <1>8, <1>9, <1>10, <1>11, <1>12 DEF Taken

\* Without a new request the requests match as before.
LEMMA AnswerDropped ==
  ASSUME UsbInv, NEW c \in ControlType, NEW request \in Request, Taken(c, request),
         control' = c, UNCHANGED <<port_config_phase, initialize_phase, is_initialized>>
  PROVE  ControlTypes' /\ RequestsMatch' /\ Stages'
<1>1. TypeOK /\ RequestsMatch /\ Stages /\ ControlTypes /\ FlowTypes
  BY TypeParts DEF UsbInv
<1>2. /\ c.ring = control.ring /\ c.event_waiters = control.event_waiters
      /\ Matched(c.ring, c.setup_stage_map, events', device)
      /\ Len(c.setup_stage_map) <= SetupEntries
      /\ \A e \in DOMAIN c.setup_stage_map :
           c.setup_stage_map[e].request = "SetProtocol" => "SetProtocol" \in ToSet(c.event_waiters)
      /\ device' = device
  BY DEF Taken
<1>3. ControlTypes'
  BY <1>1, <1>2 DEF ControlTypes
<1>4. RequestsMatch'
  BY <1>1, <1>2 DEF RequestsMatch
<1>5. ASSUME port_config_phase = "kInitializingDevice" PROVE OneAtATime'
  <2>1. Idle(c, events') /\ initialize_phase \in 1..3
    BY <1>5 DEF Taken
  <2>2. Posted' = {} /\ Due' = {}
    BY <2>1 DEF Idle, Posted, PostedIn, Completes, Due, DueOn
  <2>3. PICK n \in Nat, behind \in {0, 1} :
          n = Len(c.ring) /\ behind = Behind(initialize_phase) /\ n <= behind
    BY <2>1 DEF ControlType, Behind, Idle
  <2>4. \A k \in DOMAIN c.ring : k # n - behind
    <3>1. DOMAIN c.ring = 1..n
      BY <2>3 DEF ControlType
    <3> QED
      BY <2>3, <3>1
  <2>5. Len(c.setup_stage_map) <= 1 /\ Len(c.ring) <= 4
    BY <2>1, <2>3 DEF Idle
  <2> QED
    BY <2>2, <2>3, <2>4, <2>5 DEF OneAtATime
<1>6. Stages'
  <2>1. /\ port_config_phase \in {"kInitializingDevice", "kConfigured"}
        /\ port_config_phase = "kInitializingDevice" => ~is_initialized
    BY DEF Taken
  <2> QED
    BY <1>1, <1>5, <2>1 DEF Stages
<1> QED
  BY <1>3, <1>4, <1>6

\* What is read is read as before if the class driver does not go on with it.
LEMMA AnswerKeepsReading ==
  ASSUME UsbInv, NEW c, NEW request, Taken(c, request),
         hid'.phase = hid.phase, hid'.previous = hid.previous, interrupt_ins' = interrupt_ins,
         hid.phase # 0 => port_config_phase' = port_config_phase
  PROVE  Reading'
BY DEF UsbInv, Reading, Taken

\* Nothing is done with the answer.
LEMMA AnswerIgnoredStep ==
  ASSUME UsbInv, NEW c \in ControlType, NEW request \in Request, Taken(c, request),
         control' = c, UNCHANGED <<phases, driver, transfer_rings, interrupt_ins>>
  PROVE  UsbInv'
<1>1. /\ TypeOK /\ DriverFits /\ Reading /\ ObserversToldRight
      /\ FlowTypes /\ DriverTypes /\ ControlTypes /\ ReportTypes
  BY TypeParts DEF UsbInv
<1>2. /\ events' \in Seq(Event)
      /\ UNCHANGED <<config, buf, hid_buf, device, sent, told>>
  BY DEF Taken
<1>3. UNCHANGED <<port_config_phase, initialize_phase, is_initialized, ep_configs, class_drivers, hid,
                  transfer_rings, interrupt_ins>>
  BY DEF phases, driver
<1>4. ControlTypes' /\ RequestsMatch' /\ Stages'
  BY <1>3, AnswerDropped
<1>5. TypeOK'
  BY <1>1, <1>2, <1>3, <1>4, TypeParts DEF FlowTypes, DriverTypes, ReportTypes
<1>6. DriverFits' /\ ObserversToldRight'
  BY <1>1, <1>2, <1>3 DEF DriverFits, ObserversToldRight, KeysBefore, HeadBefore
<1>7. Reading'
  BY <1>3, AnswerKeepsReading
<1> QED
  BY <1>4, <1>5, <1>6, <1>7 DEF UsbInv

\* The class driver is told, and with the first answer begins to read reports.
LEMMA AnswerToDriverStep ==
  ASSUME UsbInv, NEW c \in ControlType, NEW request \in Request, Taken(c, request),
         is_initialized, request \in ToSet(c.event_waiters), hid.phase = 1,
         HIDControlCompleted, control' = c,
         UNCHANGED <<phases, ep_configs, class_drivers, transfer_rings>>
  PROVE  UsbInv'
<1>1. /\ TypeOK /\ RequestsMatch /\ Stages /\ DriverFits /\ Reading /\ ObserversToldRight
      /\ FlowTypes /\ DriverTypes /\ ControlTypes /\ ReportTypes
  BY TypeParts DEF UsbInv
<1>2. /\ events' \in Seq(Event) /\ c.event_waiters = control.event_waiters /\ Done(device, request)
      /\ ReadingsIn(events') = {} <=> ReadingsIn(events) = {}
      /\ \A i, j \in ReadingsIn(events') : i = j
      /\ HasReport(events') <=> HasReport(events)
      /\ UNCHANGED <<config, buf, hid_buf, device, sent, told>>
  BY DEF Taken
<1>3. UNCHANGED <<port_config_phase, initialize_phase, is_initialized, ep_configs, class_drivers,
                  transfer_rings>>
  BY DEF phases
<1>4. /\ hid' = [hid EXCEPT !.phase = 2]
      /\ interrupt_ins' = IF hid.in \in transfer_rings THEN interrupt_ins + 1 ELSE interrupt_ins
  BY DEF HIDControlCompleted, InterruptIn
<1>5. /\ hid' \in HidType /\ hid'.phase = 2 /\ hid'.kind = hid.kind /\ hid'.in = hid.in
      /\ hid'.previous = hid.previous
  BY <1>1, <1>4 DEF DriverTypes, HidType
<1>6. device.boot
  <2>1. request = "SetProtocol"
    BY <1>1, <1>2 DEF RequestsMatch
  <2> QED
    BY <1>2, <2>1 DEF Done
<1>7. /\ port_config_phase = "kConfigured" /\ interrupt_ins = 0 /\ ReadingsIn(events) = {}
      /\ sent = <<>> /\ told = <<>>
  BY <1>1 DEF Reading
<1>8. interrupt_ins' \in 0..1
  BY <1>4, <1>7
<1>9. ControlTypes' /\ RequestsMatch' /\ Stages'
  BY <1>3, AnswerDropped
<1>10. TypeOK'
  BY <1>1, <1>2, <1>3, <1>5, <1>8, <1>9, TypeParts DEF FlowTypes, DriverTypes, ReportTypes
<1>11. DriverFits' /\ ObserversToldRight'
  BY <1>1, <1>2, <1>3, <1>5 DEF DriverFits, ObserversToldRight, KeysBefore, HeadBefore
<1>12. Reading'
  <2>1. ReadingsIn(events') = {} /\ ~HasReport(events')
    BY <1>2, <1>7 DEF HasReport
  <2> QED
    BY <1>1, <1>2, <1>3, <1>5, <1>6, <1>7, <1>8, <2>1 DEF Reading
<1> QED
  BY <1>9, <1>10, <1>11, <1>12 DEF UsbInv

\* The request that comes next, when the one before has been answered.
LEMMA NextRequest ==
  ASSUME UsbInv, NEW c \in ControlType, NEW request \in Request, Taken(c, request),
         port_config_phase = "kInitializingDevice",
         NEW next \in Request, NEW n \in {2, 3},
         next # "SetProtocol", next \in GetDescriptor \/ n = 2,
         control' \in ControlType, Requested(c, next, n, control'),
         control'.event_waiters = c.event_waiters, Behind(initialize_phase') = n - 2
  PROVE  ControlTypes' /\ RequestsMatch' /\ OneAtATime'
<1>1. ControlTypes /\ RequestsMatch /\ ReportTypes
  BY TypeParts DEF UsbInv
<1>2. /\ c.setup_stage_map = <<>> /\ DueOn(c.ring) = {} /\ PostedIn(events') = {}
      /\ Len(c.ring) <= 1
  <2>1. Idle(c, events') /\ Len(c.ring) \in Nat
    BY DEF Taken, ControlType
  <2> QED
    BY <2>1 DEF Idle, Behind
<1>3. /\ ToSet(c.event_waiters) \subseteq {"SetProtocol"} /\ Len(c.event_waiters) <= WaiterEntries
      /\ events' \in Seq(Event) /\ device' \in DeviceType
  BY <1>1 DEF Taken, RequestsMatch, ControlTypes, ReportTypes
<1> QED
  BY <1>2, <1>3, RequestLeaves

\* The answer to the first request for a descriptor is followed by the second request.
LEMMA InitializePhase1Step ==
  ASSUME UsbInv, NEW c \in ControlType, NEW request \in Request, Taken(c, request),
         ~is_initialized, InitializePhase1(c), UNCHANGED told
  PROVE  UsbInv'
<1>1. /\ TypeOK /\ RequestsMatch /\ Stages /\ DriverFits /\ Reading /\ ObserversToldRight
      /\ FlowTypes /\ DriverTypes /\ ControlTypes /\ ReportTypes
  BY TypeParts DEF UsbInv
<1>2. /\ initialize_phase' = 2
      /\ UNCHANGED <<port_config_phase, is_initialized, ep_configs, class_drivers, hid, transfer_rings,
                     interrupt_ins>>
  BY DEF InitializePhase1, driver
<1>3. /\ events' \in Seq(Event)
      /\ UNCHANGED <<config, buf, hid_buf, device, sent, told>>
  BY DEF Taken
<1>4. port_config_phase = "kInitializingDevice"
  BY <1>1 DEF Taken, Stages
<1>5. PICK next \in Request, n \in {2, 3} :
        next = "GetDescriptor_Configuration" /\ next \in GetDescriptor /\ n = 3
  BY DEF Request, GetDescriptor
<1>6. /\ control' \in ControlType /\ control'.event_waiters = c.event_waiters
      /\ Requested(c, next, n, control')
  BY <1>5, DataRequested DEF InitializePhase1
<1>7. ControlTypes' /\ RequestsMatch' /\ OneAtATime'
  <2>1. Behind(initialize_phase') = n - 2 /\ next # "SetProtocol"
    BY <1>2, <1>5 DEF Behind
  <2> QED
    BY <1>4, <1>5, <1>6, <2>1, NextRequest
<1>8. initialize_phase' \in 0..4
  BY <1>2
<1>9. TypeOK'
  BY <1>1, <1>2, <1>3, <1>7, <1>8, TypeParts DEF FlowTypes, DriverTypes, ReportTypes
<1>10. Stages'
  BY <1>1, <1>2, <1>4, <1>7 DEF Stages
<1>11. DriverFits' /\ ObserversToldRight'
  BY <1>1, <1>2, <1>3 DEF DriverFits, ObserversToldRight, KeysBefore, HeadBefore
<1>12. Reading'
  BY <1>2, AnswerKeepsReading
<1> QED
  BY <1>7, <1>9, <1>10, <1>11, <1>12 DEF UsbInv

-----------------------------------------------------------------------------
(* A class driver is found.                                                *)

EpConfigs == [ep_id : EndpointID, interrupt : BOOLEAN]

\* What InitializePhase2 and InitializePhase3 look for.
FirstInterface(conf) == SelectInSeq(conf, Supported)
LastInterruptIn(configs) == SelectLastInSeq(configs, IsInterruptIn)

\* The endpoints that InitializePhase2 takes.
UpTo(list, n) == SubSeq(list, 1, n)
FoundIn(conf) ==
  UpTo(EndpointsBehind(conf, FirstInterface(conf)), conf[FirstInterface(conf)].num_endpoints)

\* The numbers of the first n endpoints, and what the device keeps of endpoints.
Numbers(list, n) == {list[e].number : e \in 1..n}
NumbersOf(found) == {found[e].number : e \in DOMAIN found}
EpConfigsOf(found) == [e \in DOMAIN found |-> EpConfig(found[e])]

\* The first interface for which there is a driver has what a valid device has.
LEMMA InterfaceFound ==
  ASSUME NEW conf \in Configurations, NEW first, first = FirstInterface(conf), first # 0,
         NEW n, n = conf[first].num_endpoints, NEW list, list = EndpointsBehind(conf, first)
  PROVE  /\ conf[first].protocol \in {"keyboard", "mouse"} /\ n \in Nat
         /\ list \in Seq(EndpointDescriptor) /\ n <= Len(list) /\ n <= EpConfigEntries
         /\ \E e \in 1..n : list[e].interrupt /\ list[e].in
         /\ 2 * Cardinality(Numbers(list, n)) <= RingSize - 2
         /\ Cardinality(Numbers(list, n)) <= SetupEntries
<1>1. PICK places : places = {i \in 1..Len(conf) : Supported(conf[i])}
  OBVIOUS
<1>2. first = IF places # {} THEN Min(places) ELSE 0
  BY <1>1 DEF FirstInterface, SelectInSeq
<1>3. conf \in Seq(Descriptor)
  BY ConfigurationsAssumption
<1>4. places \subseteq Nat /\ DOMAIN conf = 1..Len(conf)
  <2>1. Len(conf) \in Nat /\ DOMAIN conf = 1..Len(conf)
    BY <1>3
  <2> QED
    BY <1>1, <2>1
<1>5. first \in places
  BY <1>2, <1>4, MinIsLeast
<1>6. first \in DOMAIN conf /\ Supported(conf[first])
  BY <1>1, <1>4, <1>5
<1>7. conf[first] \in Descriptor
  <2>1. \A i \in DOMAIN conf : conf[i] \in Descriptor
    BY <1>3
  <2> QED
    BY <1>6, <2>1
<1>8. n \in Nat /\ conf[first].protocol \in {"keyboard", "mouse"}
  <2>1. PICK desc \in Descriptor : desc = conf[first] /\ desc.type = "interface"
    BY <1>6, <1>7 DEF Supported, IsInterface
  <2>2. desc.num_endpoints \in Nat
    BY <2>1 DEF Descriptor, EndpointDescriptor
  <2> QED
    BY <1>6, <2>1, <2>2 DEF Supported
<1>9. LET m == conf[first].num_endpoints
          endpoints == EndpointsBehind(conf, first)
          numbers == {endpoints[e].number : e \in 1..m}
      IN  /\ endpoints \in Seq(EndpointDescriptor)
          /\ m <= Len(endpoints) /\ m <= EpConfigEntries
          /\ \E e \in 1..m : endpoints[e].interrupt /\ endpoints[e].in
          /\ 2 * Cardinality(numbers) <= RingSize - 2
          /\ Cardinality(numbers) <= SetupEntries
  BY <1>6, ConfigurationsAssumption, Zenon
<1>10. /\ list \in Seq(EndpointDescriptor) /\ n <= Len(list) /\ n <= EpConfigEntries
       /\ \E e \in 1..n : list[e].interrupt /\ list[e].in
       /\ 2 * Cardinality({list[e].number : e \in 1..n}) <= RingSize - 2
       /\ Cardinality({list[e].number : e \in 1..n}) <= SetupEntries
  BY <1>9, Zenon
<1> QED
  BY <1>8, <1>10, Zenon DEF Numbers

\* Endpoint numbers are few, and none is 0.
LEMMA NumbersAreFinite ==
  ASSUME NEW numbers, numbers \subseteq 1..15
  PROVE  IsFiniteSet(numbers) /\ numbers \subseteq Nat \ {0}
<1>1. IsFiniteSet(1..15)
  <2>1. 1 \in Int /\ 15 \in Int
    OBVIOUS
  <2> QED
    BY <2>1, FS_Interval
<1>2. IsFiniteSet(numbers)
  BY <1>1, FS_Subset
<1>3. 1..15 \subseteq Nat \ {0}
  OBVIOUS
<1> QED
  BY <1>2, <1>3

\* The endpoints of the interface, and their numbers.
LEMMA EndpointsFound ==
  ASSUME NEW list \in Seq(EndpointDescriptor), NEW n \in Nat, n <= Len(list)
  PROVE  /\ UpTo(list, n) \in Seq(EndpointDescriptor) /\ DOMAIN UpTo(list, n) = 1..n
         /\ \A e \in 1..n : UpTo(list, n)[e] = list[e]
         /\ \A e \in 1..n : UpTo(list, n)[e].number \in 1..15
<1>0. PICK found : found = SubSeq(list, 1, n) /\ found = UpTo(list, n)
  BY DEF UpTo
<1>1. DOMAIN list = 1..Len(list) /\ Len(list) \in Nat
  OBVIOUS
<1>2. \A e \in 1..n : e \in 1..Len(list) /\ list[e] \in EndpointDescriptor
  <2>1. \A e \in DOMAIN list : list[e] \in EndpointDescriptor
    OBVIOUS
  <2> QED
    BY <1>1, <2>1
<1>3. found \in Seq(EndpointDescriptor)
  BY <1>0, <1>2, SubSeqProperties
<1>4. Len(found) = n /\ \A e \in 1..n : found[e] = list[e]
  BY <1>0, <1>1, <1>2, SubSeqProperties
<1>5. \A e \in 1..n : found[e].number \in 1..15
  <2>1. \A e \in 1..n : list[e].number \in 1..15
    BY <1>2 DEF EndpointDescriptor
  <2> QED
    BY <1>4, <2>1
<1>6. DOMAIN found = 1..n
  BY <1>3, <1>4
<1> QED
  BY <1>0, <1>3, <1>4, <1>5, <1>6

\* What the device makes of these endpoints.
LEMMA EndpointsTaken ==
  ASSUME NEW found \in Seq(EndpointDescriptor)
  PROVE  /\ EpConfigsOf(found) \in Seq(EpConfigs) /\ DOMAIN EpConfigsOf(found) = DOMAIN found
         /\ \A e \in DOMAIN found :
              /\ EpConfigsOf(found)[e].ep_id.number = found[e].number
              /\ found[e].interrupt /\ found[e].in => IsInterruptIn(EpConfigsOf(found)[e])
<1>0. PICK configs : configs = EpConfigsOf(found)
  OBVIOUS
<1>1. DOMAIN found = 1..Len(found) /\ Len(found) \in Nat
  OBVIOUS
<1>2. \A e \in DOMAIN found : found[e] \in EndpointDescriptor
  OBVIOUS
<1>3. ASSUME NEW e \in DOMAIN found
      PROVE  /\ configs[e] \in EpConfigs /\ configs[e].ep_id.number = found[e].number
             /\ found[e].interrupt /\ found[e].in => IsInterruptIn(configs[e])
  <2>1. PICK desc \in EndpointDescriptor : desc = found[e]
    BY <1>2
  <2>2. configs[e] = [ep_id |-> [number |-> desc.number, in |-> desc.in], interrupt |-> desc.interrupt]
    BY <1>0, <2>1 DEF EpConfig, EpConfigsOf
  <2>3. desc.number \in Nat /\ desc.in \in BOOLEAN /\ desc.interrupt \in BOOLEAN
    BY DEF EndpointDescriptor
  <2>4. PICK id \in EndpointID : id = [number |-> desc.number, in |-> desc.in]
    BY <2>3 DEF EndpointID
  <2>5. configs[e] = [ep_id |-> id, interrupt |-> desc.interrupt]
    BY <2>2, <2>4
  <2>6. configs[e] \in EpConfigs /\ configs[e].ep_id = id /\ configs[e].interrupt = desc.interrupt
    BY <2>3, <2>5 DEF EpConfigs
  <2>7. id.number = desc.number /\ id.in = desc.in
    BY <2>4
  <2> QED
    BY <2>1, <2>6, <2>7 DEF IsInterruptIn
<1>4. configs \in [1..Len(found) -> EpConfigs]
  BY <1>0, <1>1, <1>3 DEF EpConfigsOf
<1>5. configs \in Seq(EpConfigs)
  BY <1>1, <1>4
<1>6. DOMAIN configs = DOMAIN found
  BY <1>0 DEF EpConfigsOf
<1> QED
  BY <1>0, <1>3, <1>5, <1>6

\* A driver's endpoints fit, and there is one to read from.
DriverFound(configs, drivers) ==
  /\ configs \in Seq(EpConfigs) /\ Len(configs) <= EpConfigEntries
  /\ \E e \in DOMAIN configs : IsInterruptIn(configs[e])
  /\ \A e \in DOMAIN configs : configs[e].ep_id.number \in drivers
  /\ IsFiniteSet(drivers) /\ drivers \subseteq Nat \ {0}
  /\ 2 * Cardinality(drivers) <= RingSize - 2
  /\ Cardinality(drivers) <= SetupEntries

\* What a valid configuration has for the driver that is found.
LEMMA DriverIsFound ==
  ASSUME NEW conf \in Configurations, FirstInterface(conf) # 0
  PROVE  /\ conf[FirstInterface(conf)].protocol \in {"keyboard", "mouse"}
         /\ DriverFound(EpConfigsOf(FoundIn(conf)), NumbersOf(FoundIn(conf)))
<1>0. PICK first, found, configs, drivers :
        /\ first = FirstInterface(conf) /\ found = FoundIn(conf)
        /\ configs = EpConfigsOf(found) /\ drivers = NumbersOf(found)
  OBVIOUS
<1>1. PICK n, list : n = conf[first].num_endpoints /\ list = EndpointsBehind(conf, first)
  OBVIOUS
<1>2. /\ conf[first].protocol \in {"keyboard", "mouse"} /\ n \in Nat
      /\ list \in Seq(EndpointDescriptor) /\ n <= Len(list) /\ n <= EpConfigEntries
      /\ \E e \in 1..n : list[e].interrupt /\ list[e].in
      /\ 2 * Cardinality(Numbers(list, n)) <= RingSize - 2
      /\ Cardinality(Numbers(list, n)) <= SetupEntries
  BY <1>0, <1>1, InterfaceFound
<1>3. /\ found \in Seq(EndpointDescriptor) /\ DOMAIN found = 1..n
      /\ \A e \in 1..n : found[e] = list[e]
      /\ \A e \in 1..n : found[e].number \in 1..15
  <2>1. found = UpTo(list, n)
    BY <1>0, <1>1 DEF FoundIn
  <2>2. PICK endpoints \in Seq(EndpointDescriptor), m \in Nat :
          endpoints = list /\ m = n /\ m <= Len(endpoints) /\ found = UpTo(endpoints, m)
    BY <1>2, <2>1
  <2>3. /\ found \in Seq(EndpointDescriptor) /\ DOMAIN found = 1..m
        /\ \A e \in 1..m : found[e] = endpoints[e]
        /\ \A e \in 1..m : found[e].number \in 1..15
    BY <2>2, EndpointsFound
  <2> QED
    BY <2>2, <2>3
<1>4. /\ configs \in Seq(EpConfigs) /\ DOMAIN configs = DOMAIN found
      /\ \A e \in DOMAIN found :
           /\ configs[e].ep_id.number = found[e].number
           /\ found[e].interrupt /\ found[e].in => IsInterruptIn(configs[e])
  BY <1>0, <1>3, EndpointsTaken
<1>5. drivers = Numbers(list, n) /\ drivers = {found[e].number : e \in DOMAIN found}
  <2>1. NumbersOf(found) = Numbers(list, n)
    BY <1>3 DEF Numbers, NumbersOf
  <2> QED
    BY <1>0, <2>1 DEF NumbersOf
<1>6. drivers \subseteq 1..15
  <2> SUFFICES ASSUME NEW e \in DOMAIN found PROVE found[e].number \in 1..15
    BY <1>5
  <2> QED
    BY <1>3, <1>5
<1>7. IsFiniteSet(drivers) /\ drivers \subseteq Nat \ {0}
  BY <1>6, NumbersAreFinite
<1>8. \E e \in DOMAIN configs : IsInterruptIn(configs[e])
  <2>1. PICK e \in 1..n : list[e].interrupt /\ list[e].in
    BY <1>2
  <2>2. e \in DOMAIN found /\ found[e].interrupt /\ found[e].in
    BY <1>3, <2>1
  <2> QED
    BY <1>4, <2>2
<1>9. \A e \in DOMAIN configs : configs[e].ep_id.number \in drivers
  <2> SUFFICES ASSUME NEW e \in DOMAIN configs PROVE configs[e].ep_id.number \in drivers
    OBVIOUS
  <2>1. e \in DOMAIN found /\ configs[e].ep_id.number = found[e].number
    BY <1>4
  <2> QED
    BY <1>5, <2>1
<1>10. Len(configs) <= EpConfigEntries
  <2>1. PICK size \in Nat, m \in Nat, most \in Nat :
          size = Len(configs) /\ m = n /\ most = EpConfigEntries /\ m <= most
    BY <1>2, <1>4, TablesAssumption
  <2>2. 1..size = 1..m
    BY <1>3, <1>4, <2>1
  <2>3. size <= m
    BY <2>2
  <2> QED
    BY <2>1, <2>3
<1> QED
  BY <1>0, <1>2, <1>4, <1>5, <1>7, <1>8, <1>9, <1>10 DEF DriverFound

\* The descriptors give the class driver and its endpoints.
LEMMA InitializePhase2Step ==
  ASSUME UsbInv, NEW c \in ControlType, NEW request \in Request, Taken(c, request),
         ~is_initialized, InitializePhase2(c)
  PROVE  UsbInv'
<1>1. /\ TypeOK /\ RequestsMatch /\ Stages /\ DriverFits /\ Reading /\ ObserversToldRight
      /\ FlowTypes /\ DriverTypes /\ ControlTypes /\ ReportTypes
  BY TypeParts DEF UsbInv
<1>2. UNCHANGED <<port_config_phase, is_initialized, transfer_rings, interrupt_ins>>
  BY DEF InitializePhase2
<1>3. /\ events' \in Seq(Event)
      /\ UNCHANGED <<config, buf, hid_buf, device, sent, told>>
  BY DEF Taken
<1>4. PICK first : first = FirstInterface(config)
  OBVIOUS
<1>5. CASE first = 0
  <2>1. control' = c /\ UNCHANGED <<driver, initialize_phase>>
    BY <1>4, <1>5, Zenon DEF InitializePhase2, FirstInterface
  <2>2. UNCHANGED phases
    BY <1>2, <2>1 DEF phases
  <2> QED
    BY <1>2, <2>1, <2>2, AnswerIgnoredStep
<1>6. CASE first # 0
  <2>1. PICK found : found = FoundIn(config)
    OBVIOUS
  <2>2. /\ hid' = [hid EXCEPT !.kind = config[first].protocol]
        /\ ep_configs' = EpConfigsOf(found)
        /\ class_drivers' = NumbersOf(found)
        /\ initialize_phase' = 3
        /\ control' = ControlTransfer(c, "SetConfiguration", FALSE, FALSE)
    BY <1>4, <1>6, <2>1, Zenon DEF InitializePhase2, FirstInterface, EpConfigsOf, NumbersOf, FoundIn, UpTo
  <2>3. config \in Configurations
    BY <1>1 DEF FlowTypes
  <2>4. /\ config[first].protocol \in {"keyboard", "mouse"}
        /\ DriverFound(ep_configs', class_drivers')
    <3>1. PICK conf \in Configurations : conf = config
      BY <2>3
    <3>2. /\ conf[FirstInterface(conf)].protocol \in {"keyboard", "mouse"}
          /\ DriverFound(EpConfigsOf(FoundIn(conf)), NumbersOf(FoundIn(conf)))
      BY <1>4, <1>6, <3>1, DriverIsFound
    <3> QED
      BY <1>4, <2>1, <2>2, <3>1, <3>2
  <2>5. port_config_phase = "kInitializingDevice" /\ hid.phase = 0
    BY <1>1 DEF Taken, Stages, Reading
  <2>6. /\ hid' \in HidType /\ hid'.kind # "none" /\ hid'.phase = hid.phase
        /\ hid'.previous = hid.previous
    BY <1>1, <2>2, <2>4 DEF DriverTypes, HidType
  <2>7. PICK next \in Request, n \in {2, 3} : next = "SetConfiguration" /\ n = 2
    BY DEF Request
  <2>8. /\ control' \in ControlType /\ control'.event_waiters = c.event_waiters
        /\ Requested(c, next, n, control')
    BY <2>2, <2>7, NoDataRequested
  <2>9. ControlTypes' /\ RequestsMatch' /\ OneAtATime'
    <3>1. Behind(initialize_phase') = n - 2 /\ next # "SetProtocol"
      BY <2>2, <2>7 DEF Behind
    <3> QED
      BY <2>5, <2>7, <2>8, <3>1, NextRequest
  <2>10. initialize_phase' \in 0..4
    BY <2>2
  <2>11. DriverTypes'
    BY <1>1, <1>2, <2>4, <2>6 DEF DriverTypes, EpConfigs, DriverFound
  <2>12. TypeOK'
    BY <1>1, <1>2, <1>3, <2>9, <2>10, <2>11, TypeParts DEF FlowTypes, ReportTypes
  <2>13. Stages'
    BY <1>1, <1>2, <2>2, <2>5, <2>9 DEF Stages
  <2>14. DriverFits'
    BY <1>2, <2>4, <2>6 DEF DriverFits, DriverFound
  <2>15. Reading'
    BY <1>2, <2>6, AnswerKeepsReading
  <2>16. ObserversToldRight'
    <3>1. DOMAIN told' = {}
      BY <1>1, <1>3, <2>5 DEF Reading
    <3> QED
      BY <3>1 DEF ObserversToldRight
  <2> QED
    BY <2>9, <2>12, <2>13, <2>14, <2>15, <2>16 DEF UsbInv
<1> QED
  BY <1>5, <1>6

\* SetEndpoint of the class driver keeps the last of its endpoints.
LEMMA LastEndpoint ==
  ASSUME NEW configs \in Seq(EpConfigs), \E e \in DOMAIN configs : IsInterruptIn(configs[e]),
         NEW last, last = LastInterruptIn(configs)
  PROVE  last \in DOMAIN configs
<1>1. PICK places : places = {i \in 1..Len(configs) : IsInterruptIn(configs[i])}
  OBVIOUS
<1>2. last = IF places # {} THEN Max(places) ELSE 0
  BY <1>1 DEF LastInterruptIn, SelectLastInSeq
<1>3. Len(configs) \in Nat /\ DOMAIN configs = 1..Len(configs)
  OBVIOUS
<1>4. places \subseteq 1..Len(configs) /\ places # {}
  BY <1>1, <1>3
<1>5. Max(places) \in places
  BY <1>3, <1>4, MaxIsGreatest
<1> QED
  BY <1>2, <1>3, <1>4, <1>5

\* The device is configured and initialized, and its endpoints are to be.
LEMMA InitializePhase3Step ==
  ASSUME UsbInv, NEW c \in ControlType, NEW request \in Request, Taken(c, request),
         ~is_initialized, initialize_phase = 3, request = "SetConfiguration", InitializePhase3(c)
  PROVE  UsbInv'
<1>1. /\ TypeOK /\ RequestsMatch /\ Stages /\ DriverFits /\ Reading /\ ObserversToldRight
      /\ FlowTypes /\ DriverTypes /\ ControlTypes /\ ReportTypes
  BY TypeParts DEF UsbInv
<1>2. /\ events' \in Seq(Event) /\ Done(device, request) /\ c.ring = control.ring
      /\ UNCHANGED <<config, buf, hid_buf, device, sent, told>>
  BY DEF Taken
<1>3. port_config_phase = "kInitializingDevice" /\ Idle(c, events') /\ hid.phase = 0
  BY <1>1 DEF Taken, Stages, Reading
<1>4. /\ hid' = [hid EXCEPT !.in = ep_configs[LastInterruptIn(ep_configs)].ep_id]
      /\ initialize_phase' = 4
      /\ is_initialized' = TRUE
      /\ \/ /\ transfer_rings' = {ep_configs[e].ep_id : e \in DOMAIN ep_configs}
            /\ port_config_phase' = "kConfiguringEndpoints"
         \/ transfer_rings' = transfer_rings /\ port_config_phase' = "kInitializingDevice"
      /\ control' = c
      /\ UNCHANGED <<ep_configs, class_drivers, interrupt_ins>>
  BY <1>3, Zenon DEF InitializePhase3, ConfigureEndpoints, LastInterruptIn
<1>5. PICK last \in DOMAIN ep_configs : last = LastInterruptIn(ep_configs)
  <2>1. PICK configs \in Seq(EpConfigs) : configs = ep_configs
    BY <1>1 DEF DriverTypes, EpConfigs
  <2>2. \E e \in DOMAIN configs : IsInterruptIn(configs[e])
    BY <1>1, <2>1 DEF DriverFits
  <2> QED
    BY <2>1, <2>2, LastEndpoint
<1>6. \A e \in DOMAIN ep_configs : ep_configs[e].ep_id \in EndpointID
  <2>1. PICK configs \in Seq(EpConfigs) : configs = ep_configs
    BY <1>1 DEF DriverTypes, EpConfigs
  <2>2. \A e \in DOMAIN configs : configs[e] \in EpConfigs
    OBVIOUS
  <2> QED
    BY <2>1, <2>2 DEF EpConfigs
<1>7. /\ hid' \in HidType /\ hid'.kind = hid.kind /\ hid'.phase = hid.phase
      /\ hid'.previous = hid.previous /\ hid'.in = ep_configs[last].ep_id
  <2>1. hid' = [hid EXCEPT !.in = ep_configs[last].ep_id] /\ hid \in HidType
    BY <1>1, <1>4, <1>5 DEF DriverTypes
  <2>2. ep_configs[last].ep_id \in EndpointID
    BY <1>6
  <2> QED
    BY <2>1, <2>2 DEF HidType
<1>8. hid'.in.number \in class_drivers
  BY <1>1, <1>7 DEF DriverFits
<1>9. device.configured
  BY <1>2 DEF Done
<1>10. transfer_rings' \subseteq EndpointID
  BY <1>1, <1>4, <1>6 DEF DriverTypes
<1>11. c.ring = <<>> /\ c.setup_stage_map = <<>> /\ PostedIn(events') = {}
  <2>1. Len(c.ring) <= 0 /\ c.ring \in Seq(TRB)
    BY <1>3 DEF Idle, Behind, ControlType
  <2> QED
    BY <1>3, <2>1 DEF Idle
<1>12. ControlTypes' /\ RequestsMatch'
  <2>1. /\ c.event_waiters = control.event_waiters
        /\ Matched(c.ring, c.setup_stage_map, events', device)
        /\ Len(c.setup_stage_map) <= SetupEntries
        /\ \A e \in DOMAIN c.setup_stage_map :
             c.setup_stage_map[e].request = "SetProtocol" => "SetProtocol" \in ToSet(c.event_waiters)
    BY DEF Taken
  <2>2. ControlTypes'
    BY <1>1, <1>4, <2>1 DEF ControlTypes
  <2> QED
    BY <1>1, <1>2, <1>4, <2>1, <2>2 DEF RequestsMatch
<1>13. initialize_phase' \in 0..4
  BY <1>4
<1>14. is_initialized' \in BOOLEAN
  BY <1>4, Zenon
<1>15. FlowTypes'
  BY <1>1, <1>2, <1>4, <1>13, <1>14 DEF FlowTypes
<1>16. TypeOK'
  BY <1>1, <1>2, <1>4, <1>7, <1>10, <1>12, <1>15, TypeParts DEF DriverTypes, ReportTypes
<1>17. Stages'
  <2>1. Posted' = {}
    BY <1>11 DEF Posted, PostedIn, Completes
  <2>2. Unasked'
    BY <1>4, <1>11, <2>1 DEF Unasked
  <2> QED
    BY <1>4, <2>2 DEF Stages
<1>18. DriverFits'
  <2>1. /\ hid.kind # "none"
        /\ \E e \in DOMAIN ep_configs : IsInterruptIn(ep_configs[e])
        /\ \A e \in DOMAIN ep_configs : ep_configs[e].ep_id.number \in class_drivers
        /\ IsFiniteSet(class_drivers) /\ 2 * Cardinality(class_drivers) <= RingSize - 2
        /\ Cardinality(class_drivers) <= SetupEntries
    BY <1>1 DEF DriverFits
  <2>2. ep_configs' = ep_configs /\ class_drivers' = class_drivers /\ initialize_phase' = 4
        /\ device' = device
    BY <1>2, <1>4
  <2>3. hid'.kind # "none" /\ hid'.in.number \in class_drivers' /\ device'.configured
    BY <1>7, <1>8, <1>9, <2>1, <2>2
  <2> QED
    BY <2>1, <2>2, <2>3, Zenon DEF DriverFits
<1>19. Reading'
  BY <1>3, <1>4, <1>7, AnswerKeepsReading
<1>20. ObserversToldRight'
  BY <1>1, <1>2, <1>7 DEF ObserversToldRight, KeysBefore, HeadBefore
<1> QED
  BY <1>12, <1>16, <1>17, <1>18, <1>19, <1>20 DEF UsbInv

-----------------------------------------------------------------------------
(* The invariant holds always.                                             *)

\* Whatever request has been completed, the handler keeps the invariant.
LEMMA OnControlEventStep ==
  ASSUME UsbInv, OnControlEvent
  PROVE  UsbInv'
<1>1. PICK c \in ControlType, request \in Request : Taken(c, request)
  BY AnswerTaken
<1>2. OnControlCompleted(request, c)
  BY <1>1 DEF Taken
<1>3. CASE is_initialized
  <2>1. /\ IF request \in ToSet(c.event_waiters)
             THEN HIDControlCompleted
             ELSE UNCHANGED <<hid, interrupt_ins>>
        /\ control' = c
        /\ UNCHANGED <<phases, ep_configs, class_drivers, transfer_rings>>
    BY <1>2, <1>3 DEF OnControlCompleted
  <2>2. CASE request \in ToSet(c.event_waiters) /\ hid.phase = 1
    BY <1>1, <1>3, <2>1, <2>2, AnswerToDriverStep
  <2>3. CASE ~(request \in ToSet(c.event_waiters) /\ hid.phase = 1)
    <3>1. UNCHANGED <<hid, interrupt_ins>>
      BY <2>1, <2>3 DEF HIDControlCompleted
    <3>2. UNCHANGED driver
      BY <2>1, <3>1 DEF driver
    <3> QED
      BY <1>1, <2>1, <3>1, <3>2, AnswerIgnoredStep
  <2> QED
    BY <2>2, <2>3
<1>4. CASE ~is_initialized
  <2>1. \/ InitializePhase1(c)
        \/ InitializePhase2(c)
        \/ initialize_phase = 3 /\ request = "SetConfiguration" /\ InitializePhase3(c)
        \/ control' = c /\ UNCHANGED <<phases, driver, transfer_rings, interrupt_ins>>
    BY <1>2, <1>4 DEF OnControlCompleted
  <2>2. CASE InitializePhase1(c)
    <3>1. UNCHANGED told
      BY <1>1 DEF Taken
    <3> QED
      BY <1>1, <1>4, <2>2, <3>1, InitializePhase1Step
  <2>3. CASE InitializePhase2(c)
    BY <1>1, <1>4, <2>3, InitializePhase2Step
  <2>4. CASE initialize_phase = 3 /\ request = "SetConfiguration" /\ InitializePhase3(c)
    BY <1>1, <1>4, <2>4, InitializePhase3Step
  <2>5. CASE control' = c /\ UNCHANGED <<phases, driver, transfer_rings, interrupt_ins>>
    BY <1>1, <2>5, AnswerIgnoredStep
  <2> QED
    BY <2>1, <2>2, <2>3, <2>4, <2>5
<1> QED
  BY <1>3, <1>4

\* The invariant holds at first.
LEMMA UsbInit == Init => UsbInv
<1> SUFFICES ASSUME Init PROVE UsbInv
  OBVIOUS
<1>1. /\ config \in Configurations
      /\ port_config_phase = "kAddressingDevice"
      /\ initialize_phase = 0 /\ is_initialized = FALSE /\ buf = "none"
      /\ ep_configs = <<>> /\ class_drivers = {}
      /\ control = [ring |-> <<>>, write_index |-> 0, setup_stage_map |-> <<>>, event_waiters |-> <<>>]
      /\ hid = [kind |-> "none", phase |-> 0, in |-> NoEndpoint, previous |-> NoReport]
      /\ hid_buf = NoReport /\ transfer_rings = {} /\ interrupt_ins = 0 /\ events = <<>>
      /\ device = [configured |-> FALSE, boot |-> FALSE, endpoints |-> FALSE, halted |-> {},
                   plugged |-> TRUE]
      /\ sent = <<>> /\ told = <<>>
  BY DEF Init
<1>2. 0 \in Places /\ RingSize - 2 \in Nat /\ SetupEntries \in Nat /\ WaiterEntries \in Nat
  BY TablesAssumption DEF Places
<1>3. control \in ControlType
  BY <1>1, <1>2 DEF ControlType
<1>4. /\ control.ring = <<>> /\ control.setup_stage_map = <<>> /\ control.event_waiters = <<>>
      /\ hid.phase = 0 /\ hid.previous = NoReport
  BY <1>1
<1>5. NoReport \in Report /\ NoEndpoint \in EndpointID
  BY TablesAssumption DEF NoReport, NoEndpoint, Report, EndpointID
<1>6. hid \in HidType
  BY <1>1, <1>5 DEF HidType
<1>7. device \in DeviceType
  BY <1>1 DEF DeviceType
<1>8. FlowTypes
  <2>1. initialize_phase \in 0..4
    BY <1>1
  <2>2. is_initialized \in BOOLEAN
    BY <1>1, Zenon
  <2> QED
    BY <1>1, <2>1, <2>2 DEF FlowTypes
<1>9. TypeOK
  <2>1. DriverTypes
    <3>1. Len(ep_configs) <= EpConfigEntries
      BY <1>1, TablesAssumption
    <3> QED
      BY <1>1, <1>6, <3>1 DEF DriverTypes
  <2>2. ControlTypes
    BY <1>2, <1>3, <1>4 DEF ControlTypes
  <2>3. ReportTypes
    BY <1>1, <1>5, <1>7 DEF ReportTypes
  <2> QED
    BY <1>8, <2>1, <2>2, <2>3, TypeParts
<1>10. RequestsMatch
  <2>1. PostedIn(events) = {} /\ DueOn(control.ring) = {}
    BY <1>1, <1>4, NothingIn
  <2>2. Matched(control.ring, control.setup_stage_map, events, device)
    BY <2>1 DEF Matched
  <2>3. ToSet(control.event_waiters) = {}
    BY <1>4 DEF ToSet
  <2>4. DOMAIN control.setup_stage_map = {} /\ Len(control.ring) = 0
    BY <1>4
  <2> QED
    BY <1>2, <2>2, <2>3, <2>4 DEF RequestsMatch
<1>11. Stages
  BY <1>1, <1>4 DEF Stages
<1>12. DriverFits
  <2>1. IsFiniteSet({}) /\ Cardinality({}) = 0
    BY FS_EmptySet
  <2> QED
    BY <1>1, <1>2, <2>1 DEF DriverFits
<1>13. Reading
  <2>1. ReadingsIn(events) = {} /\ ~HasReport(events)
    BY <1>1, NothingIn
  <2> QED
    BY <1>1, <1>4, <2>1 DEF Reading
<1>14. ObserversToldRight
  BY <1>1 DEF ObserversToldRight
<1> QED
  BY <1>9, <1>10, <1>11, <1>12, <1>13, <1>14 DEF UsbInv

\* Every step keeps the invariant.
LEMMA UsbStep == UsbInv /\ [Next]_vars => UsbInv'
<1> SUFFICES ASSUME UsbInv, [Next]_vars PROVE UsbInv'
  OBVIOUS
<1>1. CASE InitializeDevice
  BY <1>1, InitializeDeviceStep
<1>2. CASE OnTransferFailed
  BY <1>2, OnTransferFailedStep
<1>3. CASE OnControlEvent
  BY <1>3, OnControlEventStep
<1>4. CASE OnInterruptEvent
  BY <1>4, OnInterruptEventStep
<1>5. CASE OnConfigureEndpointCompleted
  BY <1>5, OnConfigureEndpointCompletedStep
<1>6. CASE ControlStage
  BY <1>6, ControlStageStep
<1>7. CASE FailControlStage
  BY <1>7, FailControlStageStep
<1>8. CASE ExecuteConfigureEndpoint
  BY <1>8, ExecuteConfigureEndpointStep
<1>9. CASE SendReport
  BY <1>9, SendReportStep
<1>10. CASE FailInterruptIn
  BY <1>10, FailInterruptInStep
<1>11. CASE PullOut
  BY <1>11, PullOutStep
<1>12. CASE UNCHANGED vars
  <2>1. /\ TypeOK /\ RequestsMatch /\ Stages /\ DriverFits /\ Reading /\ ObserversToldRight
        /\ FlowTypes /\ DriverTypes /\ ControlTypes /\ ReportTypes
    BY TypeParts DEF UsbInv
  <2>2. UNCHANGED <<config, port_config_phase, initialize_phase, is_initialized, buf, ep_configs,
                    class_drivers, hid, control, hid_buf, transfer_rings, interrupt_ins, events,
                    device, sent, told>>
    BY <1>12 DEF vars, phases, driver
  <2>3. TypeOK'
    BY <2>1, <2>2, TypeParts DEF FlowTypes, DriverTypes, ControlTypes, ReportTypes
  <2>4. RequestsMatch' /\ Stages'
    BY <2>1, <2>2 DEF RequestsMatch, Stages, Unasked, OneAtATime, Posted, Due
  <2>5. DriverFits' /\ Reading' /\ ObserversToldRight'
    BY <2>1, <2>2 DEF DriverFits, Reading, ObserversToldRight, KeysBefore, HeadBefore
  <2> QED
    BY <2>3, <2>4, <2>5 DEF UsbInv
<1> QED
  BY <1>1, <1>2, <1>3, <1>4, <1>5, <1>6, <1>7, <1>8, <1>9, <1>10, <1>11, <1>12
     DEF Next, ProcessEvent, Controller

\* The invariant holds always.
LEMMA UsbAlways == Spec => []UsbInv
BY UsbInit, UsbStep, PTL DEF Spec

-----------------------------------------------------------------------------
(* The theorems.                                                           *)

\* Every variable keeps its type and no table outgrows its size, whatever valid device
\* is initialized and whatever fails on the way.
THEOREM TypesAreKept == Spec => []TypeOK
<1>1. UsbInv => TypeOK
  BY DEF UsbInv
<1> QED
  BY <1>1, UsbAlways, PTL

\* Every completion of a control transfer finds the one setup stage that it belongs to,
\* and the class driver's finds its waiter: neither Put drops an entry that is needed, and
\* no TRB of a request is overwritten before it is executed.
THEOREM AnswersAreMatched == Spec => []AnswersFindTheirRequests
<1>1. UsbInv => AnswersFindTheirRequests
  <2> SUFFICES ASSUME UsbInv PROVE AnswersFindTheirRequests
    OBVIOUS
  <2>1. TypeOK /\ RequestsMatch
    BY DEF UsbInv
  <2>2. Posted = PostedIn(events) /\ Due = DueOn(control.ring)
    BY <2>1, Types
  <2>3. \A place : HasOneEntry(place) <=> OneEntry(control.setup_stage_map, place)
    BY DEF HasOneEntry, OneEntry
  <2>4. \A k \in Posted : /\ HasOneEntry(events[k].place)
                          /\ \A j \in Posted \ {k} : events[j].place # events[k].place
                          /\ \A j \in Due : control.ring[j].place # events[k].place
    BY <2>1, <2>2, <2>3 DEF RequestsMatch, Matched
  <2>5. \A k \in Due : /\ HasOneEntry(control.ring[k].place)
                       /\ \A j \in Due \ {k} : control.ring[j].place # control.ring[k].place
    BY <2>1, <2>2, <2>3 DEF RequestsMatch, Matched
  <2> QED
    BY <2>1, <2>4, <2>5 DEF AnswersFindTheirRequests, RequestsMatch
<1> QED
  BY <1>1, UsbAlways, PTL

\* Whoever reads a report reads it from a configured device in the boot protocol, although
\* nothing waits for the answer to SetProtocol but the phase of the class driver.
THEOREM OnlyBootReports == Spec => []ReportsAreBootReports
<1>1. UsbInv => ReportsAreBootReports
  <2> SUFFICES ASSUME UsbInv, interrupt_ins > 0
               PROVE  device.configured /\ device.boot /\ is_initialized
    BY DEF ReportsAreBootReports
  <2>1. hid.phase = 2 /\ port_config_phase = "kConfigured"
    BY DEF UsbInv, Reading
  <2> QED
    BY <2>1 DEF UsbInv, Reading, Stages, DriverFits
<1> QED
  BY <1>1, UsbAlways, PTL

\* The mouse's observers are told each report as it was sent, and the keyboard's of each
\* key once when it goes down, although the driver's buffer is the one the device writes to.
THEOREM ObserversAreToldRight == Spec => []ObserversToldRight
<1>1. UsbInv => ObserversToldRight
  BY DEF UsbInv
<1> QED
  BY <1>1, UsbAlways, PTL

\* A report reaches the observers before the next one can be sent: the interrupt transfer,
\* its event and the handler together are a queue with one place.
THEOREM OneReportAtATime == Spec => ReportsOneByOne
<1>1. Init => Reports!Init
  BY DEF Init, Reports!Init
<1>2. UsbInv /\ [Next]_vars => [Reports!Next]_<<Len(sent), Len(told), Len(told)>>
  <2> SUFFICES ASSUME UsbInv, [Next]_vars
               PROVE  [Reports!Next]_<<Len(sent), Len(told), Len(told)>>
    OBVIOUS
  <2>1. TypeOK /\ Reading /\ DriverTypes /\ ReportTypes
    BY TypeParts DEF UsbInv
  <2>2. PICK s \in Seq(Report), t \in Seq(Report) : s = sent /\ t = told
    BY <2>1 DEF ReportTypes
  <2>3. CASE SendReport
    <3>1. PICK report \in Report : sent' = Append(sent, report)
      BY <2>3 DEF SendReport
    <3>2. interrupt_ins > 0 /\ told' = told
      BY <2>3 DEF SendReport, CanReport
    <3>3. Len(sent) = Len(told)
      BY <2>1, <3>2 DEF Reading, HasReport
    <3>4. Len(sent') = Len(sent) + 1
      BY <2>2, <3>1, AppendFacts
    <3>5. Len(sent) - Len(told) < 1
      BY <2>2, <3>3
    <3> QED
      BY <3>2, <3>4, <3>5 DEF Reports!Next, Reports!Put
  <2>4. CASE OnInterruptEvent
    <3>1. /\ Handling("interrupt") /\ Head(events).ok
          /\ sent' = sent
          /\ told' = Append(told, News(hid_buf)) \/ told' = told
      BY <2>4 DEF OnInterruptEvent, Handling, Ignored
    <3>2. HasReport(events)
      <4>1. /\ Head(events) = events[1] /\ 1 \in DOMAIN events /\ Head(events).type = "interrupt"
        BY <2>1, <3>1, HeadFacts
      <4> QED
        BY <3>1, <4>1 DEF HasReport, ReadingsIn
    <3>3. Len(sent) = Len(told) + 1 /\ Len(told) \in Nat
      BY <2>1, <2>2, <3>2 DEF Reading
    <3>4. Len(told') = Len(told) + 1 \/ told' = told
      <4>1. told' = Append(told, News(hid_buf)) => Len(told') = Len(told) + 1
        BY <2>2
      <4> QED
        BY <3>1, <4>1
    <3>5. Len(told) < Len(sent)
      BY <3>3
    <3> QED
      BY <3>1, <3>4, <3>5 DEF Reports!Next, Reports!Get
  <2>5. CASE sent' = sent /\ told' = told
    BY <2>5
  <2>6. SendReport \/ OnInterruptEvent \/ (sent' = sent /\ told' = told)
    <3>1. CASE InitializeDevice \/ ControlStage \/ FailControlStage \/ ExecuteConfigureEndpoint
               \/ FailInterruptIn \/ PullOut
      BY <3>1 DEF InitializeDevice, ControlStage, FailControlStage, ExecuteConfigureEndpoint,
                  FailInterruptIn, PullOut
    <3>2. CASE OnTransferFailed \/ OnConfigureEndpointCompleted
      BY <3>2 DEF OnTransferFailed, OnConfigureEndpointCompleted, Handling, Ignored
    <3>3. CASE OnControlEvent
      <4>1. PICK c \in ControlType, request \in Request : Taken(c, request)
        BY <3>3, AnswerTaken
      <4> QED
        BY <4>1 DEF Taken
    <3>4. CASE UNCHANGED vars
      BY <3>4 DEF vars
    <3> QED
      BY <3>1, <3>2, <3>3, <3>4 DEF Next, ProcessEvent, Controller
  <2> QED
    BY <2>3, <2>4, <2>5, <2>6
<1> QED
  BY <1>1, <1>2, UsbAlways, PTL DEF Spec, ReportsOneByOne, Reports!Spec

=============================================================================
