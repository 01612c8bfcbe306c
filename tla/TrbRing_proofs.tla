--------------------------- MODULE TrbRing_proofs ---------------------------
(***************************************************************************)
(* Proofs about TrbRing, for every size of the ring, any number of TRBs    *)
(* and any number outstanding that leaves one entry free beside the link:  *)
(* it implements the queue of BoundedQueue.                                *)
(***************************************************************************)
EXTENDS TrbRing, TLAPS

\* Number, less one, of the TRB in entry 0 of the turn the driver is in.
TurnBegin == pushed - write_index

\* Entries but the link.
Usable == Size - 1

\* What the driver is doing fits what it has left to do and where it is.
AtWork ==
  /\ pc \in {"data", "control"} => left >= 1
  /\ pc \in {"idle", "doorbell"} => left = 0
  /\ pc \in {"link_data", "link_control"} <=> write_index = Usable

\* Before the driver's place the entries are those of this turn, beyond it
\* those of the turn before, or blank in the first turn. At its place the first
\* words may be new already, but the cycle bit is not.
EntriesInOrder ==
  /\ TurnBegin >= 0
  /\ \A i \in 0..(Usable - 1) : i < write_index =>
       /\ buf[i].cycle = cycle_bit
       /\ buf[i].type = "normal"
       /\ buf[i].number = TurnBegin + i + 1
  /\ \A i \in 0..(Usable - 1) : i >= write_index => buf[i].cycle # cycle_bit
  /\ \A i \in 0..(Usable - 1) : i > write_index /\ TurnBegin # 0 =>
       /\ buf[i].type = "normal"
       /\ buf[i].number = TurnBegin - Usable + i + 1
  /\ write_index < Usable /\ TurnBegin # 0 =>
       /\ buf[write_index].type = "normal"
       /\ pc # "control" => buf[write_index].number = TurnBegin - Usable + write_index + 1
  /\ pc = "control" => buf[write_index].number = pushed + 1

LinkInOrder ==
  /\ buf[Usable].cycle # cycle_bit
  /\ TurnBegin # 0 => pc \in {"link_data", "link_control"} \/ buf[Usable].type = "link"

\* The controller is in the same turn as the driver and not ahead of it, or in
\* the turn before and beyond it, perhaps still at the link.
PlacesMatch ==
  \/ /\ consumer_cycle = cycle_bit
     /\ consumed - read_index = TurnBegin
     /\ read_index <= write_index
  \/ /\ consumer_cycle # cycle_bit
     /\ consumed - read_index = TurnBegin - Usable
     /\ read_index > write_index
     /\ TurnBegin # 0

WithinLimits ==
  /\ pushed + left <= MaxPushes
  /\ pushed + left - consumed <= Outstanding

IInv ==
  /\ TypeOK
  /\ WithinLimits
  /\ AtWork
  /\ EntriesInOrder
  /\ LinkInOrder
  /\ PlacesMatch

\* The invariant holds of a ring just initialized.
LEMMA InitIInv == Init => IInv
<1> SUFFICES ASSUME Init PROVE IInv
  OBVIOUS
<1> USE RingAssumption DEF Init
<1>1. TypeOK
  <2>1. doorbell \in BOOLEAN /\ running \in BOOLEAN
    BY Zenon
  <2>2. \A i \in 0..(Size - 1) : buf[i] \in TRB
    BY DEF TRB
  <2>3. buf \in [0..(Size - 1) -> TRB]
    BY <2>2
  <2>4. QED
    BY <2>1, <2>3 DEF TypeOK
<1>2. AtWork /\ EntriesInOrder /\ LinkInOrder /\ PlacesMatch
  BY DEF AtWork, EntriesInOrder, LinkInOrder, PlacesMatch, TurnBegin, Usable
<1>3. WithinLimits
  BY DEF WithinLimits
<1>4. QED
  BY <1>1, <1>2, <1>3 DEF IInv

\* Where the two sides are, in numbers.
LEMMA Places ==
  ASSUME TypeOK
  PROVE  /\ Usable \in Nat /\ Usable >= 2 /\ Outstanding \in Nat /\ Outstanding < Usable
         /\ Size - 1 = Usable
         /\ write_index \in 0..Usable /\ read_index \in 0..Usable
         /\ cycle_bit \in 0..1 /\ consumer_cycle \in 0..1
         /\ pushed \in Nat /\ consumed \in Nat /\ left \in Nat
         /\ TurnBegin \in Int /\ pushed = TurnBegin + write_index
         /\ \A i \in 0..Usable : buf[i] \in TRB
<1>1. Size \in Nat /\ Outstanding \in Int /\ 1 <= Outstanding /\ Outstanding <= Size - 2
  BY RingAssumption
<1>2. /\ Usable \in Nat /\ Usable >= 2 /\ Outstanding \in Nat /\ Outstanding < Usable
      /\ Size - 1 = Usable
  BY <1>1 DEF Usable
<1>3. /\ write_index \in 0..Usable /\ read_index \in 0..Usable
      /\ \A i \in 0..Usable : buf[i] \in TRB
  BY <1>2 DEF TypeOK
<1>4. /\ cycle_bit \in 0..1 /\ consumer_cycle \in 0..1
      /\ consumed \in Nat
  BY DEF TypeOK
<1>5. pushed \in Nat /\ left \in Nat
  <2>1. MaxPushes \in Nat
    BY RingAssumption
  <2>2. pushed \in 0..MaxPushes /\ left \in 0..3
    BY DEF TypeOK
  <2>3. QED
    BY <2>1, <2>2
<1>6. TurnBegin \in Int /\ pushed = TurnBegin + write_index
  BY <1>2, <1>3, <1>5 DEF TurnBegin
<1>7. QED
  BY <1>2, <1>3, <1>4, <1>5, <1>6

\* An entry that the controller owns is the link, at the end of the ring, or the
\* next TRB to be consumed.
LEMMA OwnedIsNext ==
  ASSUME IInv, Owned
  PROVE  \/ /\ read_index = Usable /\ buf[read_index].type = "link"
            /\ consumer_cycle # cycle_bit
         \/ /\ read_index < Usable /\ buf[read_index].type = "normal"
            /\ consumed < pushed
            /\ buf[read_index].number = consumed + 1
            /\ consumer_cycle = cycle_bit => read_index < write_index
<1> USE Places DEF IInv
<1>1. /\ Usable \in Nat /\ Usable >= 2 /\ Outstanding \in Nat /\ Outstanding < Usable
      /\ write_index \in 0..Usable /\ read_index \in 0..Usable
      /\ cycle_bit \in 0..1 /\ consumer_cycle \in 0..1
      /\ pushed \in Nat /\ consumed \in Nat /\ left \in Nat
      /\ TurnBegin \in Int /\ pushed = TurnBegin + write_index
  OBVIOUS
<1>2. buf[read_index].cycle = consumer_cycle
  BY DEF Owned
<1>3. CASE consumer_cycle = cycle_bit
  <2>1. consumed - read_index = TurnBegin /\ read_index <= write_index
    BY <1>1, <1>3 DEF PlacesMatch
  <2>2. read_index # Usable
    BY <1>2, <1>3 DEF LinkInOrder
  <2>3. read_index \in 0..(Usable - 1)
    BY <1>1, <2>2
  <2>4. ~(read_index >= write_index)
    BY <1>2, <1>3, <2>3 DEF EntriesInOrder
  <2>5. buf[read_index].type = "normal" /\ buf[read_index].number = TurnBegin + read_index + 1
    BY <1>1, <2>3, <2>4 DEF EntriesInOrder
  <2>6. QED
    BY <1>1, <2>1, <2>3, <2>4, <2>5
<1>4. CASE consumer_cycle # cycle_bit
  <2>1. consumed - read_index = TurnBegin - Usable /\ read_index > write_index /\ TurnBegin # 0
    BY <1>1, <1>4 DEF PlacesMatch
  <2>2. CASE read_index = Usable
    <3>1. write_index # Usable
      BY <1>1, <2>1, <2>2
    <3>2. buf[Usable].type = "link"
      BY <2>1, <3>1 DEF LinkInOrder, AtWork
    <3>3. QED
      BY <1>4, <2>2, <3>2
  <2>3. CASE read_index # Usable
    <3>1. read_index \in 0..(Usable - 1)
      BY <1>1, <2>3
    <3>2. buf[read_index].type = "normal" /\ buf[read_index].number = TurnBegin - Usable + read_index + 1
      BY <2>1, <3>1 DEF EntriesInOrder
    <3>3. QED
      BY <1>1, <1>4, <2>1, <3>1, <3>2
  <2>4. QED
    BY <2>2, <2>3
<1>5. QED
  BY <1>3, <1>4

\* The order of the entries and of the link depends on the driver alone.
LEMMA ControllerKeepsOrder ==
  ASSUME IInv, UNCHANGED <<buf, producer>>
  PROVE  AtWork' /\ EntriesInOrder' /\ LinkInOrder'
BY DEF producer, IInv, AtWork, EntriesInOrder, LinkInOrder, TurnBegin, Usable

\* What does not touch the ring but goes on in the same place keeps the order.
LEMMA StayInPlace ==
  ASSUME IInv, UNCHANGED <<buf, cycle_bit, write_index, pushed, read_index, consumer_cycle, consumed>>,
         pc # "control", pc' # "control",
         pc \notin {"link_data", "link_control"}, pc' \notin {"link_data", "link_control"}
  PROVE  EntriesInOrder' /\ LinkInOrder' /\ PlacesMatch'
BY DEF IInv, AtWork, EntriesInOrder, LinkInOrder, PlacesMatch, TurnBegin, Usable

\* Starting a transfer keeps the invariant.
LEMMA StartTransferStep ==
  ASSUME IInv, NEW n \in 1..3, StartTransfer(n)
  PROVE  IInv'
<1> USE DEF StartTransfer, consumer
<1>1. EntriesInOrder' /\ LinkInOrder' /\ PlacesMatch'
  BY StayInPlace
<1>2. TypeOK'
  BY DEF IInv, TypeOK
<1>3. WithinLimits' /\ AtWork'
  BY RingAssumption DEF IInv, TypeOK, WithinLimits, AtWork, Usable
<1>4. QED
  BY <1>1, <1>2, <1>3 DEF IInv

\* Ringing the doorbell keeps the invariant.
LEMMA RingDoorbellStep ==
  ASSUME IInv, RingDoorbell
  PROVE  IInv'
<1> USE DEF RingDoorbell, consumer
<1>1. EntriesInOrder' /\ LinkInOrder' /\ PlacesMatch'
  BY StayInPlace
<1>2. doorbell' \in BOOLEAN
  BY Zenon
<1>3. TypeOK'
  BY <1>2 DEF IInv, TypeOK
<1>4. WithinLimits' /\ AtWork'
  BY DEF IInv, WithinLimits, AtWork, Usable
<1>5. QED
  BY <1>1, <1>3, <1>4 DEF IInv

\* Every step of the controller keeps the invariant.
LEMMA ControllerStep ==
  ASSUME IInv, Controller
  PROVE  IInv'
<1>1. UNCHANGED <<buf, producer>>
  BY DEF Controller, HearDoorbell, Consume, FollowLink, Rest
<1>2. AtWork' /\ EntriesInOrder' /\ LinkInOrder'
  BY <1>1, ControllerKeepsOrder
<1>3. TypeOK
  BY DEF IInv
<1>4. CASE HearDoorbell \/ Rest
  <2>1. doorbell' \in BOOLEAN /\ running' \in BOOLEAN
    BY <1>3, <1>4, Zenon DEF HearDoorbell, Rest, TypeOK
  <2>2. UNCHANGED <<read_index, consumer_cycle, consumed, last>>
    BY <1>4 DEF HearDoorbell, Rest
  <2>3. TypeOK'
    BY <1>1, <1>3, <2>1, <2>2 DEF TypeOK, producer
  <2>4. WithinLimits' /\ PlacesMatch'
    BY <1>1, <2>2 DEF IInv, WithinLimits, PlacesMatch, TurnBegin, producer
  <2>5. QED
    BY <1>2, <2>3, <2>4 DEF IInv
<1>5. CASE Consume
  <2> USE <1>5 DEF Consume
  <2>1. /\ read_index \in 0..(Usable - 1) /\ consumed < pushed /\ consumed \in Nat
        /\ consumer_cycle = cycle_bit => read_index < write_index
    BY <1>3, OwnedIsNext, Places
  <2>2. last' \in 0..MaxPushes
    BY <1>3, Places DEF TypeOK, TRB
  <2>3. read_index' \in 0..(Size - 1) /\ consumed' \in Nat
    BY <1>3, <2>1, Places
  <2>4. TypeOK'
    BY <1>1, <1>3, <2>2, <2>3 DEF TypeOK, producer
  <2>5. pushed \in Nat /\ left \in Nat /\ Outstanding \in Nat
    BY <1>3, Places
  <2>6. WithinLimits'
    BY <1>1, <2>1, <2>5 DEF IInv, WithinLimits, producer
  <2>7. TurnBegin \in Int /\ TurnBegin' = TurnBegin /\ Usable \in Nat /\ write_index \in 0..Usable
    BY <1>1, <1>3, Places DEF producer, TurnBegin
  <2>8. PlacesMatch'
    BY <1>1, <2>1, <2>7 DEF IInv, PlacesMatch, producer
  <2>9. QED
    BY <1>2, <2>4, <2>6, <2>8 DEF IInv
<1>6. CASE FollowLink
  <2> USE <1>6 DEF FollowLink
  <2>1. read_index = Usable /\ consumer_cycle # cycle_bit
    BY OwnedIsNext
  <2>2. /\ Usable \in Nat /\ write_index \in 0..Usable /\ Size - 1 = Usable
        /\ cycle_bit \in 0..1 /\ consumer_cycle \in 0..1
        /\ consumed \in Nat /\ TurnBegin \in Int /\ TurnBegin' = TurnBegin
    BY <1>1, <1>3, Places DEF producer, TurnBegin
  <2>3. TypeOK'
    <3>1. read_index' \in 0..(Size - 1) /\ consumer_cycle' \in 0..1
      BY <2>2
    <3>2. QED
      BY <1>1, <1>3, <3>1 DEF TypeOK, producer
  <2>4. WithinLimits'
    BY <1>1 DEF IInv, WithinLimits, producer
  <2>5. consumed - read_index = TurnBegin - Usable
    BY <2>1 DEF IInv, PlacesMatch
  <2>6. PlacesMatch'
    BY <1>1, <2>1, <2>2, <2>5 DEF PlacesMatch, producer
  <2>7. QED
    BY <1>2, <2>3, <2>4, <2>6 DEF IInv
<1>7. QED
  BY <1>4, <1>5, <1>6 DEF Controller

\* Writing the first words of an entry keeps the invariant.
LEMMA PushDataStep ==
  ASSUME IInv, PushData
  PROVE  IInv'
<1> USE DEF PushData, CopyData
<1>1. TypeOK
  BY DEF IInv
<1>2. left >= 1 /\ write_index \in 0..(Usable - 1)
  BY <1>1, Places DEF IInv, AtWork
<1>3. /\ \A i \in 0..Usable : i # write_index => buf'[i] = buf[i]
      /\ buf'[write_index] = [buf[write_index] EXCEPT !.number = pushed + 1]
      /\ buf[write_index] \in TRB
  BY <1>1, <1>2, Places DEF TypeOK
<1>4. /\ buf'[write_index].number = pushed + 1
      /\ buf'[write_index].type = buf[write_index].type
      /\ buf'[write_index].cycle = buf[write_index].cycle
  BY <1>3 DEF TRB
<1>5. pushed + 1 \in 0..MaxPushes
  BY <1>1, <1>2, Places, RingAssumption DEF IInv, WithinLimits
<1>6. TypeOK'
  <2>1. buf' \in [0..(Size - 1) -> TRB]
    BY <1>1, <1>5 DEF TypeOK, TRB
  <2>2. QED
    BY <1>1, <2>1 DEF TypeOK, consumer
<1>7. WithinLimits' /\ AtWork'
  BY <1>2 DEF IInv, WithinLimits, AtWork, consumer
<1>8. TurnBegin' = TurnBegin /\ Usable' = Usable
  BY DEF TurnBegin, Usable
<1>9. EntriesInOrder'
  BY <1>1, <1>2, <1>3, <1>4, <1>8, Places DEF IInv, EntriesInOrder
<1>10. LinkInOrder' /\ PlacesMatch'
  BY <1>1, <1>2, <1>3, <1>8, Places DEF IInv, LinkInOrder, PlacesMatch, consumer
<1>11. QED
  BY <1>6, <1>7, <1>9, <1>10 DEF IInv

\* The variables that are not flags.
Positions ==
  /\ buf \in [0..(Size - 1) -> TRB]
  /\ cycle_bit \in 0..1
  /\ write_index \in 0..(Size - 1)
  /\ pc \in {"idle", "data", "control", "link_data", "link_control", "doorbell"}
  /\ left \in 0..3
  /\ pushed \in 0..MaxPushes
  /\ read_index \in 0..(Size - 1)
  /\ consumer_cycle \in 0..1
  /\ consumed \in Nat
  /\ last \in 0..MaxPushes

\* TypeOK in two parts.
LEMMA TypeParts == TypeOK <=> Positions /\ doorbell \in BOOLEAN /\ running \in BOOLEAN
BY Zenon DEF TypeOK, Positions

\* Types, with the flags left alone.
LEMMA TypePartsKept ==
  ASSUME TypeOK, Positions', UNCHANGED <<doorbell, running>>
  PROVE  TypeOK'
BY Zenon DEF TypeOK, Positions

\* Writing the last word of an entry, which makes it the controller's, keeps
\* the invariant.
LEMMA PushControlStep ==
  ASSUME IInv, PushControl
  PROVE  IInv'
<1>1. Positions /\ WithinLimits /\ AtWork /\ EntriesInOrder /\ LinkInOrder /\ PlacesMatch
  BY TypeParts DEF IInv
<1>2. /\ Usable \in Nat /\ Usable >= 2 /\ Outstanding \in Nat /\ Outstanding < Usable
      /\ Size - 1 = Usable
      /\ write_index \in 0..Usable /\ read_index \in 0..Usable
      /\ cycle_bit \in 0..1 /\ consumer_cycle \in 0..1
      /\ pushed \in Nat /\ consumed \in Nat /\ left \in Nat
      /\ TurnBegin \in Int /\ pushed = TurnBegin + write_index
  BY Places DEF IInv
<1>3. /\ pc = "control"
      /\ pushed' = pushed + 1 /\ left' = left - 1 /\ write_index' = write_index + 1
      /\ cycle_bit' = cycle_bit /\ read_index' = read_index
      /\ consumer_cycle' = consumer_cycle /\ consumed' = consumed /\ last' = last
  BY DEF PushControl, consumer
<1>4. /\ pc' \in {"data", "link_data", "doorbell"}
      /\ pc' = "link_data" <=> write_index + 1 = Usable
      /\ pc' = "data" => left # 1
      /\ pc' = "doorbell" => left = 1
  BY <1>2 DEF PushControl, AfterPush
<1>5. left >= 1 /\ write_index # Usable
  BY <1>1, <1>3 DEF AtWork
<1>6. write_index \in 0..(Usable - 1) /\ write_index' \in 0..Usable /\ left' \in Nat
  BY <1>2, <1>3, <1>5
<1>7. /\ \A i \in 0..Usable : i # write_index => buf'[i] = buf[i]
      /\ buf'[write_index].number = buf[write_index].number
      /\ buf'[write_index].type = "normal"
      /\ buf'[write_index].cycle = cycle_bit
      /\ buf' \in [0..(Size - 1) -> TRB]
  <2>1. buf \in [0..Usable -> TRB]
    BY <1>1, <1>2 DEF Positions
  <2>2. buf' = [buf EXCEPT ![write_index].type = "normal", ![write_index].cycle = cycle_bit]
    BY DEF PushControl, CopyControl
  <2>3. QED
    BY <1>2, <2>1, <2>2 DEF TRB
<1>8. buf'[write_index].number = TurnBegin + write_index + 1
  BY <1>1, <1>2, <1>3, <1>7 DEF EntriesInOrder
<1>9. TurnBegin' = TurnBegin /\ Usable' = Usable
  BY <1>2, <1>3 DEF TurnBegin, Usable
<1>10. Positions'
  <2>1. pushed' \in 0..MaxPushes
    BY <1>1, <1>2, <1>3, <1>5, RingAssumption DEF WithinLimits
  <2>2. left' \in 0..3
    BY <1>1, <1>3, <1>6 DEF Positions
  <2>3. write_index' \in 0..(Size - 1)
    BY <1>2, <1>6
  <2>4. QED
    BY <1>1, <1>3, <1>4, <1>7, <2>1, <2>2, <2>3 DEF Positions
<1>11. WithinLimits'
  BY <1>1, <1>2, <1>3 DEF WithinLimits
<1>12. AtWork'
  BY <1>2, <1>3, <1>4, <1>5, <1>6, <1>9 DEF AtWork
<1>13. EntriesInOrder'
  <2>1. ASSUME NEW i \in 0..(Usable - 1), i < write_index + 1
        PROVE  /\ buf'[i].cycle = cycle_bit
               /\ buf'[i].type = "normal"
               /\ buf'[i].number = TurnBegin + i + 1
    <3>1. CASE i = write_index
      BY <1>7, <1>8, <3>1
    <3>2. CASE i # write_index
      <4>1. i < write_index /\ i \in 0..Usable
        BY <1>2, <2>1, <3>2
      <4>2. QED
        BY <1>1, <1>7, <3>2, <4>1 DEF EntriesInOrder
    <3>3. QED
      BY <3>1, <3>2
  <2>2. ASSUME NEW i \in 0..(Usable - 1), i >= write_index + 1
        PROVE  /\ buf'[i].cycle # cycle_bit
               /\ TurnBegin # 0 => /\ buf'[i].type = "normal"
                                   /\ buf'[i].number = TurnBegin - Usable + i + 1
    <3>1. i > write_index /\ i >= write_index /\ i # write_index /\ i \in 0..Usable
      BY <1>2, <2>2
    <3>2. QED
      BY <1>1, <1>7, <3>1 DEF EntriesInOrder
  <2>3. TurnBegin >= 0
    BY <1>1 DEF EntriesInOrder
  <2>4. write_index' < Usable => write_index' \in 0..(Usable - 1) /\ write_index' >= write_index + 1
    BY <1>2, <1>3, <1>6
  <2>5. \A i \in 0..(Usable - 1) : i > write_index' => i >= write_index + 1
    BY <1>2, <1>3
  <2>6. QED
    BY <1>3, <1>4, <1>9, <2>1, <2>2, <2>3, <2>4, <2>5 DEF EntriesInOrder
<1>14. LinkInOrder'
  <2>1. buf'[Usable] = buf[Usable]
    BY <1>2, <1>5, <1>7
  <2>2. QED
    BY <1>1, <1>3, <1>9, <2>1 DEF LinkInOrder
<1>15. PlacesMatch'
  <2>1. CASE consumer_cycle = cycle_bit
    BY <1>1, <1>2, <1>3, <1>9, <2>1 DEF PlacesMatch
  <2>2. CASE consumer_cycle # cycle_bit
    <3>1. consumed - read_index = TurnBegin - Usable /\ read_index > write_index /\ TurnBegin # 0
      BY <1>1, <2>2 DEF PlacesMatch
    <3>2. pushed + left - consumed <= Outstanding
      BY <1>1 DEF WithinLimits
    <3>3. read_index > write_index + 1
      BY <1>2, <1>5, <3>1, <3>2
    <3>4. QED
      BY <1>3, <1>9, <2>2, <3>1, <3>3 DEF PlacesMatch
  <2>3. QED
    BY <2>1, <2>2
<1>16. TypeOK'
  BY <1>10, TypePartsKept DEF PushControl, consumer, IInv
<1>17. QED
  BY <1>16, <1>11, <1>12, <1>13, <1>14, <1>15 DEF IInv

\* Writing the first words of the link keeps the invariant.
LEMMA LinkDataStep ==
  ASSUME IInv, LinkData
  PROVE  IInv'
<1>1. Positions /\ WithinLimits /\ AtWork /\ EntriesInOrder /\ LinkInOrder /\ PlacesMatch
  BY TypeParts DEF IInv
<1>2. Usable \in Nat /\ Usable >= 2 /\ Size - 1 = Usable
  BY Places DEF IInv
<1>3. /\ pc = "link_data" /\ pc' = "link_control"
      /\ cycle_bit' = cycle_bit /\ write_index' = write_index /\ left' = left
      /\ pushed' = pushed /\ read_index' = read_index
      /\ consumer_cycle' = consumer_cycle /\ consumed' = consumed /\ last' = last
  BY DEF LinkData, consumer
<1>4. write_index = Usable
  BY <1>1, <1>3 DEF AtWork
<1>5. /\ \A i \in 0..(Usable - 1) : buf'[i] = buf[i]
      /\ buf'[Usable].cycle = buf[Usable].cycle
      /\ buf' \in [0..(Size - 1) -> TRB]
  <2>1. buf \in [0..Usable -> TRB] /\ 0 \in 0..MaxPushes
    BY <1>1, <1>2, RingAssumption DEF Positions
  <2>2. buf' = [buf EXCEPT ![write_index].number = 0]
    BY DEF LinkData, CopyData
  <2>3. write_index \in 0..Usable /\ \A i \in 0..(Usable - 1) : i \in 0..Usable /\ i # write_index
    BY <1>2, <1>4
  <2>4. /\ \A i \in 0..Usable : i # write_index => buf'[i] = buf[i]
        /\ buf'[write_index].cycle = buf[write_index].cycle
        /\ buf' \in [0..Usable -> TRB]
    BY <2>1, <2>2, <2>3 DEF TRB
  <2>5. QED
    BY <1>2, <1>4, <2>3, <2>4
<1>6. Positions'
  BY <1>1, <1>3, <1>5 DEF Positions
<1>7. TurnBegin' = TurnBegin /\ Usable' = Usable
  BY <1>3 DEF TurnBegin, Usable
<1>8. WithinLimits' /\ AtWork'
  BY <1>1, <1>3, <1>7 DEF WithinLimits, AtWork
<1>9. EntriesInOrder'
  <2>1. \A i \in 0..(Usable - 1) : i < write_index /\ ~(i >= write_index) /\ ~(i > write_index)
    BY <1>2, <1>4
  <2>2. ~(write_index < Usable) /\ pc' # "control"
    BY <1>2, <1>3, <1>4
  <2>3. QED
    BY <1>1, <1>3, <1>5, <1>7, <2>1, <2>2 DEF EntriesInOrder
<1>10. LinkInOrder' /\ PlacesMatch'
  BY <1>1, <1>3, <1>5, <1>7 DEF LinkInOrder, PlacesMatch
<1>11. TypeOK'
  BY <1>6, TypePartsKept DEF LinkData, consumer, IInv
<1>12. QED
  BY <1>8, <1>9, <1>10, <1>11 DEF IInv

\* Writing the last word of the link, with which the next turn begins, keeps the
\* invariant.
LEMMA LinkControlStep ==
  ASSUME IInv, LinkControl
  PROVE  IInv'
<1>1. Positions /\ WithinLimits /\ AtWork /\ EntriesInOrder /\ LinkInOrder /\ PlacesMatch
  BY TypeParts DEF IInv
<1>2. /\ Usable \in Nat /\ Usable >= 2 /\ Outstanding \in Nat /\ Outstanding < Usable
      /\ Size - 1 = Usable
      /\ read_index \in 0..Usable
      /\ cycle_bit \in 0..1 /\ consumer_cycle \in 0..1
      /\ pushed \in Nat /\ consumed \in Nat /\ left \in Nat
      /\ TurnBegin \in Int /\ pushed = TurnBegin + write_index
  BY Places DEF IInv
<1>3. /\ pc = "link_control"
      /\ write_index' = 0 /\ cycle_bit' = 1 - cycle_bit
      /\ left' = left /\ pushed' = pushed /\ read_index' = read_index
      /\ consumer_cycle' = consumer_cycle /\ consumed' = consumed /\ last' = last
  BY DEF LinkControl, consumer
<1>4. write_index = Usable /\ pushed = TurnBegin + Usable
  BY <1>1, <1>2, <1>3 DEF AtWork
<1>5. /\ pc' \in {"data", "doorbell"}
      /\ pc' = "data" => left >= 1
      /\ pc' = "doorbell" => left = 0
  BY <1>2 DEF LinkControl, AfterPush
<1>6. /\ \A i \in 0..(Usable - 1) : buf'[i] = buf[i]
      /\ buf'[Usable].cycle = cycle_bit
      /\ buf'[Usable].type = "link"
      /\ buf' \in [0..(Size - 1) -> TRB]
  <2>1. buf \in [0..Usable -> TRB]
    BY <1>1, <1>2 DEF Positions
  <2>2. buf' = [buf EXCEPT ![write_index].type = "link", ![write_index].cycle = cycle_bit]
    BY DEF LinkControl, CopyControl
  <2>3. write_index \in 0..Usable /\ \A i \in 0..(Usable - 1) : i \in 0..Usable /\ i # write_index
    BY <1>2, <1>4
  <2>4. /\ \A i \in 0..Usable : i # write_index => buf'[i] = buf[i]
        /\ buf'[write_index].cycle = cycle_bit
        /\ buf'[write_index].type = "link"
        /\ buf' \in [0..Usable -> TRB]
    BY <1>2, <2>1, <2>2, <2>3 DEF TRB
  <2>5. QED
    BY <1>2, <1>4, <2>3, <2>4
<1>7. cycle_bit' \in 0..1 /\ cycle_bit' # cycle_bit
  BY <1>2, <1>3
<1>8. Positions'
  <2>1. write_index' \in 0..(Size - 1)
    BY <1>2, <1>3
  <2>2. QED
    BY <1>1, <1>3, <1>5, <1>6, <1>7, <2>1 DEF Positions
<1>9. Usable' = Usable /\ TurnBegin' = pushed
  BY <1>2, <1>3 DEF TurnBegin, Usable
<1>10. TurnBegin >= 0 /\ pushed >= Usable /\ pushed # 0 /\ pushed - Usable = TurnBegin
  BY <1>1, <1>2, <1>4 DEF EntriesInOrder
<1>11. WithinLimits' /\ AtWork'
  BY <1>1, <1>2, <1>3, <1>5, <1>9 DEF WithinLimits, AtWork
<1>12. EntriesInOrder'
  <2>1. ASSUME NEW i \in 0..(Usable - 1)
        PROVE  /\ buf'[i].cycle = cycle_bit
               /\ buf'[i].type = "normal"
               /\ buf'[i].number = TurnBegin + i + 1
    <3>1. i < write_index
      BY <1>2, <1>4
    <3>2. QED
      BY <1>1, <1>6, <3>1 DEF EntriesInOrder
  <2>2. \A i \in 0..(Usable - 1) :
          /\ buf'[i].cycle # cycle_bit'
          /\ buf'[i].type = "normal"
          /\ buf'[i].number = TurnBegin' - Usable + i + 1
    BY <1>2, <1>7, <1>9, <1>10, <2>1
  <2>3. 0 \in 0..(Usable - 1) /\ TurnBegin' >= 0 /\ \A i \in 0..(Usable - 1) : ~(i < 0)
    BY <1>2, <1>9, <1>10
  <2>4. QED
    BY <1>3, <1>5, <1>9, <2>2, <2>3 DEF EntriesInOrder
<1>13. LinkInOrder'
  BY <1>6, <1>7, <1>9 DEF LinkInOrder
<1>14. PlacesMatch'
  <2>1. CASE consumer_cycle = cycle_bit
    <3>1. consumed - read_index = TurnBegin
      BY <1>1, <2>1 DEF PlacesMatch
    <3>2. pushed + left - consumed <= Outstanding
      BY <1>1 DEF WithinLimits
    <3>3. read_index > 0
      BY <1>2, <1>4, <3>1, <3>2
    <3>4. QED
      BY <1>3, <1>7, <1>9, <1>10, <2>1, <3>1, <3>3 DEF PlacesMatch
  <2>2. CASE consumer_cycle # cycle_bit
    BY <1>1, <1>2, <1>4, <2>2 DEF PlacesMatch
  <2>3. QED
    BY <2>1, <2>2
<1>15. TypeOK'
  BY <1>8, TypePartsKept DEF LinkControl, consumer, IInv
<1>16. QED
  BY <1>11, <1>12, <1>13, <1>14, <1>15 DEF IInv

\* Every step of the driver and of the controller keeps the invariant.
LEMMA NextIInv == IInv /\ [Next]_vars => IInv'
<1>1. ASSUME IInv, UNCHANGED vars PROVE IInv'
  BY <1>1 DEF vars, producer, consumer, IInv, TypeOK, WithinLimits, AtWork, EntriesInOrder,
              LinkInOrder, PlacesMatch, TurnBegin, Usable
<1>2. QED
  BY <1>1, StartTransferStep, PushDataStep, PushControlStep, LinkDataStep, LinkControlStep,
     RingDoorbellStep, ControllerStep
  DEF Next, Push

\* Hence it always holds.
LEMMA Invariance == Spec => []IInv
BY InitIInv, NextIInv, PTL DEF Spec

\* Neither side leaves the ring, and the other variables keep their types.
THEOREM TypeCorrect == Spec => []TypeOK
<1>1. IInv => TypeOK
  BY DEF IInv
<1>2. QED
  BY <1>1, Invariance, PTL

\* Ring (ring.cpp:31-55) implements the bounded first-in first-out queue: the
\* controller takes every TRB once, whole and in order, over any number of turns,
\* as long as one entry beside the link stays free.
THEOREM ImplementsQueue == Spec => TrbsInOrder
<1>1. Init => Queue!Init
  BY DEF Init, Queue!Init
<1>2. IInv /\ [Next]_vars => [Queue!Next]_<<pushed, consumed, last>>
  <2> SUFFICES ASSUME IInv, [Next]_vars PROVE [Queue!Next]_<<pushed, consumed, last>>
    OBVIOUS
  <2>1. CASE PushControl
    <3>1. pushed \in Nat /\ consumed \in Nat /\ left \in Nat /\ Outstanding \in Nat
      BY Places DEF IInv
    <3>2. left >= 1 /\ pushed + left - consumed <= Outstanding
      BY <2>1 DEF PushControl, IInv, WithinLimits, AtWork
    <3>3. pushed - consumed < Outstanding
      BY <3>1, <3>2
    <3>4. QED
      BY <2>1, <3>3 DEF PushControl, consumer, Queue!Next, Queue!Put
  <2>2. CASE Consume
    <3>1. buf[read_index].number = consumed + 1 /\ consumed < pushed
      BY <2>2, OwnedIsNext DEF Consume
    <3>2. QED
      BY <2>2, <3>1 DEF Consume, producer, Queue!Next, Queue!Get
  <2>3. CASE HearDoorbell \/ FollowLink \/ Rest \/ UNCHANGED vars
    BY <2>3 DEF HearDoorbell, FollowLink, Rest, vars, producer, consumer
  <2>4. CASE PushData \/ LinkData \/ LinkControl \/ RingDoorbell
    BY <2>4 DEF PushData, LinkData, LinkControl, RingDoorbell, consumer
  <2>5. ASSUME NEW n \in 1..3, StartTransfer(n) PROVE UNCHANGED <<pushed, consumed, last>>
    BY <2>5 DEF StartTransfer, consumer
  <2>6. QED
    BY <2>1, <2>2, <2>3, <2>4, <2>5 DEF Next, Push, Controller
<1>3. QED
  BY <1>1, <1>2, Invariance, PTL DEF Spec, TrbsInOrder, Queue!Spec

=============================================================================
