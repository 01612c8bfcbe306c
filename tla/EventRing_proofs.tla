-------------------------- MODULE EventRing_proofs --------------------------
(***************************************************************************)
(* Proofs about EventRing, for every size of the ring and any number of    *)
(* events: it implements the queue of BoundedQueue.                        *)
(***************************************************************************)
EXTENDS EventRing, TLAPS

\* The event posted when the controller was last at entry 0 has this number,
\* plus one.
TurnBegin == posted - enqueue

\* Before the controller's place the entries are of this turn, from there on
\* they are of the turn before, or blank in the first turn.
EntriesInOrder ==
  /\ TurnBegin >= 0
  /\ \A i \in 0..(Size - 1) : i < enqueue =>
       buf[i].cycle = producer_cycle /\ buf[i].number = TurnBegin + i + 1
  /\ \A i \in 0..(Size - 1) : i >= enqueue =>
       /\ buf[i].cycle # producer_cycle
       /\ TurnBegin = 0 \/ buf[i].number = TurnBegin - Size + i + 1

Popped == IF pc = "pop" THEN handled - 1 ELSE handled

\* The driver is in the same turn as the controller and not ahead of it, or in
\* the turn before and beyond it.
PlacesMatch ==
  \/ cycle_bit = producer_cycle /\ Popped - erdp = TurnBegin /\ erdp <= enqueue
  \/ cycle_bit # producer_cycle /\ Popped - erdp = TurnBegin - Size /\ erdp > enqueue

IInv ==
  /\ TypeOK
  /\ EntriesInOrder
  /\ PlacesMatch
  /\ pc = "pop" => Popped \in 0..(posted - 1)

\* What the controller has posted and the driver has not popped is between the
\* two places.
LEMMA FrontIsNext ==
  ASSUME IInv
  PROVE  /\ HasFront <=> Popped < posted
         /\ HasFront => buf[erdp].number = Popped + 1
         /\ Popped <= posted
         /\ Successor(enqueue) # erdp => posted - Popped < Size - 1
<1> USE EventRingAssumption DEF IInv, TypeOK, PlacesMatch, TurnBegin, Popped
<1>1. buf[erdp].cycle \in 0..1
  BY DEF Entry
<1>2. CASE erdp < enqueue
  <2>1. buf[erdp].cycle = producer_cycle /\ buf[erdp].number = TurnBegin + erdp + 1
    BY <1>2 DEF EntriesInOrder
  <2>2. cycle_bit = producer_cycle /\ Popped - erdp = TurnBegin
    BY <1>2
  <2>3. QED
    BY <1>2, <2>1, <2>2 DEF HasFront, Successor
<1>3. CASE erdp >= enqueue
  <2>1. /\ buf[erdp].cycle = 1 - producer_cycle
        /\ TurnBegin = 0 \/ buf[erdp].number = TurnBegin - Size + erdp + 1
    BY <1>1, <1>3 DEF EntriesInOrder
  <2>2. CASE cycle_bit = producer_cycle
    BY <1>3, <2>1, <2>2 DEF HasFront, Successor
  <2>3. CASE cycle_bit # producer_cycle
    BY <1>3, <2>1, <2>3 DEF HasFront, Successor
  <2>4. QED
    BY <2>2, <2>3
<1>4. QED
  BY <1>2, <1>3

\* The invariant holds of a ring just initialized.
LEMMA InitIInv == Init => IInv
<1> SUFFICES ASSUME Init PROVE IInv
  OBVIOUS
<1> USE EventRingAssumption DEF Init
<1>1. TypeOK
  BY DEF TypeOK, Entry
<1>2. EntriesInOrder
  BY DEF EntriesInOrder, TurnBegin
<1>3. PlacesMatch /\ pc # "pop"
  BY DEF PlacesMatch, TurnBegin, Popped
<1>4. QED
  BY <1>1, <1>2, <1>3 DEF IInv

\* Posting an event, handling it and popping it keep the invariant.
LEMMA NextIInv == IInv /\ [Next]_vars => IInv'
<1> SUFFICES ASSUME IInv, [Next]_vars PROVE IInv'
  OBVIOUS
<1> USE EventRingAssumption
<1>1. CASE Post
  <2> USE <1>1 DEF Post, driver, IInv
  <2>1. TypeOK'
    BY DEF TypeOK, Entry, Successor
  <2>2. EntriesInOrder'
    <3> USE DEF TypeOK, EntriesInOrder, TurnBegin, Successor
    <3>1. /\ buf'[enqueue].number = posted + 1 /\ buf'[enqueue].cycle = producer_cycle
          /\ \A i \in 0..(Size - 1) : i # enqueue => buf'[i] = buf[i]
      OBVIOUS
    <3>2. CASE enqueue + 1 = Size
      <4>1. enqueue' = 0 /\ producer_cycle' # producer_cycle /\ TurnBegin' = TurnBegin + Size
        BY <3>2
      <4>2. ASSUME NEW i \in 0..(Size - 1)
            PROVE  buf'[i].cycle = producer_cycle /\ buf'[i].number = TurnBegin + i + 1
        <5>1. CASE i = enqueue
          BY <3>1, <5>1
        <5>2. CASE i # enqueue
          <6>1. i < enqueue /\ buf'[i] = buf[i]
            BY <3>1, <3>2, <5>2
          <6>2. QED
            BY <6>1
        <5>3. QED
          BY <5>1, <5>2
      <4>3. ASSUME NEW i \in 0..(Size - 1)
            PROVE  /\ ~(i < enqueue')
                   /\ buf'[i].cycle # producer_cycle'
                   /\ buf'[i].number = TurnBegin' - Size + i + 1
        <5>1. TurnBegin \in Int
          OBVIOUS
        <5>2. buf'[i].cycle = producer_cycle /\ buf'[i].number = TurnBegin + i + 1
          BY <4>2
        <5>3. ~(i < enqueue')
          BY <4>1
        <5>4. TurnBegin' - Size = TurnBegin
          BY <4>1, <5>1
        <5>5. buf'[i].number = TurnBegin' - Size + i + 1
          BY <5>2, <5>4
        <5>6. QED
          BY <4>1, <5>2, <5>3, <5>5
      <4>4. TurnBegin' >= 0
        BY <4>1
      <4>5. QED
        BY <4>3, <4>4 DEF EntriesInOrder
    <3>3. CASE enqueue + 1 # Size
      <4>1. enqueue' = enqueue + 1 /\ producer_cycle' = producer_cycle /\ TurnBegin' = TurnBegin
        BY <3>3
      <4>2. ASSUME NEW i \in 0..(Size - 1), i < enqueue'
            PROVE  buf'[i].cycle = producer_cycle /\ buf'[i].number = TurnBegin + i + 1
        <5>1. CASE i = enqueue
          BY <3>1, <5>1
        <5>2. CASE i # enqueue
          BY <3>1, <4>1, <4>2, <5>2
        <5>3. QED
          BY <5>1, <5>2
      <4>3. ASSUME NEW i \in 0..(Size - 1), i >= enqueue'
            PROVE  /\ buf'[i].cycle # producer_cycle
                   /\ TurnBegin = 0 \/ buf'[i].number = TurnBegin - Size + i + 1
        BY <3>1, <4>1, <4>3
      <4>4. TurnBegin >= 0
        OBVIOUS
      <4>5. QED
        BY <4>1, <4>2, <4>3, <4>4
    <3>4. QED
      BY <3>2, <3>3
  <2>3. PlacesMatch'
    BY DEF TypeOK, PlacesMatch, TurnBegin, Successor, Popped
  <2>4. (pc = "pop" => Popped \in 0..(posted - 1))'
    BY DEF TypeOK, Popped
  <2>5. QED
    BY <2>1, <2>2, <2>3, <2>4
<1>2. CASE HandleFront
  BY <1>2, FrontIsNext DEF HandleFront, controller, IInv, TypeOK, EntriesInOrder, PlacesMatch, TurnBegin, Entry, Popped
<1>3. CASE Pop
  BY <1>3 DEF Pop, controller, Successor, IInv, TypeOK, EntriesInOrder, PlacesMatch, TurnBegin, Entry, Popped
<1>4. CASE UNCHANGED vars
  BY <1>4 DEF vars, driver, controller, IInv, TypeOK, EntriesInOrder, PlacesMatch, TurnBegin, Entry, Popped
<1>5. QED
  BY <1>1, <1>2, <1>3, <1>4 DEF Next, ProcessEvents

\* Hence it always holds.
LEMMA Invariance == Spec => []IInv
BY InitIInv, NextIInv, PTL DEF Spec

\* ERDP never leaves the segment, and the other variables keep their types.
THEOREM TypeCorrect == Spec => []TypeOK
<1>1. IInv => TypeOK
  BY DEF IInv
<1>2. QED
  BY <1>1, Invariance, PTL

\* The event ring (ring.cpp:102-115, ring.hpp:88-94) implements the bounded
\* first-in first-out queue: every event is handled once, whole and in order,
\* over any number of turns.
THEOREM ImplementsQueue == Spec => EventsInOrder
<1>1. Init => Queue!Init
  BY DEF Init, Queue!Init
<1>2. IInv /\ [Next]_vars => [Queue!Next]_<<posted, handled, last>>
  <2> SUFFICES ASSUME IInv, [Next]_vars PROVE [Queue!Next]_<<posted, handled, last>>
    OBVIOUS
  <2>1. CASE Post
    <3>1. posted - handled < Size - 1
      BY <2>1, FrontIsNext, EventRingAssumption DEF Post, IInv, TypeOK, Popped
    <3>2. QED
      BY <2>1, <3>1 DEF Post, driver, Queue!Next, Queue!Put
  <2>2. CASE HandleFront
    BY <2>2, FrontIsNext DEF HandleFront, controller, Popped, Queue!Next, Queue!Get
  <2>3. CASE Pop
    BY <2>3 DEF Pop, controller
  <2>4. CASE UNCHANGED vars
    BY <2>4 DEF vars, driver, controller
  <2>5. QED
    BY <2>1, <2>2, <2>3, <2>4 DEF Next, ProcessEvents
<1>3. QED
  BY <1>1, <1>2, Invariance, PTL DEF Spec, EventsInOrder, Queue!Spec

=============================================================================
