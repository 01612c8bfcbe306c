----------------------------- MODULE EventRing -----------------------------
(***************************************************************************)
(* The event ring: class EventRing of src/kernel/usb/xhci/ring.cpp, which  *)
(* the controller fills and the driver drains. An entry holds an event of  *)
(* this turn of the ring if its cycle bit is the driver's. The ring has no *)
(* link: both sides know its size, the driver from the segment table. The  *)
(* driver keeps no index, but reads its place back from the ERDP register, *)
(* in which the controller sees how far it has come.                       *)
(*                                                                         *)
(* Events are numbered in the order in which they are posted. An operator  *)
(* named _Mutant is what a plausible slip would have made of the           *)
(* definition after it; nothing refers to it.                              *)
(***************************************************************************)
EXTENDS EventRingSize

VARIABLES
  buf,            \* the entries
  enqueue,        \* where the controller posts next
  producer_cycle, \* the controller's cycle state
  posted,         \* events posted so far
  erdp,           \* dequeue pointer in ERDP
  cycle_bit,      \* the driver's cycle state
  pc,             \* where ProcessEvents is
  handled,        \* events handled so far
  last            \* number of the event handled last

controller == <<enqueue, producer_cycle, posted>>
driver == <<erdp, cycle_bit, pc, handled, last>>
vars == <<buf, controller, driver>>

Entry == [number: 0..MaxEvents, cycle: 0..1]

\* EventRing::Initialize clears the entries.
Init ==
  /\ buf = [i \in 0..(Size - 1) |-> [number |-> 0, cycle |-> 0]]
  /\ enqueue = 0 /\ producer_cycle = 1 /\ posted = 0
  /\ erdp = 0 /\ cycle_bit = 1
  /\ pc = "look"
  /\ handled = 0 /\ last = 0

-----------------------------------------------------------------------------

Successor(i) == IF i + 1 = Size THEN 0 ELSE i + 1

\* The controller never lets the ring fill up: it leaves one entry free before
\* ERDP.
Post ==
  /\ posted < MaxEvents
  /\ Successor(enqueue) # erdp
  /\ buf' = [buf EXCEPT ![enqueue] = [number |-> posted + 1, cycle |-> producer_cycle]]
  /\ enqueue' = Successor(enqueue)
  /\ producer_cycle' = IF enqueue + 1 = Size THEN 1 - producer_cycle ELSE producer_cycle
  /\ posted' = posted + 1
  /\ UNCHANGED driver

\* Entries are not told from those of the turn before.
HasFront_Mutant == buf[erdp].number # 0

HasFront == buf[erdp].cycle = cycle_bit

\* ProcessEvents sees an event, and OnEvent deals with it.
HandleFront ==
  /\ pc = "look"
  /\ HasFront
  /\ pc' = "pop"
  /\ handled' = handled + 1
  /\ last' = buf[erdp].number
  /\ UNCHANGED <<buf, controller, erdp, cycle_bit>>

\* The cycle bit is not flipped for the next turn.
Pop_Mutant ==
  /\ pc = "pop"
  /\ pc' = "look"
  /\ erdp' = Successor(erdp)
  /\ UNCHANGED <<buf, controller, cycle_bit, handled, last>>

Pop ==
  /\ pc = "pop"
  /\ pc' = "look"
  /\ erdp' = Successor(erdp)
  /\ cycle_bit' = IF erdp + 1 = Size THEN 1 - cycle_bit ELSE cycle_bit
  /\ UNCHANGED <<buf, controller, handled, last>>

ProcessEvents == HandleFront \/ Pop

Next == Post \/ ProcessEvents

Spec == Init /\ [][Next]_vars

-----------------------------------------------------------------------------
(* Properties.                                                             *)

\* Every variable has its type: ERDP never leaves the segment.
TypeOK ==
  /\ buf \in [0..(Size - 1) -> Entry]
  /\ enqueue \in 0..(Size - 1)
  /\ producer_cycle \in 0..1
  /\ posted \in 0..MaxEvents
  /\ erdp \in 0..(Size - 1)
  /\ cycle_bit \in 0..1
  /\ pc \in {"look", "pop"}
  /\ handled \in Nat
  /\ last \in 0..MaxEvents

Queue == INSTANCE BoundedQueue WITH
  Capacity <- Size - 1, put <- posted, got <- handled, last <- last

\* The ring is a first-in first-out queue: over any number of turns each event
\* is handled once, in the order of the posting, and no stale entry is taken for
\* an event.
EventsInOrder == Queue!Spec

=============================================================================
