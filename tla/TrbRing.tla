------------------------------ MODULE TrbRing ------------------------------
(***************************************************************************)
(* A command or transfer ring: class Ring of src/kernel/usb/xhci/ring.cpp, *)
(* through which the driver hands TRBs to the controller. The ring is      *)
(* memory that both sides access at any time. An entry belongs to the      *)
(* controller if its cycle bit is what the controller expects in this turn *)
(* of the ring, so the order of the writes is all that keeps the           *)
(* controller from an entry half written. The last entry is a link back to *)
(* the first. Push never checks for room: what keeps the driver from       *)
(* overrunning the controller is that the callers leave few transfers or   *)
(* commands outstanding.                                                   *)
(*                                                                         *)
(* TRBs are numbered in the order of their pushes. An operator named       *)
(* _Mutant is what a plausible slip would have made of the definition      *)
(* after it; nothing refers to it.                                         *)
(***************************************************************************)
EXTENDS Integers

CONSTANTS
  Size,         \* buf_size_: entries of the ring, with the link
  Outstanding,  \* most TRBs that the callers leave unconsumed
  MaxPushes     \* bound: TRBs pushed

\* Not even all entries but the link may be outstanding: the controller may
\* have consumed the last one and not followed the link yet, which the next
\* turn must not overwrite.
ASSUME RingAssumption ==
  /\ Size \in Nat
  /\ Outstanding \in 1..(Size - 2)
  /\ MaxPushes \in Nat

VARIABLES
  buf,             \* the entries
  cycle_bit,       \* producer cycle state
  write_index,
  pc,              \* where the driver is
  left,            \* TRBs of the transfer or command still to be pushed
  pushed,          \* TRBs pushed so far
  read_index,      \* the controller's dequeue pointer
  consumer_cycle,  \* the controller's cycle state
  doorbell,        \* the doorbell has been rung and not been heard yet
  running,         \* the controller goes through the ring
  consumed,        \* TRBs consumed so far
  last             \* number of the TRB consumed last

producer == <<cycle_bit, write_index, pc, left, pushed>>
consumer == <<read_index, consumer_cycle, running, consumed, last>>
vars == <<buf, producer, doorbell, consumer>>

\* number stands for the first three words of a TRB, type and cycle are in the
\* last one.
TRB == [number: 0..MaxPushes, type: {"none", "normal", "link"}, cycle: 0..1]

\* Ring::Initialize, and the controller told by CRCR or the endpoint context.
Init ==
  /\ buf = [i \in 0..(Size - 1) |-> [number |-> 0, type |-> "none", cycle |-> 0]]
  /\ cycle_bit = 1
  /\ write_index = 0
  /\ pc = "idle" /\ left = 0 /\ pushed = 0
  /\ read_index = 0
  /\ consumer_cycle = 1
  /\ doorbell = FALSE
  /\ running = FALSE
  /\ consumed = 0 /\ last = 0

-----------------------------------------------------------------------------
(* The driver.                                                             *)

\* ControlIn and ControlOut push two or three TRBs before they ring the
\* doorbell; a command or an interrupt transfer is one.
StartTransfer(n) ==
  /\ pc = "idle"
  /\ pushed + n <= MaxPushes
  /\ pushed + n - consumed <= Outstanding
  /\ left' = n
  /\ pc' = "data"
  /\ UNCHANGED <<buf, cycle_bit, write_index, pushed, doorbell, consumer>>

\* CopyToLast writes words 0 to 2, and then word 3 with the cycle bit in it.
CopyData(number) == buf' = [buf EXCEPT ![write_index].number = number]
CopyControl(type) ==
  buf' = [buf EXCEPT ![write_index].type = type, ![write_index].cycle = cycle_bit]

\* All words are written at once, the cycle bit among them, before they are
\* what they should be.
PushData_Mutant ==
  /\ pc = "data"
  /\ pc' = "control"
  /\ CopyControl("normal")
  /\ UNCHANGED <<cycle_bit, write_index, left, pushed, doorbell, consumer>>

PushData ==
  /\ pc = "data"
  /\ pc' = "control"
  /\ CopyData(pushed + 1)
  /\ UNCHANGED <<cycle_bit, write_index, left, pushed, doorbell, consumer>>

AfterPush(remaining) == IF remaining = 0 THEN "doorbell" ELSE "data"

PushControl ==
  /\ pc = "control"
  /\ CopyControl("normal")
  /\ pushed' = pushed + 1
  /\ left' = left - 1
  /\ write_index' = write_index + 1
  /\ pc' = IF write_index + 1 = Size - 1 THEN "link_data" ELSE AfterPush(left - 1)
  /\ UNCHANGED <<cycle_bit, doorbell, consumer>>

LinkData ==
  /\ pc = "link_data"
  /\ pc' = "link_control"
  /\ CopyData(0)
  /\ UNCHANGED <<cycle_bit, write_index, left, pushed, doorbell, consumer>>

LinkControl ==
  /\ pc = "link_control"
  /\ CopyControl("link")
  /\ write_index' = 0
  /\ cycle_bit' = 1 - cycle_bit
  /\ pc' = AfterPush(left)
  /\ UNCHANGED <<left, pushed, doorbell, consumer>>

\* Only the first doorbell is rung.
RingDoorbell_Mutant ==
  /\ pc = "doorbell"
  /\ pc' = "idle"
  /\ doorbell' = (consumed = 0)
  /\ UNCHANGED <<buf, cycle_bit, write_index, left, pushed, consumer>>

RingDoorbell ==
  /\ pc = "doorbell"
  /\ pc' = "idle"
  /\ doorbell' = TRUE
  /\ UNCHANGED <<buf, cycle_bit, write_index, left, pushed, consumer>>

-----------------------------------------------------------------------------
(* The controller.                                                         *)

HearDoorbell ==
  /\ doorbell
  /\ ~running
  /\ doorbell' = FALSE
  /\ running' = TRUE
  /\ UNCHANGED <<buf, producer, read_index, consumer_cycle, consumed, last>>

Owned == buf[read_index].cycle = consumer_cycle

Consume ==
  /\ running
  /\ Owned
  /\ buf[read_index].type = "normal"
  /\ last' = buf[read_index].number
  /\ consumed' = consumed + 1
  /\ read_index' = read_index + 1
  /\ UNCHANGED <<buf, producer, doorbell, consumer_cycle, running>>

\* The link has the toggle cycle bit set.
FollowLink ==
  /\ running
  /\ Owned
  /\ buf[read_index].type = "link"
  /\ read_index' = 0
  /\ consumer_cycle' = 1 - consumer_cycle
  /\ UNCHANGED <<buf, producer, doorbell, running, consumed, last>>

\* The controller finds no further TRB and waits for the doorbell.
Rest ==
  /\ running
  /\ ~Owned
  /\ running' = FALSE
  /\ UNCHANGED <<buf, producer, doorbell, read_index, consumer_cycle, consumed, last>>

-----------------------------------------------------------------------------

Push == PushData \/ PushControl \/ LinkData \/ LinkControl \/ RingDoorbell
Controller == HearDoorbell \/ Consume \/ FollowLink \/ Rest

Next == (\E n \in 1..3 : StartTransfer(n)) \/ Push \/ Controller

Spec == Init /\ [][Next]_vars

\* Push does not block, and the controller does what it is told to do. No
\* transfer needs ever be started.
FairSpec == Spec /\ WF_vars(Push) /\ WF_vars(Controller)

-----------------------------------------------------------------------------
(* Properties.                                                             *)

\* Every variable has its type: neither side leaves the ring.
TypeOK ==
  /\ buf \in [0..(Size - 1) -> TRB]
  /\ cycle_bit \in 0..1
  /\ write_index \in 0..(Size - 1)
  /\ pc \in {"idle", "data", "control", "link_data", "link_control", "doorbell"}
  /\ left \in 0..3
  /\ pushed \in 0..MaxPushes
  /\ read_index \in 0..(Size - 1)
  /\ consumer_cycle \in 0..1
  /\ doorbell \in BOOLEAN
  /\ running \in BOOLEAN
  /\ consumed \in Nat
  /\ last \in 0..MaxPushes

Queue == INSTANCE BoundedQueue WITH
  Capacity <- Outstanding, put <- pushed, got <- consumed, last <- last

\* The ring is a first-in first-out queue: over any number of turns and
\* whenever the controller looks, it takes each TRB once, whole, and in the
\* order of the pushes, and none that is not there.
TrbsInOrder == Queue!Spec

\* Every TRB pushed is consumed, although the controller rests whenever it
\* finds no further one, perhaps in the middle of a Push.
EveryTrbConsumed ==
  \A n \in 1..MaxPushes : pushed >= n ~> consumed >= n

=============================================================================
