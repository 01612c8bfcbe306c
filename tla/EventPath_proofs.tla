-------------------------- MODULE EventPath_proofs --------------------------
(***************************************************************************)
(* Proofs about EventLoop and EventPath, for every size of the ring and of *)
(* the initial queue and any number of events. The first part is about the *)
(* event loop, which counts its events; the second shows that the event    *)
(* loop over the ring with its entries does what that one does with counts,*)
(* so that what holds of the one holds of the other.                       *)
(***************************************************************************)
EXTENDS EventPath, TLAPS

-----------------------------------------------------------------------------
(* The event loop.                                                         *)

\* cli keeps the handler out of the critical section, and the handler, which
\* runs with IF clear, starts only outside of it.
Exclusion ==
  /\ handler # "none" => ~interrupts_enabled /\ pc \notin Critical
  /\ pc \in Critical => ~interrupts_enabled
  /\ pc = "take" => main_queue # 0

\* ERDP never passes the last event; from HasFront to the write of ERDP the
\* event is on the ring.
Draining ==
  /\ dequeued <= posted
  /\ pc \in {"read", "write"} => dequeued < posted

\* EHB is set only while an event is left to clear it for, provided that it is
\* always found set when ERDP is read for the write-back.
Acknowledging ==
  ~Moderated => /\ event_handler_busy => dequeued < posted
                /\ pc = "write" => erdp_busy

\* An interrupt that EHB does not hold back yet counts as coming, too.
Coming == (IF interrupt_requested THEN 1 ELSE 0) + (IF handler = "push" THEN 1 ELSE 0)
Bounding ==
  main_queue + Coming + (IF event_handler_busy THEN 0 ELSE 1) <= InitialMessages + dequeued + 1

IInv ==
  /\ TypeOK
  /\ Exclusion
  /\ Draining
  /\ Acknowledging
  /\ ~Moderated => NoLostWakeup
  /\ Bounding

\* The invariant holds when the kernel starts.
LEMMA InitIInv == Init => IInv
<1> SUFFICES ASSUME Init PROVE IInv
  OBVIOUS
<1> USE EventLoopAssumption, EventRingAssumption DEF Init
<1>1. TypeOK
  <2>1. {interrupt_requested, event_handler_busy, erdp_busy} \subseteq BOOLEAN
    BY Zenon
  <2>2. QED
    BY <2>1 DEF TypeOK, Critical
<1>2. Exclusion /\ Draining /\ Acknowledging /\ NoLostWakeup
  BY DEF Exclusion, Draining, Acknowledging, NoLostWakeup, Critical
<1>3. Bounding
  BY DEF Bounding, Coming
<1>4. QED
  BY <1>1, <1>2, <1>3 DEF IInv

\* Every step of the controller, the interrupt handler and the main flow keeps it.
LEMMA NextIInv == IInv /\ [Next]_vars => IInv'
<1> SUFFICES ASSUME IInv, [Next]_vars PROVE IInv'
  OBVIOUS
<1> USE EventLoopAssumption, EventRingAssumption
    DEF IInv, TypeOK, Exclusion, Draining, Acknowledging, NoLostWakeup, Bounding, Coming,
        Critical, Processing, main, erdp
<1>1. CASE PostEvent
  BY <1>1 DEF PostEvent, PutEvent
<1>2. CASE RaiseInterrupt
  <2>1. interrupt_requested' /\ event_handler_busy'
    BY <1>2, Zenon DEF RaiseInterrupt
  <2>2. {interrupt_requested', event_handler_busy'} \subseteq BOOLEAN
    BY <1>2, Zenon DEF RaiseInterrupt
  <2>3. TypeOK' /\ Exclusion' /\ Draining' /\ Acknowledging' /\ NoLostWakeup'
    BY <1>2, <2>1, <2>2 DEF RaiseInterrupt, InterruptDue
  <2>4. Bounding'
    <3>1. main_queue' = main_queue /\ handler' = handler /\ dequeued' = dequeued
      BY <1>2 DEF RaiseInterrupt
    <3>2. (IF interrupt_requested' THEN 1 ELSE 0) = 1 /\ (IF event_handler_busy' THEN 0 ELSE 1) = 0
      BY <2>1
    <3>3. (IF interrupt_requested THEN 1 ELSE 0) \in {0, 1} /\ (IF event_handler_busy THEN 0 ELSE 1) = 1
      BY <1>2 DEF RaiseInterrupt, InterruptDue
    <3>4. (IF handler = "push" THEN 1 ELSE 0) \in {0, 1}
      OBVIOUS
    <3>5. QED
      BY <3>1, <3>2, <3>3, <3>4
  <2>5. QED
    BY <2>3, <2>4
<1>3. CASE DeliverInterrupt
  <2>1. ~interrupt_requested' /\ ~interrupts_enabled'
    BY <1>3, Zenon DEF DeliverInterrupt
  <2>2. {interrupt_requested', interrupts_enabled'} \subseteq BOOLEAN
    BY <1>3, Zenon DEF DeliverInterrupt
  <2>3. TypeOK' /\ Exclusion' /\ Draining' /\ Acknowledging' /\ (~Moderated => NoLostWakeup')
    BY <1>3, <2>1, <2>2 DEF DeliverInterrupt
  <2>4. Bounding'
    BY <1>3, <2>1 DEF DeliverInterrupt
  <2>5. QED
    BY <2>3, <2>4
<1>4. CASE PushMessage
  BY <1>4 DEF PushMessage
<1>5. CASE EndOfInterrupt
  BY <1>5 DEF EndOfInterrupt
<1>6. CASE Boot
  BY <1>6 DEF Boot, Step
<1>7. CASE DisableInterrupts
  BY <1>7 DEF DisableInterrupts, Step
<1>8. CASE FindQueueEmpty
  BY <1>8 DEF FindQueueEmpty, Step
<1>9. CASE FindMessage
  BY <1>9 DEF FindMessage, Step
<1>10. CASE TakeMessage
  BY <1>10 DEF TakeMessage, Step
<1>11. CASE EnableInterrupts
  BY <1>11 DEF EnableInterrupts, Step
<1>12. CASE HandleEvent
  BY <1>12 DEF HandleEvent, TakeFront, Step
<1>13. CASE FindRingEmpty
  BY <1>13 DEF FindRingEmpty, LeaveRing, Step
<1>14. CASE ReadErdp
  BY <1>14 DEF ReadErdp, Step, InterruptDue
<1>15. CASE WriteErdp
  BY <1>15 DEF WriteErdp, Step
<1>16. CASE UNCHANGED vars
  BY <1>16 DEF vars
<1>17. QED
  BY <1>1, <1>2, <1>3, <1>4, <1>5, <1>6, <1>7, <1>8, <1>9, <1>10, <1>11, <1>12,
     <1>13, <1>14, <1>15, <1>16
  DEF Next, MainLoop, OffRing, IntHandlerXHCI

\* Hence it always holds.
LEMMA Invariance == Spec => []IInv
BY InitIInv, NextIInv, PTL DEF Spec

\* The variables keep their types; a message is taken only from a queue that has
\* one.
THEOREM TypeCorrect == Spec => []TypeOK
<1>1. IInv => TypeOK
  BY DEF IInv
<1>2. QED
  BY <1>1, Invariance, PTL

\* The handler never runs between the size() and the pop_front() of the event
\* loop, so the queue needs no lock.
THEOREM DequeIsExclusive == Spec => []DequeExclusive
<1>1. IInv => DequeExclusive
  BY DEF IInv, Exclusion, DequeExclusive
<1>2. QED
  BY <1>1, Invariance, PTL

\* The queue never holds more messages than it was constructed with, one per
\* event drained, and one.
THEOREM QueueIsBounded == Spec => []QueueBounded
<1>1. IInv => QueueBounded
  BY EventLoopAssumption, EventRingAssumption DEF IInv, TypeOK, Bounding, Coming, QueueBounded
<1>2. QED
  BY <1>1, Invariance, PTL

\* With a controller that raises a due interrupt at once, no event is ever left
\* on the ring with the main flow unaware of it.
THEOREM NoWakeupIsLost == ASSUME ~Moderated PROVE Spec => []NoLostWakeup
<1>1. IInv => NoLostWakeup
  BY DEF IInv
<1>2. QED
  BY <1>1, Invariance, PTL

-----------------------------------------------------------------------------
(* The event loop over the ring.                                           *)

\* The proofs about the ring, of the ring that is part of the path.
RingProofs == INSTANCE EventRing_proofs WITH
  erdp <- dequeue_pointer, pc <- IF pc \in {"read", "write"} THEN "pop" ELSE "look"

\* The loop's count of the events that ERDP has been moved past is the ring's.
CountsMatch ==
  /\ pc \in {"boot", "draw", "process", "read", "write"} \cup Critical
  /\ handled \in Nat
  /\ dequeued = RingProofs!Popped

PathInv == RingProofs!IInv /\ CountsMatch

\* The parts start in their initial states.
LEMMA InitPathInv == PathInit => PathInv
<1> SUFFICES ASSUME PathInit PROVE PathInv
  OBVIOUS
<1>1. RingProofs!Init
  BY DEF PathInit, Ring!Init, RingProofs!Init
<1>2. RingProofs!IInv
  BY <1>1, RingProofs!InitIInv, EventRingAssumption
<1>3. CountsMatch
  BY DEF PathInit, Init, CountsMatch, RingProofs!Popped, Critical
<1>4. QED
  BY <1>2, <1>3 DEF PathInv

\* A step of the path is a step of the ring, or none.
LEMMA RingStep == PathInv /\ [PathNext]_path => [RingProofs!Next]_(RingProofs!vars)
<1> SUFFICES ASSUME PathInv, [PathNext]_path PROVE [RingProofs!Next]_(RingProofs!vars)
  OBVIOUS
<1> USE DEF RingProofs!Next, RingProofs!ProcessEvents, RingProofs!vars, RingProofs!controller,
            RingProofs!driver, entries, Critical, CountsMatch, PathInv
<1>1. CASE SeeFront
  BY <1>1 DEF SeeFront, Ring!HandleFront, RingProofs!HandleFront, Ring!HasFront, RingProofs!HasFront,
              Ring!controller
<1>2. CASE PopFront
  BY <1>2 DEF PopFront, Ring!Pop, RingProofs!Pop, Ring!Successor, RingProofs!Successor, Ring!controller
<1>3. CASE PostEntry
  BY <1>3 DEF PostEntry, Ring!Post, RingProofs!Post, Ring!Successor, RingProofs!Successor, Ring!driver
<1>4. CASE SeeNoFront
  BY <1>4 DEF SeeNoFront, LeaveRing, Step
<1>5. CASE OffRing /\ UNCHANGED entries
  BY <1>5 DEF OffRing, Boot, DisableInterrupts, FindQueueEmpty, FindMessage, TakeMessage,
              EnableInterrupts, ReadErdp, Step
<1>6. CASE PathIntHandler
  BY <1>6 DEF PathIntHandler, IntHandlerXHCI, DeliverInterrupt, PushMessage, EndOfInterrupt, main
<1>7. CASE PathRaiseInterrupt
  BY <1>7 DEF PathRaiseInterrupt, RaiseInterrupt, main
<1>8. CASE UNCHANGED path
  BY <1>8 DEF path, vars, main
<1>9. QED
  BY <1>1, <1>2, <1>3, <1>4, <1>5, <1>6, <1>7, <1>8 DEF PathNext, PathMainLoop

\* The counts stay together.
LEMMA NextPathInv == PathInv /\ [PathNext]_path => PathInv'
<1> SUFFICES ASSUME PathInv, [PathNext]_path PROVE PathInv'
  OBVIOUS
<1>1. RingProofs!IInv'
  BY RingStep, RingProofs!NextIInv, EventRingAssumption DEF PathInv
<1>2. CountsMatch'
  <2> USE DEF PathInv, CountsMatch, RingProofs!Popped, Critical, erdp
  <2>1. CASE SeeFront
    BY <2>1 DEF SeeFront, TakeFront, Step
  <2>2. CASE PopFront
    BY <2>2 DEF PopFront, WriteErdp, Step
  <2>3. CASE PostEntry
    BY <2>3 DEF PostEntry, PutEvent, main
  <2>4. CASE SeeNoFront
    BY <2>4 DEF SeeNoFront, LeaveRing, Step
  <2>5. CASE OffRing /\ UNCHANGED entries
    BY <2>5 DEF OffRing, Boot, DisableInterrupts, FindQueueEmpty, FindMessage, TakeMessage,
                EnableInterrupts, ReadErdp, Step
  <2>6. CASE PathIntHandler
    BY <2>6 DEF PathIntHandler, IntHandlerXHCI, DeliverInterrupt, PushMessage, EndOfInterrupt, main
  <2>7. CASE PathRaiseInterrupt
    BY <2>7 DEF PathRaiseInterrupt, RaiseInterrupt, main
  <2>8. CASE UNCHANGED path
    BY <2>8 DEF path, vars, main
  <2>9. QED
    BY <2>1, <2>2, <2>3, <2>4, <2>5, <2>6, <2>7, <2>8 DEF PathNext, PathMainLoop
<1>3. QED
  BY <1>1, <1>2 DEF PathInv

\* What the cycle bits tell is what the counts say.
LEMMA ViewsAgree ==
  ASSUME PathInv
  PROVE  /\ pc = "process" => (Ring!HasFront <=> posted > dequeued)
         /\ dequeued <= posted
         /\ Ring!Successor(enqueue) # dequeue_pointer => posted - dequeued < Size - 1
<1>1. /\ RingProofs!HasFront <=> RingProofs!Popped < posted
      /\ RingProofs!Popped <= posted
      /\ RingProofs!Successor(enqueue) # dequeue_pointer => posted - RingProofs!Popped < Size - 1
  BY RingProofs!FrontIsNext, EventRingAssumption DEF PathInv
<1>2. QED
  BY <1>1 DEF PathInv, CountsMatch, RingProofs!HasFront, RingProofs!Successor, Ring!HasFront,
              Ring!Successor

\* A step of the path is a step of the event loop, or none.
LEMMA LoopStep == PathInv /\ [PathNext]_path => [Next]_vars
<1> SUFFICES ASSUME PathInv, [PathNext]_path PROVE [Next]_vars
  OBVIOUS
<1>1. posted \in Int /\ dequeued \in Int
  BY EventRingAssumption DEF PathInv, CountsMatch, RingProofs!IInv, RingProofs!TypeOK, RingProofs!Popped
<1>2. CASE SeeFront
  BY <1>2, ViewsAgree DEF SeeFront, TakeFront, Step, Ring!HandleFront, HandleEvent, Next, MainLoop
<1>3. CASE PopFront
  BY <1>3 DEF PopFront, Next, MainLoop
<1>4. CASE PostEntry
  BY <1>4, ViewsAgree DEF PostEntry, Ring!Post, PostEvent, Next
<1>5. CASE SeeNoFront
  <2>1. pc = "process" /\ posted = dequeued
    BY <1>1, <1>5, ViewsAgree DEF SeeNoFront, LeaveRing, Step
  <2>2. QED
    BY <1>5, <2>1 DEF SeeNoFront, FindRingEmpty, Next, MainLoop
<1>6. QED
  BY <1>2, <1>3, <1>4, <1>5
  DEF PathNext, PathMainLoop, PathIntHandler, PathRaiseInterrupt, Next, MainLoop, path

\* Hence it always holds.
LEMMA PathInvariance == PathSpec => []PathInv
BY InitPathInv, NextPathInv, PTL DEF PathSpec

\* The loop that tells events by their cycle bits (ring.hpp:88-94) implements
\* the loop that counts them: what is proved of EventLoop holds of it.
THEOREM PathImplementsLoop == PathSpec => ImplementsEventLoop
<1>1. PathInit => Init
  BY DEF PathInit
<1>2. QED
  BY <1>1, LoopStep, PathInvariance, PTL DEF PathSpec, ImplementsEventLoop, Spec

\* Hence the queue is touched by one flow at a time and bounded, although it is
\* the entries of the ring that say how long an interrupt's work goes on.
THEOREM PathIsSafe == PathSpec => [](TypeOK /\ DequeExclusive /\ QueueBounded)
<1>1. PathSpec => Spec
  BY PathImplementsLoop DEF ImplementsEventLoop
<1>2. QED
  BY <1>1, TypeCorrect, DequeIsExclusive, QueueIsBounded, PTL

\* With a controller that raises a due interrupt at once, no entry is left on the
\* ring with the main flow unaware of it.
THEOREM PathLosesNoWakeup == ASSUME ~Moderated PROVE PathSpec => []NoLostWakeup
<1>1. PathSpec => Spec
  BY PathImplementsLoop DEF ImplementsEventLoop
<1>2. Spec => []NoLostWakeup
  BY NoWakeupIsLost
<1>3. QED
  BY <1>1, <1>2, PTL

\* Under the interrupts and the event loop, too, the ring hands every event out
\* once, whole and in order.
THEOREM PathHandlesInOrder == PathSpec => EventsInOrder
<1>1. PathInit => RingProofs!Init
  BY DEF PathInit, Ring!Init, RingProofs!Init
<1>2. PathSpec => RingProofs!Spec
  BY <1>1, RingStep, PathInvariance, PTL DEF PathSpec, RingProofs!Spec
<1>3. RingProofs!Spec => RingProofs!EventsInOrder
  BY RingProofs!ImplementsQueue, EventRingAssumption
<1>4. RingProofs!EventsInOrder => EventsInOrder
  BY DEF EventsInOrder, Ring!EventsInOrder, RingProofs!EventsInOrder, Ring!Queue!Spec,
         RingProofs!Queue!Spec, Ring!Queue!Init, RingProofs!Queue!Init, Ring!Queue!Next,
         RingProofs!Queue!Next, Ring!Queue!Put, RingProofs!Queue!Put, Ring!Queue!Get,
         RingProofs!Queue!Get
<1>5. QED
  BY <1>2, <1>3, <1>4

=============================================================================
