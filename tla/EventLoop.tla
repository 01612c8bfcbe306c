----------------------------- MODULE EventLoop -----------------------------
(***************************************************************************)
(* How an event of the xHCI controller gets handled: the event loop of     *)
(* KernelMainNewStack (src/kernel/main.cpp), the interrupt handler that    *)
(* feeds its message queue (src/kernel/interrupt.cpp), and the draining of *)
(* the event ring with its acknowledgement through the ERDP register       *)
(* (ProcessEvents in usb/xhci/xhci.cpp, EventRing::Pop in ring.cpp).       *)
(*                                                                         *)
(* There are three actors: the main flow of control, the handler, which    *)
(* preempts it wherever interrupts are enabled, and the controller, which  *)
(* posts events and raises interrupts at any time. All messages are alike  *)
(* (kInterruptXHCI), so the queue is their number. The ring, too, is here  *)
(* the number of events on it; EventPath puts the entries of EventRing in  *)
(* its place.                                                              *)
(*                                                                         *)
(* An operator named _Mutant is what a plausible slip would have made of   *)
(* the definition after it; nothing refers to it.                          *)
(***************************************************************************)
EXTENDS EventRingSize

CONSTANTS
  InitialMessages,  \* what the queue is constructed with: deque<Message>(32)
  Moderated         \* whether the controller may put off a due interrupt (IMOD)

ASSUME EventLoopAssumption ==
  /\ InitialMessages \in Nat
  /\ Moderated \in BOOLEAN

VARIABLES
  pc,                  \* where the main flow is
  main_queue,          \* number of messages in the queue
  interrupts_enabled,  \* IF of the processor
  handler,             \* where IntHandlerXHCI is, "none" if it is not running
  interrupt_requested, \* the local APIC has the interrupt to deliver
  posted,              \* events the controller has put on the ring
  handled,             \* events whose OnEvent has returned
  dequeued,            \* events ERDP has been moved past
  event_handler_busy,  \* EHB bit of ERDP
  erdp_busy            \* EHB in the value WriteDequeuePointer has read

main == <<pc, main_queue, handled>>
erdp == <<dequeued, event_handler_busy>>
vars == <<main, interrupts_enabled, handler, interrupt_requested, posted, erdp, erdp_busy>>

\* Between cli and sti.
Critical == {"test", "take", "enable"}
\* From there on to the last look at the event ring.
Processing == {"take", "enable", "process", "read", "write"}

\* The firmware leaves IF in either state; the first sti is in the loop.
Init ==
  /\ pc = "boot"
  /\ main_queue = InitialMessages
  /\ interrupts_enabled \in BOOLEAN
  /\ handler = "none"
  /\ interrupt_requested = FALSE
  /\ posted = 0 /\ handled = 0 /\ dequeued = 0
  /\ event_handler_busy = FALSE
  /\ erdp_busy = FALSE

-----------------------------------------------------------------------------
(* The controller.                                                         *)

PutEvent ==
  /\ posted < MaxEvents
  /\ posted' = posted + 1
  /\ UNCHANGED <<main, interrupts_enabled, handler, interrupt_requested, erdp, erdp_busy>>

\* One entry is always left free.
PostEvent == posted - dequeued < Size - 1 /\ PutEvent

InterruptDue == posted > dequeued /\ ~event_handler_busy

\* The message-signalled interrupt goes out; EHB holds back the next one.
RaiseInterrupt ==
  /\ InterruptDue
  /\ event_handler_busy' = TRUE
  /\ interrupt_requested' = TRUE
  /\ UNCHANGED <<main, interrupts_enabled, handler, posted, dequeued, erdp_busy>>

-----------------------------------------------------------------------------
(* IntHandlerXHCI.                                                         *)

DeliverInterrupt ==
  /\ interrupt_requested
  /\ interrupts_enabled
  /\ handler' = "push"
  /\ interrupt_requested' = FALSE
  /\ interrupts_enabled' = FALSE
  /\ UNCHANGED <<main, posted, erdp, erdp_busy>>

PushMessage ==
  /\ handler = "push"
  /\ main_queue' = main_queue + 1
  /\ handler' = "end"
  /\ UNCHANGED <<pc, handled, interrupts_enabled, interrupt_requested, posted, erdp, erdp_busy>>

\* NotifyEndOfInterrupt, and the return, which restores IF.
EndOfInterrupt ==
  /\ handler = "end"
  /\ handler' = "none"
  /\ interrupts_enabled' = TRUE
  /\ UNCHANGED <<main, interrupt_requested, posted, erdp, erdp_busy>>

-----------------------------------------------------------------------------
(* The main flow.                                                          *)

\* A step of the main flow, which runs when the handler does not. A controller
\* that does not moderate its interrupts raises one before that.
Step(from, to) ==
  /\ handler = "none"
  /\ pc = from
  /\ Moderated \/ ~InterruptDue
  /\ pc' = to
  /\ UNCHANGED posted

\* The rest of the initialization, with events coming in already.
Boot ==
  /\ Step("boot", "draw")
  /\ UNCHANGED <<main_queue, handled, interrupts_enabled, handler, interrupt_requested, erdp, erdp_busy>>

\* Interrupts are left enabled.
DisableInterrupts_Mutant ==
  /\ Step("draw", "test")
  /\ UNCHANGED <<main_queue, handled, interrupts_enabled, handler, interrupt_requested, erdp, erdp_busy>>

\* The counter is drawn, and cli.
DisableInterrupts ==
  /\ Step("draw", "test")
  /\ interrupts_enabled' = FALSE
  /\ UNCHANGED <<main_queue, handled, handler, interrupt_requested, erdp, erdp_busy>>

FindQueueEmpty ==
  /\ Step("test", "draw")
  /\ main_queue = 0
  /\ interrupts_enabled' = TRUE
  /\ UNCHANGED <<main_queue, handled, handler, interrupt_requested, erdp, erdp_busy>>

FindMessage ==
  /\ Step("test", "take")
  /\ main_queue # 0
  /\ UNCHANGED <<main_queue, handled, interrupts_enabled, handler, interrupt_requested, erdp, erdp_busy>>

TakeMessage ==
  /\ Step("take", "enable")
  /\ main_queue' = main_queue - 1
  /\ UNCHANGED <<handled, interrupts_enabled, handler, interrupt_requested, erdp, erdp_busy>>

EnableInterrupts ==
  /\ Step("enable", "process")
  /\ interrupts_enabled' = TRUE
  /\ UNCHANGED <<main_queue, handled, handler, interrupt_requested, erdp, erdp_busy>>

\* The interrupt is acknowledged when work on an event begins, too.
TakeFront_Mutant ==
  /\ Step("process", "read")
  /\ handled' = handled + 1
  /\ event_handler_busy' = FALSE
  /\ UNCHANGED <<main_queue, interrupts_enabled, handler, interrupt_requested, dequeued, erdp_busy>>

\* The handler of the event at ERDP runs.
TakeFront ==
  /\ Step("process", "read")
  /\ handled' = handled + 1
  /\ UNCHANGED <<main_queue, interrupts_enabled, handler, interrupt_requested, erdp, erdp_busy>>

HandleEvent == posted > dequeued /\ TakeFront

LeaveRing ==
  /\ Step("process", "draw")
  /\ UNCHANGED <<main_queue, handled, interrupts_enabled, handler, interrupt_requested, erdp, erdp_busy>>

FindRingEmpty == posted = dequeued /\ LeaveRing

\* WriteDequeuePointer reads ERDP, sets the pointer and writes the whole back.
ReadErdp ==
  /\ Step("read", "write")
  /\ erdp_busy' = event_handler_busy
  /\ UNCHANGED <<main_queue, handled, interrupts_enabled, handler, interrupt_requested, erdp>>

\* Only the pointer is written.
WriteErdp_Mutant ==
  /\ Step("write", "process")
  /\ dequeued' = dequeued + 1
  /\ UNCHANGED <<main_queue, handled, interrupts_enabled, handler, interrupt_requested,
                 event_handler_busy, erdp_busy>>

\* EHB is cleared by writing 1 to it, so only if it was read as 1.
WriteErdp ==
  /\ Step("write", "process")
  /\ dequeued' = dequeued + 1
  /\ event_handler_busy' = (event_handler_busy /\ ~erdp_busy)
  /\ UNCHANGED <<main_queue, handled, interrupts_enabled, handler, interrupt_requested, erdp_busy>>

-----------------------------------------------------------------------------

\* The steps at which the ring is not looked at.
OffRing ==
  \/ Boot \/ DisableInterrupts \/ FindQueueEmpty \/ FindMessage \/ TakeMessage
  \/ EnableInterrupts \/ ReadErdp

MainLoop == OffRing \/ HandleEvent \/ FindRingEmpty \/ WriteErdp

IntHandlerXHCI == DeliverInterrupt \/ PushMessage \/ EndOfInterrupt

Next == MainLoop \/ IntHandlerXHCI \/ PostEvent \/ RaiseInterrupt

Spec == Init /\ [][Next]_vars

\* The processor goes on executing, and a due interrupt is raised in the end.
\* A requested interrupt is taken at an instruction boundary with IF set, of
\* which each turn of the loop has many: it cannot be passed over for ever.
\* No event needs ever be posted.
FairSpec ==
  /\ Spec
  /\ WF_vars(MainLoop)
  /\ SF_vars(IntHandlerXHCI)
  /\ WF_vars(RaiseInterrupt)

-----------------------------------------------------------------------------
(* Properties.                                                             *)

\* Every variable has its type; the queue is never popped when it is empty.
TypeOK ==
  /\ pc \in {"boot", "draw", "process", "read", "write"} \cup Critical
  /\ main_queue \in Nat
  /\ interrupts_enabled \in BOOLEAN
  /\ handler \in {"none", "push", "end"}
  /\ interrupt_requested \in BOOLEAN
  /\ posted \in 0..MaxEvents /\ handled \in Nat /\ dequeued \in Nat
  /\ event_handler_busy \in BOOLEAN
  /\ erdp_busy \in BOOLEAN

\* The handler never runs while the main flow is between the size() and the
\* pop_front() of the queue that both of them change without a lock.
DequeExclusive == handler # "none" => pc \notin Critical

\* While EHB holds back interrupts and an event is on the ring, the main flow
\* knows or will: an interrupt is on its way to the queue, a message is in it,
\* or one has been taken out and the ring is going to be looked at.
NoLostWakeup ==
  posted > dequeued /\ event_handler_busy =>
    interrupt_requested \/ handler = "push" \/ main_queue > 0 \/ pc \in Processing

\* The queue grows by interrupts without a limit of its own; what limits it is
\* that an interrupt goes out only after the one before it has been acknowledged
\* for an event, so that events can be drained faster than messages.
QueueBounded ==
  LET coming == (IF interrupt_requested THEN 1 ELSE 0) + (IF handler = "push" THEN 1 ELSE 0)
  IN  main_queue + coming <= InitialMessages + dequeued + 1

\* Every event posted on the ring is handled in the end.
EveryEventHandled ==
  \A n \in 1..MaxEvents : posted >= n ~> handled >= n

=============================================================================
