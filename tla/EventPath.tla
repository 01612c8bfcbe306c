----------------------------- MODULE EventPath -----------------------------
(***************************************************************************)
(* The event loop with the event ring it drains: EventLoop and EventRing   *)
(* at work on the same events. Whether there is an event at the front is   *)
(* told from the cycle bit of an entry, and whether there is room for one  *)
(* from the place in ERDP, where EventLoop by itself counts.               *)
(***************************************************************************)
EXTENDS EventLoop

VARIABLES
  buf,             \* the entries of the ring
  enqueue,         \* where the controller posts next
  producer_cycle,  \* the controller's cycle state
  dequeue_pointer, \* dequeue pointer in ERDP
  cycle_bit,       \* the driver's cycle state
  last             \* number of the event handled last

\* From the handler's return to the write of ERDP the front is to be popped.
Ring == INSTANCE EventRing WITH
  erdp <- dequeue_pointer, pc <- IF pc \in {"read", "write"} THEN "pop" ELSE "look"

entries == <<buf, enqueue, producer_cycle, dequeue_pointer, cycle_bit, last>>
path == <<vars, entries>>

PathInit == Init /\ Ring!Init

-----------------------------------------------------------------------------

PostEntry == PutEvent /\ Ring!Post

SeeFront == TakeFront /\ Ring!HandleFront

SeeNoFront == LeaveRing /\ ~Ring!HasFront /\ UNCHANGED entries

\* EventRing::Pop moves the pointer, WriteDequeuePointer writes it.
PopFront == WriteErdp /\ Ring!Pop

PathMainLoop ==
  \/ SeeFront \/ SeeNoFront \/ PopFront
  \/ OffRing /\ UNCHANGED entries

PathIntHandler == IntHandlerXHCI /\ UNCHANGED entries

PathRaiseInterrupt == RaiseInterrupt /\ UNCHANGED entries

PathNext == PathMainLoop \/ PathIntHandler \/ PostEntry \/ PathRaiseInterrupt

PathSpec == PathInit /\ [][PathNext]_path

\* As in EventLoop.
FairPathSpec ==
  /\ PathSpec
  /\ WF_path(PathMainLoop)
  /\ SF_path(PathIntHandler)
  /\ WF_path(PathRaiseInterrupt)

-----------------------------------------------------------------------------
(* Properties.                                                             *)

\* The entries with their cycle bits do what EventLoop does with its counts:
\* the driver sees an event exactly if one has been posted that ERDP has not
\* been moved past, and the controller finds room exactly if there is some.
ImplementsEventLoop == Spec

\* The ring is a first-in first-out queue: whatever interrupts come in, over any
\* number of turns, each event is handled once, in the order of the posting, and
\* no stale entry is taken for an event.
EventsInOrder == Ring!EventsInOrder

=============================================================================
