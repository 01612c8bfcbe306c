SPECIFICATION FairPathSpec
CONSTANTS
  InitialMessages = 2
  Size = 4
  Moderated = FALSE
  MaxEvents = 9
INVARIANTS DequeExclusive NoLostWakeup QueueBounded
PROPERTIES EveryEventHandled EventsInOrder ImplementsEventLoop
