SPECIFICATION Spec
CONSTANTS
  InitialMessages = 1
  Size = 3
  Moderated = TRUE
  MaxEvents = 3
INVARIANT NoLostWakeup
