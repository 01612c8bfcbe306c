SPECIFICATION FairSpec
CONSTANTS
  FrameCount = 6
  MaxDescriptors = 3
  HeapFrames = 2
  BytesPerFrame = 2
  MaxIncrement = 2
INVARIANTS BlocksDisjoint HeapInside
PROPERTIES LowestFit ImplementsPool EveryRequestAnswered
CHECK_DEADLOCK FALSE
