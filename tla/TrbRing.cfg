SPECIFICATION FairSpec
CONSTANTS
  Size = 6
  Outstanding = 4
  MaxPushes = 14
PROPERTIES TrbsInOrder EveryTrbConsumed
CHECK_DEADLOCK FALSE
