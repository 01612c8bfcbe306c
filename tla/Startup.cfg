SPECIFICATION FairSpec
CONSTANTS
  PageSize = 2
  Pages = 9
  EntryOffset = 1
  Images <- MCImages
  MaxDisturbances = 1
  Devices = 2
  Functions = 2
  TableSize = 4
  Machines <- MCMachines
  ConfSpaces <- MCConfSpaces
  MessageAddress = 101
  MessageData = 102
  VectorExponent = 1
  PoolBases = {0, 2, 4, 6}
  PoolSize = 42
  Slots = 2
  RingBytes = 2
  EntryBytes = 1
  Page = 8
  Segment = 32
  Line = 2
  ScratchpadCounts = {0, 1, 4}
INVARIANTS KernelInPlace KernelKept FindsEachOnce MessageAsAsked BlocksAsAsked RunsAsProgrammed
PROPERTIES WritesOwnMemory ResetWhenHalted KernelStarts
CHECK_DEADLOCK FALSE
