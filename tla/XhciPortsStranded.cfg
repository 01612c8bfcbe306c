SPECIFICATION Spec
CONSTANTS
  MaxPorts = 3
  MaxSlots = 3
  Unsupported = {}
  MaxPlugs = 0
  MaxUnplugs = 1
  MaxFailures = 0
  MaxReports = 0
  LowestSlot = TRUE
INVARIANTS WaitingHasATurnComing
CHECK_DEADLOCK FALSE
