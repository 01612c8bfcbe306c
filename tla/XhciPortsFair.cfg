SPECIFICATION FairSpec
CONSTANTS
  MaxPorts = 3
  MaxSlots = 3
  Unsupported = {3}
  MaxPlugs = 1
  MaxUnplugs = 0
  MaxFailures = 0
  MaxReports = 0
  LowestSlot = TRUE
PROPERTIES EveryDeviceConfigured ImplementsSequencer
CHECK_DEADLOCK FALSE
