SPECIFICATION Spec
CONSTANTS
  MaxPorts = 2
  MaxSlots = 2
  Unsupported = {}
  MaxPlugs = 1
  MaxUnplugs = 1
  MaxFailures = 1
  MaxReports = 1
  LowestSlot = FALSE
INVARIANTS CommandsMatchPhases ConfiguredMeansReady ScratchpadKept
  ExclusiveAddressing OneDevicePerPort
PROPERTIES PhasesInOrder
CHECK_DEADLOCK FALSE
