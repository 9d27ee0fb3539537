SPECIFICATION Spec
CONSTANTS
  worker = worker
  command = command
  Syncs <- Worker
  MaxAttempts = 3
  MaxPanels = 2
  MaxCalls = 3
  MaxReleases = 2
  MaxFaults = 0
  MaxCrashes = 1
  MaxLosses = 1
PROPERTIES PanelFollows
CHECK_DEADLOCK FALSE
