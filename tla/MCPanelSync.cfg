SPECIFICATION FairSpec
CONSTANTS
  worker = worker
  command = command
  Syncs <- Both
  MaxAttempts = 3
  MaxPanels = 6
  MaxCalls = 3
  MaxReleases = 3
  MaxFaults = 3
  MaxCrashes = 1
  MaxLosses = 1
INVARIANTS TypeOK OnePanel UnchangedMeansCurrent
PROPERTIES SyncsEnd
CHECK_DEADLOCK FALSE
