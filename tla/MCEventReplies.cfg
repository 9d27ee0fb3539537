SPECIFICATION Spec
CONSTANTS
  m1 = m1
  m2 = m2
  m3 = m3
  press = press
  Events <- Pair
  Interactions <- Press
  NoId = "none"
  Plans <- AllPlans
  DedupTtl = 1
  DedupMax = 2
  MaxAttempts = 3
  MaxRuns = 2
  MaxTime = 1
  MaxLives = 2
INVARIANTS TypeOK OneRecord RecordTellsOutcome AckBeforeAnswer
CHECK_DEADLOCK FALSE
