SPECIFICATION Spec
CONSTANTS
  m1 = m1
  m2 = m2
  m3 = m3
  press = press
  Events <- Messages
  Interactions <- NoPress
  NoId = "none"
  Plans <- FromBots
  DedupTtl = 1
  DedupMax = 1
  MaxAttempts = 3
  MaxRuns = 3
  MaxTime = 4
  MaxLives = 2
INVARIANTS ProcessedOnce OnlyFreshAboveLimit
SYMMETRY Permuted
CHECK_DEADLOCK FALSE
