SPECIFICATION Spec
CONSTANTS
  c1 = c1
  c2 = c2
  g1 = g1
  g2 = g2
  m1 = m1
  d1 = d1
  d2 = d2
  Callers <- MCCallers
  Groups <- MCGroups
  Members = {m1}
  All = "*"
  Days = {d1, d2}
  MaxMarks = 3
  Earlier <- MCEarlier
  Listings <- MCListings
  Ops <- EveryOp
  MaxCalls = 2
  MaxTroubles = 1
SYMMETRY Interchangeable
INVARIANTS TypeOK LimitKept
PROPERTIES ClaimsAreTrue RestoreRebuilds MarkShows
CHECK_DEADLOCK FALSE
