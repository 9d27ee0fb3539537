SPECIFICATION Spec
CONSTANTS
  c1 = c1
  c2 = c2
  Clients <- OneClient
  Seats <- MCSeats
  Legacies <- UnionLegacy
  Owner <- MCOwner
  NoUnion = "nobody"
  Ops <- EveryOp
  MaxCalls = 2
  MaxToggles = 1
  MaxLearned = 0
PROPERTIES ResolvesAsDocumented ImportedIsShown DeletedIsGone OthersAreSafe
CHECK_DEADLOCK FALSE
