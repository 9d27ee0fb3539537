SPECIFICATION Spec
CONSTANTS
  c1 = c1
  c2 = c2
  Clients <- MCClients
  Seats <- TwoSeats
  Legacies <- NoLegacies
  Owner <- SameOwner
  NoUnion = "nobody"
  Ops <- EveryOp
  MaxCalls = 2
  MaxToggles = 0
  MaxLearned = 1
INVARIANTS TypeOK
PROPERTIES IsolatedStaysHome
SYMMETRY Interchangeable
CHECK_DEADLOCK FALSE
