SPECIFICATION Spec
CONSTANTS
  anna = anna
  ben = ben
  carl = carl
  t1 = t1
  t2 = t2
  c1 = c1
  c2 = c2
  c3 = c3
  s1 = s1
  s2 = s2
  People = {anna, ben}
  Tokens = {t1, t2}
  Databases <- AllDatabases
  LinkLife = 1
  LastTime = 2
  MaxWrites = 2
  Addresses = {anna}
  Logins = {c1, c2}
  Sessions = {t1, t2}
  SessionTime = 4
  FailWindow = 2
  MaxFailures = 2
  BlockTime = 3
  LastMinute = 6
  MaxWrong = 4
  Callers = {c1, c2}
  Lifetimes = {1, 4}
  Margin = 2
  Assumed = 4
  Timeout = 1
  Attempts = 2
  MaxIssued = 2
  LastSecond = 6
  Order = {1, 2, 3, 4}
  Bots = {2}
  Syncs = {s1, s2}
  PageSize = 2
  MaxPages = 2
  MaxRoster = 2
  Interval = 2
  Limit = 1
  LastTick = 4
  MaxMoves = 2
INVARIANTS ExpiredStaysExpired OnlyRecentCounts TokenServesAll
PROPERTIES MovedWhole RestartChangesNothing RosterIsSnapshot
CHECK_DEADLOCK FALSE
