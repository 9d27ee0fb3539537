SPECIFICATION CalendarSpec
CONSTANTS
  Slots = 4
  Lesson = 2
  Files <- MCFiles
  Shares <- MCShares
  MaxEvents = 6
  MaxNodes = 3
  Minute = 2
  MaxSaves = 3
INVARIANTS TextHoldsEvents
PROPERTIES UntouchedAreKept WeeksAsShared
CHECK_DEADLOCK FALSE
