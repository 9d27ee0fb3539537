SPECIFICATION CalendarSpec
CONSTANTS
  Slots = 4
  Lesson = 2
  Files <- MCFiles
  Shares <- MCShares
  MaxEvents = 6
  MaxNodes = 3
  Minute = 2
  MaxSaves = 3

PROPERTIES ComponentsAreKept
CHECK_DEADLOCK FALSE
