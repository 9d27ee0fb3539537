SPECIFICATION Spec
CONSTANTS
  Slots = 4
  Lesson = 1
  m1 = m1
  m2 = m2
  Members <- MCMembers
  Schedules <- MCSchedules
  LastDay = 2
  MarkLimit = 2
  MaxRange = 7
SYMMETRY Interchangeable
INVARIANTS CardIsRight RankIsFair
PROPERTIES ElapsedCatchesUp
