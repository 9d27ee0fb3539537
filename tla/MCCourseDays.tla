----------------------------- MODULE MCCourseDays -----------------------------
(* The instance of CourseDays that TLC explores: days of four slots.       *)
EXTENDS CourseDays, TLC

CONSTANTS m1, m2

Plain == [except |-> {}, extra |-> {}, lasts |-> NoTime]
Course(start, end, every, count, raw) ==
  [start |-> start, end |-> end, whole |-> FALSE, every |-> every, count |-> count, raw |-> raw]

Daily == Course(1, 3, 1, 3, [Plain EXCEPT !.except = {5}, !.extra = {6}])
WholeDay == [Course(4, NoTime, Once, 1, Plain) EXCEPT !.whole = TRUE]
OverMidnight == Course(3, 6, 2, 2, Plain)
Overlapping == Course(5, NoTime, Once, 1, [Plain EXCEPT !.lasts = 2])
Backwards == Course(9, 8, Once, 1, Plain)
Unreadable == Course(NoTime, NoTime, Once, 1, Plain)
BadRule == Course(0, 1, NoTime, 1, [Plain EXCEPT !.extra = {2, 8}])

MCSchedules ==
  {<<Daily, WholeDay>>, <<OverMidnight, Overlapping>>, <<BadRule, Backwards, Unreadable>>}
MCMembers == {m1, m2}
Interchangeable == Permutations(MCMembers)
===============================================================================
