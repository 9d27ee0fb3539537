------------------------------ MODULE CourseDays ------------------------------
(***************************************************************************)
(* What a group is shown: the day card (internal/schedule/daycard.go) and  *)
(* the class-time board (internal/schedule/rank.go) of its members, while  *)
(* the clock runs, schedules are replaced and days are marked.             *)
(*                                                                         *)
(* Neither keeps anything: both are functions of the stored schedules, the *)
(* marks and the clock, evaluated at every state.  Wording, countdowns and *)
(* the order of rows are left out.                                         *)
(***************************************************************************)
EXTENDS Courses

CONSTANTS
  Members,
  Schedules,    \* bound: the event lists a member may have
  LastDay,      \* bound: the clock stops after it
  MarkLimit,    \* bound: the marks there are
  MaxRange      \* RankMaxRangeDays

Days == 0..LastDay
ASSUME MembersAssumption == IsFiniteSet(Members)
ASSUME DaysAssumption == LastDay \in Nat /\ MarkLimit \in Nat /\ MaxRange \in Nat
ASSUME SchedulesAssumption == Schedules \subseteq Seq(Events)

Rules(d) ==
  {[kind |-> "holiday", source |-> d]} \cup {[kind |-> "shift", source |-> s] : s \in Days \ {d}}

VARIABLES
  events,       \* events[m]: the stored list of m
  marks,        \* marks[m]: from the marked days of m to their rules
  clock

vars == <<events, marks, clock>>
NoMarks == [d \in {} |-> [kind |-> "holiday", source |-> 0]]

Init ==
  /\ events \in [Members -> Schedules]
  /\ marks = [m \in Members |-> NoMarks]
  /\ clock = 0

--------------------------------------------------------------------------------
(* DailyMemberRows at the instant now; at is the instant a query asks for  *)
(* ("tomorrow evening"), NoTime without one.                               *)
Look(m, d) == Expand(events[m], marks[m], DayStart(d), DayStart(d + 1))
Holiday(m, d) == d \in DOMAIN marks[m] /\ marks[m][d].kind = "holiday"

Live(d, at, now) == at # NoTime \/ d = DayOf(now)
Reference(at, now) == IF at = NoTime THEN now ELSE at

\* A mutant: a course that has just ended is still on.
RunningAtItsEnd(m, d, at, now) ==
  {o \in Look(m, d) : /\ Live(d, at, now)
                      /\ o.start <= Reference(at, now) /\ Reference(at, now) <= o.end}
Running(m, d, at, now) ==
  {o \in Look(m, d) : /\ Live(d, at, now)
                      /\ o.start <= Reference(at, now) /\ Reference(at, now) < o.end}
Coming(m, d, at, now) ==
  {o \in Look(m, d) : IF Live(d, at, now) THEN o.start > Reference(at, now) ELSE d > DayOf(now)}

(* dayFinished.                                                            *)
Over(m, d, at, now) ==
  IF at # NoTime /\ Look(m, d) # {} THEN Latest(Look(m, d)).end <= at ELSE d <= DayOf(now)

Nothing == [status |-> "none", featured |-> {}, count |-> 0]
Row(m, d, at, now) ==
  LET all == Look(m, d)
      Feature(s, os) == [status |-> s, featured |-> os, count |-> Cardinality(all)]
  IN CASE Holiday(m, d) -> [Nothing EXCEPT !.status = "holiday"]
       [] ~Holiday(m, d) /\ Running(m, d, at, now) # {} ->
            Feature("active", {First(Running(m, d, at, now))})
       [] OTHER ->
            IF Coming(m, d, at, now) # {} THEN Feature("upcoming", {First(Coming(m, d, at, now))})
            ELSE IF all = {} THEN Nothing
            ELSE IF Over(m, d, at, now) THEN Feature("finished", {Latest(all)})
            ELSE Feature("upcoming", {First(all)})

(* SplitFoldedRows: who has nothing left.                                  *)
Folded(d, at, now) ==
  {m \in Members : Row(m, d, at, now).status \in {"finished", "none", "holiday"}}

(* MarkdownDayList: the members it gives a block, each course an item.     *)
Listed(d) == {m \in Members : ~Holiday(m, d) /\ Look(m, d) # {}}

--------------------------------------------------------------------------------
(* ParseTimeRange: the windows a board is asked for, in days.              *)
WeekOf(d, k) ==
  LET monday == d - (d % Week) + Week * k IN [first |-> monday, last |-> monday + Week - 1]
From(w) == DayStart(w.first)
To(w) == DayStart(w.last + 1)
Accepted(w) == w.first <= w.last /\ w.last + 1 - w.first <= MaxRange

(* BuildRankRows: only what is inside the window counts, and as elapsed    *)
(* only what has ended.                                                    *)
Counted(m, w) == Clipped(Expand(events[m], marks[m], From(w), To(w)), From(w), To(w))

\* A mutant: the end of the course itself, not of its part in the window.
EndedWhole(m, w, now) ==
  Clipped({o \in Expand(events[m], marks[m], From(w), To(w)) : o.end <= now}, From(w), To(w))
Ended(m, w, now) == {o \in Counted(m, w) : o.end <= now}

Ranked(w) == {m \in Members : Counted(m, w) # {}}
RowOf(m, w, now) ==
  [member |-> m, minutes |-> Minutes(Counted(m, w)), elapsed |-> Minutes(Ended(m, w, now)),
   courses |-> Cardinality(Counted(m, w))]

(* The rows, those with more class time, or more courses, first; which of  *)
(* two equal ones is, by name in the code, is left open.                   *)
Ahead(a, b) == a.minutes > b.minutes \/ (a.minutes = b.minutes /\ a.courses > b.courses)
Board(w, now) ==
  LET rows == {RowOf(m, w, now) : m \in Ranked(w)} IN
  CHOOSE list \in [1..Cardinality(rows) -> rows] :
    \A i, j \in DOMAIN list : i < j => list[i] # list[j] /\ ~Ahead(list[j], list[i])

(* The place of row i: that of the first row with as many minutes.         *)
Place(rows, i) ==
  CHOOSE j \in 1..i :
    /\ rows[j].minutes = rows[i].minutes
    /\ \A k \in 1..(j - 1) : rows[k].minutes # rows[i].minutes

--------------------------------------------------------------------------------
Tick == clock < DayStart(LastDay + 1) - 1 /\ clock' = clock + 1 /\ UNCHANGED <<events, marks>>

Replace(m) ==
  /\ \E list \in Schedules \ {events[m]} : events' = [events EXCEPT ![m] = list]
  /\ UNCHANGED <<marks, clock>>

Marked == {md \in Members \X Days : md[2] \in DOMAIN marks[md[1]]}
Mark(m, d) ==
  /\ Cardinality(Marked \ {<<m, d>>}) < MarkLimit
  /\ \E rule \in Rules(d) :
       marks' = [marks EXCEPT ![m] = [e \in DOMAIN @ \cup {d} |-> IF e = d THEN rule ELSE @[e]]]
  /\ UNCHANGED <<events, clock>>
Unmark(m, d) ==
  /\ d \in DOMAIN marks[m]
  /\ marks' = [marks EXCEPT ![m] = [e \in DOMAIN @ \ {d} |-> @[e]]]
  /\ UNCHANGED <<events, clock>>

Next ==
  \/ Tick
  \/ \E m \in Members : Replace(m) \/ \E d \in Days : Mark(m, d) \/ Unmark(m, d)

Spec == Init /\ [][Next]_vars

--------------------------------------------------------------------------------
(* What the cards and boards are compared with: when somebody is in    *)
(* class, from all the times of a course and without any window.           *)
Shifts(m) == {d \in DOMAIN marks[m] : marks[m][d].kind = "shift"}
Kept(m, i) ==
  {s \in Times(events[m][i]) : DayOf(s) \notin DOMAIN marks[m]}
  \cup UNION {{DayStart(d) + (s % Slots) : s \in {u \in Times(events[m][i]) :
                                                  DayOf(u) = marks[m][d].source}} : d \in Shifts(m)}
InClass(m, i) == UNION {s..(s + Length(events[m][i]) - 1) : s \in Kept(m, i)}
Busy(m) == UNION {InClass(m, i) : i \in DOMAIN events[m]}
ClassTime(m) == UNION {InClass(m, i) : i \in {j \in DOMAIN events[m] : ~events[m][j].whole}}

(* A shifted course that passes midnight is missing from a window that     *)
(* begins after its day (occurrence.go:142): members with one are not      *)
(* compared.                                                               *)
Comparable ==
  {m \in Members : \A d \in Shifts(m), i \in DOMAIN events[m] : \A s \in Times(events[m][i]) :
     DayOf(s) = marks[m][d].source => (s % Slots) + Length(events[m][i]) <= Slots}

SlotsOf(d) == DayStart(d)..(DayStart(d + 1) - 1)
Awaited(m, d, at, busy) ==
  IF Holiday(m, d) THEN "holiday"
  ELSE IF busy = {} THEN "none"
  ELSE IF ~Live(d, at, clock) THEN (IF d < DayOf(clock) THEN "finished" ELSE "upcoming")
  ELSE IF Reference(at, clock) \in busy THEN "active"
  ELSE IF \E t \in busy : t > Reference(at, clock) THEN "upcoming" ELSE "finished"

(* The state of a member on the card of any day is what the courses say of *)
(* that instant, asked live or for a time of day, over midnight and with   *)
(* marked days; and the list of the day has a block for exactly those the  *)
(* card says have, or had, courses.  (DailyMemberRows, MarkdownDayList.)   *)
CardIsRight ==
  \A m \in Comparable, d \in Days :
    LET busy == Busy(m) \cap SlotsOf(d) IN
    /\ \A at \in SlotsOf(d) \cup {NoTime} : Row(m, d, at, clock).status = Awaited(m, d, at, busy)
    /\ m \in Listed(d) <=> (~Holiday(m, d) /\ busy # {})

Windows ==
  {WeekOf(DayOf(clock), k) : k \in -1..0}
  \cup {[first |-> de[1], last |-> de[2]] : de \in Days \X Days}

(* A member's class time in an accepted window is the time in which any of *)
(* his courses other than whole days takes place, each moment once, however *)
(* they overlap and wherever they cross the window; and one is placed      *)
(* behind exactly those with more.  (BuildRankRows.)                       *)
RankIsFair ==
  /\ \A m \in Comparable :
       LET busy == ClassTime(m) IN
       \A w \in {v \in Windows : Accepted(v)} :
         Minutes(Counted(m, w)) = Cardinality(busy \cap (From(w)..(To(w) - 1)))
  /\ \A w \in {v \in Windows : Accepted(v)} :
       LET rows == Board(w, clock)
       IN \A i \in DOMAIN rows :
            Place(rows, i) = 1 + Cardinality({m \in Ranked(w) :
                                                Minutes(Counted(m, w)) > rows[i].minutes})

(* While the clock runs the elapsed part of a window's class time never    *)
(* shrinks, and when the window is over it is all of it.                   *)
ElapsedCatchesUp ==
  [][Tick => \A m \in Members, w \in {v \in Windows : Accepted(v)} :
       /\ RowOf(m, w, clock').elapsed >= RowOf(m, w, clock).elapsed
       /\ clock' >= To(w) => RowOf(m, w, clock').elapsed = RowOf(m, w, clock').minutes]_vars

================================================================================
