-------------------------------- MODULE Courses --------------------------------
(***************************************************************************)
(* What a stored course means: the times at which it takes place, read     *)
(* from an event (internal/schedule/occurrence.go), and the class time of  *)
(* a window (internal/schedule/rank.go).                                   *)
(*                                                                         *)
(* An instant is a natural number of slots since the Monday of the first   *)
(* week; day d is the slots d * Slots .. d * Slots + Slots - 1.  An event  *)
(* has the canonical fields start, end, whole (DTSTART is a DATE), every   *)
(* and count (RRULE), and in raw what is only read from its RAW_ICAL: the  *)
(* EXDATEs, the RDATEs and the first DURATION.                             *)
(***************************************************************************)
EXTENDS Integers, Sequences, FiniteSets, SequencesExt, FiniteSetsExt

CONSTANTS
  Slots,        \* slots of a day
  Lesson        \* the 90 minutes of an event that does not say how long it is

ASSUME SlotsAssumption == Slots \in Nat \ {0} /\ Lesson \in 1..Slots

NoTime == -1    \* a field that is missing or cannot be parsed
Week == 7
Once == 0       \* every: no RRULE; NoTime: one that cannot be parsed
Instants == Nat \cup {NoTime}
Events ==
  [start : Instants, end : Instants, whole : BOOLEAN, every : Instants, count : Nat,
   raw : [except : SUBSET Nat, extra : SUBSET Nat, lasts : Instants]]
DayOf(t) == t \div Slots
DayStart(d) == d * Slots

(* The elements of S by a strict total order, a set of pairs.              *)
InOrder(S, less) ==
  [i \in 1..Cardinality(S) |-> CHOOSE x \in S : Cardinality({y \in S : <<y, x>> \in less}) = i - 1]

--------------------------------------------------------------------------------
(* EventDatetimes: DTEND, else DURATION, else a whole day or a lesson; an  *)
(* end that is not after the start is replaced by a lesson.                *)
Said(e) ==
  CASE e.end # NoTime -> e.end
    [] e.end = NoTime /\ e.raw.lasts # NoTime -> e.start + e.raw.lasts
    [] OTHER -> e.start + (IF e.whole THEN Slots ELSE Lesson)
Length(e) == IF Said(e) > e.start THEN Said(e) - e.start ELSE Lesson

\* A mutant: a rule is asked for the starts inside the window only.
StartsInside(e, from, to) ==
  CASE e.every = Once -> {e.start}
    [] e.every = NoTime -> {}
    [] OTHER -> {e.start + k * e.every * Slots : k \in 0..(e.count - 1)} \cap (from..to)

(* The starts an event gives for a window: those of its rule from one      *)
(* length before the window on, or its own.                                *)
Starts(e, from, to) ==
  CASE e.every = Once -> {e.start}
    [] e.every = NoTime -> {}
    [] OTHER -> {e.start + k * e.every * Slots : k \in 0..(e.count - 1)}
                  \cap ((from - Length(e))..to)

(* All the times of a course, with no window: what windows are compared    *)
(* with.                                                                   *)
Times(e) ==
  IF e.start = NoTime THEN {}
  ELSE ((CASE e.every = Once -> {e.start}
           [] e.every = NoTime -> {}
           [] OTHER -> {e.start + k * e.every * Slots : k \in 0..(e.count - 1)})
        \cup e.raw.extra) \ e.raw.except

(* ExpandEventOccurrences: the rule's starts and the RDATEs without the    *)
(* EXDATEs, where they overlap the window.                                 *)
Meetings(e, from, to) ==
  IF e.start = NoTime THEN {}
  ELSE {t \in (Starts(e, from, to) \cup e.raw.extra) \ e.raw.except :
          t < to /\ t + Length(e) > from}

Meeting(events, i, t) ==
  [course |-> i, start |-> t, end |-> t + Length(events[i]), whole |-> events[i].whole,
   shifted |-> FALSE]

(* ExpandEventsOnDay: what starts on the day, whatever its marks.          *)
OnDay(events, d) ==
  UNION {{Meeting(events, i, t) : t \in {u \in Meetings(events[i], DayStart(d), DayStart(d + 1)) :
                                           DayOf(u) = d}} : i \in DOMAIN events}

(* ExpandIndexedOccurrences: a marked day loses what starts on it, a       *)
(* shifted one gets the courses of its source day at their times of day.   *)
(* marks maps the marked days to [kind, source].                           *)
Own(events, marks, from, to) ==
  UNION {{Meeting(events, i, t) : t \in {u \in Meetings(events[i], from, to) :
                                           DayOf(u) \notin DOMAIN marks}} : i \in DOMAIN events}
Moved(o, d, source) ==
  LET t == DayStart(d) + o.start - DayStart(source)
  IN [o EXCEPT !.start = t, !.end = t + o.end - o.start, !.shifted = TRUE]
ShiftedInto(marks, from, to) ==
  {d \in DOMAIN marks : marks[d].kind = "shift" /\ DayStart(d) < to /\ DayStart(d + 1) > from}
Expand(events, marks, from, to) ==
  Own(events, marks, from, to)
  \cup UNION {{Moved(o, d, marks[d].source) : o \in OnDay(events, marks[d].source)} :
                d \in ShiftedInto(marks, from, to)}

(* lessOccurrence, and the place in the stored list between equals.        *)
Before(o, p) ==
  \/ o.start < p.start
  \/ o.start = p.start /\ o.end < p.end
  \/ o.start = p.start /\ o.end = p.end /\ o.course < p.course
First(os) == CHOOSE o \in os : \A p \in os \ {o} : Before(o, p)
Latest(os) == CHOOSE o \in os : \A p \in os \ {o} : Before(p, o)

--------------------------------------------------------------------------------
(* Class time.                                                             *)

(* ClippedOccurrences: the part inside the window, without whole days.     *)
Clipped(os, from, to) ==
  {c \in {[o EXCEPT !.start = Max({@, from}), !.end = Min({@, to})] : o \in {p \in os : ~p.whole}} :
     c.end > c.start}

(* MergeIntervals: by start, each span joins the last one or follows it.   *)
Sooner(spans) ==
  {ab \in spans \X spans : ab[1][1] < ab[2][1] \/ (ab[1][1] = ab[2][1] /\ ab[1][2] < ab[2][2])}
Join(done, span) ==
  LET last == done[Len(done)] IN
  IF done = <<>> \/ span[1] > last[2] THEN Append(done, span)
  ELSE [done EXCEPT ![Len(done)] = <<last[1], Max({last[2], span[2]})>>]
Joined(list) ==
  LET done[i \in 0..Len(list)] == IF i = 0 THEN <<>> ELSE Join(done[i - 1], list[i])
  IN done[Len(list)]
Merge(spans) == Joined(InOrder(spans, Sooner(spans)))

(* totalMinutes, in slots.                                                 *)
Total(list) ==
  LET sum[i \in 0..Len(list)] == IF i = 0 THEN 0 ELSE sum[i - 1] + list[i][2] - list[i][1]
  IN sum[Len(list)]
Minutes(os) == Total(Merge({<<o.start, o.end>> : o \in os}))
================================================================================
