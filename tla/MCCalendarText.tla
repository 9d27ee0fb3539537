---------------------------- MODULE MCCalendarText ----------------------------
(* The instance of CalendarText that TLC explores: days of four slots, two *)
(* to the minute.                                                          *)
EXTENDS CalendarText

Value(t, form) == [at |-> t, form |-> form]
Block(name, lines) == [name |-> name, lines |-> lines]
VEvent(lines) == Block("VEVENT", lines)
Named(uid) == <<Line("UID", uid), Line("SUMMARY", "course")>>
Alarm == Line("BEGIN", Block("VALARM", <<Line("DURATION", 6), Line("SUMMARY", "alarm")>>))
Zone == Block("VTIMEZONE", <<Line("TZID", "here"), Line("BEGIN", Block("STANDARD", <<>>))>>)

Weekly == [every |-> 2, count |-> 3]
WithExceptions ==
  VEvent(Named(<<"a">>) \o <<Line("DTSTART", Value(2, "zoned")), Line("DTEND", Value(4, "zoned")),
         Line("RRULE", Weekly), Line("EXDATE", {10}), Line("RDATE", {6}), Line("X", "kept"), Alarm>>)
WholeDay ==
  VEvent(Named(<<"b">>) \o <<Line("DTSTART", Value(0, "date")), Line("DTEND", Value(4, "date"))>>)
WithoutEnd == VEvent(Named(<<"c">>) \o <<Line("DTSTART", Value(8, "local")), Alarm>>)
WithoutUid ==
  VEvent(<<Line("SUMMARY", "course"), Line("DTSTART", Value(4, "utc")), Line("DTEND", Value(6, "utc")),
           Line("RDATE", {12})>>)
WithSeconds ==
  VEvent(Named(<<"e">>) \o <<Line("DTSTART", Value(3, "local")), Line("DTEND", Value(6, "local")),
         Line("RRULE", Weekly), Line("EXDATE", {11})>>)
Unreadable == VEvent(Named(<<"d">>) \o <<Line("RRULE", [every |-> NoTime, count |-> 1])>>)
Override ==
  VEvent(Named(<<"a">>) \o <<Line("DTSTART", Value(12, "local")), Line("DTEND", Value(14, "local")),
         Line("RECURRENCE-ID", {6})>>)

MCFiles ==
  {<<Zone, WithExceptions, WholeDay>>, <<WithSeconds, WithExceptions>>,
   <<Override, WithExceptions>>, <<WithoutEnd, WithoutUid>>, <<WithoutUid, Unreadable>>, <<Zone>>,
   [i \in 1..(MaxEvents + 1) |-> WholeDay]}

(* Rows of which the fifth has clocks of its own and no node, and the last *)
(* two have a clock that cannot be parsed.                                 *)
Spans == <<<<0, 2>>, <<1, 4>>, <<2, 4>>, <<2, 3>>, <<3, 1>>, <<4, 4>>, <<1, 1>>, <<1, 2>>, <<1, 2>>>>
Row(i, type) ==
  [uid |-> <<"wakeup", i>>, id |-> i, table |-> i % 3, named |-> i = 1, day |-> 1 + ((i - 1) % Week),
   node |-> IF i = 5 THEN 9 ELSE 1 + (i % 2), step |-> IF i = 8 THEN 3 ELSE i % 4,
   from |-> Spans[i][1], to |-> Spans[i][2], type |-> type,
   own |-> i \in {5, 9}, begins |-> IF i = 9 THEN NoTime ELSE 0, ends |-> 2]
Node(times, node, begins, ends) ==
  [times |-> times, node |-> node, begins |-> begins, ends |-> ends]
Share(type, max, bad) ==
  [tables |-> <<[id |-> 1, first |-> 0, max |-> max, times |-> 1, bad |-> FALSE],
                [id |-> 2, first |-> 14, max |-> 0, times |-> 2, bad |-> bad]>>,
   nodes |-> <<Node(1, 1, 0, 2), Node(1, 2, 2, 4), Node(1, 3, 4, NoTime), Node(1, 4, 4, 6),
               Node(3, 2, 2, 6)>>,
   names |-> {<<t, i>> \in (0..2) \X (2..9) : i % 3 = t},
   courses |-> [i \in 1..9 |-> Row(i, type)]]
MCShares ==
  {Share(type, max, FALSE) : type \in {"all", "odd", "even"}, max \in {0, 3}}
  \cup {Share("all", 0, TRUE)}
===============================================================================
