----------------------------- MODULE CalendarText -----------------------------
(***************************************************************************)
(* One member's schedule as text and as events: an ICS file or a WakeUp    *)
(* share is imported (internal/schedule/service.go, ics.go,                *)
(* wakeup_share.go), shown on the administration page and saved from there *)
(* (internal/admin/schedule_editor.go), exported as the stored text        *)
(* (internal/admin/transfer.go).                                           *)
(*                                                                         *)
(* A text is the sequence of the components inside its VCALENDAR, a        *)
(* component the sequence of its lines; a line has a property and a value, *)
(* or is a component nested in it (property "BEGIN").  Folding, escaping   *)
(* and the digits of a time are left out; a time keeps its form, since a   *)
(* DATE is a whole day.  Components nested twice are left out.             *)
(***************************************************************************)
EXTENDS Courses

CONSTANTS
  Files,        \* bound: the texts that are uploaded
  Shares,       \* bound: the WakeUp shares that are imported
  MaxEvents,    \* MaxEventsPerFile
  MaxNodes,     \* maxWakeUpNodes
  Minute,       \* slots of a minute: an event may start between two minutes
  MaxSaves      \* bound: imports and saves

ASSUME BoundsAssumption ==
  {MaxEvents, MaxSaves} \subseteq Nat /\ {MaxNodes, Minute} \subseteq Nat \ {0}

(* The elements of list that are in some, in their order.                  *)
Only(list, some) ==
  LET kept[i \in 0..Len(list)] ==
        IF i = 0 THEN <<>>
        ELSE IF list[i] \in some THEN Append(kept[i - 1], list[i]) ELSE kept[i - 1]
  IN kept[Len(list)]

None == "none"
NoUid == <<>>   \* a UID is a sequence, <<"random", ...>> for one of randomUID
NoValue == [at |-> NoTime, form |-> None]
Local(t) == [at |-> t, form |-> "local"]
NoRule == [every |-> Once, count |-> 1]
Line(p, v) == [prop |-> p, value |-> v]
Fields == {"UID", "SUMMARY", "DTSTART", "DTEND", "RRULE"}
Known == Fields \cup {"DTSTAMP", "LOCATION", "DESCRIPTION", "END"}

(* What a line can hold where it is read: a time, a rule, dates, a length. *)
(* A VEVENT is nested in nothing, and what is nested nests nothing.        *)
Values == [at : Instants, form : {None, "local", "utc", "zoned", "date"}]
Recurrences == [every : Instants, count : Nat]
Reads(line) ==
  /\ line.prop \in {"DTSTART", "DTEND"} => line.value \in Values
  /\ line.prop = "RRULE" => line.value \in Recurrences
  /\ line.prop \in {"EXDATE", "RDATE"} => line.value \in SUBSET Nat
  /\ line.prop = "DURATION" => line.value \in Instants
IsList(list) == list \in Seq(ToSet(list))
IsPlain(lines) ==
  IsList(lines) /\ \A i \in DOMAIN lines : lines[i].prop # "BEGIN" /\ Reads(lines[i])
IsLines(lines) ==
  /\ IsList(lines)
  /\ \A i \in DOMAIN lines :
       /\ Reads(lines[i])
       /\ lines[i].prop = "BEGIN" =>
            lines[i].value.name # "VEVENT" /\ IsPlain(lines[i].value.lines)
IsText(t) == IsList(t) /\ \A i \in DOMAIN t : IsLines(t[i].lines)
ASSUME FilesAssumption == \A t \in Files : IsText(t)

(* The numbers of a share are any; without a table it has no usable course.*)
(* A table's first day may be missing (NoTime) or unreadable (bad); a      *)
(* course has clocks of its own when own is set and both are there.  A     *)
(* clock that cannot be parsed is NoTime.                                  *)
IsShare(s) ==
  /\ IsList(s.tables) /\ s.tables # <<>>
  /\ \A i \in DOMAIN s.tables :
       s.tables[i].first \in Instants /\ s.tables[i].max \in Int /\ s.tables[i].bad \in BOOLEAN
  /\ IsList(s.nodes)
  /\ \A i \in DOMAIN s.nodes :
       s.nodes[i].node \in Int /\ {s.nodes[i].begins, s.nodes[i].ends} \subseteq Instants
  /\ IsList(s.courses)
  /\ \A i \in DOMAIN s.courses :
       /\ {s.courses[i].node, s.courses[i].step, s.courses[i].from, s.courses[i].to} \subseteq Int
       /\ s.courses[i].type \in {"all", "odd", "even"}
       /\ s.courses[i].own \in BOOLEAN
       /\ {s.courses[i].begins, s.courses[i].ends} \subseteq Instants
ASSUME SharesAssumption == \A s \in Shares : IsShare(s)

VARIABLES
  text,         \* Member.ICS
  stored,       \* Member.Events
  revision,
  page          \* what the administration page has open

calendarVars == <<text, stored, revision, page>>
NoPage == [revision |-> 0, inputs |-> <<>>]
CalendarInit == text = <<>> /\ stored = <<>> /\ revision = 0 /\ page = NoPage

--------------------------------------------------------------------------------
(* Reading a text.                                                         *)

(* extractComponents: nested components come as components of their own,   *)
(* before their parent, which keeps them among its lines.                  *)
Having(lines, p) == Only(lines, {l \in ToSet(lines) : l.prop = p})
Nested(lines) ==
  [i \in DOMAIN Having(lines, "BEGIN") |-> Having(lines, "BEGIN")[i].value]
Extract(t) == FlattenSeq([i \in DOMAIN t |-> Nested(t[i].lines) \o <<t[i]>>])

(* componentToEvent: the last line of a field counts, those of nested      *)
(* components do not; every line stays in raw.                             *)
Field(lines, p, default) ==
  IF Having(lines, p) = <<>> THEN default ELSE Last(Having(lines, p)).value
EventOf(c) ==
  [uid |-> Field(c.lines, "UID", NoUid), title |-> Field(c.lines, "SUMMARY", None),
   start |-> Field(c.lines, "DTSTART", NoValue), end |-> Field(c.lines, "DTEND", NoValue),
   rule |-> Field(c.lines, "RRULE", NoRule), raw |-> c.lines]

(* recurrenceDates and EventDurationFromRaw read all lines of raw, those   *)
(* of nested components included.                                          *)
Inside(line) == IF line.prop = "BEGIN" THEN line.value.lines ELSE <<line>>
AllLines(lines) == FlattenSeq([i \in DOMAIN lines |-> Inside(lines[i])])
Dates(e, p) == UNION {l.value : l \in ToSet(Having(AllLines(e.raw), p))}
FirstDuration(e) ==
  LET given == Having(AllLines(e.raw), "DURATION")
  IN IF given = <<>> THEN NoTime ELSE given[1].value
Meaning(e) ==
  [start |-> e.start.at, end |-> e.end.at, whole |-> e.start.form = "date",
   every |-> e.rule.every, count |-> e.rule.count,
   raw |-> [except |-> Dates(e, "EXDATE"), extra |-> Dates(e, "RDATE"),
            lasts |-> FirstDuration(e)]]

(* SortEvents: stable, by start and end; without a start at the end (the   *)
(* texts by which those are ordered are left out).                         *)
Precedes(e, f) ==
  LET a == Meaning(e)  b == Meaning(f) IN
  IF a.start # NoTime /\ b.start # NoTime
  THEN a.start < b.start \/ (a.start = b.start /\ Length(a) < Length(b))
  ELSE a.start # NoTime /\ b.start = NoTime
Places(es) ==
  {ij \in (DOMAIN es) \X (DOMAIN es) :
     \/ Precedes(es[ij[1]], es[ij[2]])
     \/ ~Precedes(es[ij[2]], es[ij[1]]) /\ ij[1] < ij[2]}
SortEvents(es) ==
  LET order == InOrder(DOMAIN es, Places(es)) IN [i \in DOMAIN es |-> es[order[i]]]

VEvents(t) == Only(Extract(t), {c \in ToSet(Extract(t)) : c.name = "VEVENT"})
ParseICSEvents(t) == SortEvents([i \in DOMAIN VEvents(t) |-> EventOf(VEvents(t)[i])])

(* ParseICSEvents gives an error for more than MaxEventsPerFile of them.   *)
TooMany(t) == Len(VEvents(t)) > MaxEvents

--------------------------------------------------------------------------------
(* Writing one.                                                            *)
Given(p, v, absent) == IF v = absent THEN <<>> ELSE <<Line(p, v)>>

\* A mutant: only the canonical fields are written.
FieldsOnly(e) ==
  [name |-> "VEVENT",
   lines |-> <<Line("UID", e.uid)>> \o Given("DTSTART", e.start, NoValue)
             \o Given("DTEND", e.end, NoValue) \o Given("RRULE", e.rule, NoRule)
             \o Given("SUMMARY", e.title, None)]

(* eventComponentLines: from raw the nested components and the properties  *)
(* that are not known, then the fields.  (randomUID for a missing UID.)    *)
Unseen(e) == Only(e.raw, {l \in ToSet(e.raw) : l.prop \notin Known})
Component(e) ==
  [name |-> "VEVENT",
   lines |-> Unseen(e)
             \o <<Line("UID", IF e.uid = NoUid THEN <<"random">> ELSE e.uid)>>
             \o Given("DTSTART", e.start, NoValue) \o Given("DTEND", e.end, NoValue)
             \o Given("RRULE", e.rule, NoRule) \o Given("SUMMARY", e.title, None)]

(* SerializeScheduleICS.                                                   *)
Serialize(es, base) ==
  Only(Extract(base), {c \in ToSet(Extract(base)) : c.name # "VEVENT"})
  \o [i \in DOMAIN es |-> Component(es[i])]

--------------------------------------------------------------------------------
(* WakeUpShare: tables, the times of the lessons of a day, and courses.    *)

(* ParseWakeUpShare, tableForCourse, nodesForCourse: by the ids, with the  *)
(* first table and all nodes for a course whose ids lead nowhere.          *)
TablesOf(s, c) == {i \in DOMAIN s.tables : s.tables[i].id = c.table}
TableOf(s, c) == s.tables[IF TablesOf(s, c) = {} THEN 1 ELSE Max(TablesOf(s, c))]
NodesOf(s, c) ==
  LET own == {i \in DOMAIN s.nodes : TablesOf(s, c) # {} /\ s.nodes[i].times = TableOf(s, c).times}
  IN IF own = {} THEN DOMAIN s.nodes ELSE own
IsNamed(s, c) == c.named \/ <<c.table, c.id>> \in s.names

(* courseTimes: the course's own clocks, or those of the nodes it covers,  *)
(* from its first to the last there is; of two nodes of one number the     *)
(* later one counts.                                                       *)
Steps(c) == Min({Max({c.step, 1}), MaxNodes})
CoveredNodes(s, c) ==
  {s.nodes[i].node : i \in NodesOf(s, c)} \cap (c.node..(c.node + Steps(c) - 1))
NodeAt(s, c, n) == s.nodes[Max({i \in NodesOf(s, c) : s.nodes[i].node = n})]
Begins(s, c) == IF c.own THEN c.begins ELSE NodeAt(s, c, c.node).begins
Ends(s, c) == IF c.own THEN c.ends ELSE NodeAt(s, c, Max(CoveredNodes(s, c))).ends
HasTimes(s, c) ==
  /\ c.own \/ c.node \in CoveredNodes(s, c)
  /\ NoTime \notin {Begins(s, c), Ends(s, c)}

\* A mutant: odd weeks from the course's own first week on.
FirstWeekAsGiven(c) == Max({c.from, 1})

(* Events: an odd or even course begins in its first such week.            *)
FirstWeek(c) ==
  LET w == Max({c.from, 1})
  IN IF (c.type = "odd" /\ w % 2 = 0) \/ (c.type = "even" /\ w % 2 = 1) THEN w + 1 ELSE w
LastWeek(s, c) ==
  LET w == Max({c.to, c.from, 1})
  IN IF TableOf(s, c).max > 0 THEN Min({w, TableOf(s, c).max}) ELSE w
Dated(s, c) == IsNamed(s, c) /\ c.day \in 1..Week /\ TableOf(s, c).first # NoTime
Usable(s, c) == Dated(s, c) /\ HasTimes(s, c) /\ FirstWeek(c) <= LastWeek(s, c)
ShareEvent(s, c) ==
  LET every == IF c.type = "all" THEN 1 ELSE 2
      day == DayStart(TableOf(s, c).first + (FirstWeek(c) - 1) * Week + c.day - 1)
  IN [uid |-> c.uid, title |-> "course",
      start |-> Local(day + Begins(s, c)), end |-> Local(day + Ends(s, c)),
      rule |-> [every |-> every * Week, count |-> (LastWeek(s, c) - FirstWeek(c)) \div every + 1],
      raw |-> <<>>]
ShareEvents(s) ==
  LET usable == Only(s.courses, {c \in ToSet(s.courses) : Usable(s, c)})
  IN SortEvents([i \in DOMAIN usable |-> ShareEvent(s, usable[i])])

(* One first day that cannot be parsed is an error for the whole share.    *)
Refused(s) == \E c \in ToSet(s.courses) : Dated(s, c) /\ TableOf(s, c).bad

--------------------------------------------------------------------------------
(* The operations.                                                         *)
Put(es, t) == stored' = es /\ text' = t /\ revision' = revision + 1
Open == revision < MaxSaves

(* SaveICSWithSource.                                                      *)
Upload(t) ==
  /\ Open
  /\ VEvents(t) # <<>> /\ ~TooMany(t)
  /\ Put(ParseICSEvents(t), t)
  /\ UNCHANGED page

(* SaveWakeUpShareWithSource, with no limit to the number of courses.      *)
ImportShare(s) ==
  /\ Open
  /\ s.nodes # <<>> /\ ~Refused(s)
  /\ UNCHANGED page
  /\ LET es == ShareEvents(s) IN es # <<>> /\ Put(es, Serialize(es, <<>>))

(* PageScheduleAt: times in local form, to the minute, empty when they     *)
(* cannot be read.                                                         *)
ToMinute(t) == IF t = NoTime THEN NoTime ELSE Minute * (t \div Minute)
Shown(e, i) ==
  [id |-> i, uid |-> e.uid, title |-> e.title, start |-> ToMinute(e.start.at),
   end |-> ToMinute(e.end.at), rule |-> e.rule]
ShowPage ==
  /\ revision > 0
  /\ page' = [revision |-> revision, inputs |-> [i \in DOMAIN stored |-> Shown(stored[i], i)]]
  /\ page' # page
  /\ UNCHANGED <<text, stored, revision>>

(* MakeEvent, and findOriginalEvent for what the page does not show.       *)
Valid(input) ==
  /\ input.title # None
  /\ input.start # NoTime /\ input.end # NoTime /\ input.end > input.start
  /\ input.rule.every # NoTime
Same(input) == {i \in DOMAIN stored : input.uid # NoUid /\ stored[i].uid = input.uid}

\* A mutant: a course without a UID has no original.
OriginalByUid(input) == IF Same(input) # {} THEN stored[Min(Same(input))].raw ELSE <<>>
Original(input) ==
  IF Same(input) # {} THEN stored[Min(Same(input))].raw
  ELSE IF input.id \in DOMAIN stored THEN stored[input.id].raw ELSE <<>>
MakeEvent(input) ==
  [uid |-> IF input.uid = NoUid THEN <<"random", revision>> ELSE input.uid, title |-> input.title,
   start |-> Local(input.start), end |-> Local(input.end), rule |-> input.rule,
   raw |-> Original(input)]

(* What a user does to the page: nothing, or with the dialog for a course  *)
(* adds one at the end, removes one that is not the last there is, or      *)
(* moves one.  The dialog has whole minutes and an end within a day of the *)
(* start, and asks for what is missing.                                    *)
NewInput ==
  [id |-> 0, uid |-> NoUid, title |-> "new", start |-> 0, end |-> Minute, rule |-> NoRule]
Redated(input) ==
  LET start == IF input.start = NoTime THEN 0 ELSE input.start + Minute
      fits == NoTime \notin {input.start, input.end} /\ input.end - input.start \in 1..(Slots - 1)
  IN [input EXCEPT !.title = IF @ = None THEN "new" ELSE @, !.start = start,
        !.end = start + (IF fits THEN input.end - input.start ELSE Minute)]
Edits(inputs) ==
  {inputs, Append(inputs, NewInput)}
  \cup {[inputs EXCEPT ![i] = Redated(inputs[i])] : i \in DOMAIN inputs}
  \cup {RemoveAt(inputs, i) : i \in {j \in DOMAIN inputs : Len(inputs) > 1}}

(* SavePageScheduleAt: all of the page or, with one input that is not      *)
(* valid or another revision, nothing.                                     *)
SavePage(inputs) ==
  /\ Open
  /\ page.revision = revision
  /\ Len(inputs) <= MaxEvents /\ \A i \in DOMAIN inputs : Valid(inputs[i])
  /\ LET es == SortEvents([i \in DOMAIN inputs |-> MakeEvent(inputs[i])])
     IN Put(es, Serialize(es, text))
  /\ UNCHANGED page

CalendarNext ==
  \/ \E t \in Files : Upload(t)
  \/ \E s \in Shares : ImportShare(s)
  \/ ShowPage
  \/ page # NoPage /\ \E inputs \in Edits(page.inputs) : SavePage(inputs)

CalendarSpec == CalendarInit /\ [][CalendarNext]_calendarVars

--------------------------------------------------------------------------------
Meanings(es) == [i \in DOMAIN es |-> Meaning(es[i])]

(* The stored text, imported again (an archive goes to another group, or   *)
(* back), gives the courses that are stored: the same times, whole days,   *)
(* rules, exceptions and extra dates in the same order, after any imports  *)
(* and saves.  (SerializeScheduleICS, ParseICSEvents.)  The exception: a   *)
(* share of more than MaxEvents courses is stored, and its text refused.   *)
TextHoldsEvents ==
  IF Len(stored) > MaxEvents THEN TooMany(text)
  ELSE ~TooMany(text) /\ Meanings(ParseICSEvents(text)) = Meanings(stored)

IsUntouched(i, inputs) == \E k \in DOMAIN inputs : inputs[k] = Shown(stored[i], i)
UniqueUids == \A i, j \in DOMAIN stored : stored[i].uid = stored[j].uid => i = j
InMinutes(e) == ToMinute(e.start.at) = e.start.at /\ ToMinute(e.end.at) = e.end.at

(* A course the user has not touched keeps every line the page knows       *)
(* nothing of, whatever happens to the others, and when it starts and ends *)
(* at whole minutes its times, with the exceptions and extra dates that    *)
(* the page does not show.  (SavePageScheduleAt; two courses of one UID    *)
(* get the lines of the first.)  Any save cuts the seconds off a time, and *)
(* an EXDATE with the old ones excludes nothing then.                      *)
UntouchedAreKept ==
  [][\A inputs \in Edits(page.inputs) : SavePage(inputs) /\ UniqueUids =>
       \A i \in DOMAIN stored : IsUntouched(i, inputs) =>
         \E k \in DOMAIN stored' :
           /\ Unseen(stored'[k]) = Unseen(stored[i])
           /\ InMinutes(stored[i]) =>
                /\ Times(Meaning(stored'[k])) = Times(Meaning(stored[i]))
                /\ Length(Meaning(stored'[k])) = Length(Meaning(stored[i]))]_calendarVars

(* The weeks in which a course of a share is held.                         *)
HeldIn(s, c) ==
  {w \in Max({c.from, 1})..Max({c.to, c.from, 1}) :
     /\ TableOf(s, c).max > 0 => w <= TableOf(s, c).max
     /\ c.type = "odd" => w % 2 = 1
     /\ c.type = "even" => w % 2 = 0}
Lasts(s, c) == IF Ends(s, c) > Begins(s, c) THEN Ends(s, c) - Begins(s, c) ELSE Lesson
Lectures(s, c) ==
  {[start |-> DayStart(TableOf(s, c).first + (w - 1) * Week + c.day - 1) + Begins(s, c),
    length |-> Lasts(s, c)] : w \in HeldIn(s, c)}
Readable(s, c) == Dated(s, c) /\ HasTimes(s, c)

(* An imported share gives every lecture of its courses, each in exactly   *)
(* the weeks and the parity the share says, at its own clocks or those of  *)
(* its nodes, and no other.  (WakeUpShare.Events; one that ends no later   *)
(* than it begins lasts a lesson; one without a first day or with clocks   *)
(* that cannot be parsed has none.)                                        *)
WeeksAsShared ==
  [][\A s \in Shares : ImportShare(s) =>
       UNION {{[start |-> t, length |-> Length(Meaning(stored'[i]))] : t \in Times(Meaning(stored'[i]))} :
                i \in DOMAIN stored'}
       = UNION {Lectures(s, c) : c \in {d \in ToSet(s.courses) : Readable(s, d)}}]_calendarVars

(* SerializeScheduleICS "rebuilds a calendar, keeping non-VEVENT           *)
(* components from the base text" (ics.go:482): a save leaves the          *)
(* components beside the events as they were.                              *)
Others(t) == Only(t, {c \in ToSet(t) : c.name # "VEVENT"})
ComponentsAreKept ==
  [][\A inputs \in Edits(page.inputs) : SavePage(inputs) => Others(text') = Others(text)]_calendarVars

================================================================================
