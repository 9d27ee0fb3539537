---------------------------- MODULE CourseDaysProofs ---------------------------
(***************************************************************************)
(* CourseDays: every row of every day card and every class-time board is   *)
(* right, for days of any length, any courses that recur, move, last or    *)
(* pass midnight as they like, any marks and any members.  The card looks  *)
(* through the window of a day; the lemmas say what that window holds      *)
(* (OfDayIs), that it holds finitely many meetings, so that there is a     *)
(* last one (LatestOfDay), and that they cover exactly the slots of the    *)
(* day in which the courses, without any window, say the member is busy    *)
(* (BusyIsMet, MetIsBusy).  The board looks through longer windows         *)
(* (WindowIs, ClassIsCounted) and adds up merged spans: merging keeps what *)
(* is covered and covers it once (JoinedCovers), so that the total is the  *)
(* number of slots (TotalCounts).  Merging and adding are computed along a *)
(* list; Computed and AlongIt are the recursion and the induction for it.  *)
(***************************************************************************)
EXTENDS CourseDays, FiniteSetTheorems, TLAPS

--------------------------------------------------------------------------------
(* Days and instants.                                                      *)
LEMMA NextDay ==
  ASSUME NEW d \in Int
  PROVE  /\ DayStart(d) \in Int /\ (d \in Nat => DayStart(d) \in Nat)
         /\ DayStart(d + 1) = DayStart(d) + Slots
  BY SlotsAssumption DEF DayStart

LEMMA DaysApart ==
  ASSUME NEW d \in Int, NEW e \in Int, d < e
  PROVE  DayStart(d) + Slots <= DayStart(e)
  BY SlotsAssumption DEF DayStart

TimeOfDay(t) == t % Slots
LEMMA DayParts ==
  ASSUME NEW t \in Nat
  PROVE  /\ DayOf(t) \in Nat /\ TimeOfDay(t) \in 0..(Slots - 1)
         /\ t = DayStart(DayOf(t)) + TimeOfDay(t)
  BY SlotsAssumption DEF DayOf, DayStart, TimeOfDay

(* The day of an instant is the one whose slots it is among.               *)
LEMMA DayOfIs ==
  ASSUME NEW t \in Nat, NEW d \in Nat
  PROVE  DayOf(t) = d <=> DayStart(d) <= t /\ t < DayStart(d + 1)
<1>1. PICK e \in Nat : e = DayOf(t)
  BY DayParts
<1>2. DayStart(e) <= t /\ t < DayStart(e) + Slots
  <2>1. TimeOfDay(t) \in 0..(Slots - 1) /\ t = DayStart(e) + TimeOfDay(t)
    BY <1>1, DayParts
  <2>2. DayStart(e) \in Int /\ Slots \in Int
    BY NextDay, SlotsAssumption
  <2> QED
    BY <2>1, <2>2
<1>3. /\ DayStart(d) \in Int /\ DayStart(e) \in Int /\ Slots \in Int
      /\ DayStart(d + 1) = DayStart(d) + Slots
  BY NextDay, SlotsAssumption
<1>4. (d < e => DayStart(d) + Slots <= DayStart(e)) /\ (e < d => DayStart(e) + Slots <= DayStart(d))
  BY DaysApart
<1> QED
  BY <1>1, <1>2, <1>3, <1>4

--------------------------------------------------------------------------------
(* One event: its length and its times, in a window and without one.       *)
LEMMA LengthIs == ASSUME NEW e \in Events PROVE Length(e) \in Nat /\ Length(e) > 0
<1>1. /\ e.start \in Int /\ e.end \in Int /\ e.raw.lasts \in Int /\ e.whole \in BOOLEAN
      /\ Slots \in Int /\ Lesson \in Nat /\ Lesson > 0
  BY SlotsAssumption DEF Events, Instants, NoTime
<1>2. Said(e) \in Int
  BY <1>1 DEF Said, NoTime
<1> QED
  BY <1>1, <1>2 DEF Length

LEMMA TimesAre == ASSUME NEW e \in Events PROVE Times(e) \subseteq Nat
<1> SUFFICES ASSUME NEW t \in Times(e) PROVE t \in Nat
  OBVIOUS
<1>1. /\ e.start \in Nat \cup {NoTime} /\ e.every \in Nat \cup {NoTime} /\ e.count \in Nat
      /\ e.raw.extra \subseteq Nat
  BY DEF Events, Instants
<1>2. e.start \in Nat
  BY <1>1 DEF Times
<1>3. CASE t \in e.raw.extra
  BY <1>1, <1>3
<1>4. CASE t = e.start
  BY <1>2, <1>4
<1>5. CASE e.every \in Nat /\ \E k \in 0..(e.count - 1) : t = e.start + k * e.every * Slots
  <2>1. PICK k \in 0..(e.count - 1) : t = e.start + k * e.every * Slots
    BY <1>5
  <2>2. k * e.every \in Nat
    BY <1>1, <1>5
  <2>3. (k * e.every) * Slots \in Nat
    BY <2>2, SlotsAssumption
  <2> QED
    BY <1>2, <2>1, <2>3
<1>6. \/ t \in e.raw.extra \/ t = e.start
      \/ e.every \in Nat /\ \E k \in 0..(e.count - 1) : t = e.start + k * e.every * Slots
  <2>1. CASE e.every = Once
    BY <2>1 DEF Times
  <2>2. CASE e.every = NoTime
    BY <2>2 DEF Times, Once, NoTime
  <2>3. CASE e.every # Once /\ e.every # NoTime
    BY <1>1, <2>3 DEF Times
  <2> QED
    BY <2>1, <2>2, <2>3
<1> QED
  BY <1>3, <1>4, <1>5, <1>6

(* A window finds the times that overlap it: the starts one length before  *)
(* it are enough.                                                          *)
LEMMA MeetingsAre ==
  ASSUME NEW e \in Events, NEW from \in Int, NEW to \in Int, NEW t
  PROVE  t \in Meetings(e, from, to) <=> t \in Times(e) /\ t < to /\ from < t + Length(e)
<1>1. Length(e) \in Nat /\ Length(e) > 0
  BY LengthIs
<1>2. CASE e.start = NoTime
  BY <1>2 DEF Meetings, Times
<1>3. CASE e.start # NoTime
  <2> DEFINE rule == {e.start + k * e.every * Slots : k \in 0..(e.count - 1)}
             all == CASE e.every = Once -> {e.start} [] e.every = NoTime -> {} [] OTHER -> rule
  <2>1. Times(e) = (all \cup e.raw.extra) \ e.raw.except
    BY <1>3 DEF Times
  <2>2. Meetings(e, from, to) = {u \in (Starts(e, from, to) \cup e.raw.extra) \ e.raw.except :
                                   u < to /\ u + Length(e) > from}
    BY <1>3 DEF Meetings
  <2>3. Starts(e, from, to) = CASE e.every = Once -> {e.start} [] e.every = NoTime -> {}
                                [] OTHER -> rule \cap ((from - Length(e))..to)
    BY DEF Starts
  <2> HIDE DEF rule
  <2>4. Starts(e, from, to) \subseteq all
    BY <2>3
  <2>5. t \in Meetings(e, from, to) => t \in Times(e) /\ t < to /\ from < t + Length(e)
    <3> SUFFICES ASSUME t \in Meetings(e, from, to)
                 PROVE  t \in Times(e) /\ t < to /\ from < t + Length(e)
      OBVIOUS
    <3>1. t \in Times(e) /\ t < to /\ t + Length(e) > from
      BY <2>1, <2>2, <2>4
    <3>2. t \in Nat
      BY <3>1, TimesAre
    <3> QED
      BY <1>1, <3>1, <3>2
  <2>6. ASSUME t \in Times(e), t < to, from < t + Length(e) PROVE t \in Meetings(e, from, to)
    <3>1. t \in Nat
      BY <2>6, TimesAre
    <3>2. t \in (from - Length(e))..to /\ t + Length(e) > from
      BY <1>1, <2>6, <3>1
    <3>3. t \in all => t \in Starts(e, from, to)
      BY <2>3, <3>2
    <3> HIDE DEF all
    <3> QED
      BY <2>1, <2>2, <2>6, <3>2, <3>3
  <2> QED
    BY <2>5, <2>6
<1> QED
  BY <1>2, <1>3

--------------------------------------------------------------------------------
(* The meetings of a list on a day, and what its marks make of them.       *)
Lists == Seq(Events)
MarksOf == UNION {[D -> [kind : {"holiday", "shift"}, source : Days]] : D \in SUBSET Days}

LEMMA DaysAreNat == Days \subseteq Nat
  BY DaysAssumption DEF Days

LEMMA MarksAre ==
  ASSUME NEW mk \in MarksOf
  PROVE  /\ DOMAIN mk \subseteq Days /\ DOMAIN mk \subseteq Nat
         /\ \A d \in DOMAIN mk : mk[d].source \in Days /\ mk[d].source \in Nat
<1>1. PICK D \in SUBSET Days : mk \in [D -> [kind : {"holiday", "shift"}, source : Days]]
  BY DEF MarksOf
<1>2. DOMAIN mk \subseteq Days /\ \A d \in DOMAIN mk : mk[d].source \in Days
  BY <1>1
<1> QED
  BY <1>2, DaysAreNat

LEMMA MeetingHas ==
  ASSUME NEW evs, NEW i, NEW t
  PROVE  LET o == Meeting(evs, i, t) IN
         /\ o.course = i /\ o.start = t /\ o.end = t + Length(evs[i]) /\ o.whole = evs[i].whole
         /\ o.shifted = FALSE
  BY DEF Meeting

LEMMA MovedHas ==
  ASSUME NEW evs \in Lists, NEW i \in DOMAIN evs, NEW t \in Times(evs[i]),
         NEW d \in Nat, NEW s \in Nat, DayOf(t) = s
  PROVE  LET o == Moved(Meeting(evs, i, t), d, s) IN
         /\ o.course = i /\ o.start = DayStart(d) + TimeOfDay(t)
         /\ o.end = o.start + Length(evs[i]) /\ o.whole = evs[i].whole /\ o.shifted = TRUE
<1> DEFINE a == Meeting(evs, i, t)
           b == DayStart(d) + a.start - DayStart(s)
           o == Moved(a, d, s)
<1>1. a.course = i /\ a.start = t /\ a.end = t + Length(evs[i]) /\ a.whole = evs[i].whole
  BY DEF Meeting
<1>2. evs[i] \in Events
  BY DEF Lists
<1>3. t \in Nat /\ Length(evs[i]) \in Nat
  BY <1>2, TimesAre, LengthIs
<1>4. DayStart(d) \in Int /\ DayStart(s) \in Int
  BY NextDay
<1>5. TimeOfDay(t) \in Int /\ t = DayStart(s) + TimeOfDay(t)
  BY <1>3, DayParts
<1>6. b = DayStart(d) + TimeOfDay(t) /\ b + a.end - a.start = b + Length(evs[i])
  BY <1>1, <1>3, <1>4, <1>5
<1>7. /\ o.course = a.course /\ o.start = b /\ o.end = b + a.end - a.start /\ o.whole = a.whole
      /\ o.shifted = TRUE
  BY DEF Moved, Meeting
<1> HIDE DEF a, b, o
<1> QED
  BY <1>1, <1>6, <1>7 DEF o, a

LEMMA OwnIs ==
  ASSUME NEW evs \in Lists, NEW mk, NEW from \in Int, NEW to \in Int, NEW o
  PROVE  o \in Own(evs, mk, from, to) <=>
           \E i \in DOMAIN evs : \E t \in Times(evs[i]) :
             /\ o = Meeting(evs, i, t) /\ DayOf(t) \notin DOMAIN mk
             /\ t < to /\ from < t + Length(evs[i])
<1>1. \A i \in DOMAIN evs : evs[i] \in Events
  BY DEF Lists
<1>2. \A i \in DOMAIN evs : \A t : t \in Meetings(evs[i], from, to) <=>
                                     t \in Times(evs[i]) /\ t < to /\ from < t + Length(evs[i])
  BY <1>1, MeetingsAre
<1> QED
  BY <1>2 DEF Own

LEMMA OnDayIs ==
  ASSUME NEW evs \in Lists, NEW s \in Nat, NEW o
  PROVE  o \in OnDay(evs, s) <=>
           \E i \in DOMAIN evs : \E t \in Times(evs[i]) : o = Meeting(evs, i, t) /\ DayOf(t) = s
<1>1. \A i \in DOMAIN evs : evs[i] \in Events
  BY DEF Lists
<1>2. DayStart(s) \in Nat /\ DayStart(s + 1) \in Nat
  BY NextDay
<1>3. \A i \in DOMAIN evs : \A t : t \in Meetings(evs[i], DayStart(s), DayStart(s + 1)) =>
                                     t \in Times(evs[i])
  BY <1>1, <1>2, MeetingsAre
<1>4. ASSUME NEW i \in DOMAIN evs, NEW t \in Times(evs[i]), DayOf(t) = s
      PROVE  t \in Meetings(evs[i], DayStart(s), DayStart(s + 1))
  <2>1. t \in Nat /\ Length(evs[i]) \in Nat /\ Length(evs[i]) > 0
    BY <1>1, TimesAre, LengthIs
  <2>2. DayStart(s) <= t /\ t < DayStart(s + 1)
    BY <1>4, <2>1, DayOfIs
  <2>3. DayStart(s) < t + Length(evs[i])
    BY <1>2, <2>1, <2>2
  <2> QED
    BY <1>1, <1>2, <2>2, <2>3, MeetingsAre
<1> QED
  BY <1>3, <1>4 DEF OnDay

(* The window of a day, d: what is found in it.                            *)
IsOwn(evs, mk, d, i, t, o) ==
  /\ o = Meeting(evs, i, t) /\ DayOf(t) \notin DOMAIN mk
  /\ t < DayStart(d + 1) /\ DayStart(d) < t + Length(evs[i])
IsShifted(evs, mk, d, i, t, o) ==
  /\ d \in DOMAIN mk /\ mk[d].kind = "shift" /\ DayOf(t) = mk[d].source
  /\ o = Moved(Meeting(evs, i, t), d, mk[d].source)
OfDay(evs, mk, d) == Expand(evs, mk, DayStart(d), DayStart(d + 1))

LEMMA OnlyTheDay ==
  ASSUME NEW mk \in MarksOf, NEW d \in Days
  PROVE  ShiftedInto(mk, DayStart(d), DayStart(d + 1)) =
           {e \in {d} : d \in DOMAIN mk /\ mk[d].kind = "shift"}
<1>1. DOMAIN mk \subseteq Nat /\ d \in Nat
  BY MarksAre, DaysAreNat
<1>2. ASSUME NEW e \in DOMAIN mk, DayStart(e) < DayStart(d + 1), DayStart(e + 1) > DayStart(d)
      PROVE  e = d
  <2>1. /\ DayStart(e) \in Int /\ DayStart(d) \in Int /\ Slots \in Nat
        /\ DayStart(e + 1) = DayStart(e) + Slots /\ DayStart(d + 1) = DayStart(d) + Slots
    BY <1>1, NextDay, SlotsAssumption
  <2>2. /\ d < e => DayStart(d) + Slots <= DayStart(e)
        /\ e < d => DayStart(e) + Slots <= DayStart(d)
    BY <1>1, DaysApart
  <2> QED
    BY <1>1, <1>2, <2>1, <2>2
<1>3. DayStart(d) < DayStart(d + 1)
  BY <1>1, NextDay, SlotsAssumption
<1> QED
  BY <1>2, <1>3 DEF ShiftedInto

LEMMA OfDayIs ==
  ASSUME NEW evs \in Lists, NEW mk \in MarksOf, NEW d \in Days, NEW o
  PROVE  o \in OfDay(evs, mk, d) <=>
           \E i \in DOMAIN evs : \E t \in Times(evs[i]) :
             IsOwn(evs, mk, d, i, t, o) \/ IsShifted(evs, mk, d, i, t, o)
<1>1. d \in Nat /\ DayStart(d) \in Nat /\ DayStart(d + 1) \in Nat
  BY DaysAssumption, NextDay DEF Days
<1>2. o \in Own(evs, mk, DayStart(d), DayStart(d + 1)) <=>
        \E i \in DOMAIN evs : \E t \in Times(evs[i]) : IsOwn(evs, mk, d, i, t, o)
  BY <1>1, OwnIs DEF IsOwn
<1>3. CASE d \in DOMAIN mk /\ mk[d].kind = "shift"
  <2>1. mk[d].source \in Nat
    BY <1>3, MarksAre
  <2>2. ShiftedInto(mk, DayStart(d), DayStart(d + 1)) = {d}
    BY <1>3, OnlyTheDay
  <2>3. o \in OfDay(evs, mk, d) <=>
          \/ o \in Own(evs, mk, DayStart(d), DayStart(d + 1))
          \/ \E p \in OnDay(evs, mk[d].source) : o = Moved(p, d, mk[d].source)
    BY <2>2 DEF OfDay, Expand
  <2>4. (\E p \in OnDay(evs, mk[d].source) : o = Moved(p, d, mk[d].source)) <=>
          \E i \in DOMAIN evs : \E t \in Times(evs[i]) : IsShifted(evs, mk, d, i, t, o)
    <3>1. \A p : p \in OnDay(evs, mk[d].source) <=>
            \E i \in DOMAIN evs : \E t \in Times(evs[i]) :
              p = Meeting(evs, i, t) /\ DayOf(t) = mk[d].source
      BY <2>1, OnDayIs
    <3>2. ASSUME NEW p \in OnDay(evs, mk[d].source), o = Moved(p, d, mk[d].source)
          PROVE  \E i \in DOMAIN evs : \E t \in Times(evs[i]) : IsShifted(evs, mk, d, i, t, o)
      BY <1>3, <3>1, <3>2 DEF IsShifted
    <3>3. ASSUME NEW i \in DOMAIN evs, NEW t \in Times(evs[i]), IsShifted(evs, mk, d, i, t, o)
          PROVE  \E p \in OnDay(evs, mk[d].source) : o = Moved(p, d, mk[d].source)
      BY <3>1, <3>3 DEF IsShifted
    <3> QED
      BY <3>2, <3>3
  <2> QED
    BY <1>2, <2>3, <2>4
<1>4. CASE ~(d \in DOMAIN mk /\ mk[d].kind = "shift")
  <2>1. ShiftedInto(mk, DayStart(d), DayStart(d + 1)) = {}
    BY <1>4, OnlyTheDay
  <2>2. o \in OfDay(evs, mk, d) <=> o \in Own(evs, mk, DayStart(d), DayStart(d + 1))
    BY <2>1 DEF OfDay, Expand
  <2> QED
    BY <1>2, <1>4, <2>2 DEF IsShifted
<1> QED
  BY <1>3, <1>4

(* What both kinds have: a length, a part inside the day, and where they   *)
(* start.                                                                  *)
LEMMA OfDayHas ==
  ASSUME NEW evs \in Lists, NEW mk \in MarksOf, NEW d \in Days, NEW o \in OfDay(evs, mk, d)
  PROVE  /\ o.start \in Nat /\ o.end \in Nat /\ o.course \in DOMAIN evs /\ o.shifted \in BOOLEAN
         /\ o.start < o.end /\ o.start < DayStart(d + 1) /\ DayStart(d) < o.end
         /\ o.end = o.start + Length(evs[o.course])
         /\ o.shifted => DayOf(o.start) = d /\ d \in DOMAIN mk
         /\ ~o.shifted => DayOf(o.start) \notin DOMAIN mk
<1>0. PICK i \in DOMAIN evs : \E t \in Times(evs[i]) :
        IsOwn(evs, mk, d, i, t, o) \/ IsShifted(evs, mk, d, i, t, o)
  BY OfDayIs
<1>1. PICK t \in Times(evs[i]) : IsOwn(evs, mk, d, i, t, o) \/ IsShifted(evs, mk, d, i, t, o)
  BY <1>0
<1>2. evs[i] \in Events
  BY DEF Lists
<1>3. t \in Nat /\ Length(evs[i]) \in Nat /\ Length(evs[i]) > 0
  BY <1>2, TimesAre, LengthIs
<1>4. /\ d \in Nat /\ DayStart(d) \in Nat /\ DayStart(d + 1) \in Nat /\ Slots \in Nat
      /\ DayStart(d + 1) = DayStart(d) + Slots
  BY DaysAssumption, SlotsAssumption, NextDay DEF Days
<1>5. CASE IsOwn(evs, mk, d, i, t, o)
  <2>1. o.start = t /\ o.course = i /\ o.end = t + Length(evs[i]) /\ o.shifted = FALSE
    BY <1>5 DEF IsOwn, Meeting
  <2>2. DayOf(t) \notin DOMAIN mk /\ t < DayStart(d + 1) /\ DayStart(d) < t + Length(evs[i])
    BY <1>5 DEF IsOwn
  <2>3. t + Length(evs[i]) \in Nat /\ t < t + Length(evs[i])
    BY <1>3
  <2> QED
    BY <1>3, <2>1, <2>2, <2>3
<1>6. CASE IsShifted(evs, mk, d, i, t, o)
  <2>1. d \in DOMAIN mk /\ mk[d].source \in Nat /\ DayOf(t) = mk[d].source
    BY <1>6, MarksAre DEF IsShifted
  <2>2. /\ o.start = DayStart(d) + TimeOfDay(t) /\ o.course = i
        /\ o.end = o.start + Length(evs[i]) /\ o.shifted = TRUE
    <3>1. LET p == Moved(Meeting(evs, i, t), d, mk[d].source) IN
          /\ p.course = i /\ p.start = DayStart(d) + TimeOfDay(t)
          /\ p.end = p.start + Length(evs[i]) /\ p.whole = evs[i].whole /\ p.shifted = TRUE
      BY <1>4, <2>1, MovedHas
    <3> QED
      BY <1>6, <3>1 DEF IsShifted
  <2>3. TimeOfDay(t) \in 0..(Slots - 1)
    BY <1>3, DayParts
  <2>4. PICK r \in 0..(Slots - 1) : o.start = DayStart(d) + r
    BY <2>2, <2>3
  <2>5. /\ o.start \in Nat /\ DayStart(d) <= o.start /\ o.start < DayStart(d + 1)
    BY <1>4, <2>4
  <2>6. DayOf(o.start) = d
    BY <1>4, <2>5, DayOfIs
  <2>7. o.end \in Nat /\ o.start < o.end /\ DayStart(d) < o.end
    BY <1>3, <1>4, <2>2, <2>5
  <2> QED
    BY <2>1, <2>2, <2>5, <2>6, <2>7
<1> QED
  BY <1>1, <1>5, <1>6

--------------------------------------------------------------------------------
(* A finite set of meetings has a last one.                                *)
LEMMA BeforeIsOrder ==
  ASSUME NEW o, NEW p, NEW q,
         o.start \in Nat, o.end \in Nat, o.course \in Nat, p.start \in Nat, p.end \in Nat,
         p.course \in Nat, q.start \in Nat, q.end \in Nat, q.course \in Nat
  PROVE  /\ ~Before(o, o) /\ (Before(o, p) => ~Before(p, o))
         /\ Before(o, p) /\ Before(p, q) => Before(o, q)
  BY DEF Before

LEMMA LatestIs ==
  ASSUME NEW os, IsFiniteSet(os), os # {},
         \A o \in os : o.start \in Nat /\ o.end \in Nat /\ o.course \in Nat,
         \A o, p \in os : o = p \/ Before(o, p) \/ Before(p, o)
  PROVE  Latest(os) \in os
<1> DEFINE Upto(o) == {p \in os : p = o \/ Before(p, o)}
           size == Cardinality(os)
           rank == [o \in os |-> Cardinality(Upto(o))]
<1>1. size \in Nat /\ size > 0
  BY FS_CardinalityType, FS_EmptySet
<1>2. ASSUME NEW o \in os
      PROVE  /\ IsFiniteSet(Upto(o)) /\ Cardinality(Upto(o)) \in 1..size
             /\ Cardinality(Upto(o)) = size => Upto(o) = os
  <2>1. Upto(o) \in SUBSET os /\ o \in Upto(o)
    OBVIOUS
  <2>2. IsFiniteSet(Upto(o)) /\ Cardinality(Upto(o)) <= size
        /\ (size = Cardinality(Upto(o)) => os = Upto(o))
    BY <2>1, FS_Subset
  <2>3. Cardinality(Upto(o)) \in Nat /\ Cardinality(Upto(o)) # 0
    BY <2>1, <2>2, FS_CardinalityType, FS_EmptySet
  <2> QED
    BY <1>1, <2>2, <2>3
<1>3. ASSUME NEW o \in os, NEW p \in os, Before(o, p)
      PROVE  Cardinality(Upto(o)) # Cardinality(Upto(p))
  <2>1. \A q \in os : Before(q, o) => Before(q, p)
    BY <1>3, BeforeIsOrder
  <2>2. Upto(o) \in SUBSET Upto(p)
    BY <1>3, <2>1
  <2>3. p \in Upto(p) /\ p \notin Upto(o)
    BY <1>3, BeforeIsOrder
  <2> QED
    BY <1>2, <2>2, <2>3, FS_Subset
<1>4. ASSUME NEW o \in os, NEW p \in os, rank[o] = rank[p] PROVE o = p
  BY <1>3, <1>4
<1>5. rank \in Injection(os, 1..size)
  <2>1. rank \in [os -> 1..size]
    BY <1>2
  <2> HIDE DEF rank
  <2> QED
    BY <1>4, <2>1 DEF Injection, IsInjective
<1>6. IsFiniteSet(1..size) /\ Cardinality(1..size) = size
  BY <1>1, FS_Interval
<1>7. rank \in Surjection(os, 1..size)
  <2> HIDE DEF rank
  <2> QED
    BY <1>5, <1>6, FS_Injection
<1>8. PICK o \in os : rank[o] = size
  <2> HIDE DEF rank, size
  <2> QED
    BY <1>1, <1>7 DEF Surjection
<1>9. \A p \in os \ {o} : Before(p, o)
  <2>1. Upto(o) = os
    BY <1>2, <1>8
  <2> QED
    BY <2>1
<1> QED
  BY <1>9 DEF Latest

LEMMA ShiftedHas ==
  ASSUME NEW evs \in Lists, NEW mk \in MarksOf, NEW d \in Days,
         NEW i \in DOMAIN evs, NEW t \in Times(evs[i]), NEW o, IsShifted(evs, mk, d, i, t, o)
  PROVE  /\ o.course = i /\ o.start = DayStart(d) + TimeOfDay(t) /\ o.shifted = TRUE
         /\ o.end = o.start + Length(evs[i])
         /\ DayOf(t) = mk[d].source /\ o = Moved(Meeting(evs, i, t), d, mk[d].source)
<1>1. d \in DOMAIN mk /\ DayOf(t) = mk[d].source /\ o = Moved(Meeting(evs, i, t), d, mk[d].source)
  BY DEF IsShifted
<1>2. mk[d].source \in Nat /\ d \in Nat
  BY <1>1, MarksAre, DaysAreNat
<1>3. LET m == Moved(Meeting(evs, i, t), d, mk[d].source) IN
      /\ m.course = i /\ m.start = DayStart(d) + TimeOfDay(t)
      /\ m.end = m.start + Length(evs[i]) /\ m.whole = evs[i].whole /\ m.shifted = TRUE
  BY <1>1, <1>2, MovedHas
<1> QED
  BY <1>1, <1>3

LEMMA ShiftedStarts ==
  ASSUME NEW evs \in Lists, NEW mk \in MarksOf, NEW d \in Days,
         NEW i \in DOMAIN evs, NEW t \in Times(evs[i]), NEW o, IsShifted(evs, mk, d, i, t, o)
  PROVE  o.start = DayStart(d) + TimeOfDay(t)
<1>1. d \in DOMAIN mk /\ DayOf(t) = mk[d].source /\ o = Moved(Meeting(evs, i, t), d, mk[d].source)
  BY DEF IsShifted
<1>2. mk[d].source \in Nat /\ d \in Nat
  BY <1>1, MarksAre, DaysAreNat
<1>3. LET m == Moved(Meeting(evs, i, t), d, mk[d].source) IN
      /\ m.course = i /\ m.start = DayStart(d) + TimeOfDay(t)
      /\ m.end = m.start + Length(evs[i]) /\ m.whole = evs[i].whole /\ m.shifted = TRUE
  BY <1>1, <1>2, MovedHas
<1> QED
  BY <1>1, <1>3, Zenon

(* A course has one meeting of its own and one shifted one at an instant.  *)
LEMMA OnePerInstant ==
  ASSUME NEW evs \in Lists, NEW mk \in MarksOf, NEW d \in Days,
         NEW i \in DOMAIN evs, NEW t \in Times(evs[i]), NEW u \in Times(evs[i]), NEW o, NEW p,
         IsShifted(evs, mk, d, i, t, o), IsShifted(evs, mk, d, i, u, p)
  PROVE  o.start = p.start => o = p
<1>1. o.start = DayStart(d) + TimeOfDay(t)
  BY ShiftedStarts, Zenon
<1>2. p.start = DayStart(d) + TimeOfDay(u)
  BY ShiftedStarts, Zenon
<1>3. DayOf(t) = mk[d].source /\ o = Moved(Meeting(evs, i, t), d, mk[d].source)
  BY DEF IsShifted
<1>4. DayOf(u) = mk[d].source /\ p = Moved(Meeting(evs, i, u), d, mk[d].source)
  BY DEF IsShifted
<1> SUFFICES ASSUME o.start = p.start PROVE o = p
  OBVIOUS
<1>5. t \in Nat /\ u \in Nat
  BY TimesAre DEF Lists
<1>6. PICK x \in Int : x = TimeOfDay(t)
  BY <1>5, DayParts
<1>7. PICK y \in Int : y = TimeOfDay(u)
  BY <1>5, DayParts
<1>8. PICK a \in Int : a = DayStart(d)
  BY DaysAreNat, NextDay
<1>9. a + x = a + y
  BY <1>1, <1>2, <1>6, <1>7, <1>8, Zenon
<1>10. x = y
  BY <1>9
<1>11. DayStart(DayOf(t)) + TimeOfDay(t) = DayStart(DayOf(u)) + TimeOfDay(u)
  BY <1>6, <1>7, <1>10, <1>3, <1>4, Zenon
<1>12. t = u
  BY <1>5, <1>11, DayParts, Zenon
<1> QED
  BY <1>12, <1>3, <1>4, Zenon

(* No two meetings of a day are of one course at one instant, unless one   *)
(* is shifted and one is not.                                              *)
LEMMA SameMeeting ==
  ASSUME NEW evs \in Lists, NEW mk \in MarksOf, NEW d \in Days,
         NEW o \in OfDay(evs, mk, d), NEW p \in OfDay(evs, mk, d)
  PROVE  o.course = p.course /\ o.start = p.start /\ o.shifted = p.shifted => o = p
<1>1. PICK i \in DOMAIN evs : \E t \in Times(evs[i]) :
        IsOwn(evs, mk, d, i, t, o) \/ IsShifted(evs, mk, d, i, t, o)
  BY OfDayIs
<1>2. PICK t \in Times(evs[i]) : IsOwn(evs, mk, d, i, t, o) \/ IsShifted(evs, mk, d, i, t, o)
  BY <1>1
<1>3. PICK j \in DOMAIN evs : \E u \in Times(evs[j]) :
        IsOwn(evs, mk, d, j, u, p) \/ IsShifted(evs, mk, d, j, u, p)
  BY OfDayIs
<1>4. PICK u \in Times(evs[j]) : IsOwn(evs, mk, d, j, u, p) \/ IsShifted(evs, mk, d, j, u, p)
  BY <1>3
<1>5. t \in Nat /\ u \in Nat
  BY TimesAre DEF Lists
<1>6. /\ IsOwn(evs, mk, d, i, t, o) => o.shifted = FALSE /\ o.start = t /\ o.course = i
      /\ IsOwn(evs, mk, d, j, u, p) => p.shifted = FALSE /\ p.start = u /\ p.course = j
  BY DEF IsOwn, Meeting
<1>7. /\ IsShifted(evs, mk, d, i, t, o) => o.course = i
      /\ IsShifted(evs, mk, d, j, u, p) => p.course = j
  BY DEF IsShifted, Meeting, Moved
<1>8. IsShifted(evs, mk, d, i, t, o) => o.shifted = TRUE
  BY DEF IsShifted, Moved
<1>9. IsShifted(evs, mk, d, j, u, p) => p.shifted = TRUE
  BY DEF IsShifted, Moved
<1>10. CASE IsOwn(evs, mk, d, i, t, o) /\ IsOwn(evs, mk, d, j, u, p)
  <2>1. o = Meeting(evs, i, t) /\ p = Meeting(evs, j, u)
    BY <1>10 DEF IsOwn
  <2> QED
    BY <1>6, <1>10, <2>1, Zenon
<1>11. CASE IsShifted(evs, mk, d, i, t, o) /\ IsShifted(evs, mk, d, j, u, p)
  <2>1. CASE i = j
    <3>1. u \in Times(evs[i]) /\ IsShifted(evs, mk, d, i, u, p)
      BY <1>11, <2>1, Zenon
    <3> QED
      BY <1>11, <3>1, OnePerInstant, Zenon
  <2>2. CASE i # j
    BY <1>7, <1>11, <2>2
  <2> QED
    BY <2>1, <2>2
<1> QED
  BY <1>2, <1>4, <1>6, <1>8, <1>9, <1>10, <1>11, Zenon

(* A day's meetings are finitely many, since they start before its end, a  *)
(* course's own and shifted ones at most once at an instant; and no two of *)
(* them are equal in the order.                                            *)
LEMMA OfDayIsFinite ==
  ASSUME NEW evs \in Lists, NEW mk \in MarksOf, NEW d \in Days
  PROVE  IsFiniteSet(OfDay(evs, mk, d))
<1> DEFINE os == OfDay(evs, mk, d)
           to == DayStart(d + 1)
           keys == ((DOMAIN evs) \X (0..to)) \X BOOLEAN
           key == [o \in os |-> <<<<o.course, o.start>>, o.shifted>>]
<1>1. d \in Nat /\ to \in Nat
  BY DaysAreNat, NextDay
<1>2. IsFiniteSet(DOMAIN evs)
  <2>1. PICK n \in Nat : DOMAIN evs = 1..n
    BY DEF Lists
  <2> QED
    BY <2>1, FS_Interval
<1>3. IsFiniteSet(keys)
  <2>1. IsFiniteSet(0..to)
    BY <1>1, FS_Interval
  <2> HIDE DEF to, os, key
  <2>2. IsFiniteSet((DOMAIN evs) \X (0..to))
    BY <1>2, <2>1, FS_Product, Zenon
  <2>3. IsFiniteSet({TRUE}) /\ BOOLEAN = {TRUE} \cup {FALSE}
    BY FS_Singleton
  <2>4. IsFiniteSet({TRUE} \cup {FALSE})
    BY <2>3, FS_AddElement
  <2>5. IsFiniteSet(BOOLEAN)
    BY <2>3, <2>4
  <2> QED
    BY <2>2, <2>5, FS_Product
<1>4. key \in [os -> keys]
  <2> SUFFICES ASSUME NEW o \in os PROVE <<<<o.course, o.start>>, o.shifted>> \in keys
    OBVIOUS
  <2>1. /\ o.start \in Nat /\ o.course \in DOMAIN evs /\ o.shifted \in BOOLEAN /\ o.start < to
    BY OfDayHas
  <2>2. o.start \in 0..to
    BY <1>1, <2>1
  <2> HIDE DEF to, os, key
  <2>3. <<o.course, o.start>> \in (DOMAIN evs) \X (0..to)
    BY <2>1, <2>2
  <2> QED
    BY <2>1, <2>3
<1>5. key \in Injection(os, keys)
  <2>1. ASSUME NEW o \in os, NEW p \in os, key[o] = key[p] PROVE o = p
    <3>1. o.course = p.course /\ o.start = p.start /\ o.shifted = p.shifted
      BY <2>1
    <3> QED
      BY <3>1, SameMeeting
  <2> HIDE DEF key, os, keys
  <2> QED
    BY <1>4, <2>1 DEF Injection, IsInjective
<1> QED
  BY <1>3, <1>5, FS_Injection

LEMMA OfDayIsOrdered ==
  ASSUME NEW evs \in Lists, NEW mk \in MarksOf, NEW d \in Days,
         NEW o \in OfDay(evs, mk, d), NEW p \in OfDay(evs, mk, d)
  PROVE  o.start = p.start /\ o.course = p.course => o.shifted = p.shifted
  BY OfDayHas

LEMMA LatestOfDay ==
  ASSUME NEW evs \in Lists, NEW mk \in MarksOf, NEW d \in Days, OfDay(evs, mk, d) # {}
  PROVE  Latest(OfDay(evs, mk, d)) \in OfDay(evs, mk, d)
<1> DEFINE os == OfDay(evs, mk, d)
<1>1. \A o \in os : o.start \in Nat /\ o.end \in Nat /\ o.course \in Nat
  <2> SUFFICES ASSUME NEW o \in os PROVE o.start \in Nat /\ o.end \in Nat /\ o.course \in Nat
    OBVIOUS
  <2>1. o.start \in Nat /\ o.end \in Nat /\ o.course \in DOMAIN evs
    BY OfDayHas
  <2>2. DOMAIN evs \subseteq Nat
    BY DEF Lists
  <2> QED
    BY <2>1, <2>2
<1>2. \A o, p \in os : o = p \/ Before(o, p) \/ Before(p, o)
  <2> SUFFICES ASSUME NEW o \in os, NEW p \in os PROVE o = p \/ Before(o, p) \/ Before(p, o)
    OBVIOUS
  <2>1. o.start = p.start /\ o.course = p.course => o = p
    BY OfDayIsOrdered, SameMeeting
  <2> HIDE DEF os
  <2>2. ~Before(o, p) /\ ~Before(p, o) => o.start = p.start /\ o.course = p.course
    BY <1>1 DEF Before
  <2> QED
    BY <2>1, <2>2
<1>3. IsFiniteSet(os)
  BY OfDayIsFinite
<1> HIDE DEF os
<1>4. os # {} => Latest(os) \in os
  BY <1>1, <1>2, <1>3, LatestIs
<1> QED
  BY <1>4 DEF os

--------------------------------------------------------------------------------
(* The time in which a list is busy, and the meetings of a window.         *)
KeptAt(evs, mk, i, s) ==
  \/ s \in Times(evs[i]) /\ DayOf(s) \notin DOMAIN mk
  \/ \E e \in DOMAIN mk : \E u \in Times(evs[i]) :
       mk[e].kind = "shift" /\ DayOf(u) = mk[e].source /\ s = DayStart(e) + TimeOfDay(u)
BusyAt(evs, mk, t) ==
  \E i \in DOMAIN evs : \E s \in Nat : KeptAt(evs, mk, i, s) /\ s <= t /\ t < s + Length(evs[i])
Fits(evs, mk) ==
  \A e \in DOMAIN mk : \A i \in DOMAIN evs : \A u \in Times(evs[i]) :
    mk[e].kind = "shift" /\ DayOf(u) = mk[e].source => TimeOfDay(u) + Length(evs[i]) <= Slots

(* A busy slot of a day is one in which a meeting of the day takes place,  *)
(* when no shifted course passes midnight.                                 *)
LEMMA BusyIsMet ==
  ASSUME NEW evs \in Lists, NEW mk \in MarksOf, Fits(evs, mk), NEW d \in Days,
         NEW t \in SlotsOf(d), BusyAt(evs, mk, t)
  PROVE  \E o \in OfDay(evs, mk, d) : o.start <= t /\ t < o.end
<1>1. PICK i \in DOMAIN evs :
        \E s \in Nat : KeptAt(evs, mk, i, s) /\ s <= t /\ t < s + Length(evs[i])
  BY DEF BusyAt
<1>2. PICK s \in Nat : KeptAt(evs, mk, i, s) /\ s <= t /\ t < s + Length(evs[i])
  BY <1>1
<1>3. /\ d \in Nat /\ DayStart(d) \in Nat /\ DayStart(d + 1) \in Nat /\ Slots \in Nat
      /\ DayStart(d + 1) = DayStart(d) + Slots
  BY DaysAreNat, SlotsAssumption, NextDay
<1>4. t \in Nat /\ DayStart(d) <= t /\ t < DayStart(d + 1)
  BY <1>3 DEF SlotsOf
<1>5. Length(evs[i]) \in Nat
  BY LengthIs DEF Lists
<1>6. CASE s \in Times(evs[i]) /\ DayOf(s) \notin DOMAIN mk
  <2> DEFINE o == Meeting(evs, i, s)
  <2>1. o.start = s /\ o.end = s + Length(evs[i])
    BY DEF Meeting
  <2>2. s < DayStart(d + 1) /\ DayStart(d) < s + Length(evs[i])
    BY <1>2, <1>3, <1>4, <1>5
  <2>3. IsOwn(evs, mk, d, i, s, o)
    BY <1>6, <2>2 DEF IsOwn
  <2> HIDE DEF o
  <2>4. o \in OfDay(evs, mk, d)
    BY <1>6, <2>3, OfDayIs
  <2> QED
    BY <1>2, <2>1, <2>4, Zenon
<1>7. CASE \E e \in DOMAIN mk : \E u \in Times(evs[i]) :
             mk[e].kind = "shift" /\ DayOf(u) = mk[e].source /\ s = DayStart(e) + TimeOfDay(u)
  <2>1. PICK e \in DOMAIN mk : \E u \in Times(evs[i]) :
          mk[e].kind = "shift" /\ DayOf(u) = mk[e].source /\ s = DayStart(e) + TimeOfDay(u)
    BY <1>7
  <2>2. PICK u \in Times(evs[i]) :
          mk[e].kind = "shift" /\ DayOf(u) = mk[e].source /\ s = DayStart(e) + TimeOfDay(u)
    BY <2>1
  <2>3. e \in Nat /\ mk[e].source \in Nat
    BY MarksAre
  <2>4. u \in Nat
    BY TimesAre DEF Lists
  <2>5. TimeOfDay(u) \in Nat /\ DayStart(e) \in Nat /\ DayStart(e + 1) = DayStart(e) + Slots
    BY <2>3, <2>4, DayParts, NextDay
  <2>6. TimeOfDay(u) + Length(evs[i]) <= Slots
    BY <2>2 DEF Fits
  <2>7. DayStart(e) <= t /\ t < DayStart(e + 1)
    BY <1>2, <1>3, <1>4, <1>5, <2>2, <2>5, <2>6
  <2>8. e = d
    BY <1>3, <1>4, <2>3, <2>7, DayOfIs
  <2>9. PICK o : o = Moved(Meeting(evs, i, u), d, mk[d].source)
    OBVIOUS
  <2>10. IsShifted(evs, mk, d, i, u, o)
    BY <2>1, <2>2, <2>8, <2>9 DEF IsShifted
  <2>11. o \in OfDay(evs, mk, d)
    BY <2>10, OfDayIs
  <2>12. o.start = DayStart(d) + TimeOfDay(u)
    BY <2>10, ShiftedStarts, Zenon
  <2>13. o.start = s
    BY <2>2, <2>8, <2>12, Zenon
  <2>14. o.course = i
    BY <2>10 DEF IsShifted, Meeting, Moved
  <2>15. o.end = s + Length(evs[i])
    BY <2>11, <2>13, <2>14, OfDayHas
  <2> QED
    BY <1>2, <2>11, <2>13, <2>15, Zenon
<1> QED
  BY <1>2, <1>6, <1>7 DEF KeptAt

LEMMA MetIsBusy ==
  ASSUME NEW evs \in Lists, NEW mk \in MarksOf, NEW d \in Days, NEW o \in OfDay(evs, mk, d),
         NEW t \in Nat, o.start <= t, t < o.end
  PROVE  BusyAt(evs, mk, t)
<1>1. PICK i \in DOMAIN evs : \E u \in Times(evs[i]) :
        IsOwn(evs, mk, d, i, u, o) \/ IsShifted(evs, mk, d, i, u, o)
  BY OfDayIs
<1>2. PICK u \in Times(evs[i]) : IsOwn(evs, mk, d, i, u, o) \/ IsShifted(evs, mk, d, i, u, o)
  BY <1>1
<1>3. o.course = i
  <2>1. IsOwn(evs, mk, d, i, u, o) => o.course = i
    BY DEF IsOwn, Meeting
  <2>2. IsShifted(evs, mk, d, i, u, o) => o.course = i
    BY DEF IsShifted, Meeting, Moved
  <2> QED
    BY <1>2, <2>1, <2>2
<1>4. o.start \in Nat /\ o.end = o.start + Length(evs[o.course])
  BY OfDayHas
<1>5. PICK s \in Nat : s = o.start
  BY <1>4
<1>6. s <= t /\ t < s + Length(evs[i])
  BY <1>3, <1>4, <1>5, Zenon
<1>7. CASE IsOwn(evs, mk, d, i, u, o)
  <2>1. u = s
    BY <1>5, <1>7 DEF IsOwn, Meeting
  <2> QED
    BY <1>6, <1>7, <2>1 DEF BusyAt, KeptAt, IsOwn
<1>8. CASE IsShifted(evs, mk, d, i, u, o)
  <2>1. s = DayStart(d) + TimeOfDay(u)
    BY <1>5, <1>8, ShiftedStarts, Zenon
  <2>2. d \in DOMAIN mk /\ mk[d].kind = "shift" /\ DayOf(u) = mk[d].source
    BY <1>8 DEF IsShifted
  <2>3. KeptAt(evs, mk, i, s)
    BY <2>1, <2>2, Zenon DEF KeptAt
  <2> QED
    BY <1>6, <2>3, Zenon DEF BusyAt
<1> QED
  BY <1>2, <1>7, <1>8

(* A day with a meeting is busy in some slot.                              *)
LEMMA DayIsMet ==
  ASSUME NEW evs \in Lists, NEW mk \in MarksOf, NEW d \in Days, NEW o \in OfDay(evs, mk, d)
  PROVE  \E t \in SlotsOf(d) : o.start <= t /\ t < o.end
<1>1. /\ d \in Nat /\ DayStart(d) \in Nat /\ DayStart(d + 1) \in Nat /\ Slots \in Nat \ {0}
      /\ DayStart(d + 1) = DayStart(d) + Slots
  BY DaysAreNat, SlotsAssumption, NextDay
<1>2. /\ o.start \in Nat /\ o.end \in Nat /\ o.start < o.end /\ o.start < DayStart(d + 1)
      /\ DayStart(d) < o.end
  BY OfDayHas
<1>3. CASE o.start < DayStart(d)
  <2>1. DayStart(d) \in SlotsOf(d)
    BY <1>1 DEF SlotsOf
  <2> QED
    BY <1>1, <1>2, <1>3, <2>1
<1>4. CASE DayStart(d) <= o.start
  <2>1. o.start \in SlotsOf(d)
    BY <1>1, <1>2, <1>4 DEF SlotsOf
  <2> QED
    BY <1>2, <2>1
<1> QED
  BY <1>1, <1>2, <1>3, <1>4

--------------------------------------------------------------------------------
(* What the states of CourseDays hold.                                     *)
DaysInv ==
  /\ events \in [Members -> Lists]
  /\ marks \in [Members -> MarksOf]
  /\ clock \in Nat

LEMMA InClassIs ==
  ASSUME DaysInv, NEW m \in Members, NEW i \in DOMAIN events[m], NEW t \in Int
  PROVE  t \in InClass(m, i) <=>
           \E s \in Nat : KeptAt(events[m], marks[m], i, s) /\ s <= t /\ t < s + Length(events[m][i])
<1> DEFINE evs == events[m]
           mk == marks[m]
<1>1. evs \in Lists /\ mk \in MarksOf
  BY DEF DaysInv
<1>2. evs[i] \in Events
  BY <1>1 DEF Lists
<1>3. Times(evs[i]) \subseteq Nat /\ Length(evs[i]) \in Nat
  BY <1>2, TimesAre, LengthIs
<1>4. DOMAIN mk \subseteq Nat
  BY <1>1, MarksAre
<1>5. \A s : s \in Kept(m, i) <=> KeptAt(evs, mk, i, s)
  BY DEF Kept, KeptAt, Shifts, TimeOfDay
<1>6. \A s : KeptAt(evs, mk, i, s) => s \in Nat
  <2> SUFFICES ASSUME NEW s, KeptAt(evs, mk, i, s) PROVE s \in Nat
    OBVIOUS
  <2>1. CASE s \in Times(evs[i])
    BY <1>3, <2>1
  <2>2. CASE \E e \in DOMAIN mk : \E u \in Times(evs[i]) : s = DayStart(e) + TimeOfDay(u)
    <3>1. PICK e \in DOMAIN mk : \E u \in Times(evs[i]) : s = DayStart(e) + TimeOfDay(u)
      BY <2>2
    <3>2. PICK u \in Times(evs[i]) : s = DayStart(e) + TimeOfDay(u)
      BY <3>1
    <3>3. e \in Nat /\ u \in Nat
      BY <1>3, <1>4
    <3>4. DayStart(e) \in Nat /\ TimeOfDay(u) \in Nat
      BY <3>3, NextDay, DayParts
    <3> QED
      BY <3>2, <3>4
  <2> QED
    BY <2>1, <2>2 DEF KeptAt
<1> HIDE DEF evs, mk
<1>7. t \in InClass(m, i) <=> \E s \in Kept(m, i) : t \in s..(s + Length(evs[i]) - 1)
  BY DEF InClass, evs
<1>8. PICK n \in Nat : n = Length(evs[i])
  BY <1>3
<1>9. \A s \in Nat : t \in s..(s + n - 1) <=> s <= t /\ t < s + n
  OBVIOUS
<1>10. t \in InClass(m, i) <=>
         \E s \in Nat : KeptAt(evs, mk, i, s) /\ s <= t /\ t < s + Length(evs[i])
  BY <1>5, <1>6, <1>7, <1>8, <1>9
<1> QED
  BY <1>10 DEF evs, mk

LEMMA BusyIs ==
  ASSUME DaysInv, NEW m \in Members, NEW t \in Int
  PROVE  t \in Busy(m) <=> BusyAt(events[m], marks[m], t)
<1>1. t \in Busy(m) <=> \E i \in DOMAIN events[m] : t \in InClass(m, i)
  BY DEF Busy
<1> QED
  BY <1>1, InClassIs DEF BusyAt

LEMMA ComparableFits ==
  ASSUME DaysInv, NEW m \in Comparable
  PROVE  Fits(events[m], marks[m])
  BY DEF Comparable, Fits, Shifts, TimeOfDay

(* What a member's card is made from, on a day and at an instant: the      *)
(* slots in which he is busy.                                              *)
LEMMA LookIsBusy ==
  ASSUME DaysInv, NEW m \in Comparable, NEW d \in Days
  PROVE  /\ \A t \in SlotsOf(d) :
              t \in Busy(m) <=> \E o \in Look(m, d) : o.start <= t /\ t < o.end
         /\ \A o \in Look(m, d) : \E t \in SlotsOf(d) : o.start <= t /\ t < o.end
         /\ \A o \in Look(m, d) : o.start < DayStart(d + 1) /\ o.start \in Nat /\ o.end \in Nat
                                  /\ o.start < o.end
         /\ Look(m, d) # {} => Latest(Look(m, d)) \in Look(m, d)
<1> DEFINE evs == events[m]
           mk == marks[m]
<1>1. m \in Members
  BY DEF Comparable
<1>2. evs \in Lists /\ mk \in MarksOf
  BY <1>1 DEF DaysInv
<1>3. Look(m, d) = OfDay(evs, mk, d)
  BY DEF Look, OfDay
<1>4. Fits(evs, mk)
  BY ComparableFits
<1>5. \A t \in SlotsOf(d) : t \in Nat
  BY DaysAreNat, NextDay DEF SlotsOf
<1>6. \A t \in SlotsOf(d) : t \in Busy(m) <=> BusyAt(evs, mk, t)
  BY <1>1, <1>5, BusyIs
<1> HIDE DEF evs, mk
<1>7. \A t \in SlotsOf(d) : BusyAt(evs, mk, t) =>
                              \E o \in OfDay(evs, mk, d) : o.start <= t /\ t < o.end
  BY <1>2, <1>4, BusyIsMet
<1>8. ASSUME NEW t \in SlotsOf(d), NEW o \in OfDay(evs, mk, d), o.start <= t, t < o.end
      PROVE  BusyAt(evs, mk, t)
  BY <1>2, <1>5, <1>8, MetIsBusy
<1>9. \A o \in OfDay(evs, mk, d) : \E t \in SlotsOf(d) : o.start <= t /\ t < o.end
  BY <1>2, DayIsMet
<1>10. \A o \in OfDay(evs, mk, d) : o.start < DayStart(d + 1) /\ o.start \in Nat /\ o.end \in Nat
                                    /\ o.start < o.end
  BY <1>2, OfDayHas
<1>11. OfDay(evs, mk, d) # {} => Latest(OfDay(evs, mk, d)) \in OfDay(evs, mk, d)
  BY <1>2, LatestOfDay
<1>12. \A t \in SlotsOf(d) :
         t \in Busy(m) <=> \E o \in OfDay(evs, mk, d) : o.start <= t /\ t < o.end
  BY <1>6, <1>7, <1>8
<1> QED
  BY <1>3, <1>9, <1>10, <1>11, <1>12, Zenon

--------------------------------------------------------------------------------
(* One row of a card.                                                      *)
LEMMA RowOnHoliday ==
  ASSUME NEW m, NEW d, NEW at, Holiday(m, d)
  PROVE  Row(m, d, at, clock).status = "holiday"
  BY DEF Row, Nothing

LEMMA RowIs ==
  ASSUME NEW m, NEW d, NEW at, ~Holiday(m, d)
  PROVE  Row(m, d, at, clock).status =
           IF Running(m, d, at, clock) # {} THEN "active"
           ELSE IF Coming(m, d, at, clock) # {} THEN "upcoming"
           ELSE IF Look(m, d) = {} THEN "none"
           ELSE IF Over(m, d, at, clock) THEN "finished" ELSE "upcoming"
  BY DEF Row, Nothing

(* A row asked for an instant of its day is right.                         *)
LEMMA LiveRowIsRight ==
  ASSUME DaysInv, NEW m \in Comparable, NEW d \in Days, NEW at \in SlotsOf(d) \cup {NoTime},
         ~Holiday(m, d), Live(d, at, clock)
  PROVE  Row(m, d, at, clock).status = Awaited(m, d, at, Busy(m) \cap SlotsOf(d))
<1> DEFINE ref == Reference(at, clock)
           all == Look(m, d)
           busy == Busy(m) \cap SlotsOf(d)
<1>1. /\ d \in Nat /\ DayStart(d) \in Nat /\ DayStart(d + 1) \in Nat
      /\ \A t \in SlotsOf(d) : t \in Nat /\ DayStart(d) <= t /\ t < DayStart(d + 1)
      /\ \A t \in Nat : DayStart(d) <= t /\ t < DayStart(d + 1) => t \in SlotsOf(d)
  BY DaysAreNat, NextDay DEF SlotsOf
<1>2. ref \in SlotsOf(d)
  <2>1. CASE at = NoTime
    <3>1. d = DayOf(clock) /\ ref = clock /\ clock \in Nat
      BY <2>1 DEF Live, Reference, DaysInv
    <3>2. DayStart(d) <= clock /\ clock < DayStart(d + 1)
      BY <1>1, <3>1, DayOfIs
    <3> QED
      BY <1>1, <3>1, <3>2
  <2>2. CASE at # NoTime
    BY <2>2 DEF Reference
  <2> QED
    BY <2>1, <2>2
<1>3. /\ \A t \in SlotsOf(d) : t \in Busy(m) <=> \E o \in all : o.start <= t /\ t < o.end
      /\ \A o \in all : \E t \in SlotsOf(d) : o.start <= t /\ t < o.end
      /\ \A o \in all : o.start < DayStart(d + 1) /\ o.start \in Nat /\ o.end \in Nat
                        /\ o.start < o.end
      /\ all # {} => Latest(all) \in all
  BY LookIsBusy
<1>4. /\ Running(m, d, at, clock) = {o \in all : o.start <= ref /\ ref < o.end}
      /\ Coming(m, d, at, clock) = {o \in all : o.start > ref}
  BY DEF Running, Coming
<1>5. Over(m, d, at, clock) <=>
        IF at # NoTime /\ all # {} THEN Latest(all).end <= ref ELSE d <= DayOf(clock)
  BY DEF Over, Reference
<1>6. at = NoTime => d = DayOf(clock)
  BY DEF Live
<1>7. /\ ~Holiday(m, d) /\ Live(d, at, clock)
      /\ Awaited(m, d, at, busy) =
           IF busy = {} THEN "none"
           ELSE IF ref \in busy THEN "active"
           ELSE IF \E t \in busy : t > ref THEN "upcoming" ELSE "finished"
  BY DEF Awaited
<1>8. Row(m, d, at, clock).status =
        IF Running(m, d, at, clock) # {} THEN "active"
        ELSE IF Coming(m, d, at, clock) # {} THEN "upcoming"
        ELSE IF all = {} THEN "none"
        ELSE IF Over(m, d, at, clock) THEN "finished" ELSE "upcoming"
  BY RowIs
<1> HIDE DEF ref, all
<1>9. all = {} <=> busy = {}
  BY <1>3
<1>10. Running(m, d, at, clock) # {} <=> ref \in busy
  BY <1>2, <1>3, <1>4
<1>11. ref \notin busy => (Coming(m, d, at, clock) # {} <=> \E t \in busy : t > ref)
  <2> SUFFICES ASSUME ref \notin busy
               PROVE  Coming(m, d, at, clock) # {} <=> \E t \in busy : t > ref
    OBVIOUS
  <2>1. ASSUME NEW o \in all, o.start > ref PROVE \E t \in busy : t > ref
    <3>1. PICK t \in Nat : t = o.start
      BY <1>3
    <3>2. DayStart(d) <= t /\ t < DayStart(d + 1) /\ t > ref /\ t < o.end /\ o.start <= t
      BY <1>1, <1>2, <1>3, <2>1, <3>1
    <3>3. t \in SlotsOf(d)
      BY <1>1, <3>2
    <3> QED
      BY <1>3, <3>2, <3>3
  <2>2. ASSUME NEW t \in busy, t > ref PROVE \E o \in all : o.start > ref
    <3>1. PICK o \in all : o.start <= t /\ t < o.end
      BY <1>3
    <3>2. ~(o.start <= ref /\ ref < o.end)
      BY <1>2, <1>3
    <3>3. o.start \in Nat /\ o.end \in Nat /\ ref \in Nat /\ t \in Nat
      BY <1>1, <1>2, <1>3
    <3>4. o.start > ref
      BY <2>2, <3>1, <3>2, <3>3
    <3> QED
      BY <3>4
  <2> QED
    BY <1>4, <2>1, <2>2
<1>12. all # {} /\ Running(m, d, at, clock) = {} /\ Coming(m, d, at, clock) = {} =>
         Over(m, d, at, clock)
  <2> SUFFICES ASSUME all # {}, Running(m, d, at, clock) = {}, Coming(m, d, at, clock) = {}
               PROVE  Over(m, d, at, clock)
    OBVIOUS
  <2>1. CASE at = NoTime
    BY <1>1, <1>5, <1>6, <2>1
  <2>2. CASE at # NoTime
    <3>1. PICK o \in all : o = Latest(all)
      BY <1>3
    <3>2. o.start \in Nat /\ o.end \in Nat /\ ref \in Nat
      BY <1>1, <1>2, <1>3
    <3>3. ~(o.start <= ref /\ ref < o.end) /\ ~(o.start > ref)
      BY <1>4
    <3>4. o.end <= ref
      BY <3>2, <3>3
    <3> QED
      BY <1>5, <2>2, <3>1, <3>4
  <2> QED
    BY <2>1, <2>2
<1> HIDE DEF busy
<1>13. Row(m, d, at, clock).status = Awaited(m, d, at, busy)
  <2>1. CASE busy = {}
    <3>1. all = {} /\ ref \notin busy
      BY <1>9, <2>1
    <3>2. Running(m, d, at, clock) = {} /\ Coming(m, d, at, clock) = {}
      BY <1>4, <3>1
    <3> QED
      BY <1>7, <1>8, <2>1, <3>1, <3>2
  <2>2. CASE busy # {} /\ ref \in busy
    BY <1>7, <1>8, <1>10, <2>2
  <2>3. CASE busy # {} /\ ref \notin busy
    BY <1>7, <1>8, <1>9, <1>10, <1>11, <1>12, <2>3
  <2> QED
    BY <2>1, <2>2, <2>3
<1> QED
  BY <1>13 DEF busy

(* Without an instant another day's row is over, or still to come.         *)
LEMMA OtherRowIsRight ==
  ASSUME DaysInv, NEW m \in Comparable, NEW d \in Days, NEW at \in SlotsOf(d) \cup {NoTime},
         ~Holiday(m, d), ~Live(d, at, clock)
  PROVE  Row(m, d, at, clock).status = Awaited(m, d, at, Busy(m) \cap SlotsOf(d))
<1> DEFINE all == Look(m, d)
           busy == Busy(m) \cap SlotsOf(d)
<1>1. at = NoTime /\ d # DayOf(clock) /\ d \in Nat /\ DayOf(clock) \in Nat
  BY DaysAreNat, DayParts DEF Live, DaysInv
<1>2. /\ Running(m, d, at, clock) = {}
      /\ Coming(m, d, at, clock) = {o \in all : d > DayOf(clock)}
      /\ Over(m, d, at, clock) <=> d <= DayOf(clock)
  BY <1>1 DEF Running, Coming, Over
<1>3. all = {} <=> busy = {}
  <2>1. \A t \in SlotsOf(d) : t \in Busy(m) <=> \E o \in all : o.start <= t /\ t < o.end
    BY LookIsBusy
  <2>2. \A o \in all : \E t \in SlotsOf(d) : o.start <= t /\ t < o.end
    BY LookIsBusy
  <2> QED
    BY <2>1, <2>2
<1>4. Awaited(m, d, at, busy) =
        IF busy = {} THEN "none" ELSE IF d < DayOf(clock) THEN "finished" ELSE "upcoming"
  BY DEF Awaited
<1>5. Row(m, d, at, clock).status =
        IF Running(m, d, at, clock) # {} THEN "active"
        ELSE IF Coming(m, d, at, clock) # {} THEN "upcoming"
        ELSE IF all = {} THEN "none"
        ELSE IF Over(m, d, at, clock) THEN "finished" ELSE "upcoming"
  BY RowIs
<1> HIDE DEF all, busy
<1>6. Row(m, d, at, clock).status = Awaited(m, d, at, busy)
  <2>1. CASE d < DayOf(clock)
    <3>1. Coming(m, d, at, clock) = {} /\ Over(m, d, at, clock)
      BY <1>1, <1>2, <2>1
    <3> QED
      BY <1>2, <1>3, <1>4, <1>5, <2>1, <3>1
  <2>2. CASE d > DayOf(clock)
    <3>1. Coming(m, d, at, clock) = all /\ ~(d < DayOf(clock))
      BY <1>1, <1>2, <2>2
    <3> QED
      BY <1>2, <1>3, <1>4, <1>5, <3>1
  <2> QED
    BY <1>1, <2>1, <2>2
<1> QED
  BY <1>6 DEF busy

LEMMA DaysShowRight == DaysInv => CardIsRight
<1> SUFFICES ASSUME DaysInv, NEW m \in Comparable, NEW d \in Days
             PROVE  LET busy == Busy(m) \cap SlotsOf(d) IN
                    /\ \A at \in SlotsOf(d) \cup {NoTime} :
                         Row(m, d, at, clock).status = Awaited(m, d, at, busy)
                    /\ m \in Listed(d) <=> (~Holiday(m, d) /\ busy # {})
  BY DEF CardIsRight
<1> DEFINE busy == Busy(m) \cap SlotsOf(d)
<1>1. ASSUME NEW at \in SlotsOf(d) \cup {NoTime}
      PROVE  Row(m, d, at, clock).status = Awaited(m, d, at, busy)
  <2>1. CASE Holiday(m, d)
    <3>1. Awaited(m, d, at, busy) = "holiday"
      BY <2>1 DEF Awaited
    <3> QED
      BY <2>1, <3>1, RowOnHoliday
  <2>2. CASE ~Holiday(m, d) /\ Live(d, at, clock)
    BY <2>2, LiveRowIsRight
  <2>3. CASE ~Holiday(m, d) /\ ~Live(d, at, clock)
    BY <2>3, OtherRowIsRight
  <2> QED
    BY <2>1, <2>2, <2>3
<1>2. m \in Members
  BY DEF Comparable
<1>3. \A t \in SlotsOf(d) : t \in Busy(m) <=> \E o \in Look(m, d) : o.start <= t /\ t < o.end
  BY LookIsBusy
<1>4. \A o \in Look(m, d) : \E t \in SlotsOf(d) : o.start <= t /\ t < o.end
  BY LookIsBusy
<1>5. Look(m, d) # {} <=> busy # {}
  BY <1>3, <1>4
<1>6. m \in Listed(d) <=> (~Holiday(m, d) /\ busy # {})
  BY <1>2, <1>5 DEF Listed
<1> QED
  BY <1>1, <1>6

--------------------------------------------------------------------------------
(* What is stored stays well-formed.                                       *)
LEMMA DaysInit == Init => DaysInv
<1> SUFFICES ASSUME Init PROVE DaysInv
  OBVIOUS
<1>1. events \in [Members -> Lists]
  BY SchedulesAssumption DEF Init, Lists
<1>2. NoMarks \in MarksOf
  <2>1. NoMarks \in [{} -> [kind : {"holiday", "shift"}, source : Days]]
    BY DEF NoMarks
  <2> QED
    BY <2>1 DEF MarksOf
<1>3. marks \in [Members -> MarksOf] /\ clock \in Nat
  BY <1>2 DEF Init
<1> QED
  BY <1>1, <1>3 DEF DaysInv

LEMMA DaysStep == DaysInv /\ [Next]_vars => DaysInv'
<1> SUFFICES ASSUME DaysInv, [Next]_vars PROVE DaysInv'
  OBVIOUS
<1> USE DEF DaysInv
<1>1. CASE Tick
  BY <1>1 DEF Tick
<1>2. ASSUME NEW m \in Members, Replace(m) PROVE DaysInv'
  <2>1. PICK list \in Schedules : events' = [events EXCEPT ![m] = list]
    BY <1>2 DEF Replace
  <2>2. list \in Lists
    BY SchedulesAssumption DEF Lists
  <2> QED
    BY <1>2, <2>1, <2>2 DEF Replace
<1>3. ASSUME NEW m \in Members, NEW d \in Days, Mark(m, d) PROVE DaysInv'
  <2>1. PICK rule \in Rules(d) :
          marks' = [marks EXCEPT ![m] = [e \in DOMAIN @ \cup {d} |-> IF e = d THEN rule ELSE @[e]]]
    BY <1>3 DEF Mark
  <2>2. rule \in [kind : {"holiday", "shift"}, source : Days]
    BY DEF Rules
  <2>3. PICK D \in SUBSET Days : marks[m] \in [D -> [kind : {"holiday", "shift"}, source : Days]]
    BY DEF MarksOf
  <2> DEFINE mk == [e \in D \cup {d} |-> IF e = d THEN rule ELSE marks[m][e]]
  <2>4. mk \in [D \cup {d} -> [kind : {"holiday", "shift"}, source : Days]]
    BY <2>2, <2>3
  <2> HIDE DEF mk
  <2>5. mk \in MarksOf
    BY <2>4 DEF MarksOf
  <2>6. marks' = [marks EXCEPT ![m] = mk]
    BY <2>1, <2>3 DEF mk
  <2> QED
    BY <1>3, <2>5, <2>6 DEF Mark
<1>4. ASSUME NEW m \in Members, NEW d \in Days, Unmark(m, d) PROVE DaysInv'
  <2>1. PICK D \in SUBSET Days : marks[m] \in [D -> [kind : {"holiday", "shift"}, source : Days]]
    BY DEF MarksOf
  <2> DEFINE mk == [e \in D \ {d} |-> marks[m][e]]
  <2>2. mk \in [D \ {d} -> [kind : {"holiday", "shift"}, source : Days]]
    BY <2>1
  <2> HIDE DEF mk
  <2>3. mk \in MarksOf
    BY <2>2 DEF MarksOf
  <2>4. marks' = [marks EXCEPT ![m] = mk]
    BY <1>4, <2>1 DEF Unmark, mk
  <2> QED
    BY <1>4, <2>3, <2>4 DEF Unmark
<1>5. CASE UNCHANGED vars
  BY <1>5 DEF vars
<1> QED
  BY <1>1, <1>2, <1>3, <1>4, <1>5 DEF Next

(* THEOREM.  For any courses, marks and times: the status a card shows of  *)
(* a member, live or asked for an instant of the day, is what his courses  *)
(* and marks say of that instant, and the list of a day has a block for    *)
(* exactly those who have courses on it.  (DailyMemberRows and             *)
(* MarkdownDayList of schedule/daycard.go, ExpandIndexedOccurrences of     *)
(* schedule/occurrence.go.)                                                *)
THEOREM CardsAreRight == Spec => []CardIsRight
<1>1. Spec => []DaysInv
  BY DaysInit, DaysStep, PTL DEF Spec
<1> QED
  BY <1>1, DaysShowRight, PTL

--------------------------------------------------------------------------------
(* Induction over the elements of a list, and computing along it.          *)
LEMMA AlongIt ==
  ASSUME NEW n \in Nat, NEW S, 0 \in S, \A i \in 1..n : i - 1 \in S => i \in S
  PROVE  \A i \in 0..n : i \in S
<1> DEFINE T == (0..n) \ S
<1>1. SUFFICES ASSUME T # {} PROVE FALSE
  OBVIOUS
<1>2. T \subseteq Nat
  OBVIOUS
<1> DEFINE R == {ss \in Nat \X Nat : ss[1] < ss[2]}
<1>3. IsWellFoundedOn(R, Nat)
  BY NatLessThanWellFounded DEF OpToRel
<1>4. PICK x \in T : \A y \in T : ~(<<y, x>> \in R)
  <2> HIDE DEF T, R
  <2> QED
    BY <1>1, <1>2, <1>3, WFMin
<1>5. x \in 0..n /\ x \notin S /\ x # 0
  OBVIOUS
<1>6. /\ x - 1 \in 0..n /\ x - 1 \in Nat /\ x \in Nat /\ x - 1 < x /\ x \in 1..n
      /\ <<x - 1, x>> \in R
  BY <1>5
<1>7. x - 1 \in S
  <2> HIDE DEF R
  <2> QED
    BY <1>4, <1>6
<1> QED
  BY <1>5, <1>6, <1>7

Runs(g, n, V, a, step) ==
  g \in [0..n -> V] /\ g[0] = a /\ \A i \in 1..n : g[i] = step[<<g[i - 1], i>>]
LEMMA Computed ==
  ASSUME NEW n \in Nat, NEW V, NEW a \in V, NEW step \in [V \X (1..n) -> V]
  PROVE  \E g : Runs(g, n, V, a, step)
<1> DEFINE Is(k, g) == g[0] = a /\ \A i \in 1..k : g[i] = step[<<g[i - 1], i>>]
           S == {k \in 0..n : \E g \in [0..k -> V] : Is(k, g)}
<1>1. 0 \in S
  <2>1. [i \in 0..0 |-> a] \in [0..0 -> V] /\ Is(0, [i \in 0..0 |-> a])
    OBVIOUS
  <2>2. 0 \in 0..n
    OBVIOUS
  <2> HIDE DEF Is
  <2>3. \E g \in [0..0 -> V] : Is(0, g)
    BY <2>1
  <2> QED
    BY <2>2, <2>3
<1>2. ASSUME NEW k \in 1..n, k - 1 \in S PROVE k \in S
  <2>1. PICK g \in [0..(k - 1) -> V] : Is(k - 1, g)
    BY <1>2
  <2> DEFINE h == [i \in 0..k |-> IF i = k THEN step[<<g[k - 1], k>>] ELSE g[i]]
  <2>2. g[k - 1] \in V
    OBVIOUS
  <2>3. h \in [0..k -> V]
    BY <2>2
  <2>4. Is(k, h)
    <3>1. h[0] = a
      BY <2>1
    <3>2. ASSUME NEW i \in 1..k PROVE h[i] = step[<<h[i - 1], i>>]
      <4>1. CASE i = k
        <5>1. h[k] = step[<<g[k - 1], k>>] /\ h[k - 1] = g[k - 1]
          OBVIOUS
        <5> HIDE DEF h
        <5> QED
          BY <4>1, <5>1
      <4>2. CASE i # k
        <5>1. i \in 1..(k - 1) /\ i - 1 \in 0..(k - 1) /\ i - 1 # k /\ i \in 0..k /\ i - 1 \in 0..k
          BY <4>2
        <5>2. h[i] = g[i] /\ h[i - 1] = g[i - 1]
          BY <4>2, <5>1
        <5>3. g[i] = step[<<g[i - 1], i>>]
          BY <2>1, <5>1
        <5> HIDE DEF h
        <5> QED
          BY <5>2, <5>3
      <4> QED
        BY <4>1, <4>2
    <3> HIDE DEF h
    <3> QED
      BY <3>1, <3>2
  <2> HIDE DEF h, Is
  <2> QED
    BY <2>3, <2>4
<1>3. \A k \in 0..n : k \in S
  <2> HIDE DEF S
  <2> QED
    BY <1>1, <1>2, AlongIt
<1>4. n \in S
  <2>1. n \in 0..n
    OBVIOUS
  <2> HIDE DEF S
  <2> QED
    BY <1>3, <2>1
<1>5. PICK g \in [0..n -> V] : Is(n, g)
  BY <1>4
<1>6. Runs(g, n, V, a, step)
  BY <1>5 DEF Runs
<1> QED
  BY <1>6

Span == Int \X Int

LEMMA MaxOfTwo ==
  ASSUME NEW a \in Int, NEW b \in Int
  PROVE  Max({a, b}) = IF a >= b THEN a ELSE b
<1> DEFINE m == IF a >= b THEN a ELSE b
<1>1. m \in {a, b} /\ \A y \in {a, b} : m >= y
  OBVIOUS
<1>2. \A x \in {a, b} : (\A y \in {a, b} : x >= y) => x = m
  OBVIOUS
<1> HIDE DEF m
<1>3. Max({a, b}) = m
  BY <1>1, <1>2 DEF Max
<1> QED
  BY <1>3 DEF m

LEMMA MinOfTwo ==
  ASSUME NEW a \in Int, NEW b \in Int
  PROVE  Min({a, b}) = IF a <= b THEN a ELSE b
<1> DEFINE m == IF a <= b THEN a ELSE b
<1>1. m \in {a, b} /\ \A y \in {a, b} : m <= y
  OBVIOUS
<1>2. \A x \in {a, b} : (\A y \in {a, b} : x <= y) => x = m
  OBVIOUS
<1> HIDE DEF m
<1>3. Min({a, b}) = m
  BY <1>1, <1>2 DEF Min
<1> QED
  BY <1>3 DEF m

LEMMA JoinIs ==
  ASSUME NEW done \in Seq(Span), NEW span \in Span
  PROVE  /\ Join(done, span) \in Seq(Span)
         /\ done = <<>> => Join(done, span) = <<span>>
         /\ done # <<>> /\ span[1] > done[Len(done)][2] => Join(done, span) = Append(done, span)
         /\ done # <<>> /\ ~(span[1] > done[Len(done)][2]) =>
              Join(done, span) =
                [done EXCEPT ![Len(done)] =
                   <<done[Len(done)][1],
                     IF done[Len(done)][2] >= span[2] THEN done[Len(done)][2] ELSE span[2]>>]
<1> DEFINE last == done[Len(done)]
           both == <<last[1], Max({last[2], span[2]})>>
<1>1. done # <<>> => Len(done) \in 1..Len(done) /\ last \in Span
  OBVIOUS
<1>2. span[2] \in Int /\ (done # <<>> => last[1] \in Int /\ last[2] \in Int)
  BY <1>1 DEF Span
<1>3. done # <<>> => /\ Max({last[2], span[2]}) = IF last[2] >= span[2] THEN last[2] ELSE span[2]
                     /\ both \in Span
  BY <1>2, MaxOfTwo DEF Span
<1>4. done # <<>> => [done EXCEPT ![Len(done)] = both] \in Seq(Span)
  <2> HIDE DEF both
  <2> QED
    BY <1>3
<1>5. Append(done, span) \in Seq(Span)
  OBVIOUS
<1>6. done = <<>> => Append(done, span) = <<span>>
  <2>1. Append(<<>>, span) = <<span>>
    OBVIOUS
  <2> QED
    BY <2>1, Zenon
<1> QED
  BY <1>3, <1>4, <1>5, <1>6 DEF Join

Joining(done, list) ==
  /\ done \in [0..Len(list) -> Seq(Span)] /\ done[0] = <<>> /\ done[Len(list)] = Joined(list)
  /\ \A i \in 1..Len(list) : done[i] = Join(done[i - 1], list[i])
LEMMA JoinedIs ==
  ASSUME NEW list \in Seq(Span)
  PROVE  \E done : Joining(done, list)
<1> DEFINE n == Len(list)
           Is(g) == g = [i \in 0..n |-> IF i = 0 THEN <<>> ELSE Join(g[i - 1], list[i])]
           step == [x \in Seq(Span) \X (1..n) |-> Join(x[1], list[x[2]])]
           f == CHOOSE g : Is(g)
<1>1. step \in [Seq(Span) \X (1..n) -> Seq(Span)]
  <2>1. ASSUME NEW x \in Seq(Span) \X (1..n) PROVE Join(x[1], list[x[2]]) \in Seq(Span)
    <3>1. x[1] \in Seq(Span) /\ list[x[2]] \in Span
      OBVIOUS
    <3> QED
      BY <3>1, JoinIs
  <2> QED
    BY <2>1
<1>2. n \in Nat /\ <<>> \in Seq(Span)
  OBVIOUS
<1>3. PICK g : Runs(g, n, Seq(Span), <<>>, step)
  <2> HIDE DEF step, n
  <2> QED
    BY <1>1, <1>2, Computed
<1>4. \A i \in 1..n : g[i - 1] \in Seq(Span) /\ g[i] = Join(g[i - 1], list[i])
  <2> SUFFICES ASSUME NEW i \in 1..n
               PROVE  g[i - 1] \in Seq(Span) /\ g[i] = Join(g[i - 1], list[i])
    OBVIOUS
  <2>1. g[i - 1] \in Seq(Span)
    BY <1>3 DEF Runs
  <2>2. <<g[i - 1], i>> \in Seq(Span) \X (1..n)
    BY <2>1
  <2> QED
    BY <1>3, <2>1, <2>2 DEF Runs
<1>5. Is(g)
  <2>1. ASSUME NEW i \in 0..n PROVE g[i] = IF i = 0 THEN <<>> ELSE Join(g[i - 1], list[i])
    <3>1. i = 0 \/ i \in 1..n
      BY <1>2
    <3> QED
      BY <1>3, <1>4, <3>1 DEF Runs
  <2>2. DOMAIN g = 0..n /\ g = [i \in DOMAIN g |-> g[i]]
    BY <1>3 DEF Runs
  <2> QED
    BY <2>1, <2>2
<1>6. Is(f)
  <2> HIDE DEF Is
  <2> QED
    BY <1>5
<1>7. Joined(list) = f[n]
  BY DEF Joined
<1> HIDE DEF f
<1>8. \A i \in 1..n : f[i] = Join(f[i - 1], list[i])
  BY <1>2, <1>6
<1>9. f[0] = <<>> /\ DOMAIN f = 0..n
  BY <1>2, <1>6
<1>10. \A i \in 0..n : f[i] \in Seq(Span)
  <2> DEFINE S == {i \in 0..n : f[i] \in Seq(Span)}
  <2>1. 0 \in S
    BY <1>2, <1>9
  <2>2. ASSUME NEW i \in 1..n, i - 1 \in S PROVE i \in S
    <3>1. list[i] \in Span /\ f[i - 1] \in Seq(Span) /\ i \in 0..n
      BY <2>2
    <3>2. Join(f[i - 1], list[i]) \in Seq(Span)
      BY <3>1, JoinIs
    <3>3. f[i] \in Seq(Span)
      BY <1>8, <3>2
    <3> QED
      BY <3>1, <3>3
  <2> HIDE DEF S
  <2>3. \A i \in 0..n : i \in S
    BY <1>2, <2>1, <2>2, AlongIt
  <2> QED
    BY <2>3 DEF S
<1>11. f \in [0..n -> Seq(Span)]
  BY <1>6, <1>9, <1>10
<1>12. Joining(f, list)
  BY <1>7, <1>8, <1>9, <1>11 DEF Joining
<1> QED
  BY <1>12

Summing(sum, list) ==
  /\ sum \in [0..Len(list) -> Int] /\ sum[0] = 0 /\ sum[Len(list)] = Total(list)
  /\ \A i \in 1..Len(list) : sum[i] = sum[i - 1] + list[i][2] - list[i][1]
LEMMA TotalIs ==
  ASSUME NEW list \in Seq(Span)
  PROVE  \E sum : Summing(sum, list)
<1> DEFINE n == Len(list)
           Is(g) == g = [i \in 0..n |-> IF i = 0 THEN 0 ELSE g[i - 1] + list[i][2] - list[i][1]]
           step == [x \in Int \X (1..n) |-> x[1] + list[x[2]][2] - list[x[2]][1]]
           f == CHOOSE g : Is(g)
<1>1. step \in [Int \X (1..n) -> Int]
  <2>1. ASSUME NEW x \in Int \X (1..n) PROVE x[1] + list[x[2]][2] - list[x[2]][1] \in Int
    <3>1. x[1] \in Int /\ list[x[2]] \in Span
      OBVIOUS
    <3> QED
      BY <3>1 DEF Span
  <2> QED
    BY <2>1
<1>2. n \in Nat /\ 0 \in Int
  OBVIOUS
<1>3. PICK g : Runs(g, n, Int, 0, step)
  <2> HIDE DEF step, n
  <2> QED
    BY <1>1, <1>2, Computed
<1>4. \A i \in 1..n : g[i - 1] \in Int /\ g[i] = g[i - 1] + list[i][2] - list[i][1]
  <2> SUFFICES ASSUME NEW i \in 1..n
               PROVE  g[i - 1] \in Int /\ g[i] = g[i - 1] + list[i][2] - list[i][1]
    OBVIOUS
  <2>1. g[i - 1] \in Int
    BY <1>3 DEF Runs
  <2>2. <<g[i - 1], i>> \in Int \X (1..n)
    BY <2>1
  <2> QED
    BY <1>3, <2>1, <2>2 DEF Runs
<1>5. Is(g)
  <2>1. ASSUME NEW i \in 0..n PROVE g[i] = IF i = 0 THEN 0 ELSE g[i - 1] + list[i][2] - list[i][1]
    <3>1. i = 0 \/ i \in 1..n
      BY <1>2
    <3> QED
      BY <1>3, <1>4, <3>1 DEF Runs
  <2>2. DOMAIN g = 0..n /\ g = [i \in DOMAIN g |-> g[i]]
    BY <1>3 DEF Runs
  <2> QED
    BY <2>1, <2>2
<1>6. Is(f)
  <2> HIDE DEF Is
  <2> QED
    BY <1>5
<1>7. Total(list) = f[n]
  BY DEF Total
<1> HIDE DEF f
<1>8. \A i \in 1..n : f[i] = f[i - 1] + list[i][2] - list[i][1]
  BY <1>2, <1>6
<1>9. f[0] = 0 /\ DOMAIN f = 0..n
  BY <1>2, <1>6
<1>10. \A i \in 0..n : f[i] \in Int
  <2> DEFINE S == {i \in 0..n : f[i] \in Int}
  <2>1. 0 \in S
    BY <1>2, <1>9
  <2>2. ASSUME NEW i \in 1..n, i - 1 \in S PROVE i \in S
    <3>1. list[i] \in Span /\ f[i - 1] \in Int /\ i \in 0..n
      BY <2>2
    <3>2. f[i - 1] + list[i][2] - list[i][1] \in Int
      BY <3>1 DEF Span
    <3>3. f[i] \in Int
      BY <1>8, <3>2
    <3> QED
      BY <3>1, <3>3
  <2> HIDE DEF S
  <2>3. \A i \in 0..n : i \in S
    BY <1>2, <2>1, <2>2, AlongIt
  <2> QED
    BY <2>3 DEF S
<1>11. f \in [0..n -> Int]
  BY <1>6, <1>9, <1>10
<1>12. Summing(f, list)
  BY <1>7, <1>8, <1>9, <1>11 DEF Summing
<1> QED
  BY <1>12

--------------------------------------------------------------------------------
(* Merging spans: what is covered stays covered, and once.                 *)
Covered(list, k) == {t \in Int : \E j \in 1..k : list[j][1] <= t /\ t < list[j][2]}
Tidy(list) ==
  /\ \A j \in 1..Len(list) : list[j][1] < list[j][2]
  /\ \A i, j \in 1..Len(list) : i < j => list[i][2] <= list[j][1]

(* The total of spans that do not meet is the number of slots they cover.  *)
LEMMA TotalCounts ==
  ASSUME NEW list \in Seq(Span), Tidy(list)
  PROVE  /\ IsFiniteSet(Covered(list, Len(list)))
         /\ Total(list) = Cardinality(Covered(list, Len(list)))
<1> DEFINE n == Len(list)
<1>1. n \in Nat
  OBVIOUS
<1>2. PICK sum : Summing(sum, list)
  BY TotalIs
<1> DEFINE S == {k \in 0..n : /\ IsFiniteSet(Covered(list, k))
                              /\ sum[k] = Cardinality(Covered(list, k))}
<1>3. 0 \in S
  <2>1. Covered(list, 0) = {}
    BY DEF Covered
  <2>2. IsFiniteSet(Covered(list, 0)) /\ Cardinality(Covered(list, 0)) = 0
    BY <2>1, FS_EmptySet
  <2>3. sum[0] = 0 /\ 0 \in 0..n
    BY <1>1, <1>2 DEF Summing
  <2> QED
    BY <2>2, <2>3
<1>4. ASSUME NEW k \in 1..n, k - 1 \in S PROVE k \in S
  <2> DEFINE a == list[k][1]
             b == list[k][2]
             old == Covered(list, k - 1)
             new == a..(b - 1)
  <2>1. a \in Int /\ b \in Int /\ a < b
    BY DEF Tidy, Span
  <2>2. IsFiniteSet(new) /\ Cardinality(new) = b - a
    <3> HIDE DEF a, b
    <3>1. b - 1 \in Int /\ ~(a > b - 1) /\ (b - 1) - a + 1 = b - a
      BY <2>1
    <3> QED
      BY <2>1, <3>1, FS_Interval
  <2>3. IsFiniteSet(old) /\ sum[k - 1] = Cardinality(old)
    BY <1>4
  <2>4. Covered(list, k) = old \cup new
    <3>1. \A j \in 1..k : j = k \/ j \in 1..(k - 1)
      OBVIOUS
    <3>2. \A j \in 1..(k - 1) : j \in 1..k
      OBVIOUS
    <3>3. \A t \in Int : t \in new <=> a <= t /\ t < b
      BY <2>1
    <3>4. new \subseteq Int
      OBVIOUS
    <3>5. ASSUME NEW t \in Int PROVE t \in Covered(list, k) <=> t \in old \/ t \in new
      <4> HIDE DEF new
      <4>1. t \in Covered(list, k) <=> \E j \in 1..k : list[j][1] <= t /\ t < list[j][2]
        BY DEF Covered
      <4>2. t \in old <=> \E j \in 1..(k - 1) : list[j][1] <= t /\ t < list[j][2]
        BY DEF Covered
      <4>3. k \in 1..k
        OBVIOUS
      <4> QED
        BY <3>1, <3>2, <3>3, <4>1, <4>2, <4>3
    <3>6. Covered(list, k) \subseteq Int /\ old \subseteq Int
      BY DEF Covered
    <3> HIDE DEF old, new
    <3> QED
      BY <3>4, <3>5, <3>6
  <2>5. old \cap new = {}
    <3> SUFFICES ASSUME NEW t \in old, t \in new PROVE FALSE
      OBVIOUS
    <3>1. PICK j \in 1..(k - 1) : list[j][1] <= t /\ t < list[j][2]
      BY DEF Covered
    <3>2. list[j][2] <= a /\ list[j][2] \in Int
      <4>1. j \in 1..n /\ j < k /\ list[j] \in Span
        OBVIOUS
      <4> QED
        BY <4>1 DEF Tidy, Span
    <3>3. a <= t /\ t \in Int
      OBVIOUS
    <3> HIDE DEF a
    <3> QED
      BY <2>1, <3>1, <3>2, <3>3
  <2>6. Cardinality(old) \in Nat
    BY <2>3, FS_CardinalityType
  <2>7. IsFiniteSet(old \cup new) /\ Cardinality(old \cup new) = Cardinality(old) + (b - a)
    <3> HIDE DEF old, new, a, b
    <3>1. Cardinality(old \cap new) = 0
      BY <2>5, FS_EmptySet
    <3>2. IsFiniteSet(old \cup new)
          /\ Cardinality(old \cup new) =
               Cardinality(old) + Cardinality(new) - Cardinality(old \cap new)
      BY <2>2, <2>3, FS_Union
    <3> QED
      BY <2>1, <2>2, <2>6, <3>1, <3>2
  <2>8. sum[k] = sum[k - 1] + b - a
    BY <1>2 DEF Summing
  <2> HIDE DEF old, new, a, b
  <2>9. sum[k] = Cardinality(Covered(list, k)) /\ IsFiniteSet(Covered(list, k)) /\ k \in 0..n
    BY <2>1, <2>3, <2>4, <2>6, <2>7, <2>8
  <2> QED
    BY <2>9
<1>5. n \in S
  <2> HIDE DEF S, n
  <2>1. \A k \in 0..n : k \in S
    BY <1>1, <1>3, <1>4, AlongIt
  <2> QED
    BY <1>1, <2>1
<1>6. Total(list) = sum[n]
  BY <1>2 DEF Summing
<1> QED
  BY <1>5, <1>6

(* One more span, which does not begin before the last one.                *)
LEMMA JoinKeeps ==
  ASSUME NEW done \in Seq(Span), Tidy(done), NEW span \in Span, span[1] < span[2],
         done # <<>> => done[Len(done)][1] <= span[1]
  PROVE  LET e == Join(done, span) IN
         /\ Tidy(e) /\ e # <<>> /\ e[Len(e)][1] <= span[1]
         /\ \A t \in Int : t \in Covered(e, Len(e)) <=>
                             t \in Covered(done, Len(done)) \/ (span[1] <= t /\ t < span[2])
<1> DEFINE e == Join(done, span)
           n == Len(done)
<1>1. n \in Nat /\ span[1] \in Int /\ span[2] \in Int
      /\ \A j \in 1..n : done[j][1] \in Int /\ done[j][2] \in Int
  BY DEF Span
<1>2. CASE done = <<>> \/ span[1] > done[n][2]
  <2>1. e = Append(done, span)
    <3>1. done = <<>> => Append(done, span) = <<span>>
      <4>1. Append(<<>>, span) = <<span>>
        OBVIOUS
      <4> QED
        BY <4>1, Zenon
    <3> QED
      BY <1>2, <3>1, JoinIs
  <2>2. /\ Len(e) = n + 1 /\ e[n + 1] = span /\ e # <<>>
        /\ \A j \in 1..n : e[j] = done[j]
    <3> HIDE DEF e
    <3> QED
      BY <2>1
  <2>3. ASSUME NEW j \in 1..n PROVE done[j][2] <= span[1]
    <3>1. done # <<>> /\ n \in 1..n
      BY <1>1
    <3>2. span[1] > done[n][2]
      BY <1>2, <3>1
    <3>3. j = n \/ done[j][2] <= done[n][1]
      BY <3>1 DEF Tidy
    <3>4. done[n][1] < done[n][2]
      BY <3>1 DEF Tidy
    <3> QED
      BY <1>1, <3>1, <3>2, <3>3, <3>4
  <2> HIDE DEF e
  <2>4. \A j \in 1..(n + 1) : j = n + 1 \/ j \in 1..n
    BY <1>1
  <2>5. Tidy(e)
    <3>1. \A j \in 1..(n + 1) : e[j][1] < e[j][2]
      BY <2>2, <2>4 DEF Tidy
    <3>2. ASSUME NEW i \in 1..(n + 1), NEW j \in 1..(n + 1), i < j PROVE e[i][2] <= e[j][1]
      <4>1. i \in 1..n
        BY <1>1, <3>2
      <4> QED
        BY <2>2, <2>3, <2>4, <3>2, <4>1 DEF Tidy
    <3> QED
      BY <2>2, <3>1, <3>2 DEF Tidy
  <2>6. ASSUME NEW t \in Int
        PROVE  t \in Covered(e, Len(e)) <=>
                 t \in Covered(done, n) \/ (span[1] <= t /\ t < span[2])
    <3>1. t \in Covered(e, n + 1) <=> \E j \in 1..(n + 1) : e[j][1] <= t /\ t < e[j][2]
      BY DEF Covered
    <3>2. t \in Covered(done, n) <=> \E j \in 1..n : done[j][1] <= t /\ t < done[j][2]
      BY DEF Covered
    <3>3. n + 1 \in 1..(n + 1) /\ \A j \in 1..n : j \in 1..(n + 1)
      BY <1>1
    <3> QED
      BY <2>2, <2>4, <3>1, <3>2, <3>3
  <2>7. e[Len(e)][1] <= span[1]
    BY <1>1, <2>2
  <2> QED
    BY <2>2, <2>5, <2>6, <2>7 DEF e
<1>3. CASE done # <<>> /\ ~(span[1] > done[n][2])
  <2> DEFINE a == done[n][1]
             b == done[n][2]
             c == IF b >= span[2] THEN b ELSE span[2]
  <2>1. n \in 1..n /\ a \in Int /\ b \in Int /\ a < b /\ a <= span[1] /\ span[1] <= b
    <3>1. n \in 1..n
      BY <1>3
    <3> QED
      BY <1>1, <1>3, <3>1 DEF Tidy
  <2>2. e = [done EXCEPT ![n] = <<a, c>>]
    BY <1>3, JoinIs
  <2>3. c \in Int /\ a < c /\ b <= c /\ span[2] <= c
    <3> HIDE DEF a, b
    <3> QED
      BY <1>1, <2>1
  <2>4. /\ Len(e) = n /\ e # <<>> /\ e[n] = <<a, c>>
        /\ \A j \in 1..n : j # n => e[j] = done[j]
    <3> HIDE DEF e, c, a
    <3>1. DOMAIN done = 1..n
      OBVIOUS
    <3>2. DOMAIN e = 1..n /\ e[n] = <<a, c>> /\ \A j \in 1..n : j # n => e[j] = done[j]
      BY <2>1, <2>2, <3>1
    <3>3. Len(e) = n /\ e # <<>>
      <4>1. e \in Seq(Span)
        BY JoinIs DEF e
      <4> QED
        BY <2>1, <3>2, <4>1
    <3> QED
      BY <3>2, <3>3
  <2> HIDE DEF e, c
  <2>5. e[n][1] = a /\ e[n][2] = c
    BY <2>4
  <2>6. Tidy(e)
    <3>1. \A j \in 1..n : e[j][1] < e[j][2]
      <4> SUFFICES ASSUME NEW j \in 1..n PROVE e[j][1] < e[j][2]
        OBVIOUS
      <4>1. CASE j = n
        BY <2>3, <2>5, <4>1
      <4>2. CASE j # n
        BY <2>4, <4>2 DEF Tidy
      <4> QED
        BY <4>1, <4>2
    <3>2. ASSUME NEW i \in 1..n, NEW j \in 1..n, i < j PROVE e[i][2] <= e[j][1]
      <4>1. i # n /\ done[i][2] <= done[j][1]
        BY <1>1, <3>2 DEF Tidy
      <4>2. CASE j = n
        BY <2>4, <2>5, <4>1, <4>2
      <4>3. CASE j # n
        BY <2>4, <4>1, <4>3
      <4> QED
        BY <4>2, <4>3
    <3> QED
      BY <2>4, <3>1, <3>2 DEF Tidy
  <2>7. ASSUME NEW t \in Int
        PROVE  t \in Covered(e, Len(e)) <=>
                 t \in Covered(done, n) \/ (span[1] <= t /\ t < span[2])
    <3>1. t \in Covered(e, n) <=> \E j \in 1..n : e[j][1] <= t /\ t < e[j][2]
      BY DEF Covered
    <3>2. t \in Covered(done, n) <=> \E j \in 1..n : done[j][1] <= t /\ t < done[j][2]
      BY DEF Covered
    <3> HIDE DEF a, b
    <3>3. (a <= t /\ t < c) <=> (a <= t /\ t < b) \/ (span[1] <= t /\ t < span[2])
      BY <1>1, <2>1, <2>3 DEF c
    <3>4. \A j \in 1..n : j # n => (e[j][1] = done[j][1] /\ e[j][2] = done[j][2])
      BY <2>4
    <3>5. (\E j \in 1..n : e[j][1] <= t /\ t < e[j][2]) <=>
            (\E j \in 1..n : j # n /\ done[j][1] <= t /\ t < done[j][2]) \/ (a <= t /\ t < c)
      BY <2>1, <2>5, <3>4
    <3>6. (\E j \in 1..n : done[j][1] <= t /\ t < done[j][2]) <=>
            (\E j \in 1..n : j # n /\ done[j][1] <= t /\ t < done[j][2]) \/ (a <= t /\ t < b)
      BY <2>1 DEF a, b
    <3> QED
      BY <2>4, <3>1, <3>2, <3>3, <3>5, <3>6
  <2>8. e[Len(e)][1] <= span[1]
    BY <2>1, <2>4, <2>5
  <2> QED
    BY <2>4, <2>6, <2>7, <2>8 DEF e
<1> QED
  BY <1>2, <1>3

LEMMA JoinedCovers ==
  ASSUME NEW list \in Seq(Span), \A j \in 1..Len(list) : list[j][1] < list[j][2],
         \A i, j \in 1..Len(list) : i < j => list[i][1] <= list[j][1]
  PROVE  LET all == Joined(list) IN
         /\ all \in Seq(Span) /\ Tidy(all)
         /\ Covered(all, Len(all)) = Covered(list, Len(list))
<1> DEFINE n == Len(list)
<1>1. n \in Nat
  OBVIOUS
<1>2. PICK done : Joining(done, list)
  BY JoinedIs
<1>3. \A k \in 0..n : done[k] \in Seq(Span)
  BY <1>2 DEF Joining
<1> DEFINE Upto(k) == /\ Tidy(done[k])
                      /\ Covered(done[k], Len(done[k])) = Covered(list, k)
                      /\ done[k] # <<>> => k > 0 /\ done[k][Len(done[k])][1] <= list[k][1]
           S == {k \in 0..n : Upto(k)}
<1>4. 0 \in S
  <2>1. done[0] = <<>> /\ 0 \in 0..n
    BY <1>1, <1>2 DEF Joining
  <2>2. Tidy(<<>>) /\ Covered(<<>>, Len(<<>>)) = Covered(list, 0)
    BY DEF Tidy, Covered
  <2> QED
    BY <2>1, <2>2
<1>5. ASSUME NEW k \in 1..n, k - 1 \in S PROVE k \in S
  <2> DEFINE d == done[k - 1]
             e == done[k]
  <2>1. Upto(k - 1) /\ k - 1 \in 0..n /\ k \in 0..n /\ list[k] \in Span
    BY <1>1, <1>5
  <2>2. list[k][1] < list[k][2] /\ list[k][1] \in Int
    BY <2>1 DEF Span
  <2>3. d # <<>> => d[Len(d)][1] <= list[k][1]
    <3> SUFFICES ASSUME d # <<>> PROVE d[Len(d)][1] <= list[k][1]
      OBVIOUS
    <3>1. k - 1 > 0 /\ d[Len(d)][1] <= list[k - 1][1]
      BY <2>1
    <3>2. k - 1 \in 1..n /\ k - 1 < k
      BY <1>1, <3>1
    <3>3. list[k - 1][1] <= list[k][1] /\ list[k - 1][1] \in Int
      BY <3>2 DEF Span
    <3>4. d[Len(d)][1] \in Int
      <4>1. d \in Seq(Span)
        BY <1>3, <2>1
      <4>2. d[Len(d)] \in Span
        <5> HIDE DEF d
        <5> QED
          BY <4>1
      <4> QED
        BY <4>2 DEF Span
    <3> HIDE DEF d
    <3> QED
      BY <2>2, <3>1, <3>3, <3>4
  <2>4. e = Join(d, list[k])
    BY <1>2 DEF Joining
  <2>5. d \in Seq(Span) /\ Tidy(d) /\ Covered(d, Len(d)) = Covered(list, k - 1)
    BY <1>3, <2>1
  <2> HIDE DEF d, e
  <2>6. /\ Tidy(e) /\ e # <<>> /\ e[Len(e)][1] <= list[k][1]
        /\ \A t \in Int : t \in Covered(e, Len(e)) <=>
                            t \in Covered(d, Len(d)) \/ (list[k][1] <= t /\ t < list[k][2])
    BY <2>1, <2>2, <2>3, <2>4, <2>5, JoinKeeps
  <2>7. \A t \in Int : t \in Covered(list, k) <=>
          t \in Covered(list, k - 1) \/ (list[k][1] <= t /\ t < list[k][2])
    <3> SUFFICES ASSUME NEW t \in Int
                 PROVE  t \in Covered(list, k) <=>
                          t \in Covered(list, k - 1) \/ (list[k][1] <= t /\ t < list[k][2])
      OBVIOUS
    <3>1. \A j \in 1..k : j = k \/ j \in 1..(k - 1)
      OBVIOUS
    <3>2. k \in 1..k /\ \A j \in 1..(k - 1) : j \in 1..k
      OBVIOUS
    <3>3. t \in Covered(list, k) <=> \E j \in 1..k : list[j][1] <= t /\ t < list[j][2]
      BY DEF Covered
    <3>4. t \in Covered(list, k - 1) <=> \E j \in 1..(k - 1) : list[j][1] <= t /\ t < list[j][2]
      BY DEF Covered
    <3> QED
      BY <3>1, <3>2, <3>3, <3>4
  <2>8. Covered(e, Len(e)) \subseteq Int /\ Covered(list, k) \subseteq Int
    BY DEF Covered
  <2>9. Covered(e, Len(e)) = Covered(list, k)
    BY <2>5, <2>6, <2>7, <2>8
  <2>10. Upto(k)
    BY <1>1, <2>6, <2>9 DEF e
  <2> QED
    BY <2>1, <2>10
<1>6. n \in S
  <2> HIDE DEF S, n
  <2>1. \A k \in 0..n : k \in S
    BY <1>1, <1>4, <1>5, AlongIt
  <2> QED
    BY <1>1, <2>1
<1>7. done[n] = Joined(list)
  BY <1>2 DEF Joining
<1> HIDE DEF n
<1>8. done[n] \in Seq(Span)
  BY <1>1, <1>3
<1> QED
  BY <1>6, <1>7, <1>8 DEF n

--------------------------------------------------------------------------------
(* The elements of a finite set by a strict total order.                   *)
Orders(less, S) ==
  /\ \A x \in S : <<x, x>> \notin less
  /\ \A x, y, z \in S : <<x, y>> \in less /\ <<y, z>> \in less => <<x, z>> \in less
  /\ \A x, y \in S : x = y \/ <<x, y>> \in less \/ <<y, x>> \in less
IsListOf(list, less, S) ==
  /\ list \in Seq(S) /\ Len(list) = Cardinality(S)
  /\ \A i, j \in 1..Len(list) : i < j => <<list[i], list[j]>> \in less
  /\ \A x \in S : \E i \in 1..Len(list) : list[i] = x

LEMMA InOrderIs ==
  ASSUME NEW S, IsFiniteSet(S), NEW less, Orders(less, S)
  PROVE  IsListOf(InOrder(S, less), less, S)
<1> DEFINE Below(x) == {y \in S : <<y, x>> \in less}
           size == Cardinality(S)
           rank == [x \in S |-> Cardinality(Below(x))]
           list == InOrder(S, less)
<1>1. size \in Nat
  BY FS_CardinalityType
<1>2. ASSUME NEW x \in S
      PROVE  /\ IsFiniteSet(Below(x)) /\ Cardinality(Below(x)) \in 0..(size - 1)
  <2>1. Below(x) \in SUBSET S /\ x \notin Below(x)
    BY DEF Orders
  <2> HIDE DEF Below, size
  <2>2. IsFiniteSet(Below(x)) /\ Cardinality(Below(x)) <= size
        /\ (size = Cardinality(Below(x)) => S = Below(x))
    BY <2>1, FS_Subset DEF size
  <2>3. Cardinality(Below(x)) \in Nat /\ Cardinality(Below(x)) # size
    BY <2>1, <2>2, FS_CardinalityType
  <2> QED
    BY <1>1, <2>2, <2>3
<1>3. ASSUME NEW x \in S, NEW y \in S, <<x, y>> \in less
      PROVE  Cardinality(Below(x)) < Cardinality(Below(y))
  <2>1. Below(x) \in SUBSET Below(y)
    BY <1>3 DEF Orders
  <2>2. x \in Below(y) /\ x \notin Below(x)
    BY <1>3 DEF Orders
  <2>3. IsFiniteSet(Below(y)) /\ Cardinality(Below(y)) \in Int /\ Cardinality(Below(x)) \in Int
    BY <1>2
  <2> HIDE DEF Below
  <2>4. Cardinality(Below(x)) <= Cardinality(Below(y))
        /\ (Cardinality(Below(y)) = Cardinality(Below(x)) => Below(y) = Below(x))
    BY <2>1, <2>3, FS_Subset
  <2> QED
    BY <2>2, <2>3, <2>4
<1>4. rank \in [S -> 0..(size - 1)]
  BY <1>2
<1>5. \A x \in S : rank[x] = Cardinality(Below(x))
  OBVIOUS
<1>6. \A x, y \in S : /\ rank[x] = rank[y] => x = y
                      /\ rank[x] < rank[y] => <<x, y>> \in less
  <2> SUFFICES ASSUME NEW x \in S, NEW y \in S
               PROVE  /\ rank[x] = rank[y] => x = y
                      /\ rank[x] < rank[y] => <<x, y>> \in less
    OBVIOUS
  <2>1. x = y \/ <<x, y>> \in less \/ <<y, x>> \in less
    BY DEF Orders
  <2>2. rank[x] \in Int /\ rank[y] \in Int
    BY <1>4
  <2> HIDE DEF Below, rank
  <2>3. /\ <<x, y>> \in less => rank[x] < rank[y]
        /\ <<y, x>> \in less => rank[y] < rank[x]
    BY <1>3, <1>5
  <2> QED
    BY <2>1, <2>2, <2>3
<1> HIDE DEF rank
<1>7. rank \in Injection(S, 0..(size - 1))
  BY <1>4, <1>6 DEF Injection, IsInjective
<1>8. IsFiniteSet(0..(size - 1)) /\ Cardinality(0..(size - 1)) = size
  <2> HIDE DEF size
  <2>1. size - 1 \in Int /\ (0 > size - 1 => size = 0) /\ (size - 1) - 0 + 1 = size
    BY <1>1
  <2> QED
    BY <2>1, FS_Interval
<1>9. rank \in Surjection(S, 0..(size - 1))
  BY <1>7, <1>8, FS_Injection
<1>10. \A i \in 1..size : \E x \in S : rank[x] = i - 1
  <2> HIDE DEF size
  <2> SUFFICES ASSUME NEW i \in 1..size PROVE \E x \in S : rank[x] = i - 1
    OBVIOUS
  <2>1. i - 1 \in 0..(size - 1)
    BY <1>1
  <2> QED
    BY <1>9, <2>1 DEF Surjection
<1>11. list = [i \in 1..size |-> CHOOSE x \in S : Cardinality(Below(x)) = i - 1]
  BY DEF InOrder
<1>12. \A i \in 1..size : list[i] \in S /\ rank[list[i]] = i - 1
  <2> SUFFICES ASSUME NEW i \in 1..size PROVE list[i] \in S /\ rank[list[i]] = i - 1
    OBVIOUS
  <2>1. list[i] = CHOOSE x \in S : Cardinality(Below(x)) = i - 1
    BY <1>11
  <2>2. \E x \in S : Cardinality(Below(x)) = i - 1
    BY <1>5, <1>10
  <2> HIDE DEF Below, list, size
  <2>3. list[i] \in S /\ Cardinality(Below(list[i])) = i - 1
    BY <2>1, <2>2
  <2> QED
    BY <1>5, <2>3
<1>13. list \in Seq(S) /\ Len(list) = size
  <2>1. list \in [1..size -> S]
    BY <1>11, <1>12
  <2> HIDE DEF list, size
  <2> QED
    BY <1>1, <2>1
<1> HIDE DEF list, size
<1>14. \A i, j \in 1..size : i < j => <<list[i], list[j]>> \in less
  <2> SUFFICES ASSUME NEW i \in 1..size, NEW j \in 1..size, i < j PROVE <<list[i], list[j]>> \in less
    OBVIOUS
  <2>1. i - 1 < j - 1
    BY <1>1
  <2> QED
    BY <1>6, <1>12, <2>1
<1>15. \A x \in S : \E i \in 1..size : list[i] = x
  <2> SUFFICES ASSUME NEW x \in S PROVE \E i \in 1..size : list[i] = x
    OBVIOUS
  <2>1. rank[x] \in 0..(size - 1)
    BY <1>4
  <2>2. rank[x] + 1 \in 1..size /\ (rank[x] + 1) - 1 = rank[x]
    BY <1>1, <2>1
  <2>3. list[rank[x] + 1] \in S /\ rank[list[rank[x] + 1]] = rank[x]
    BY <1>12, <2>2
  <2> QED
    BY <1>6, <2>2, <2>3
<1> QED
  BY <1>13, <1>14, <1>15 DEF IsListOf, list, size

(* The class time of meetings is the number of slots in which any of them  *)
(* takes place.                                                            *)
MetIn(os) == {t \in Int : \E o \in os : o.start <= t /\ t < o.end}
LEMMA MinutesCount ==
  ASSUME NEW os, IsFiniteSet(os), \A o \in os : o.start \in Int /\ o.end \in Int /\ o.start < o.end
  PROVE  IsFiniteSet(MetIn(os)) /\ Minutes(os) = Cardinality(MetIn(os))
<1> DEFINE spans == {<<o.start, o.end>> : o \in os}
           f == [o \in os |-> <<o.start, o.end>>]
           list == InOrder(spans, Sooner(spans))
           all == Joined(list)
<1>1. spans \subseteq Span /\ \A s \in spans : s[1] < s[2]
  BY DEF Span
<1>2. IsFiniteSet(spans)
  <2>1. f \in Surjection(os, spans)
    <3>1. f \in [os -> spans] /\ \A s \in spans : \E o \in os : f[o] = s
      OBVIOUS
    <3> HIDE DEF f, spans
    <3> QED
      BY <3>1 DEF Surjection
  <2> HIDE DEF f, spans
  <2> QED
    BY <2>1, FS_Surjection
<1>3. Orders(Sooner(spans), spans)
  <2> HIDE DEF spans
  <2>1. \A s \in spans : s = <<s[1], s[2]>> /\ s[1] \in Int /\ s[2] \in Int
    BY <1>1 DEF Span
  <2>2. \A s, t \in spans : <<s, t>> \in Sooner(spans) <=>
                              s[1] < t[1] \/ (s[1] = t[1] /\ s[2] < t[2])
    BY DEF Sooner
  <2>3. \A s \in spans : <<s, s>> \notin Sooner(spans)
    BY <2>1, <2>2
  <2>4. \A r, s, t \in spans : <<r, s>> \in Sooner(spans) /\ <<s, t>> \in Sooner(spans) =>
                                 <<r, t>> \in Sooner(spans)
    BY <2>1, <2>2
  <2>5. \A s, t \in spans : s = t \/ <<s, t>> \in Sooner(spans) \/ <<t, s>> \in Sooner(spans)
    <3> SUFFICES ASSUME NEW s \in spans, NEW t \in spans,
                        <<s, t>> \notin Sooner(spans), <<t, s>> \notin Sooner(spans)
                 PROVE  s = t
      OBVIOUS
    <3>1. s[1] = t[1] /\ s[2] = t[2]
      BY <2>1, <2>2
    <3> QED
      BY <2>1, <3>1, Zenon
  <2> QED
    BY <2>3, <2>4, <2>5 DEF Orders
<1>4. IsListOf(list, Sooner(spans), spans)
  <2> HIDE DEF spans
  <2> QED
    BY <1>2, <1>3, InOrderIs
<1>5. list \in Seq(spans) /\ list \in Seq(Span) /\ \A j \in 1..Len(list) : list[j] \in spans
  <2> HIDE DEF list, spans
  <2>1. list \in Seq(spans)
    BY <1>4 DEF IsListOf
  <2> QED
    BY <1>1, <2>1
<1>6. \A i, j \in 1..Len(list) : i < j => list[i][1] <= list[j][1]
  <2> SUFFICES ASSUME NEW i \in 1..Len(list), NEW j \in 1..Len(list), i < j
               PROVE  list[i][1] <= list[j][1]
    OBVIOUS
  <2> HIDE DEF list, spans
  <2>1. <<list[i], list[j]>> \in Sooner(spans)
    BY <1>4 DEF IsListOf
  <2>2. list[i] \in Span /\ list[j] \in Span
    BY <1>1, <1>5
  <2>3. list[i][1] < list[j][1] \/ list[i][1] = list[j][1]
    BY <2>1 DEF Sooner
  <2> QED
    BY <2>2, <2>3 DEF Span
<1>7. \A j \in 1..Len(list) : list[j][1] < list[j][2]
  BY <1>1, <1>5
<1>8. Covered(list, Len(list)) = MetIn(os)
  <2> SUFFICES ASSUME NEW t \in Int
               PROVE  (\E j \in 1..Len(list) : list[j][1] <= t /\ t < list[j][2]) <=>
                      (\E o \in os : o.start <= t /\ t < o.end)
    BY DEF Covered, MetIn
  <2>1. ASSUME NEW j \in 1..Len(list), list[j][1] <= t, t < list[j][2]
        PROVE  \E o \in os : o.start <= t /\ t < o.end
    <3>1. PICK o \in os : list[j] = <<o.start, o.end>>
      BY <1>5
    <3> HIDE DEF list, spans
    <3>2. list[j][1] = o.start /\ list[j][2] = o.end
      BY <3>1
    <3> QED
      BY <2>1, <3>2
  <2>2. ASSUME NEW o \in os, o.start <= t, t < o.end
        PROVE  \E j \in 1..Len(list) : list[j][1] <= t /\ t < list[j][2]
    <3>1. <<o.start, o.end>> \in spans
      OBVIOUS
    <3> HIDE DEF list, spans
    <3>2. PICK j \in 1..Len(list) : list[j] = <<o.start, o.end>>
      BY <1>4, <3>1 DEF IsListOf
    <3>3. list[j][1] = o.start /\ list[j][2] = o.end
      BY <3>2
    <3> QED
      BY <2>2, <3>3
  <2> QED
    BY <2>1, <2>2
<1> HIDE DEF list
<1>9. all \in Seq(Span) /\ Tidy(all) /\ Covered(all, Len(all)) = Covered(list, Len(list))
  BY <1>5, <1>6, <1>7, JoinedCovers
<1> HIDE DEF all
<1>10. IsFiniteSet(MetIn(os)) /\ Total(all) = Cardinality(MetIn(os))
  BY <1>8, <1>9, TotalCounts
<1>11. Minutes(os) = Total(all)
  BY DEF Minutes, Merge, all, list
<1> QED
  BY <1>10, <1>11

--------------------------------------------------------------------------------
(* A window of any length.                                                 *)
OwnIn(evs, mk, from, to, i, t, o) ==
  /\ o = Meeting(evs, i, t) /\ DayOf(t) \notin DOMAIN mk
  /\ t < to /\ from < t + Length(evs[i])
MeetingsOf ==
  [course : Nat, start : Nat, end : Nat, whole : BOOLEAN, shifted : BOOLEAN]

LEMMA WindowIs ==
  ASSUME NEW evs \in Lists, NEW mk \in MarksOf, NEW from \in Int, NEW to \in Int, NEW o
  PROVE  o \in Expand(evs, mk, from, to) <=>
           \E i \in DOMAIN evs : \E t \in Times(evs[i]) :
             \/ OwnIn(evs, mk, from, to, i, t, o)
             \/ \E e \in ShiftedInto(mk, from, to) : IsShifted(evs, mk, e, i, t, o)
<1>1. o \in Own(evs, mk, from, to) <=>
        \E i \in DOMAIN evs : \E t \in Times(evs[i]) : OwnIn(evs, mk, from, to, i, t, o)
  BY OwnIs DEF OwnIn
<1>2. \A e \in ShiftedInto(mk, from, to) :
        e \in DOMAIN mk /\ mk[e].kind = "shift" /\ mk[e].source \in Nat
  BY MarksAre DEF ShiftedInto
<1>3. ASSUME NEW e \in ShiftedInto(mk, from, to)
      PROVE  (\E p \in OnDay(evs, mk[e].source) : o = Moved(p, e, mk[e].source)) <=>
               \E i \in DOMAIN evs : \E t \in Times(evs[i]) : IsShifted(evs, mk, e, i, t, o)
  <2>1. \A p : p \in OnDay(evs, mk[e].source) <=>
          \E i \in DOMAIN evs : \E t \in Times(evs[i]) :
            p = Meeting(evs, i, t) /\ DayOf(t) = mk[e].source
    BY <1>2, OnDayIs
  <2>2. ASSUME NEW p \in OnDay(evs, mk[e].source), o = Moved(p, e, mk[e].source)
        PROVE  \E i \in DOMAIN evs : \E t \in Times(evs[i]) : IsShifted(evs, mk, e, i, t, o)
    BY <1>2, <2>1, <2>2 DEF IsShifted
  <2>3. ASSUME NEW i \in DOMAIN evs, NEW t \in Times(evs[i]), IsShifted(evs, mk, e, i, t, o)
        PROVE  \E p \in OnDay(evs, mk[e].source) : o = Moved(p, e, mk[e].source)
    BY <2>1, <2>3 DEF IsShifted
  <2> QED
    BY <2>2, <2>3
<1>4. o \in Expand(evs, mk, from, to) <=>
        \/ o \in Own(evs, mk, from, to)
        \/ \E e \in ShiftedInto(mk, from, to) :
             \E p \in OnDay(evs, mk[e].source) : o = Moved(p, e, mk[e].source)
  BY DEF Expand
<1> QED
  BY <1>1, <1>3, <1>4

LEMMA OwnHas ==
  ASSUME NEW evs \in Lists, NEW mk, NEW from, NEW to, NEW i \in DOMAIN evs,
         NEW t \in Times(evs[i]), NEW o, OwnIn(evs, mk, from, to, i, t, o)
  PROVE  /\ o \in MeetingsOf /\ o.start = t /\ o.end = t + Length(evs[i]) /\ o.course = i
         /\ o.whole = evs[i].whole /\ o.start < o.end
<1>1. evs[i] \in Events /\ i \in Nat
  BY DEF Lists
<1>2. t \in Nat /\ Length(evs[i]) \in Nat /\ Length(evs[i]) > 0 /\ evs[i].whole \in BOOLEAN
  BY <1>1, TimesAre, LengthIs DEF Events
<1>3. o = [course |-> i, start |-> t, end |-> t + Length(evs[i]), whole |-> evs[i].whole,
           shifted |-> FALSE]
  BY DEF OwnIn, Meeting
<1>4. t + Length(evs[i]) \in Nat /\ t < t + Length(evs[i])
  BY <1>2
<1> QED
  BY <1>1, <1>2, <1>3, <1>4 DEF MeetingsOf

LEMMA IntoHas ==
  ASSUME NEW evs \in Lists, NEW mk \in MarksOf, NEW e \in DOMAIN mk, NEW i \in DOMAIN evs,
         NEW t \in Times(evs[i]), NEW o, IsShifted(evs, mk, e, i, t, o)
  PROVE  /\ o \in MeetingsOf /\ o.start = DayStart(e) + TimeOfDay(t) /\ o.course = i
         /\ o.end = o.start + Length(evs[i]) /\ o.whole = evs[i].whole /\ o.start < o.end
<1>1. evs[i] \in Events /\ i \in Nat
  BY DEF Lists
<1>2. t \in Nat /\ Length(evs[i]) \in Nat /\ Length(evs[i]) > 0 /\ evs[i].whole \in BOOLEAN
  BY <1>1, TimesAre, LengthIs DEF Events
<1>3. e \in Nat /\ mk[e].source \in Nat /\ DayOf(t) = mk[e].source
  BY MarksAre DEF IsShifted
<1>4. DayStart(e) \in Nat /\ TimeOfDay(t) \in Nat
  BY <1>2, <1>3, NextDay, DayParts
<1>5. /\ o.course = i /\ o.start = DayStart(e) + TimeOfDay(t)
      /\ o.end = o.start + Length(evs[i]) /\ o.whole = evs[i].whole /\ o.shifted = TRUE
  <2>1. LET p == Moved(Meeting(evs, i, t), e, mk[e].source) IN
        /\ p.course = i /\ p.start = DayStart(e) + TimeOfDay(t)
        /\ p.end = p.start + Length(evs[i]) /\ p.whole = evs[i].whole /\ p.shifted = TRUE
    BY <1>3, MovedHas
  <2> QED
    BY <2>1, Zenon DEF IsShifted
<1>6. \E x, y : o = [course |-> i, start |-> x, end |-> y, whole |-> evs[i].whole, shifted |-> TRUE]
  BY DEF IsShifted, Moved, Meeting
<1>7. PICK x, y :
        o = [course |-> i, start |-> x, end |-> y, whole |-> evs[i].whole, shifted |-> TRUE]
  BY <1>6
<1>8. x \in Nat /\ y \in Nat /\ x < y
  <2>1. x = DayStart(e) + TimeOfDay(t) /\ y = x + Length(evs[i])
    BY <1>5, <1>7
  <2> QED
    BY <1>2, <1>4, <2>1
<1>9. o \in MeetingsOf /\ o.start < o.end
  BY <1>1, <1>2, <1>7, <1>8 DEF MeetingsOf
<1> QED
  BY <1>5, <1>9

LEMMA WindowHas ==
  ASSUME NEW evs \in Lists, NEW mk \in MarksOf, NEW from \in Int, NEW to \in Int,
         NEW o \in Expand(evs, mk, from, to)
  PROVE  o \in MeetingsOf /\ o.start < o.end
<1>1. PICK i \in DOMAIN evs : \E t \in Times(evs[i]) :
        \/ OwnIn(evs, mk, from, to, i, t, o)
        \/ \E e \in ShiftedInto(mk, from, to) : IsShifted(evs, mk, e, i, t, o)
  BY WindowIs
<1>2. PICK t \in Times(evs[i]) :
        \/ OwnIn(evs, mk, from, to, i, t, o)
        \/ \E e \in ShiftedInto(mk, from, to) : IsShifted(evs, mk, e, i, t, o)
  BY <1>1
<1>3. CASE OwnIn(evs, mk, from, to, i, t, o)
  BY <1>3, OwnHas
<1>4. ASSUME NEW e \in ShiftedInto(mk, from, to), IsShifted(evs, mk, e, i, t, o)
      PROVE  o \in MeetingsOf /\ o.start < o.end
  <2>1. e \in DOMAIN mk
    BY DEF ShiftedInto
  <2> QED
    BY <1>4, <2>1, IntoHas
<1> QED
  BY <1>2, <1>3, <1>4

(* A window holds finitely many meetings.                                  *)
LEMMA ImageIsFinite ==
  ASSUME NEW f, NEW S, IsFiniteSet(S)
  PROVE  IsFiniteSet({f[x] : x \in S})
<1> DEFINE g == [x \in S |-> f[x]]
           T == {f[x] : x \in S}
<1>1. g \in [S -> T] /\ \A y \in T : \E x \in S : g[x] = y
  OBVIOUS
<1> HIDE DEF g, T
<1>2. g \in Surjection(S, T)
  BY <1>1 DEF Surjection
<1>3. IsFiniteSet(T)
  BY <1>2, FS_Surjection
<1> QED
  BY <1>3 DEF T

LEMMA WindowIsFinite ==
  ASSUME NEW evs \in Lists, NEW mk \in MarksOf, NEW from \in Int, NEW to \in Int
  PROVE  IsFiniteSet(Expand(evs, mk, from, to))
<1> DEFINE keys == (DOMAIN evs) \X (0..to)
           day == 0..DayStart(LastDay + 1)
           moves == ((DOMAIN evs) \X day) \X Days
           own == [k \in keys |-> Meeting(evs, k[1], k[2])]
           moved == [k \in moves |-> Moved(Meeting(evs, k[1][1], k[1][2]), k[2], mk[k[2]].source)]
           A == {own[k] : k \in keys}
           B == {moved[k] : k \in moves}
<1>1. IsFiniteSet(DOMAIN evs) /\ IsFiniteSet(Days) /\ IsFiniteSet(0..to) /\ IsFiniteSet(day)
  <2>1. PICK n \in Nat : DOMAIN evs = 1..n
    BY DEF Lists
  <2>2. LastDay \in Int /\ DayStart(LastDay + 1) \in Int
    BY DaysAssumption, NextDay
  <2>3. IsFiniteSet(DOMAIN evs)
    BY <2>1, FS_Interval
  <2>4. IsFiniteSet(Days)
    BY <2>2, FS_Interval DEF Days
  <2>5. IsFiniteSet(0..to) /\ IsFiniteSet(day)
    BY <2>2, FS_Interval
  <2> HIDE DEF day
  <2> QED
    BY <2>3, <2>4, <2>5
<1>2. IsFiniteSet(keys) /\ IsFiniteSet(moves)
  <2> HIDE DEF day
  <2>1. IsFiniteSet((DOMAIN evs) \X day)
    BY <1>1, FS_Product
  <2> QED
    BY <1>1, <2>1, FS_Product
<1>3. IsFiniteSet(A) /\ IsFiniteSet(B)
  <2> HIDE DEF keys, moves, own, moved
  <2> QED
    BY <1>2, ImageIsFinite
<1>4. IsFiniteSet(A \cup B)
  <2> HIDE DEF A, B
  <2> QED
    BY <1>3, FS_Union
<1>5. ASSUME NEW i \in DOMAIN evs, NEW t \in Times(evs[i]), NEW o,
             OwnIn(evs, mk, from, to, i, t, o)
      PROVE  o \in A
  <2>1. t \in Nat /\ t < to
    BY <1>5, TimesAre DEF Lists, OwnIn
  <2>2. <<i, t>> \in keys
    BY <2>1
  <2>3. own[<<i, t>>] = o
    BY <1>5, <2>2 DEF OwnIn
  <2> HIDE DEF keys, own
  <2> QED
    BY <2>2, <2>3
<1>6. ASSUME NEW i \in DOMAIN evs, NEW t \in Times(evs[i]), NEW o, NEW e \in DOMAIN mk,
             IsShifted(evs, mk, e, i, t, o)
      PROVE  o \in B
  <2>1. t \in Nat /\ e \in Days /\ mk[e].source \in Days /\ DayOf(t) = mk[e].source
    BY <1>6, TimesAre, MarksAre DEF Lists, IsShifted
  <2>2. t \in day
    <3>1. PICK s \in Nat : s = mk[e].source /\ s <= LastDay
      BY <2>1, DaysAssumption DEF Days
    <3>2. t < DayStart(s + 1)
      BY <2>1, <3>1, DayOfIs
    <3>3. DayStart(s + 1) <= DayStart(LastDay + 1)
      <4>1. s + 1 \in Int /\ LastDay + 1 \in Int /\ (s + 1 = LastDay + 1 \/ s + 1 < LastDay + 1)
        BY <3>1, DaysAssumption
      <4>2. DayStart(s + 1) \in Int /\ DayStart(LastDay + 1) \in Int /\ Slots \in Nat
        BY <4>1, NextDay, SlotsAssumption
      <4>3. s + 1 < LastDay + 1 => DayStart(s + 1) + Slots <= DayStart(LastDay + 1)
        BY <4>1, DaysApart
      <4> QED
        BY <4>1, <4>2, <4>3
    <3>4. DayStart(s + 1) \in Int /\ DayStart(LastDay + 1) \in Int
      BY <3>1, DaysAssumption, NextDay
    <3> QED
      BY <2>1, <3>2, <3>3, <3>4
  <2>3. <<<<i, t>>, e>> \in moves
    <3> HIDE DEF day
    <3> QED
      BY <2>1, <2>2
  <2>4. moved[<<<<i, t>>, e>>] = o
    <3> HIDE DEF moves
    <3>1. moved[<<<<i, t>>, e>>] = Moved(Meeting(evs, i, t), e, mk[e].source)
      BY <2>3
    <3> QED
      BY <1>6, <3>1 DEF IsShifted
  <2> HIDE DEF moves, moved
  <2> QED
    BY <2>3, <2>4
<1>7. Expand(evs, mk, from, to) \subseteq A \cup B
  <2> HIDE DEF A, B
  <2> SUFFICES ASSUME NEW o \in Expand(evs, mk, from, to) PROVE o \in A \cup B
    OBVIOUS
  <2>1. PICK i \in DOMAIN evs : \E t \in Times(evs[i]) :
          \/ OwnIn(evs, mk, from, to, i, t, o)
          \/ \E e \in ShiftedInto(mk, from, to) : IsShifted(evs, mk, e, i, t, o)
    BY WindowIs
  <2>2. \A e \in ShiftedInto(mk, from, to) : e \in DOMAIN mk
    BY DEF ShiftedInto
  <2> QED
    BY <1>5, <1>6, <2>1, <2>2
<1> HIDE DEF A, B
<1> QED
  BY <1>4, <1>7, FS_Subset

--------------------------------------------------------------------------------
(* The part of meetings inside a window.                                   *)
InsideIs(os, from, to) ==
  {t \in Int : from <= t /\ t < to /\ \E o \in os : ~o.whole /\ o.start <= t /\ t < o.end}

LEMMA ClippedIs ==
  ASSUME NEW os, IsFiniteSet(os), os \subseteq MeetingsOf, NEW from \in Int, NEW to \in Int
  PROVE  /\ IsFiniteSet(Clipped(os, from, to))
         /\ \A c \in Clipped(os, from, to) :
              c.start \in Int /\ c.end \in Int /\ c.start < c.end /\ c.end <= to
         /\ MetIn(Clipped(os, from, to)) = InsideIs(os, from, to)
<1> DEFINE cs == Clipped(os, from, to)
           a(o) == IF o.start >= from THEN o.start ELSE from
           b(o) == IF o.end <= to THEN o.end ELSE to
           cut(o) == [o EXCEPT !.start = Max({o.start, from}), !.end = Min({o.end, to})]
           f == [o \in os |-> cut(o)]
<1>1. ASSUME NEW o \in os
      PROVE  /\ o.start \in Int /\ o.end \in Int /\ o.whole \in BOOLEAN
             /\ cut(o).start = a(o) /\ cut(o).end = b(o) /\ a(o) \in Int /\ b(o) \in Int
             /\ b(o) <= to
  <2>1. o \in MeetingsOf
    OBVIOUS
  <2>2. o.start \in Int /\ o.end \in Int /\ o.whole \in BOOLEAN
    BY <2>1 DEF MeetingsOf
  <2>3. Max({o.start, from}) = a(o) /\ Min({o.end, to}) = b(o)
    BY <2>2, MaxOfTwo, MinOfTwo
  <2>4. \A x, y : [o EXCEPT !.start = x, !.end = y].start = x
                  /\ [o EXCEPT !.start = x, !.end = y].end = y
    BY <2>1 DEF MeetingsOf
  <2>5. cut(o).start = a(o) /\ cut(o).end = b(o)
    <3> HIDE DEF a, b
    <3> QED
      BY <2>3, <2>4, Zenon
  <2> QED
    BY <2>2, <2>5
<1>2. \A c : c \in cs <=> \E o \in os : ~o.whole /\ c = cut(o) /\ cut(o).end > cut(o).start
  BY DEF Clipped
<1> HIDE DEF cut, cs
<1>3. IsFiniteSet(cs)
  <2>1. IsFiniteSet({f[o] : o \in os})
    <3> HIDE DEF f
    <3> QED
      BY ImageIsFinite
  <2>2. cs \subseteq {f[o] : o \in os}
    BY <1>2
  <2> HIDE DEF f
  <2> QED
    BY <2>1, <2>2, FS_Subset
<1>4. ASSUME NEW c \in cs PROVE c.start \in Int /\ c.end \in Int /\ c.start < c.end /\ c.end <= to
  <2>1. PICK o \in os : c = cut(o) /\ cut(o).end > cut(o).start
    BY <1>2
  <2> HIDE DEF a, b
  <2>2. c.start = a(o) /\ c.end = b(o) /\ a(o) \in Int /\ b(o) \in Int /\ b(o) > a(o) /\ b(o) <= to
    BY <1>1, <2>1
  <2> QED
    BY <2>2
<1>5. ASSUME NEW t \in Int
      PROVE  (\E c \in cs : c.start <= t /\ t < c.end) <=>
               from <= t /\ t < to /\ \E o \in os : ~o.whole /\ o.start <= t /\ t < o.end
  <2>1. ASSUME NEW o \in os
        PROVE  a(o) <= t /\ t < b(o) <=> from <= t /\ t < to /\ o.start <= t /\ t < o.end
    <3>1. o.start \in Int /\ o.end \in Int
      BY <1>1
    <3> QED
      BY <3>1
  <2> HIDE DEF a, b
  <2>2. ASSUME NEW c \in cs, c.start <= t, t < c.end
        PROVE  from <= t /\ t < to /\ \E o \in os : ~o.whole /\ o.start <= t /\ t < o.end
    <3>1. PICK o \in os : ~o.whole /\ c = cut(o)
      BY <1>2
    <3>2. a(o) <= t /\ t < b(o)
      BY <1>1, <2>2, <3>1
    <3> QED
      BY <2>1, <3>1, <3>2
  <2>3. ASSUME NEW o \in os, ~o.whole, o.start <= t, t < o.end, from <= t, t < to
        PROVE  \E c \in cs : c.start <= t /\ t < c.end
    <3>1. a(o) <= t /\ t < b(o) /\ a(o) \in Int /\ b(o) \in Int
      BY <1>1, <2>1, <2>3
    <3>2. cut(o).start = a(o) /\ cut(o).end = b(o)
      BY <1>1
    <3>3. cut(o).end > cut(o).start
      BY <3>1, <3>2
    <3>4. cut(o) \in cs
      BY <1>2, <2>3, <3>3
    <3> QED
      BY <3>1, <3>2, <3>4
  <2> QED
    BY <2>2, <2>3
<1>6. MetIn(cs) = InsideIs(os, from, to)
  BY <1>5 DEF MetIn, InsideIs
<1> QED
  BY <1>3, <1>4, <1>6 DEF cs

(* What counts of a member in a window, and what has ended of it.          *)
LEMMA WindowsAre ==
  ASSUME DaysInv, NEW w \in Windows
  PROVE  w.first \in Int /\ w.last \in Int /\ From(w) \in Int /\ To(w) \in Int
<1>1. clock \in Nat
  BY DEF DaysInv
<1>2. DayOf(clock) \in Nat
  BY <1>1, DayParts
<1>3. CASE \E k \in -1..0 : w = WeekOf(DayOf(clock), k)
  <2>1. PICK k \in -1..0 : w = WeekOf(DayOf(clock), k)
    BY <1>3
  <2>2. PICK d \in Nat : d = DayOf(clock)
    BY <1>2
  <2>3. d % Week \in Int /\ Week * k \in Int
    BY DEF Week
  <2>4. w.first = d - (d % Week) + Week * k /\ w.last = w.first + Week - 1
    BY <2>1, <2>2 DEF WeekOf
  <2>5. w.first \in Int /\ w.last \in Int
    BY <2>3, <2>4 DEF Week
  <2> QED
    BY <2>5, NextDay DEF From, To
<1>4. CASE \E x \in Days \X Days : w = [first |-> x[1], last |-> x[2]]
  <2>1. PICK x \in Days \X Days : w = [first |-> x[1], last |-> x[2]]
    BY <1>4
  <2>2. x[1] \in Int /\ x[2] \in Int
    <3>1. x[1] \in Days /\ x[2] \in Days
      OBVIOUS
    <3>2. \A d \in Days : d \in Int
      BY DaysAreNat
    <3> QED
      BY <3>1, <3>2, Zenon
  <2>3. w.first = x[1] /\ w.last = x[2]
    BY <2>1
  <2> QED
    BY <2>2, <2>3, NextDay DEF From, To
<1> QED
  BY <1>3, <1>4 DEF Windows

LEMMA CountedIs ==
  ASSUME DaysInv, NEW m \in Members, NEW w, From(w) \in Int, To(w) \in Int
  PROVE  LET os == Expand(events[m], marks[m], From(w), To(w)) IN
         /\ IsFiniteSet(Counted(m, w))
         /\ \A c \in Counted(m, w) :
              c.start \in Int /\ c.end \in Int /\ c.start < c.end /\ c.end <= To(w)
         /\ MetIn(Counted(m, w)) = InsideIs(os, From(w), To(w))
<1> DEFINE os == Expand(events[m], marks[m], From(w), To(w))
<1>1. events[m] \in Lists /\ marks[m] \in MarksOf
  BY DEF DaysInv
<1>2. IsFiniteSet(os) /\ os \subseteq MeetingsOf
  BY <1>1, WindowIsFinite, WindowHas
<1>3. Counted(m, w) = Clipped(os, From(w), To(w))
  BY DEF Counted
<1> HIDE DEF os
<1>4. /\ IsFiniteSet(Clipped(os, From(w), To(w)))
      /\ \A c \in Clipped(os, From(w), To(w)) :
           c.start \in Int /\ c.end \in Int /\ c.start < c.end /\ c.end <= To(w)
      /\ MetIn(Clipped(os, From(w), To(w))) = InsideIs(os, From(w), To(w))
  BY <1>2, ClippedIs
<1> QED
  BY <1>3, <1>4, Zenon DEF os

LEMMA EndedIs ==
  ASSUME DaysInv, NEW m \in Members, NEW w, From(w) \in Int, To(w) \in Int, NEW now \in Int
  PROVE  /\ IsFiniteSet(MetIn(Ended(m, w, now)))
         /\ Minutes(Ended(m, w, now)) = Cardinality(MetIn(Ended(m, w, now)))
<1>1. /\ IsFiniteSet(Counted(m, w))
      /\ \A c \in Counted(m, w) : c.start \in Int /\ c.end \in Int /\ c.start < c.end
  BY CountedIs
<1>2. Ended(m, w, now) \subseteq Counted(m, w)
  BY DEF Ended
<1>3. IsFiniteSet(Ended(m, w, now))
  BY <1>1, <1>2, FS_Subset
<1> QED
  BY <1>1, <1>2, <1>3, MinutesCount

LEMMA ElapsedGrows ==
  ASSUME DaysInv, NEW m \in Members, NEW w, From(w) \in Int, To(w) \in Int
  PROVE  /\ RowOf(m, w, clock + 1).elapsed >= RowOf(m, w, clock).elapsed
         /\ clock + 1 >= To(w) => RowOf(m, w, clock + 1).elapsed = RowOf(m, w, clock + 1).minutes
<1>1. clock \in Nat
  BY DEF DaysInv
<1>2. \A c \in Counted(m, w) : c.end \in Int /\ c.end <= To(w)
  BY CountedIs
<1>3. \A now : RowOf(m, w, now).elapsed = Minutes(Ended(m, w, now))
               /\ RowOf(m, w, now).minutes = Minutes(Counted(m, w))
  BY DEF RowOf
<1> DEFINE old == MetIn(Ended(m, w, clock))
           new == MetIn(Ended(m, w, clock + 1))
<1>4. old \in SUBSET new
  <2>1. Ended(m, w, clock) \subseteq Ended(m, w, clock + 1)
    BY <1>1, <1>2 DEF Ended
  <2> QED
    BY <2>1 DEF MetIn
<1>5. /\ IsFiniteSet(new) /\ Minutes(Ended(m, w, clock + 1)) = Cardinality(new)
      /\ IsFiniteSet(old) /\ Minutes(Ended(m, w, clock)) = Cardinality(old)
  BY <1>1, EndedIs
<1> HIDE DEF old, new
<1>6. Cardinality(old) <= Cardinality(new) /\ Cardinality(old) \in Int /\ Cardinality(new) \in Int
  BY <1>4, <1>5, FS_Subset, FS_CardinalityType
<1>7. clock + 1 >= To(w) => Ended(m, w, clock + 1) = Counted(m, w)
  BY <1>1, <1>2 DEF Ended
<1> QED
  BY <1>3, <1>5, <1>6, <1>7

(* The elapsed part of a board never shrinks while the clock runs, and is  *)
(* all of it when the window is over: for every schedule, any marks and    *)
(* any window.                                                             *)
THEOREM ElapsedIsRight == Spec => ElapsedCatchesUp
<1>1. DaysInv /\ [Next]_vars =>
        [Tick => \A m \in Members, w \in {v \in Windows : Accepted(v)} :
           /\ RowOf(m, w, clock').elapsed >= RowOf(m, w, clock).elapsed
           /\ clock' >= To(w) => RowOf(m, w, clock').elapsed = RowOf(m, w, clock').minutes]_vars
  <2> SUFFICES ASSUME DaysInv, Tick, NEW m \in Members, NEW w \in Windows
               PROVE  /\ RowOf(m, w, clock').elapsed >= RowOf(m, w, clock).elapsed
                      /\ clock' >= To(w) =>
                           RowOf(m, w, clock').elapsed = RowOf(m, w, clock').minutes
    OBVIOUS
  <2>1. clock' = clock + 1
    BY DEF Tick
  <2>2. From(w) \in Int /\ To(w) \in Int
    BY WindowsAre
  <2>3. /\ RowOf(m, w, clock + 1).elapsed >= RowOf(m, w, clock).elapsed
        /\ clock + 1 >= To(w) => RowOf(m, w, clock + 1).elapsed = RowOf(m, w, clock + 1).minutes
    BY <2>2, ElapsedGrows
  <2> QED
    BY <2>1, <2>3, Zenon
<1>2. Spec => []DaysInv
  BY DaysInit, DaysStep, PTL DEF Spec
<1> QED
  BY <1>1, <1>2, PTL DEF Spec, ElapsedCatchesUp

--------------------------------------------------------------------------------
(* What counts of a member is his class time in the window, when no        *)
(* shifted course passes midnight.                                         *)
LEMMA ClassIs ==
  ASSUME DaysInv, NEW m \in Members, NEW t \in Int
  PROVE  t \in ClassTime(m) <=>
           \E i \in DOMAIN events[m] : ~events[m][i].whole /\ \E s \in Nat :
             KeptAt(events[m], marks[m], i, s) /\ s <= t /\ t < s + Length(events[m][i])
<1>1. t \in ClassTime(m) <=>
        \E i \in DOMAIN events[m] : ~events[m][i].whole /\ t \in InClass(m, i)
  BY DEF ClassTime
<1> QED
  BY <1>1, InClassIs

(* A window of whole days finds what was shifted into its days.            *)
LEMMA IntoWindow ==
  ASSUME NEW first \in Int, NEW last \in Int, NEW e \in Nat, NEW t \in Int,
         DayStart(e) <= t, t < DayStart(e + 1), DayStart(first) <= t, t < DayStart(last + 1)
  PROVE  DayStart(e) < DayStart(last + 1) /\ DayStart(e + 1) > DayStart(first)
<1>1. /\ DayStart(e) \in Int /\ DayStart(e + 1) \in Int
      /\ DayStart(first) \in Int /\ DayStart(last + 1) \in Int
  BY NextDay
<1> QED
  BY <1>1

LEMMA ClassIsCounted ==
  ASSUME DaysInv, NEW m \in Comparable, NEW w \in Windows
  PROVE  MetIn(Counted(m, w)) = ClassTime(m) \cap (From(w)..(To(w) - 1))
<1> DEFINE evs == events[m]
           mk == marks[m]
           from == From(w)
           to == To(w)
           os == Expand(evs, mk, from, to)
<1>1. m \in Members
  BY DEF Comparable
<1>2. evs \in Lists /\ mk \in MarksOf /\ Fits(evs, mk)
  BY <1>1, ComparableFits DEF DaysInv
<1>3. from \in Int /\ to \in Int /\ w.first \in Int /\ w.last \in Int
      /\ from = DayStart(w.first) /\ to = DayStart(w.last + 1)
  BY WindowsAre DEF From, To
<1>4. MetIn(Counted(m, w)) = InsideIs(os, from, to)
  BY <1>1, <1>3, CountedIs
<1> HIDE DEF evs, mk, from, to, os
<1>5. ASSUME NEW o \in os, NEW t \in Int, ~o.whole, o.start <= t, t < o.end
      PROVE  \E i \in DOMAIN evs : ~evs[i].whole /\ \E s \in Nat :
               KeptAt(evs, mk, i, s) /\ s <= t /\ t < s + Length(evs[i])
  <2>1. PICK i \in DOMAIN evs : \E u \in Times(evs[i]) :
          \/ OwnIn(evs, mk, from, to, i, u, o)
          \/ \E e \in ShiftedInto(mk, from, to) : IsShifted(evs, mk, e, i, u, o)
    BY <1>2, <1>3, WindowIs DEF os
  <2>2. PICK u \in Times(evs[i]) :
          \/ OwnIn(evs, mk, from, to, i, u, o)
          \/ \E e \in ShiftedInto(mk, from, to) : IsShifted(evs, mk, e, i, u, o)
    BY <2>1
  <2>3. CASE OwnIn(evs, mk, from, to, i, u, o)
    <3>1. o \in MeetingsOf /\ o.start = u /\ o.end = u + Length(evs[i]) /\ o.whole = evs[i].whole
      BY <1>2, <2>3, OwnHas
    <3>2. u \in Nat
      BY <3>1 DEF MeetingsOf
    <3>3. KeptAt(evs, mk, i, u)
      BY <2>3 DEF OwnIn, KeptAt
    <3> QED
      BY <1>5, <3>1, <3>2, <3>3
  <2>4. ASSUME NEW e \in ShiftedInto(mk, from, to), IsShifted(evs, mk, e, i, u, o)
        PROVE  ~evs[i].whole /\ \E s \in Nat :
                 KeptAt(evs, mk, i, s) /\ s <= t /\ t < s + Length(evs[i])
    <3>1. e \in DOMAIN mk
      BY DEF ShiftedInto
    <3>2. /\ o \in MeetingsOf /\ o.start = DayStart(e) + TimeOfDay(u)
          /\ o.end = o.start + Length(evs[i]) /\ o.whole = evs[i].whole
      BY <1>2, <2>4, <3>1, IntoHas
    <3>3. PICK s \in Nat : s = o.start
      BY <3>2 DEF MeetingsOf
    <3>4. mk[e].kind = "shift" /\ DayOf(u) = mk[e].source
      BY <2>4 DEF IsShifted
    <3>5. KeptAt(evs, mk, i, s)
      BY <3>1, <3>2, <3>3, <3>4, Zenon DEF KeptAt
    <3>6. s <= t /\ t < s + Length(evs[i]) /\ ~evs[i].whole
      BY <1>5, <3>2, <3>3, Zenon
    <3> QED
      BY <3>5, <3>6
  <2> QED
    BY <2>2, <2>3, <2>4
<1>6. ASSUME NEW i \in DOMAIN evs, ~evs[i].whole, NEW s \in Nat, KeptAt(evs, mk, i, s),
             NEW t \in Int, s <= t, t < s + Length(evs[i]), from <= t, t < to
      PROVE  \E o \in os : ~o.whole /\ o.start <= t /\ t < o.end
  <2>1. Length(evs[i]) \in Nat
    BY <1>2, LengthIs DEF Lists
  <2>2. CASE s \in Times(evs[i]) /\ DayOf(s) \notin DOMAIN mk
    <3> DEFINE o == Meeting(evs, i, s)
    <3>1. s < to /\ from < s + Length(evs[i])
      BY <1>3, <1>6, <2>1
    <3>2. OwnIn(evs, mk, from, to, i, s, o)
      BY <2>2, <3>1 DEF OwnIn
    <3> HIDE DEF o
    <3>3. o.start = s /\ o.end = s + Length(evs[i]) /\ o.whole = evs[i].whole
      BY <1>2, <2>2, <3>2, OwnHas
    <3>4. o \in os
      BY <1>2, <1>3, <2>2, <3>2, WindowIs DEF os
    <3> QED
      BY <1>6, <3>3, <3>4
  <2>3. CASE \E e \in DOMAIN mk : \E u \in Times(evs[i]) :
               mk[e].kind = "shift" /\ DayOf(u) = mk[e].source /\ s = DayStart(e) + TimeOfDay(u)
    <3>1. PICK e \in DOMAIN mk : \E u \in Times(evs[i]) :
            mk[e].kind = "shift" /\ DayOf(u) = mk[e].source /\ s = DayStart(e) + TimeOfDay(u)
      BY <2>3
    <3>2. PICK u \in Times(evs[i]) :
            mk[e].kind = "shift" /\ DayOf(u) = mk[e].source /\ s = DayStart(e) + TimeOfDay(u)
      BY <3>1
    <3>3. e \in Nat /\ u \in Nat
      BY <1>2, MarksAre, TimesAre DEF Lists
    <3>4. /\ TimeOfDay(u) \in Nat /\ DayStart(e) \in Nat /\ Slots \in Nat
          /\ DayStart(e + 1) = DayStart(e) + Slots
      BY <3>3, DayParts, NextDay, SlotsAssumption
    <3>5. TimeOfDay(u) + Length(evs[i]) <= Slots
      BY <1>2, <3>2 DEF Fits
    <3>6. DayStart(e) <= t /\ t < DayStart(e + 1)
      BY <1>6, <2>1, <3>2, <3>4, <3>5
    <3>7. DayStart(e) < to /\ DayStart(e + 1) > from
      BY <1>3, <1>6, <3>3, <3>6, IntoWindow
    <3>8. e \in ShiftedInto(mk, from, to)
      BY <3>2, <3>7 DEF ShiftedInto
    <3>9. PICK o : o = Moved(Meeting(evs, i, u), e, mk[e].source)
      OBVIOUS
    <3>10. IsShifted(evs, mk, e, i, u, o)
      BY <3>1, <3>2, <3>9 DEF IsShifted
    <3>11. o \in os
      BY <1>2, <1>3, <3>8, <3>10, WindowIs DEF os
    <3>12. /\ o.start = DayStart(e) + TimeOfDay(u) /\ o.end = o.start + Length(evs[i])
           /\ o.whole = evs[i].whole
      BY <1>2, <3>10, IntoHas
    <3>13. o.start = s /\ o.end = s + Length(evs[i])
      BY <3>2, <3>12, Zenon
    <3> QED
      BY <1>6, <3>11, <3>12, <3>13
  <2> QED
    BY <1>6, <2>2, <2>3 DEF KeptAt
<1>7. ASSUME NEW t \in Int
      PROVE  t \in InsideIs(os, from, to) <=> t \in ClassTime(m) /\ from <= t /\ t < to
  <2>1. t \in ClassTime(m) <=>
          \E i \in DOMAIN evs : ~evs[i].whole /\ \E s \in Nat :
            KeptAt(evs, mk, i, s) /\ s <= t /\ t < s + Length(evs[i])
    BY <1>1, ClassIs DEF evs, mk
  <2>2. t \in InsideIs(os, from, to) <=>
          from <= t /\ t < to /\ \E o \in os : ~o.whole /\ o.start <= t /\ t < o.end
    BY DEF InsideIs
  <2> QED
    BY <1>5, <1>6, <2>1, <2>2
<1>8. InsideIs(os, from, to) \subseteq Int
  BY DEF InsideIs
<1>9. \A t : t \in from..(to - 1) <=> t \in Int /\ from <= t /\ t < to
  BY <1>3
<1>10. InsideIs(os, from, to) = ClassTime(m) \cap (from..(to - 1))
  BY <1>7, <1>8, <1>9
<1> QED
  BY <1>4, <1>10 DEF from, to

--------------------------------------------------------------------------------
(* The board: the rows of a window in order, and the places of equal ones. *)
RowsOf(w, now) == {RowOf(m, w, now) : m \in Ranked(w)}
IsRanking(list, rows) ==
  /\ list \in [1..Cardinality(rows) -> rows]
  /\ \A i, j \in DOMAIN list : i < j => list[i] # list[j] /\ ~Ahead(list[j], list[i])

LEMMA RowsAre ==
  ASSUME DaysInv, NEW w \in Windows
  PROVE  /\ IsFiniteSet(RowsOf(w, clock))
         /\ \A m \in Members : RowOf(m, w, clock).minutes = Minutes(Counted(m, w))
                               /\ RowOf(m, w, clock).member = m
         /\ \A r \in RowsOf(w, clock) : r.minutes \in Nat /\ r.courses \in Nat
                                        /\ r.member \in Ranked(w)
                                        /\ r = RowOf(r.member, w, clock)
<1> DEFINE f == [m \in Ranked(w) |-> RowOf(m, w, clock)]
<1>1. From(w) \in Int /\ To(w) \in Int
  BY WindowsAre
<1>2. Ranked(w) \subseteq Members
  BY DEF Ranked
<1>3. IsFiniteSet(Ranked(w))
  BY <1>2, MembersAssumption, FS_Subset
<1>4. IsFiniteSet(RowsOf(w, clock))
  <2>1. IsFiniteSet({f[m] : m \in Ranked(w)})
    <3> HIDE DEF f
    <3> QED
      BY <1>3, ImageIsFinite
  <2>2. RowsOf(w, clock) = {f[m] : m \in Ranked(w)}
    BY DEF RowsOf
  <2> QED
    BY <2>1, <2>2
<1>5. ASSUME NEW m \in Members
      PROVE  /\ RowOf(m, w, clock).minutes = Minutes(Counted(m, w))
             /\ RowOf(m, w, clock).member = m /\ RowOf(m, w, clock).courses = Cardinality(Counted(m, w))
             /\ Minutes(Counted(m, w)) \in Nat /\ Cardinality(Counted(m, w)) \in Nat
  <2>1. /\ IsFiniteSet(Counted(m, w))
        /\ \A c \in Counted(m, w) : c.start \in Int /\ c.end \in Int /\ c.start < c.end
    BY <1>1, CountedIs
  <2>2. IsFiniteSet(MetIn(Counted(m, w))) /\ Minutes(Counted(m, w)) = Cardinality(MetIn(Counted(m, w)))
    BY <2>1, MinutesCount
  <2>3. Minutes(Counted(m, w)) \in Nat /\ Cardinality(Counted(m, w)) \in Nat
    BY <2>1, <2>2, FS_CardinalityType
  <2> QED
    BY <2>3 DEF RowOf
<1>6. ASSUME NEW r \in RowsOf(w, clock)
      PROVE  /\ r.minutes \in Nat /\ r.courses \in Nat
             /\ r.member \in Ranked(w) /\ r = RowOf(r.member, w, clock)
  <2>1. PICK m \in Ranked(w) : r = RowOf(m, w, clock)
    BY DEF RowsOf
  <2>2. m \in Members
    BY <1>2
  <2>3. r.minutes \in Nat /\ r.courses \in Nat /\ r.member = m
    BY <1>5, <2>1, <2>2
  <2> QED
    BY <2>1, <2>3
<1> QED
  BY <1>4, <1>5, <1>6

(* There is such an order: equal rows can be told apart by any numbering.  *)
LEMMA RankingExists ==
  ASSUME NEW rows, IsFiniteSet(rows), \A r \in rows : r.minutes \in Nat /\ r.courses \in Nat
  PROVE  \E list : IsRanking(list, rows)
<1> DEFINE n == Cardinality(rows)
<1>1. n \in Nat /\ ExistsBijection(1..n, rows)
  BY FS_CardinalityType
<1>2. PICK h \in Bijection(1..n, rows) : TRUE
  BY <1>1 DEF ExistsBijection
<1> HIDE DEF n
<1>3. /\ h \in [1..n -> rows]
      /\ \A x \in rows : \E i \in 1..n : h[i] = x
      /\ \A i, j \in 1..n : h[i] = h[j] => i = j
  BY <1>2 DEF Bijection, Injection, Surjection, IsInjective
<1> DEFINE pos == [x \in rows |-> CHOOSE i \in 1..n : h[i] = x]
<1>4. \A x \in rows : pos[x] \in 1..n /\ h[pos[x]] = x
  BY <1>3
<1> HIDE DEF pos
<1> DEFINE less == {xy \in rows \X rows :
                      \/ Ahead(xy[1], xy[2])
                      \/ ~Ahead(xy[2], xy[1]) /\ pos[xy[1]] < pos[xy[2]]}
<1>5. \A x, y \in rows : <<x, y>> \in less <=>
                           Ahead(x, y) \/ (~Ahead(y, x) /\ pos[x] < pos[y])
  OBVIOUS
<1>6. \A x, y \in rows : pos[x] = pos[y] => x = y
  BY <1>4
<1>7. Orders(less, rows)
  <2> HIDE DEF less
  <2>1. \A x \in rows : pos[x] \in Int /\ x.minutes \in Int /\ x.courses \in Int
    BY <1>4
  <2>2. \A x \in rows : <<x, x>> \notin less
    BY <1>5, <2>1 DEF Ahead
  <2>3. ASSUME NEW x \in rows, NEW y \in rows, NEW z \in rows,
               <<x, y>> \in less, <<y, z>> \in less
        PROVE  <<x, z>> \in less
    <3>1. /\ Ahead(x, y) \/ (~Ahead(y, x) /\ pos[x] < pos[y])
          /\ Ahead(y, z) \/ (~Ahead(z, y) /\ pos[y] < pos[z])
      BY <1>5, <2>3
    <3>2. /\ x.minutes \in Int /\ y.minutes \in Int /\ z.minutes \in Int
          /\ x.courses \in Int /\ y.courses \in Int /\ z.courses \in Int
          /\ pos[x] \in Int /\ pos[y] \in Int /\ pos[z] \in Int
      BY <2>1
    <3>3. CASE Ahead(x, y) /\ Ahead(y, z)
      <4>1. Ahead(x, z)
        BY <3>2, <3>3 DEF Ahead
      <4> QED
        BY <1>5, <4>1
    <3>4. CASE Ahead(x, y) /\ ~Ahead(y, z)
      <4>1. ~Ahead(z, y)
        BY <3>1, <3>4
      <4>2. Ahead(x, z)
        BY <3>2, <3>4, <4>1 DEF Ahead
      <4> QED
        BY <1>5, <4>2
    <3>5. CASE ~Ahead(x, y) /\ Ahead(y, z)
      <4>1. ~Ahead(y, x)
        BY <3>1, <3>5
      <4>2. Ahead(x, z)
        BY <3>2, <3>5, <4>1 DEF Ahead
      <4> QED
        BY <1>5, <4>2
    <3>6. CASE ~Ahead(x, y) /\ ~Ahead(y, z)
      <4>1. ~Ahead(y, x) /\ ~Ahead(z, y) /\ pos[x] < pos[y] /\ pos[y] < pos[z]
        BY <3>1, <3>6
      <4>2. ~Ahead(z, x)
        BY <3>2, <3>6, <4>1 DEF Ahead
      <4>3. pos[x] < pos[z]
        BY <3>2, <4>1
      <4> QED
        BY <1>5, <4>2, <4>3
    <3> QED
      BY <3>3, <3>4, <3>5, <3>6
  <2>4. ASSUME NEW x \in rows, NEW y \in rows, x # y
        PROVE  <<x, y>> \in less \/ <<y, x>> \in less
    <3>1. pos[x] # pos[y]
      BY <1>6, <2>4
    <3>2. /\ x.minutes \in Int /\ y.minutes \in Int /\ x.courses \in Int /\ y.courses \in Int
          /\ pos[x] \in Int /\ pos[y] \in Int
      BY <2>1
    <3>3. \/ Ahead(x, y) \/ (~Ahead(y, x) /\ pos[x] < pos[y])
          \/ Ahead(y, x) \/ (~Ahead(x, y) /\ pos[y] < pos[x])
      BY <3>1, <3>2 DEF Ahead
    <3> QED
      BY <1>5, <3>3
  <2> QED
    BY <2>2, <2>3, <2>4 DEF Orders
<1> DEFINE list == InOrder(rows, less)
<1>8. IsListOf(list, less, rows)
  <2> HIDE DEF less
  <2> QED
    BY <1>7, InOrderIs
<1> HIDE DEF list
<1>9. list \in [1..n -> rows] /\ DOMAIN list = 1..n /\ Len(list) = n
  <2>1. list \in Seq(rows) /\ Len(list) = n
    BY <1>8 DEF IsListOf, n
  <2> QED
    BY <1>1, <2>1
<1>10. ASSUME NEW i \in 1..n, NEW j \in 1..n, i < j
       PROVE  list[i] # list[j] /\ ~Ahead(list[j], list[i])
  <2>1. <<list[i], list[j]>> \in less
    <3> HIDE DEF less
    <3> QED
      BY <1>8, <1>9, <1>10 DEF IsListOf
  <2>2. list[i] \in rows /\ list[j] \in rows
    BY <1>9
  <2> HIDE DEF less
  <2>3. list[i] # list[j]
    BY <1>7, <2>1, <2>2 DEF Orders
  <2>4. Ahead(list[i], list[j]) \/ ~Ahead(list[j], list[i])
    BY <1>5, <2>1, <2>2
  <2>5. ~(Ahead(list[i], list[j]) /\ Ahead(list[j], list[i]))
    <3>1. /\ list[i].minutes \in Int /\ list[j].minutes \in Int
          /\ list[i].courses \in Int /\ list[j].courses \in Int
      BY <2>2
    <3> QED
      BY <3>1 DEF Ahead
  <2> QED
    BY <2>3, <2>4, <2>5
<1>11. IsRanking(list, rows)
  BY <1>9, <1>10 DEF IsRanking, n
<1> QED
  BY <1>11

LEMMA BoardIs ==
  ASSUME DaysInv, NEW w \in Windows
  PROVE  IsRanking(Board(w, clock), RowsOf(w, clock))
<1> DEFINE rows == RowsOf(w, clock)
<1>1. IsFiniteSet(rows) /\ \A r \in rows : r.minutes \in Nat /\ r.courses \in Nat
  BY RowsAre
<1>2. Board(w, clock) =
        CHOOSE list \in [1..Cardinality(rows) -> rows] :
          \A i, j \in DOMAIN list : i < j => list[i] # list[j] /\ ~Ahead(list[j], list[i])
  BY DEF Board, RowsOf
<1> HIDE DEF rows
<1>3. PICK list : IsRanking(list, rows)
  BY <1>1, RankingExists
<1>4. IsRanking(Board(w, clock), rows)
  BY <1>2, <1>3 DEF IsRanking
<1> QED
  BY <1>4 DEF rows

(* A place is the first of the rows with as many minutes.                  *)
LEMMA PlaceIs ==
  ASSUME NEW list, NEW i \in Nat \ {0}
  PROVE  /\ Place(list, i) \in 1..i
         /\ list[Place(list, i)].minutes = list[i].minutes
         /\ \A k \in 1..(Place(list, i) - 1) : list[k].minutes # list[i].minutes
<1> DEFINE S == {j \in 0..i : \A k \in 1..j : list[k].minutes # list[i].minutes}
<1>1. 0 \in S /\ i \notin S
  OBVIOUS
<1>2. PICK j \in 1..i : j - 1 \in S /\ j \notin S
  <2> HIDE DEF S
  <2> SUFFICES ASSUME \A j \in 1..i : j - 1 \in S => j \in S PROVE FALSE
    OBVIOUS
  <2>1. \A j \in 0..i : j \in S
    BY <1>1, AlongIt
  <2> QED
    BY <1>1, <2>1
<1>3. \A k \in 1..(j - 1) : list[k].minutes # list[i].minutes
  BY <1>2
<1>4. list[j].minutes = list[i].minutes
  <2>1. \A k \in 1..j : k \in 1..(j - 1) \/ k = j
    OBVIOUS
  <2> QED
    BY <1>2, <1>3, <2>1
<1> QED
  BY <1>3, <1>4 DEF Place

LEMMA BoardIsFair ==
  ASSUME DaysInv, NEW w \in Windows
  PROVE  LET rows == Board(w, clock)
         IN \A i \in DOMAIN rows :
              Place(rows, i) = 1 + Cardinality({m \in Ranked(w) :
                                                  Minutes(Counted(m, w)) > rows[i].minutes})
<1> DEFINE list == Board(w, clock)
           rows == RowsOf(w, clock)
           n == Cardinality(rows)
<1>1. /\ IsFiniteSet(rows)
      /\ \A m \in Members : RowOf(m, w, clock).minutes = Minutes(Counted(m, w))
                            /\ RowOf(m, w, clock).member = m
      /\ \A r \in rows : /\ r.minutes \in Nat /\ r.courses \in Nat
                         /\ r.member \in Ranked(w) /\ r = RowOf(r.member, w, clock)
  BY RowsAre
<1>2. n \in Nat
  BY <1>1, FS_CardinalityType
<1>3. /\ list \in [1..n -> rows] /\ DOMAIN list = 1..n
      /\ \A i, j \in 1..n : i < j => list[i] # list[j] /\ ~Ahead(list[j], list[i])
  BY BoardIs DEF IsRanking
<1>4. Ranked(w) \subseteq Members /\ \A m \in Ranked(w) : RowOf(m, w, clock) \in rows
  BY DEF Ranked, RowsOf
<1> HIDE DEF list, rows
<1>5. \A i, j \in 1..n : list[i] = list[j] => i = j
  BY <1>2, <1>3
<1>6. \A r \in rows : \E i \in 1..n : list[i] = r
  <2>1. list \in Injection(1..n, rows)
    <3> HIDE DEF n
    <3> QED
      BY <1>3, <1>5 DEF Injection, IsInjective
  <2>2. IsFiniteSet(1..n) /\ Cardinality(1..n) = n
    <3> HIDE DEF n
    <3> QED
      BY <1>2, FS_Interval
  <2>3. list \in Surjection(1..n, rows)
    BY <1>1, <2>1, <2>2, FS_Injection
  <2> HIDE DEF n
  <2> QED
    BY <2>3 DEF Surjection
<1> HIDE DEF n
<1> SUFFICES ASSUME NEW i \in 1..n
             PROVE  Place(list, i) = 1 + Cardinality({m \in Ranked(w) :
                                                        Minutes(Counted(m, w)) > list[i].minutes})
  BY <1>3 DEF list
<1> DEFINE p == Place(list, i)
           x == list[i].minutes
           more == {m \in Ranked(w) : Minutes(Counted(m, w)) > x}
           g == [k \in 1..(p - 1) |-> list[k].member]
<1>7. p \in 1..i /\ list[p].minutes = x /\ \A k \in 1..(p - 1) : list[k].minutes # x
  BY PlaceIs
<1>8. \A k \in 1..n : /\ list[k] \in rows /\ list[k].minutes \in Nat
                      /\ list[k].member \in Ranked(w) /\ list[k] = RowOf(list[k].member, w, clock)
                      /\ list[k].minutes = Minutes(Counted(list[k].member, w))
  BY <1>1, <1>3, <1>4
<1>9. p \in 1..n /\ x \in Nat
  BY <1>2, <1>7, <1>8
<1> HIDE DEF p, x
<1>10. \A k \in 1..n : list[k].minutes > x <=> k \in 1..(p - 1)
  <2> SUFFICES ASSUME NEW k \in 1..n PROVE list[k].minutes > x <=> k \in 1..(p - 1)
    OBVIOUS
  <2>1. list[k].minutes \in Nat
    BY <1>8
  <2>2. CASE k < p
    <3>1. ~Ahead(list[p], list[k])
      BY <1>3, <1>9, <2>2
    <3>2. list[k].minutes # x /\ k \in 1..(p - 1)
      BY <1>7, <1>9, <2>2
    <3>3. ~(x > list[k].minutes)
      BY <1>7, <3>1 DEF Ahead
    <3> QED
      BY <1>9, <2>1, <3>2, <3>3
  <2>3. CASE ~(k < p)
    <3>1. k = p \/ p < k
      BY <1>9, <2>3
    <3>2. p < k => ~Ahead(list[k], list[p])
      BY <1>3, <1>9
    <3>3. ~(list[k].minutes > x)
      BY <1>7, <1>9, <2>1, <3>1, <3>2 DEF Ahead
    <3> QED
      BY <1>9, <2>3, <3>3
  <2> QED
    BY <2>2, <2>3
<1>11. g \in Bijection(1..(p - 1), more)
  <2>1. \A k \in 1..(p - 1) : k \in 1..n
    BY <1>2, <1>9
  <2>2. ASSUME NEW k \in 1..(p - 1) PROVE list[k].member \in more
    BY <1>8, <1>10, <2>1
  <2>3. g \in [1..(p - 1) -> more]
    BY <2>2
  <2>4. \A j, k \in 1..(p - 1) : g[j] = g[k] => j = k
    <3> SUFFICES ASSUME NEW j \in 1..(p - 1), NEW k \in 1..(p - 1), list[j].member = list[k].member
                 PROVE  j = k
      OBVIOUS
    <3>1. list[j] = list[k]
      BY <1>8, <2>1
    <3> QED
      BY <1>5, <2>1, <3>1
  <2>5. \A m \in more : \E k \in 1..(p - 1) : g[k] = m
    <3> SUFFICES ASSUME NEW m \in more PROVE \E k \in 1..(p - 1) : list[k].member = m
      OBVIOUS
    <3>1. m \in Ranked(w) /\ Minutes(Counted(m, w)) > x
      OBVIOUS
    <3> HIDE DEF more
    <3>2. RowOf(m, w, clock) \in rows /\ RowOf(m, w, clock).minutes > x
          /\ RowOf(m, w, clock).member = m
      BY <1>1, <1>4, <3>1
    <3>3. PICK k \in 1..n : list[k] = RowOf(m, w, clock)
      BY <1>6, <3>2
    <3>4. k \in 1..(p - 1)
      BY <1>10, <3>2, <3>3
    <3> QED
      BY <3>2, <3>3, <3>4
  <2> HIDE DEF g, more
  <2> QED
    BY <2>3, <2>4, <2>5 DEF Bijection, Injection, Surjection, IsInjective
<1>12. IsFiniteSet(1..(p - 1)) /\ Cardinality(1..(p - 1)) = p - 1
  <2>1. PICK q \in Nat : q = p - 1
    BY <1>9
  <2>2. IsFiniteSet(1..q) /\ Cardinality(1..q) = q
    BY FS_Interval
  <2> QED
    BY <2>1, <2>2
<1>13. Cardinality(more) = p - 1
  <2> HIDE DEF g, more
  <2>1. ExistsBijection(1..(p - 1), more)
    BY <1>11 DEF ExistsBijection
  <2> QED
    BY <1>12, <2>1, FS_Bijection
<1>14. p = 1 + Cardinality(more)
  <2> HIDE DEF more
  <2> QED
    BY <1>9, <1>13
<1> QED
  BY <1>14 DEF p, x

LEMMA BoardsAreRight == DaysInv => RankIsFair
<1> SUFFICES ASSUME DaysInv PROVE RankIsFair
  OBVIOUS
<1>1. ASSUME NEW m \in Comparable, NEW w \in Windows
      PROVE  Minutes(Counted(m, w)) = Cardinality(ClassTime(m) \cap (From(w)..(To(w) - 1)))
  <2>1. m \in Members /\ From(w) \in Int /\ To(w) \in Int
    BY WindowsAre DEF Comparable
  <2>2. /\ IsFiniteSet(Counted(m, w))
        /\ \A c \in Counted(m, w) : c.start \in Int /\ c.end \in Int /\ c.start < c.end
    BY <2>1, CountedIs
  <2>3. Minutes(Counted(m, w)) = Cardinality(MetIn(Counted(m, w)))
    BY <2>2, MinutesCount
  <2> QED
    BY <2>3, ClassIsCounted
<1> QED
  BY <1>1, BoardIsFair DEF RankIsFair

(* The class time of a window is the time in which the member has class,   *)
(* each moment once, and the places are those of the class times: for      *)
(* every schedule, any marks, and any group.                               *)
THEOREM RanksAreFair == Spec => []RankIsFair
<1>1. Spec => []DaysInv
  BY DaysInit, DaysStep, PTL DEF Spec
<1> QED
  BY <1>1, BoardsAreRight, PTL
================================================================================
