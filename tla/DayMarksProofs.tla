---------------------------- MODULE DayMarksProofs ----------------------------
(***************************************************************************)
(* Theorems of DayMarks for any groups, members, days and callers: every   *)
(* mark is one the database accepts, what a call tells its user it has     *)
(* taken away it has, calls that do not overlap keep the limit, and an     *)
(* undisturbed call's restore is the backup and its marks show.  RoomInv   *)
(* says that what a call is about to write still fits; QuietInv what an    *)
(* undisturbed call has done so far.                                       *)
(***************************************************************************)
EXTENDS DayMarks, FiniteSetTheorems, TLAPS

Says == {"pending", "ok", "limit", "notfound", "error"}

(* The variables of the calls, those of the database, and the rest.        *)
CallType ==
  /\ pc \in [Callers -> PCs]
  /\ task \in [Callers -> TaskType]
  /\ answer \in [Callers -> [says : Says, gone : SUBSET Days, wide : SUBSET Days]]
SeatType == seat \in [Groups -> [Members -> {"unknown", "known", "empty", "full"}]]
MarkType == mark \in [Groups -> [Who -> [Days -> Kinds \cup {None}]]]
RestType ==
  /\ mode \in {"group", "global"}
  /\ alone \in BOOLEAN /\ strayed \in BOOLEAN
  /\ quiet \in [Callers -> BOOLEAN]
  /\ budget \in [calls : Nat, troubles : Nat]
FilesType == file \in FileType

(* A call that is about to set marks knows their kind, and none that runs  *)
(* has claimed anything.                                                   *)
CallInv ==
  \A c \in Callers :
    /\ task[c].op \in Marking => task[c].kind \in Kinds
    /\ pc[c] = "list" => task[c].op \in Marking
    /\ pc[c] # "idle" => answer[c].gone = {}

IInv == TypeOK /\ CallInv

LEMMA Parts ==
  TypeOK <=> CallType /\ SeatType /\ MarkType /\ MarkedAreKnown /\ RestType /\ FilesType
  BY DEF TypeOK, CallType, SeatType, MarkType, RestType, FilesType, Says

LEMMA PartsNext ==
  CallType' /\ SeatType' /\ MarkType' /\ MarkedAreKnown' /\ RestType' /\ FilesType' => TypeOK'
  BY DEF TypeOK, CallType, SeatType, MarkType, RestType, FilesType, Says

LEMMA NoTaskType == NoTask \in TaskType
<1>1. PICK g \in Groups : g = CHOOSE h \in Groups : TRUE
  BY SetsAssumption
<1> QED BY <1>1 DEF NoTask, TaskType, Who

LEMMA ReturnType ==
  ASSUME CallType, NEW c \in Callers, NEW a \in Says, NEW t \in TaskType, Return(c, a, t)
  PROVE  CallType'
<1>1. pc' \in [Callers -> PCs] /\ task' \in [Callers -> TaskType]
  BY NoTaskType DEF Return, CallType, PCs
<1>2. answer' \in [Callers -> [says : Says, gone : SUBSET Days, wide : SUBSET Days]]
  BY DEF Return, CallType, TaskType
<1> QED BY <1>1, <1>2 DEF CallType

LEMMA ProceedType ==
  ASSUME CallType, NEW c \in Callers, NEW q \in PCs, NEW t \in TaskType, Proceed(c, q, t)
  PROVE  CallType'
  BY DEF Proceed, CallType

LEMMA AdvanceType ==
  ASSUME CallType, NEW c \in Callers, NEW q \in PCs, NEW t \in TaskType, NEW left,
         Advance(c, q, left, t)
  PROVE  CallType'
<1>1. CASE left = {} BY <1>1, ReturnType DEF Advance, Says
<1>2. CASE left # {} BY <1>2, ProceedType DEF Advance
<1> QED BY <1>1, <1>2

LEMMA HomeType ==
  ASSUME NEW g \in Groups, NEW w
  PROVE  Home(g, w) \in Groups
  BY DEF Home, Elsewhere

LEMMA ListedType ==
  ASSUME NEW t \in TaskType
  PROVE  Listed(t) \in SUBSET Days
<1>1. t.days \in Listings \cup {<<>>}
  BY DEF TaskType
<1>2. <<>> \in Seq(Days)
  OBVIOUS
<1>3. t.days \in Seq(Days)
  BY <1>1, <1>2, ListingsAssumption
<1> QED BY <1>3 DEF Listed

LEMMA ReadsKeep ==
  ASSUME TypeOK, NEW c \in Callers, NEW q, Reads(c, q), CallType'
  PROVE  TypeOK'
<1>1. SeatType' /\ MarkType' /\ MarkedAreKnown' /\ FilesType'
  BY Parts DEF Reads, At, SeatType, MarkType, FilesType, MarkedAreKnown
<1>2. RestType'
  BY Parts DEF Reads, At, RestType
<1> QED BY <1>1, <1>2, PartsNext

LEMMA DisturbType ==
  ASSUME RestType, NEW c \in Callers, Disturb(c), UNCHANGED <<mode, alone, budget>>,
         strayed' \in BOOLEAN
  PROVE  RestType'
<1>1. quiet' \in [Callers -> BOOLEAN]
  <2>1. \A d \in Callers : (d = c /\ quiet[d]) \in BOOLEAN OBVIOUS
  <2> QED BY <2>1 DEF Disturb
<1> QED BY <1>1 DEF RestType

--------------------------------------------------------------------------------
LEMMA StartType ==
  ASSUME TypeOK, NEW c \in Callers, Start(c)
  PROVE  TypeOK'
<1>1. PICK op \in Ops, g \in Groups, w \in Who, days \in Listings \cup {<<>>},
           kind \in Kinds \cup {None} :
        /\ Sensible(op, w, days, kind)
        /\ task' = [task EXCEPT ![c] = [NoTask EXCEPT !.op = op, !.group = g, !.who = w,
                                                      !.days = days, !.kind = kind]]
        /\ pc' = [pc EXCEPT ![c] = First(op)]
  BY DEF Start
<1>2. [NoTask EXCEPT !.op = op, !.group = g, !.who = w, !.days = days, !.kind = kind]
        \in TaskType
  BY NoTaskType DEF TaskType
<1>3. First(op) \in PCs
  BY DEF First, PCs
<1>4. CallType'
  <2>1. NoAnswer \in [says : Says, gone : SUBSET Days, wide : SUBSET Days]
    BY DEF NoAnswer, Says
  <2> QED BY <1>1, <1>2, <1>3, <2>1, Parts DEF CallType, Start
<1>5. RestType'
  <2>1. RestType
    BY Parts
  <2>2. budget' \in [calls : Nat, troubles : Nat]
    BY <2>1 DEF RestType, Start
  <2>3. quiet' \in [Callers -> BOOLEAN]
    BY <2>1 DEF RestType, Start
  <2>4. alone' \in BOOLEAN
    BY DEF Start
  <2> QED BY <2>1, <2>2, <2>3, <2>4 DEF RestType, Start
<1>6. SeatType' /\ MarkType' /\ FilesType' /\ MarkedAreKnown'
  BY Parts DEF Start, SeatType, MarkType, FilesType, MarkedAreKnown
<1> QED BY <1>4, <1>5, <1>6, PartsNext

LEMMA AimType ==
  ASSUME TypeOK, NEW c \in Callers, Aim(c)
  PROVE  TypeOK'
<1> DEFINE t == [task[c] EXCEPT !.at = Home(task[c].group, task[c].who)]
<1>1. task[c] \in TaskType
  BY DEF TypeOK
<1>2. Home(task[c].group, task[c].who) \in Groups
  BY <1>1, HomeType DEF TaskType
<1>3. t \in TaskType
  BY <1>1, <1>2 DEF TaskType
<1>4. [t EXCEPT !.cut = Listed(t)] \in TaskType
  BY <1>3, ListedType DEF TaskType
<1>5. CallType'
  <2>1. CASE Return(c, "notfound", t) BY <2>1, <1>3, ReturnType, Parts DEF Says
  <2>2. CASE Proceed(c, "list", t) BY <2>2, <1>3, ProceedType, Parts DEF PCs
  <2>3. CASE Proceed(c, "listGroup", t) BY <2>3, <1>3, ProceedType, Parts DEF PCs
  <2>4. CASE Proceed(c, "cut", [t EXCEPT !.cut = Listed(t)])
    BY <2>4, <1>4, ProceedType, Parts DEF PCs
  <2> QED BY <2>1, <2>2, <2>3, <2>4 DEF Aim
<1> QED BY <1>5, ReadsKeep DEF Aim

LEMMA ListType ==
  ASSUME IInv, NEW c \in Callers, List(c)
  PROVE  TypeOK'
<1> DEFINE t == task[c]
           set == {[who |-> t.who, day |-> d, kind |-> t.kind, at |-> t.at] : d \in Listed(t)}
<1>0. PICK u : u = [t EXCEPT !.set = set] OBVIOUS
<1>1. t \in TaskType
  BY DEF IInv, TypeOK
<1>2. TypeOK /\ Reads(c, "list")
  BY DEF IInv, List
<1>3. CASE TooMany(t)
  <2>1. CallType'
    BY <1>1, <1>2, <1>3, ReturnType, Parts DEF List, Says
  <2> QED BY <2>1, <1>2, ReadsKeep
<1>4. CASE ~TooMany(t)
  <2>1. t.kind \in Kinds
    BY <1>2 DEF IInv, CallInv, Reads, At
  <2>2. set \subseteq [who : Who, day : Days, kind : Kinds, at : Groups]
    BY <1>1, <2>1, ListedType DEF TaskType
  <2>3. u \in TaskType
    BY <1>0, <1>1, <2>2 DEF TaskType
  <2>4. Proceed(c, "mark", u)
    BY <1>0, <1>4 DEF List
  <2>5. CallType'
    BY <1>2, <2>3, <2>4, ProceedType, Parts DEF PCs
  <2> QED BY <2>5, <1>2, ReadsKeep
<1> QED BY <1>3, <1>4

LEMMA MarkActionType ==
  ASSUME TypeOK, NEW c \in Callers, Mark(c)
  PROVE  TypeOK'
<1>0. CallType /\ SeatType /\ MarkType /\ MarkedAreKnown /\ RestType /\ FilesType
  BY Parts
<1>1. PICK m \in task[c].set :
        \/ /\ Unknown(m) /\ Return(c, "notfound", task[c])
           /\ UNCHANGED <<mark, strayed, quiet>>
        \/ /\ ~Unknown(m)
           /\ mark' = [mark EXCEPT ![m.at][m.who][m.day] = m.kind]
           /\ Advance(c, "mark", task[c].set \ {m}, [task[c] EXCEPT !.set = @ \ {m}])
           /\ strayed' = (strayed \/ (task[c].op = "restore" /\ m.at # task[c].group))
           /\ Disturb(c)
  BY DEF Mark
<1>2. task[c] \in TaskType
  BY <1>0 DEF CallType
<1>3. m \in [who : Who, day : Days, kind : Kinds, at : Groups]
  BY <1>2 DEF TaskType
<1>4. SeatType' /\ FilesType' /\ UNCHANGED <<seat, mode, alone, budget>>
  BY <1>0 DEF Mark, At, SeatType, FilesType
<1>5. CASE Unknown(m) /\ Return(c, "notfound", task[c]) /\ UNCHANGED <<mark, strayed, quiet>>
  <2>1. CallType'
    BY <1>0, <1>2, <1>5, ReturnType DEF Says
  <2>2. MarkType' /\ MarkedAreKnown' /\ RestType'
    BY <1>0, <1>4, <1>5 DEF MarkType, MarkedAreKnown, RestType
  <2> QED BY <1>4, <2>1, <2>2, PartsNext
<1>6. CASE /\ ~Unknown(m)
           /\ mark' = [mark EXCEPT ![m.at][m.who][m.day] = m.kind]
           /\ Advance(c, "mark", task[c].set \ {m}, [task[c] EXCEPT !.set = @ \ {m}])
           /\ strayed' = (strayed \/ (task[c].op = "restore" /\ m.at # task[c].group))
           /\ Disturb(c)
  <2>1. [task[c] EXCEPT !.set = @ \ {m}] \in TaskType
    BY <1>2 DEF TaskType
  <2>2. CallType'
    BY <1>0, <1>6, <2>1, AdvanceType DEF PCs
  <2>3. MarkType'
    BY <1>0, <1>3, <1>6 DEF MarkType
  <2>4. MarkedAreKnown'
    BY <1>0, <1>3, <1>4, <1>6, AllAssumption DEF MarkType, MarkedAreKnown, Unknown, Who
  <2>5. strayed' \in BOOLEAN
    BY <1>0, <1>6 DEF RestType
  <2>6. RestType'
    BY <1>0, <1>4, <1>6, <2>5, DisturbType
  <2> QED BY <1>4, <2>2, <2>3, <2>4, <2>6, PartsNext
<1> QED BY <1>1, <1>5, <1>6
--------------------------------------------------------------------------------
LEMMA FoundType ==
  ASSUME TypeOK, NEW c \in Callers, NEW t \in TaskType, NEW wide \in SUBSET Days,
         Found(c, t, wide)
  PROVE  CallType'
<1> DEFINE cut == {d \in Listed(t) : mark[t.at][t.who][d] # None}
<1>1. cut \in SUBSET Days
  BY ListedType
<1>2. [t EXCEPT !.cut = cut, !.wide = wide \ cut] \in TaskType
  BY <1>1 DEF TaskType
<1> QED BY <1>2, AdvanceType, Parts DEF Found, PCs

LEMMA ListGroupType ==
  ASSUME TypeOK, NEW c \in Callers, ListGroup(c)
  PROVE  TypeOK'
<1> DEFINE t == task[c]
           wide == {d \in Listed(t) : t.who # All /\ mark[t.group][All][d] # None}
<1>1. t \in TaskType
  BY DEF TypeOK
<1>2. wide \in SUBSET Days
  BY <1>1, ListedType
<1>3. CASE t.at = t.group
  <2>1. CallType'
    BY <1>1, <1>2, <1>3, FoundType DEF ListGroup
  <2> QED BY <2>1, ReadsKeep DEF ListGroup
<1>4. CASE t.at # t.group
  <2>1. [t EXCEPT !.wide = wide] \in TaskType
    BY <1>1, <1>2 DEF TaskType
  <2>2. CallType'
    BY <1>4, <2>1, ProceedType, Parts DEF ListGroup, PCs
  <2> QED BY <2>2, ReadsKeep DEF ListGroup
<1> QED BY <1>3, <1>4

LEMMA ListHomeType ==
  ASSUME TypeOK, NEW c \in Callers, ListHome(c)
  PROVE  TypeOK'
<1>1. task[c] \in TaskType /\ task[c].wide \in SUBSET Days
  BY DEF TypeOK, TaskType
<1>2. CallType'
  BY <1>1, FoundType DEF ListHome
<1> QED BY <1>2, ReadsKeep DEF ListHome

(* To take a mark away sets none.                                          *)
Without(mk, a, w, d) == [mk EXCEPT ![a][w][d] = None]
LEMMA Cleared ==
  ASSUME NEW mk \in [Groups -> [Who -> [Days -> Kinds \cup {None}]]], NEW a, NEW w, NEW d,
         NEW g \in Groups, NEW v \in Who, NEW e \in Days
  PROVE  Without(mk, a, w, d)[g][v][e] # None => mk[g][v][e] # None
<1>1. CASE g = a /\ v = w /\ e = d
  BY <1>1 DEF Without
<1>2. CASE ~(g = a /\ v = w /\ e = d)
  BY <1>2 DEF Without
<1> QED BY <1>1, <1>2

LEMMA CutType ==
  ASSUME TypeOK, NEW c \in Callers, Cut(c)
  PROVE  TypeOK'
<1>0. CallType /\ SeatType /\ MarkType /\ MarkedAreKnown /\ RestType /\ FilesType
  BY Parts
<1>1. task[c] \in TaskType
  BY <1>0 DEF CallType
<1>2. PICK d \in task[c].cut :
        /\ mark' = [mark EXCEPT ![task[c].at][task[c].who][d] = None]
        /\ Advance(c, "cut", task[c].cut \ {d},
                   [task[c] EXCEPT !.cut = @ \ {d},
                                   !.gone = @ \cup IF Deleted(task[c], d) THEN {d} ELSE {}])
  BY DEF Cut
<1>3. d \in Days
  BY <1>1 DEF TaskType
<1>4. SeatType' /\ FilesType' /\ RestType'
  BY <1>0, DisturbType DEF Cut, At, SeatType, FilesType, RestType
<1>5. CallType'
  <2>1. [task[c] EXCEPT !.cut = @ \ {d},
                        !.gone = @ \cup IF Deleted(task[c], d) THEN {d} ELSE {}] \in TaskType
    BY <1>1, <1>3 DEF TaskType
  <2> QED BY <1>0, <1>2, <2>1, AdvanceType DEF PCs
<1>6. MarkType'
  BY <1>0, <1>2 DEF MarkType
<1>7. MarkedAreKnown'
  <2>1. ASSUME NEW g \in Groups, NEW m \in Members, NEW e \in Days, mark'[g][m][e] # None
        PROVE  seat'[g][m] # "unknown"
    <3>1. m \in Who /\ mark \in [Groups -> [Who -> [Days -> Kinds \cup {None}]]]
      BY <1>0 DEF MarkType, Who
    <3>2. Without(mark, task[c].at, task[c].who, d)[g][m][e] # None
      BY <1>2, <2>1, Zenon DEF Without
    <3>3. mark[g][m][e] # None
      BY <3>1, <3>2, Cleared
    <3>4. seat' = seat
      BY DEF Cut
    <3> QED BY <1>0, <3>3, <3>4 DEF MarkedAreKnown
  <2> QED BY <2>1 DEF MarkedAreKnown
<1> QED BY <1>4, <1>5, <1>6, <1>7, PartsNext
--------------------------------------------------------------------------------
LEMMA ExportMembersType ==
  ASSUME TypeOK, NEW c \in Callers, ExportMembers(c)
  PROVE  TypeOK'
<1> DEFINE g == task[c].group
           had == {m \in Members : HasRow(g, m)}
           put == {[who |-> m, full |-> seat[g][m] = "full", at |-> g] : m \in had}
<1>1. task[c] \in TaskType
  BY DEF TypeOK
<1>2. g \in Groups
  BY <1>1 DEF TaskType
<1>3. put \subseteq [who : Members, full : BOOLEAN, at : Groups]
  <2>1. ASSUME NEW m \in Members
        PROVE  [who |-> m, full |-> seat[g][m] = "full", at |-> g]
                 \in [who : Members, full : BOOLEAN, at : Groups]
    BY <1>2
  <2> QED BY <2>1
<1>4. PICK u : u = [task[c] EXCEPT !.put = put]
  OBVIOUS
<1>5. u \in TaskType
  BY <1>1, <1>3, <1>4 DEF TaskType
<1>6. Proceed(c, "marks", u)
  BY <1>4 DEF ExportMembers
<1>7. CallType'
  BY <1>5, <1>6, ProceedType, Parts DEF PCs
<1> QED BY <1>7, ReadsKeep DEF ExportMembers

LEMMA ExportMarksType ==
  ASSUME TypeOK, NEW c \in Callers, ExportMarks(c)
  PROVE  TypeOK'
<1> DEFINE g == task[c].group
           who == {[who |-> e.who, full |-> e.full] : e \in task[c].put}
           marks == {[who |-> p[1], day |-> p[2], kind |-> mark[g][p[1]][p[2]]] : p \in Marked(g)}
<1>0. CallType /\ SeatType /\ MarkType /\ MarkedAreKnown /\ RestType /\ FilesType
  BY Parts
<1>1. task[c] \in TaskType
  BY <1>0 DEF CallType
<1>2. who \subseteq [who : Members, full : BOOLEAN]
  BY <1>1 DEF TaskType
<1>3. marks \subseteq [who : Who, day : Days, kind : Kinds]
  <2>1. ASSUME NEW p \in Marked(g)
        PROVE  [who |-> p[1], day |-> p[2], kind |-> mark[g][p[1]][p[2]]]
                 \in [who : Who, day : Days, kind : Kinds]
    <3>1. p[1] \in Who /\ p[2] \in Days /\ mark[g][p[1]][p[2]] # None
      BY DEF Marked, Cells
    <3>2. mark[g][p[1]][p[2]] \in Kinds
      BY <1>0, <1>1, <3>1 DEF MarkType, TaskType
    <3> QED BY <3>1, <3>2
  <2> QED BY <2>1
<1>4. file' = [made |-> TRUE, members |-> who, marks |-> marks]
  BY DEF ExportMarks
<1>5. FilesType'
  BY <1>2, <1>3, <1>4 DEF FilesType, FileType
<1>6. CallType'
  BY <1>0, <1>1, ReturnType DEF ExportMarks, Says
<1>7. SeatType' /\ MarkType' /\ MarkedAreKnown' /\ RestType'
  BY <1>0, DisturbType DEF ExportMarks, At, SeatType, MarkType, MarkedAreKnown, RestType
<1> QED BY <1>5, <1>6, <1>7, PartsNext

LEMMA ResolveType ==
  ASSUME TypeOK, NEW c \in Callers, Resolve(c)
  PROVE  TypeOK'
<1> DEFINE g == task[c].group
           put == {[who |-> e.who, full |-> e.full, at |-> Home(g, e.who)] : e \in file.members}
           set == {[who |-> m.who, day |-> m.day, kind |-> m.kind, at |-> Home(g, m.who)] :
                     m \in file.marks}
           far == \E x \in put \cup set : x.at # g
<1>1. task[c] \in TaskType /\ file \in FileType
  BY DEF TypeOK
<1>2. g \in Groups
  BY <1>1 DEF TaskType
<1>3. put \subseteq [who : Members, full : BOOLEAN, at : Groups]
  <2>1. ASSUME NEW e \in file.members
        PROVE  [who |-> e.who, full |-> e.full, at |-> Home(g, e.who)]
                 \in [who : Members, full : BOOLEAN, at : Groups]
    BY <1>1, <1>2, HomeType DEF FileType
  <2> QED BY <2>1
<1>4. set \subseteq [who : Who, day : Days, kind : Kinds, at : Groups]
  <2>1. ASSUME NEW m \in file.marks
        PROVE  [who |-> m.who, day |-> m.day, kind |-> m.kind, at |-> Home(g, m.who)]
                 \in [who : Who, day : Days, kind : Kinds, at : Groups]
    BY <1>1, <1>2, HomeType DEF FileType
  <2> QED BY <2>1
<1>5. PICK u : u = [task[c] EXCEPT !.put = put, !.set = set, !.far = far]
  OBVIOUS
<1>6. u \in TaskType
  <2>1. far \in BOOLEAN
    OBVIOUS
  <2> QED BY <1>1, <1>3, <1>4, <1>5, <2>1 DEF TaskType
<1>7. Proceed(c, IF put = {} THEN "wipe" ELSE "put", u)
  BY <1>5 DEF Resolve
<1>8. CallType'
  BY <1>6, <1>7, ProceedType, Parts DEF PCs
<1> QED BY <1>8, ReadsKeep DEF Resolve

LEMMA PutType ==
  ASSUME TypeOK, NEW c \in Callers, Put(c)
  PROVE  TypeOK'
<1>0. CallType /\ SeatType /\ MarkType /\ MarkedAreKnown /\ RestType /\ FilesType
  BY Parts
<1>1. PICK e \in task[c].put :
        /\ seat' = [seat EXCEPT ![e.at][e.who] = IF e.full THEN "full" ELSE "empty"]
        /\ Proceed(c, IF task[c].put = {e} THEN "wipe" ELSE "put", [task[c] EXCEPT !.put = @ \ {e}])
  BY DEF Put
<1>2. task[c] \in TaskType
  BY <1>0 DEF CallType
<1>3. [task[c] EXCEPT !.put = @ \ {e}] \in TaskType
  BY <1>2 DEF TaskType
<1>4. CallType'
  BY <1>0, <1>1, <1>3, ProceedType DEF PCs
<1>5. SeatType' /\ MarkedAreKnown'
  <2>1. PICK s \in {"empty", "full"} : seat' = [seat EXCEPT ![e.at][e.who] = s]
    BY <1>1
  <2>2. SeatType'
    BY <1>0, <2>1 DEF SeatType
  <2>3. ASSUME NEW g \in Groups, NEW m \in Members, seat[g][m] # "unknown"
        PROVE  seat'[g][m] # "unknown"
    BY <1>0, <2>1, <2>3 DEF SeatType
  <2>4. MarkedAreKnown'
    BY <1>0, <2>3 DEF Put, MarkedAreKnown
  <2> QED BY <2>2, <2>4
<1>6. MarkType' /\ FilesType' /\ RestType'
  BY <1>0, DisturbType DEF Put, At, MarkType, FilesType, RestType
<1> QED BY <1>4, <1>5, <1>6, PartsNext

LEMMA WipeType ==
  ASSUME TypeOK, NEW c \in Callers, Wipe(c)
  PROVE  TypeOK'
<1>0. CallType /\ SeatType /\ MarkType /\ MarkedAreKnown /\ RestType /\ FilesType
  BY Parts
<1>1. task[c] \in TaskType
  BY <1>0 DEF CallType
<1>2. CallType'
  BY <1>0, <1>1, AdvanceType DEF Wipe, PCs
<1>3. MarkType'
  BY <1>0 DEF Wipe, MarkType, NoMarks
<1>4. MarkedAreKnown'
  BY <1>0 DEF Wipe, MarkType, MarkedAreKnown, NoMarks, Who
<1>5. SeatType' /\ FilesType' /\ RestType'
  BY <1>0, DisturbType DEF Wipe, At, SeatType, FilesType, RestType
<1> QED BY <1>2, <1>3, <1>4, <1>5, PartsNext

LEMMA TroubleType ==
  ASSUME RestType, Trouble
  PROVE  budget' \in [calls : Nat, troubles : Nat]
  BY DEF RestType, Trouble

LEMMA FailType ==
  ASSUME TypeOK, NEW c \in Callers, Fail(c)
  PROVE  TypeOK'
<1>0. CallType /\ SeatType /\ MarkType /\ MarkedAreKnown /\ RestType /\ FilesType
  BY Parts
<1>1. CallType'
  <2>1. task[c] \in TaskType
    BY <1>0 DEF CallType
  <2> QED BY <1>0, <2>1, ReturnType DEF Fail, Says
<1>2. SeatType' /\ MarkType' /\ MarkedAreKnown' /\ FilesType'
  BY <1>0 DEF Fail, SeatType, MarkType, MarkedAreKnown, FilesType
<1>3. RestType'
  BY <1>0, TroubleType DEF Fail, RestType
<1> QED BY <1>1, <1>2, <1>3, PartsNext

LEMMA EditType ==
  ASSUME TypeOK, Edit
  PROVE  TypeOK'
<1>0. CallType /\ SeatType /\ MarkType /\ MarkedAreKnown /\ RestType /\ FilesType
  BY Parts
<1>1. PICK g \in Groups, m \in Members : \E to \in Edits(seat[g][m]) :
        seat' = [seat EXCEPT ![g][m] = to]
  BY DEF Edit
<1>2. SeatType' /\ MarkedAreKnown'
  BY <1>0, <1>1 DEF Edit, Edits, SeatType, MarkedAreKnown
<1>3. CallType' /\ MarkType' /\ FilesType'
  BY <1>0 DEF Edit, CallType, MarkType, FilesType
<1>4. RestType'
  BY <1>0, TroubleType DEF Edit, RestType
<1> QED BY <1>2, <1>3, <1>4, PartsNext

LEMMA ToggleType ==
  ASSUME TypeOK, Toggle
  PROVE  TypeOK'
<1>0. CallType /\ SeatType /\ MarkType /\ MarkedAreKnown /\ RestType /\ FilesType
  BY Parts
<1>1. CallType' /\ SeatType' /\ MarkType' /\ MarkedAreKnown' /\ FilesType'
  BY <1>0 DEF Toggle, CallType, SeatType, MarkType, MarkedAreKnown, FilesType
<1>2. RestType'
  BY <1>0, TroubleType DEF Toggle, RestType
<1> QED BY <1>1, <1>2, PartsNext

--------------------------------------------------------------------------------
(* The marks of a call that is listed keep the kind it was asked for.      *)
LEMMA CallsKeepInv ==
  ASSUME CallType, CallInv, NEW c \in Callers, pc[c] # "idle", NEW q, NEW t,
         t.op = task[c].op, t.kind = task[c].kind, q = "list" => t.op \in Marking,
         Proceed(c, q, t)
  PROVE  CallInv'
  BY DEF CallType, CallInv, Proceed

LEMMA EndsKeepInv ==
  ASSUME CallType, CallInv, NEW c \in Callers, NEW a, NEW t, Return(c, a, t)
  PROVE  CallInv'
<1>1. NoTask.op \notin Marking
  BY DEF NoTask, Marking
<1> QED BY <1>1 DEF CallType, CallInv, Return

LEMMA AdvancesKeepInv ==
  ASSUME CallType, CallInv, NEW c \in Callers, pc[c] # "idle", NEW q, NEW left, NEW t,
         t.op = task[c].op, t.kind = task[c].kind, q # "list", Advance(c, q, left, t)
  PROVE  CallInv'
<1>1. CASE left = {} BY <1>1, EndsKeepInv DEF Advance
<1>2. CASE left # {} BY <1>2, CallsKeepInv DEF Advance
<1> QED BY <1>1, <1>2

LEMMA FoundKeepsInv ==
  ASSUME CallType, CallInv, NEW c \in Callers, pc[c] # "idle", NEW wide, Found(c, task[c], wide)
  PROVE  CallInv'
<1> DEFINE cut == {d \in Listed(task[c]) : mark[task[c].at][task[c].who][d] # None}
           u == [task[c] EXCEPT !.cut = cut, !.wide = wide \ cut]
<1>1. u.op = task[c].op /\ u.kind = task[c].kind
  BY DEF CallType, TaskType
<1>2. Advance(c, "cut", cut, u)
  BY DEF Found
<1> HIDE DEF u, cut
<1> QED BY <1>1, <1>2, AdvancesKeepInv

LEMMA StartKeepsInv ==
  ASSUME CallType, CallInv, NEW c \in Callers, Start(c)
  PROVE  CallInv'
<1>1. PICK op \in Ops, g \in Groups, w \in Who, days \in Listings \cup {<<>>},
           kind \in Kinds \cup {None} :
        /\ Sensible(op, w, days, kind)
        /\ task' = [task EXCEPT ![c] = [NoTask EXCEPT !.op = op, !.group = g, !.who = w,
                                                      !.days = days, !.kind = kind]]
        /\ pc' = [pc EXCEPT ![c] = First(op)]
  BY DEF Start
<1>2. First(op) # "list"
  BY DEF First
<1> DEFINE t == [NoTask EXCEPT !.op = op, !.group = g, !.who = w, !.days = days, !.kind = kind]
<1>3. t.op = op /\ t.kind = kind
  BY NoTaskType DEF TaskType
<1>4. op \in Marking => kind \in Kinds
  BY <1>1 DEF Sensible
<1>5. task' = [task EXCEPT ![c] = t]
  BY <1>1
<1>6. answer' = [answer EXCEPT ![c] = NoAnswer] /\ NoAnswer.gone = {}
  BY DEF Start, NoAnswer
<1> HIDE DEF t
<1>7. ASSUME NEW b \in Callers
      PROVE  /\ task'[b].op \in Marking => task'[b].kind \in Kinds
             /\ pc'[b] = "list" => task'[b].op \in Marking
             /\ pc'[b] # "idle" => answer'[b].gone = {}
  <2>1. CASE b = c
    BY <1>1, <1>2, <1>3, <1>4, <1>5, <1>6, <2>1 DEF CallType
  <2>2. CASE b # c
    BY <1>1, <1>5, <1>6, <2>2 DEF CallType, CallInv
  <2> QED BY <2>1, <2>2
<1> QED BY <1>7 DEF CallInv

LEMMA AimKeepsInv ==
  ASSUME CallType, CallInv, NEW c \in Callers, Aim(c)
  PROVE  CallInv'
<1> DEFINE t == [task[c] EXCEPT !.at = Home(task[c].group, task[c].who)]
           u == [t EXCEPT !.cut = Listed(t)]
<1>1. t.op = task[c].op /\ t.kind = task[c].kind /\ u.op = task[c].op /\ u.kind = task[c].kind
  BY DEF CallType, TaskType
<1>2. \/ Return(c, "notfound", t)
      \/ t.op \in Marking /\ Proceed(c, "list", t)
      \/ Proceed(c, "listGroup", t)
      \/ Proceed(c, "cut", u)
  BY DEF Aim, Marking
<1>0. pc[c] # "idle"
  BY DEF Aim, Reads, At
<1> HIDE DEF t, u
<1>3. CASE Return(c, "notfound", t)
  BY <1>3, EndsKeepInv
<1>4. CASE t.op \in Marking /\ Proceed(c, "list", t)
  BY <1>1, <1>4, <1>0, CallsKeepInv
<1>5. CASE Proceed(c, "listGroup", t)
  BY <1>1, <1>5, <1>0, CallsKeepInv
<1>6. CASE Proceed(c, "cut", u)
  BY <1>1, <1>6, <1>0, CallsKeepInv
<1> QED BY <1>2, <1>3, <1>4, <1>5, <1>6

LEMMA InvKept ==
  ASSUME IInv, [Next]_vars
  PROVE  CallInv'
<1>0. CallType /\ CallInv /\ TypeOK
  BY Parts DEF IInv
<1>1. ASSUME NEW c \in Callers, List(c)
      PROVE  CallInv'
  <2>0. pc[c] # "idle"
    BY <1>1 DEF List, Reads, At
  <2> DEFINE t == task[c]
             u == [t EXCEPT !.set =
               {[who |-> t.who, day |-> d, kind |-> t.kind, at |-> t.at] : d \in Listed(t)}]
  <2>1. u.op = t.op /\ u.kind = t.kind
    BY <1>0 DEF CallType, TaskType
  <2>2. Return(c, "limit", t) \/ Proceed(c, "mark", u)
    BY <1>1 DEF List
  <2> HIDE DEF u
  <2> QED BY <1>0, <2>0, <2>1, <2>2, EndsKeepInv, CallsKeepInv
<1>2. ASSUME NEW c \in Callers, Mark(c)
      PROVE  CallInv'
  <2>0. pc[c] # "idle"
    BY <1>2 DEF Mark, At
  <2>1. PICK m : \/ Return(c, "notfound", task[c])
                 \/ Advance(c, "mark", task[c].set \ {m}, [task[c] EXCEPT !.set = @ \ {m}])
    BY <1>2 DEF Mark
  <2> DEFINE u == [task[c] EXCEPT !.set = @ \ {m}]
  <2>2. u.op = task[c].op /\ u.kind = task[c].kind
    BY <1>0 DEF CallType, TaskType
  <2>3. Return(c, "notfound", task[c]) \/ Advance(c, "mark", task[c].set \ {m}, u)
    BY <2>1
  <2> HIDE DEF u
  <2> QED BY <1>0, <2>0, <2>2, <2>3, EndsKeepInv, AdvancesKeepInv
<1>3. ASSUME NEW c \in Callers, ListGroup(c)
      PROVE  CallInv'
  <2>0. pc[c] # "idle"
    BY <1>3 DEF ListGroup, Reads, At
  <2> DEFINE wide == {d \in Listed(task[c]) : task[c].who # All /\ mark[task[c].group][All][d] # None}
             u == [task[c] EXCEPT !.wide = wide]
  <2>1. u.op = task[c].op /\ u.kind = task[c].kind
    BY <1>0 DEF CallType, TaskType
  <2>2. Found(c, task[c], wide) \/ Proceed(c, "listHome", u)
    BY <1>3 DEF ListGroup
  <2> HIDE DEF u
  <2> QED BY <1>0, <2>0, <2>1, <2>2, FoundKeepsInv, CallsKeepInv
<1>4. ASSUME NEW c \in Callers, ListHome(c)
      PROVE  CallInv'
  BY <1>0, <1>4, FoundKeepsInv DEF ListHome, Reads, At
<1>5. ASSUME NEW c \in Callers, Cut(c)
      PROVE  CallInv'
  <2>0. pc[c] # "idle"
    BY <1>5 DEF Cut, At
  <2>1. PICK d : Advance(c, "cut", task[c].cut \ {d},
                   [task[c] EXCEPT !.cut = @ \ {d},
                                   !.gone = @ \cup IF Deleted(task[c], d) THEN {d} ELSE {}])
    BY <1>5 DEF Cut
  <2> DEFINE u == [task[c] EXCEPT !.cut = @ \ {d},
                                  !.gone = @ \cup IF Deleted(task[c], d) THEN {d} ELSE {}]
  <2>2. u.op = task[c].op /\ u.kind = task[c].kind
    BY <1>0 DEF CallType, TaskType
  <2>3. Advance(c, "cut", task[c].cut \ {d}, u)
    BY <2>1
  <2> HIDE DEF u
  <2> QED BY <1>0, <2>0, <2>2, <2>3, AdvancesKeepInv
<1>6. ASSUME NEW c \in Callers, ExportMembers(c)
      PROVE  CallInv'
  <2>0. pc[c] # "idle"
    BY <1>6 DEF ExportMembers, Reads, At
  <2> DEFINE put == {[who |-> m, full |-> seat[task[c].group][m] = "full", at |-> task[c].group] :
                       m \in {m \in Members : HasRow(task[c].group, m)}}
             u == [task[c] EXCEPT !.put = put]
  <2>1. u.op = task[c].op /\ u.kind = task[c].kind
    BY <1>0 DEF CallType, TaskType
  <2>2. Proceed(c, "marks", u)
    BY <1>6 DEF ExportMembers
  <2> HIDE DEF u
  <2> QED BY <1>0, <2>0, <2>1, <2>2, CallsKeepInv
<1>7. ASSUME NEW c \in Callers, Resolve(c)
      PROVE  CallInv'
  <2>0. pc[c] # "idle"
    BY <1>7 DEF Resolve, Reads, At
  <2>1. PICK put, set, far :
          Proceed(c, IF put = {} THEN "wipe" ELSE "put",
                  [task[c] EXCEPT !.put = put, !.set = set, !.far = far])
    BY <1>7 DEF Resolve
  <2> DEFINE u == [task[c] EXCEPT !.put = put, !.set = set, !.far = far]
  <2>2. u.op = task[c].op /\ u.kind = task[c].kind
    BY <1>0 DEF CallType, TaskType
  <2>3. Proceed(c, "wipe", u) \/ Proceed(c, "put", u)
    BY <2>1
  <2> HIDE DEF u
  <2> QED BY <1>0, <2>0, <2>2, <2>3, CallsKeepInv
<1>8. ASSUME NEW c \in Callers, Put(c)
      PROVE  CallInv'
  <2>0. pc[c] # "idle"
    BY <1>8 DEF Put, At
  <2>1. PICK e : Proceed(c, IF task[c].put = {e} THEN "wipe" ELSE "put",
                         [task[c] EXCEPT !.put = @ \ {e}])
    BY <1>8 DEF Put
  <2> DEFINE u == [task[c] EXCEPT !.put = @ \ {e}]
  <2>2. u.op = task[c].op /\ u.kind = task[c].kind
    BY <1>0 DEF CallType, TaskType
  <2>3. Proceed(c, "wipe", u) \/ Proceed(c, "put", u)
    BY <2>1
  <2> HIDE DEF u
  <2> QED BY <1>0, <2>0, <2>2, <2>3, CallsKeepInv
<1>9. ASSUME NEW c \in Callers, Wipe(c)
      PROVE  CallInv'
  BY <1>0, <1>9, AdvancesKeepInv DEF Wipe, At
<1>10. ASSUME NEW c \in Callers, ExportMarks(c) \/ Fail(c)
       PROVE  CallInv'
  BY <1>0, <1>10, EndsKeepInv DEF ExportMarks, Fail
<1>11. ASSUME Edit \/ Toggle \/ UNCHANGED vars
       PROVE  CallInv'
  BY <1>0, <1>11 DEF Edit, Toggle, vars, CallInv
<1> QED BY <1>0, <1>1, <1>2, <1>3, <1>4, <1>5, <1>6, <1>7, <1>8, <1>9, <1>10, <1>11,
           StartKeepsInv, AimKeepsInv DEF Next
--------------------------------------------------------------------------------
LEMMA InitIInv == Init => IInv
<1> SUFFICES ASSUME Init PROVE IInv
  OBVIOUS
<1>1. NoTask \in TaskType /\ NoTask.op \notin Marking
  BY NoTaskType DEF NoTask, Marking
<1>2. CallType
  BY <1>1 DEF Init, CallType, NoAnswer, Says, PCs
<1>3. SeatType /\ MarkType /\ MarkedAreKnown
  BY EarlierAssumption DEF Init, SeatType, MarkType
<1>4. RestType
  BY CapsAssumption DEF Init, RestType
<1>5. FilesType
  BY DEF Init, FilesType, FileType, NoFile
<1>6. CallInv
  BY <1>1 DEF Init, CallInv
<1> QED BY <1>2, <1>3, <1>4, <1>5, <1>6, Parts DEF IInv

LEMMA NextIInv == IInv /\ [Next]_vars => IInv'
<1> SUFFICES ASSUME IInv, [Next]_vars PROVE IInv'
  OBVIOUS
<1>1. TypeOK
  BY DEF IInv
<1>2. TypeOK'
  <2>1. CASE UNCHANGED vars
    BY <1>1, <2>1 DEF vars, TypeOK, MarkedAreKnown
  <2> QED BY <1>1, <2>1, StartType, AimType, ListType, MarkActionType, ListGroupType,
             ListHomeType, CutType, ExportMembersType, ExportMarksType, ResolveType,
             PutType, WipeType, FailType, EditType, ToggleType DEF Next
<1> QED BY <1>2, InvKept DEF IInv

(* What the runs check of MCDayMarks holds of every instance: the columns  *)
(* of group_day_overrides and its foreign key.                             *)
THEOREM MarksTypeCorrect == Spec => []TypeOK
<1>1. IInv => TypeOK
  BY DEF IInv
<1> QED BY <1>1, InitIInv, NextIInv, PTL DEF Spec

LEMMA ClaimStep ==
  ASSUME IInv, [Next]_vars, NEW c \in Callers, pc[c] = "cut",
         NEW d \in (task'[c].gone \cup answer'[c].gone) \ task[c].gone
  PROVE  LET t == task[c] IN mark[t.at][t.who][d] # None /\ mark'[t.at][t.who][d] = None
<1>0. CallType /\ MarkType /\ task[c] \in TaskType /\ answer[c].gone = {}
  BY Parts DEF IInv, CallInv, CallType
<1>1. ~UNCHANGED <<task[c], answer[c]>>
  BY <1>0
<1>2. ASSUME NEW b \in Callers \ {c}, NEW t, NEW a, NEW q,
             Return(b, a, t) \/ Proceed(b, q, t)
      PROVE  FALSE
  BY <1>0, <1>1, <1>2 DEF Return, Proceed, CallType
<1>3. ASSUME NEW b \in Callers, Start(b)
      PROVE  FALSE
  <2>1. b # c
    BY <1>3 DEF Start
  <2> QED BY <1>0, <1>1, <1>3, <2>1 DEF Start, CallType
<1>4. PICK b \in Callers :
        \/ Aim(b) \/ List(b) \/ Mark(b) \/ ListGroup(b) \/ ListHome(b) \/ Cut(b)
        \/ ExportMembers(b) \/ ExportMarks(b) \/ Resolve(b) \/ Put(b) \/ Wipe(b) \/ Fail(b)
  BY <1>1, <1>3 DEF Next, vars, Edit, Toggle
<1>5. \E t, a, q : Return(b, a, t) \/ Proceed(b, q, t)
  BY <1>4 DEF Aim, List, Mark, ListGroup, ListHome, Found, Cut, ExportMembers, ExportMarks,
              Resolve, Put, Wipe, Fail, Advance
<1>6. b = c
  BY <1>2, <1>5
<1>7. Cut(c) \/ Fail(c)
  BY <1>4, <1>6 DEF Aim, List, Mark, ListGroup, ListHome, ExportMembers, ExportMarks, Resolve,
                    Put, Wipe, Reads, At
<1>8. CASE Fail(c)
  <2>1. Return(c, "error", task[c])
    BY <1>8 DEF Fail
  <2>2. task'[c].gone = {} /\ answer'[c].gone = {}
    BY <1>0, <2>1, NoTaskType DEF Return, CallType, NoTask
  <2> QED BY <2>2
<1>9. CASE Cut(c)
  <2>1. PICK e \in task[c].cut :
          /\ mark' = [mark EXCEPT ![task[c].at][task[c].who][e] = None]
          /\ Advance(c, "cut", task[c].cut \ {e},
                     [task[c] EXCEPT !.cut = @ \ {e},
                                     !.gone = @ \cup IF Deleted(task[c], e) THEN {e} ELSE {}])
    BY <1>9 DEF Cut
  <2> DEFINE u == [task[c] EXCEPT !.cut = @ \ {e},
                                  !.gone = @ \cup IF Deleted(task[c], e) THEN {e} ELSE {}]
  <2>2. u.gone = task[c].gone \cup IF Deleted(task[c], e) THEN {e} ELSE {}
    BY <1>0 DEF TaskType
  <2>3. Return(c, "ok", u) \/ Proceed(c, "cut", u)
    BY <2>1 DEF Advance
  <2> HIDE DEF u
  <2>4. task'[c].gone \cup answer'[c].gone = u.gone
    <3>1. CASE Return(c, "ok", u)
      BY <1>0, <3>1 DEF Return, CallType, NoTask
    <3>2. CASE Proceed(c, "cut", u)
      BY <1>0, <3>2 DEF Proceed, CallType
    <3> QED BY <2>3, <3>1, <3>2
  <2>5. d = e /\ Deleted(task[c], e)
    BY <2>2, <2>4
  <2>6. task[c].at \in Groups /\ task[c].who \in Who /\ e \in Days
    BY <1>0, <2>1 DEF TaskType
  <2> QED BY <1>0, <2>1, <2>5, <2>6 DEF Deleted, MarkType
<1> QED BY <1>7, <1>8, <1>9

(* A call never claims a mark it has not deleted, whatever the others do   *)
(* between its reading the marks and deleting them.                        *)
THEOREM ClaimsTrue == Spec => ClaimsAreTrue
<1> DEFINE Claim ==
  \A c \in Callers : pc[c] = "cut" =>
    \A d \in (task'[c].gone \cup answer'[c].gone) \ task[c].gone :
      LET t == task[c] IN mark[t.at][t.who][d] # None /\ mark'[t.at][t.who][d] = None
<1>1. IInv /\ [Next]_vars => [Claim]_vars
  BY ClaimStep
<1> QED BY <1>1, InitIInv, NextIInv, PTL DEF Spec, ClaimsAreTrue

--------------------------------------------------------------------------------
(* The limit.  As long as calls do not overlap and no restore has strayed, *)
(* what a call that has counted is about to write still fits: the marks of *)
(* a group together with those that are pending for it.                    *)
CellsOf(mk, g) == {cell \in Cells : mk[g][cell[1]][cell[2]] # None}
Limits(mk) == \A g \in Groups : Cardinality(CellsOf(mk, g)) <= MaxMarks
Pending(t, g) == {<<m.who, m.day>> : m \in {m \in t.set : m.at = g}}
Filed(f) == {<<m.who, m.day>> : m \in f.marks}

Fits(q, t, mk) ==
  /\ q = "mark" => \A g \in Groups :
       (t.op = "restore" => g = t.group) =>
         Cardinality(CellsOf(mk, g) \cup Pending(t, g)) <= MaxMarks
  /\ q \in {"put", "wipe"} => \A g \in Groups : Cardinality(Pending(t, g)) <= MaxMarks
  /\ q \in {"resolve", "put", "wipe"} => t.op = "restore"

OneCall == \A c, d \in Callers : pc[c] # "idle" /\ pc[d] # "idle" => c = d
Undisturbed == alone /\ ~strayed
AllFits ==
  /\ OneCall /\ Limits(mark) /\ Cardinality(Filed(file)) <= MaxMarks
  /\ \A c \in Callers : Fits(pc[c], task[c], mark)
RoomInv == Undisturbed => AllFits

LEMMA CellsFinite == IsFiniteSet(Cells)
<1>1. IsFiniteSet(Who)
  BY SetsAssumption, FS_AddElement DEF Who
<1> QED BY <1>1, SetsAssumption, FS_Product DEF Cells

LEMMA Smaller ==
  ASSUME NEW T, T \subseteq Cells, Cardinality(T) <= MaxMarks, NEW S, S \subseteq T
  PROVE  Cardinality(S) <= MaxMarks
<1>1. IsFiniteSet(T) /\ IsFiniteSet(S)
  BY CellsFinite, FS_Subset
<1>2. Cardinality(S) <= Cardinality(T) /\ Cardinality(S) \in Nat /\ Cardinality(T) \in Nat
  BY <1>1, FS_Subset, FS_CardinalityType
<1> QED BY <1>2, CapsAssumption

LEMMA MarkedCells ==
  ASSUME NEW g \in Groups
  PROVE  Marked(g) = CellsOf(mark, g) /\ Marked(g)' = CellsOf(mark', g)
  BY DEF Marked, CellsOf, Cells, Who

LEMMA PendingCells ==
  ASSUME NEW t \in TaskType, NEW g
  PROVE  Pending(t, g) \subseteq Cells
  BY DEF TaskType, Pending, Cells

(* A step of the one call that is under way, after which it has t to do at *)
(* q: the others are idle and stay so.                                     *)
Becomes(c, q, t) ==
  /\ pc[c] # "idle" /\ alone' = alone /\ (strayed => strayed')
  /\ pc' = [pc EXCEPT ![c] = q] /\ task' = [task EXCEPT ![c] = t]

LEMMA BecomesFits ==
  ASSUME CallType, RoomInv, NEW c \in Callers, NEW q, NEW t, Becomes(c, q, t),
         Undisturbed /\ Undisturbed' => Limits(mark') /\ Fits(q, t, mark')
           /\ Cardinality(Filed(file')) <= MaxMarks
  PROVE  RoomInv'
<1> SUFFICES ASSUME Undisturbed'
             PROVE  AllFits'
  BY DEF RoomInv
<1>1. Undisturbed /\ AllFits
  BY DEF Undisturbed, Becomes, RoomInv
<1>2. /\ pc'[c] = q /\ task'[c] = t
      /\ \A d \in Callers \ {c} : pc'[d] = pc[d] /\ task'[d] = task[d]
  BY DEF Becomes, CallType
<1>3. \A d \in Callers \ {c} : pc[d] = "idle"
  BY <1>1 DEF AllFits, OneCall, Becomes
<1>4. OneCall'
  BY <1>2, <1>3 DEF OneCall
<1>5. Fits(pc'[c], task'[c], mark')
  BY <1>1, <1>2
<1>6. ASSUME NEW d \in Callers \ {c} PROVE Fits(pc'[d], task'[d], mark')
  BY <1>2, <1>3 DEF Fits
<1> QED BY <1>1, <1>4, <1>5, <1>6 DEF AllFits

LEMMA IdleFits == \A t, mk : Fits("idle", t, mk)
  BY DEF Fits

(* Such a step that changes neither the marks nor the file.                *)
LEMMA ReadsFits ==
  ASSUME CallType, RoomInv, NEW c \in Callers, NEW q, NEW t, Becomes(c, q, t),
         mark' = mark, file' = file, Undisturbed /\ AllFits => Fits(q, t, mark)
  PROVE  RoomInv'
<1>1. Undisturbed => Limits(mark') /\ Fits(q, t, mark') /\ Cardinality(Filed(file')) <= MaxMarks
  BY DEF RoomInv, AllFits
<1> QED BY <1>1, BecomesFits

LEMMA Moves ==
  ASSUME NEW c \in Callers, pc[c] # "idle", alone' = alone, strayed => strayed', NEW t
  PROVE  /\ \A a : Return(c, a, t) => Becomes(c, "idle", NoTask)
         /\ \A q : Proceed(c, q, t) => Becomes(c, q, t)
  BY DEF Return, Proceed, Becomes

LEMMA ReturnFits ==
  ASSUME CallType, RoomInv, NEW c \in Callers, pc[c] # "idle", alone' = alone,
         strayed' = strayed, mark' = mark, file' = file, NEW a, NEW t, Return(c, a, t)
  PROVE  RoomInv'
<1>1. Becomes(c, "idle", NoTask)
  BY Moves
<1> QED BY <1>1, ReadsFits, IdleFits

(* Most statements are not about to write new marks afterwards.            *)
LEMMA ProceedFits ==
  ASSUME CallType, RoomInv, NEW c \in Callers, pc[c] # "idle", alone' = alone,
         strayed' = strayed, mark' = mark, file' = file, NEW q, NEW t, Proceed(c, q, t),
         q \notin {"mark", "put", "wipe", "resolve"}
  PROVE  RoomInv'
<1>1. Becomes(c, q, t)
  BY Moves
<1>2. Fits(q, t, mark)
  BY DEF Fits
<1> QED BY <1>1, <1>2, ReadsFits

(* A call that starts while none is under way has counted nothing yet.     *)
LEMMA StartFits == ASSUME TypeOK, RoomInv, NEW c \in Callers, Start(c) PROVE RoomInv'
<1> SUFFICES ASSUME Undisturbed' PROVE AllFits'
  BY DEF RoomInv
<1>1. Undisturbed /\ AllFits /\ \A d \in Callers \ {c} : pc[d] = "idle"
  BY DEF Undisturbed, Start, RoomInv
<1>2. PICK op \in Ops, g \in Groups, w \in Who, days \in Listings \cup {<<>>},
           kind \in Kinds \cup {None} :
        /\ Sensible(op, w, days, kind)
        /\ task' = [task EXCEPT ![c] = [NoTask EXCEPT !.op = op, !.group = g, !.who = w,
                                                      !.days = days, !.kind = kind]]
        /\ pc' = [pc EXCEPT ![c] = First(op)]
  BY DEF Start
<1> DEFINE t == [NoTask EXCEPT !.op = op, !.group = g, !.who = w, !.days = days, !.kind = kind]
<1>3. t.op = op
  BY DEF NoTask
<1> HIDE DEF t
<1>4. /\ pc'[c] = First(op) /\ task'[c] = t
      /\ \A d \in Callers \ {c} : pc'[d] = "idle" /\ task'[d] = task[d]
  BY <1>1, <1>2 DEF TypeOK, t
<1>5. First(op) \in {"members", "resolve", "aim"} /\ (First(op) = "resolve" => op = "restore")
  BY DEF First
<1>6. Fits(pc'[c], task'[c], mark')
  BY <1>3, <1>4, <1>5 DEF Fits
<1>7. \A d \in Callers \ {c} : Fits(pc'[d], task'[d], mark')
  BY <1>4, IdleFits
<1>8. OneCall'
  BY <1>4 DEF OneCall
<1> QED BY <1>1, <1>6, <1>7, <1>8 DEF AllFits, Start

LEMMA AimFits == ASSUME TypeOK, RoomInv, NEW c \in Callers, Aim(c) PROVE RoomInv'
<1>1. /\ pc[c] # "idle" /\ alone' = alone /\ strayed' = strayed /\ mark' = mark /\ file' = file
      /\ CallType
  BY Parts DEF Aim, Reads, At
<1> DEFINE t == [task[c] EXCEPT !.at = Home(task[c].group, task[c].who)]
           u == [t EXCEPT !.cut = Listed(t)]
<1>2. \/ Return(c, "notfound", t)
      \/ Proceed(c, "list", t)
      \/ Proceed(c, "listGroup", t)
      \/ Proceed(c, "cut", u)
  BY DEF Aim
<1> HIDE DEF t, u
<1>3. CASE Return(c, "notfound", t) BY <1>1, <1>3, ReturnFits
<1>4. CASE Proceed(c, "list", t) BY <1>1, <1>4, ProceedFits
<1>5. CASE Proceed(c, "listGroup", t) BY <1>1, <1>5, ProceedFits
<1>6. CASE Proceed(c, "cut", u) BY <1>1, <1>6, ProceedFits
<1> QED BY <1>2, <1>3, <1>4, <1>5, <1>6

(* What List has counted: the marks there are and those that are new.      *)
LEMMA CountedFits ==
  ASSUME TypeOK, NEW t \in TaskType, ~TooMany(t), Count(t.at) <= MaxMarks
  PROVE  Cardinality(Marked(t.at) \cup {<<t.who, d>> : d \in Listed(t)}) <= MaxMarks
<1> DEFINE old == Marked(t.at)
           all == {<<t.who, d>> : d \in Listed(t)}
           add == {<<t.who, t.days[i]>> : i \in New(t)}
<1>1. /\ t.at \in Groups /\ t.who \in Who /\ t.days \in Seq(Days)
      /\ Listed(t) \in SUBSET Days
  <2>1. <<>> \in Seq(Days)
    OBVIOUS
  <2> QED BY <2>1, ListedType, ListingsAssumption DEF TaskType
<1>2. all \subseteq old \cup add
  BY <1>1 DEF Listed, New, Marked, Cells
<1>3. IsFiniteSet(New(t)) /\ Cardinality(New(t)) \in Nat
  <2>1. DOMAIN t.days = 1..Len(t.days) /\ Len(t.days) \in Nat
    BY <1>1
  <2>2. IsFiniteSet(DOMAIN t.days)
    BY <2>1, FS_Interval
  <2> QED BY <2>2, FS_Subset, FS_CardinalityType DEF New
<1>4. IsFiniteSet(add) /\ Cardinality(add) <= Cardinality(New(t))
  <2> DEFINE f == [i \in New(t) |-> <<t.who, t.days[i]>>]
  <2>1. f \in Surjection(New(t), add)
    BY DEF Surjection
  <2> QED BY <1>3, <2>1, FS_Surjection
<1>5. old \subseteq Cells /\ add \subseteq Cells
  BY <1>1 DEF Marked, New, Cells
<1>6. IsFiniteSet(old) /\ Cardinality(old) \in Nat /\ Cardinality(add) \in Nat
  BY <1>4, <1>5, CellsFinite, FS_Subset, FS_CardinalityType
<1>7. Cardinality(old \cup add) <= MaxMarks
  <2>1. CASE New(t) = {}
    <3>1. old \cup add = old
      BY <2>1
    <3> QED BY <3>1 DEF Count
  <2>2. CASE New(t) # {}
    <3>1. Cardinality(old) + Cardinality(New(t)) <= MaxMarks
      BY <1>3, <1>6, <2>2, CapsAssumption DEF TooMany, Count
    <3>2. Cardinality(old \cup add) <= Cardinality(old) + Cardinality(add)
      <4>1. /\ Cardinality(old \cup add) =
                 Cardinality(old) + Cardinality(add) - Cardinality(old \cap add)
            /\ Cardinality(old \cap add) \in Nat
        BY <1>4, <1>6, FS_Union, FS_Intersection, FS_CardinalityType
      <4> QED BY <1>6, <4>1
    <3>3. Cardinality(old \cup add) \in Nat
      BY <1>4, <1>6, FS_Union, FS_CardinalityType
    <3> QED BY <1>3, <1>4, <1>6, <3>1, <3>2, <3>3, CapsAssumption
  <2> QED BY <2>1, <2>2
<1> QED BY <1>2, <1>5, <1>7, Smaller

LEMMA ListFits == ASSUME IInv, RoomInv, NEW c \in Callers, List(c) PROVE RoomInv'
<1> DEFINE t == task[c]
           set == {[who |-> t.who, day |-> d, kind |-> t.kind, at |-> t.at] : d \in Listed(t)}
           u == [t EXCEPT !.set = set]
<1>1. /\ pc[c] # "idle" /\ alone' = alone /\ strayed' = strayed /\ mark' = mark /\ file' = file
      /\ CallType /\ TypeOK /\ t \in TaskType
  BY Parts DEF List, Reads, At, IInv, CallType
<1>2. CASE Return(c, "limit", t)
  BY <1>1, <1>2, ReturnFits
<1>3. CASE ~TooMany(t) /\ Proceed(c, "mark", u)
  <2>1. u.set = set
    BY <1>1 DEF TaskType
  <2>2. \A m \in set : m.at = t.at /\ m.who = t.who /\ m.day \in Listed(t)
    OBVIOUS
  <2>3. ASSUME NEW g \in Groups, Limits(mark)
        PROVE  Cardinality(CellsOf(mark, g) \cup Pending(u, g)) <= MaxMarks
    <3>1. CASE g = t.at
      <4>1. Cardinality(Marked(g) \cup {<<t.who, d>> : d \in Listed(t)}) <= MaxMarks
        BY <1>1, <1>3, <2>3, <3>1, CountedFits, MarkedCells DEF Limits, Count
      <4>2. {<<t.who, d>> : d \in Listed(t)} \subseteq Cells
        BY <1>1, ListedType DEF Cells, TaskType
      <4>3. CellsOf(mark, g) \cup Pending(u, g) \subseteq Marked(g) \cup {<<t.who, d>> : d \in Listed(t)}
        BY <2>1, <2>2, MarkedCells DEF Pending
      <4>4. Marked(g) \subseteq Cells
        BY DEF Marked
      <4> QED BY <4>1, <4>2, <4>3, <4>4, Smaller
    <3>2. CASE g # t.at
      <4>1. Pending(u, g) = {}
        BY <2>1, <2>2, <3>2 DEF Pending
      <4>2. CellsOf(mark, g) \cup Pending(u, g) = CellsOf(mark, g)
        BY <4>1
      <4> QED BY <2>3, <4>2 DEF Limits
    <3> QED BY <3>1, <3>2
  <2>4. Undisturbed /\ AllFits => Fits("mark", u, mark)
    BY <2>3 DEF AllFits, Fits
  <2>5. Becomes(c, "mark", u)
    BY <1>1, <1>3, Moves
  <2> QED BY <1>1, <2>4, <2>5, ReadsFits
<1> QED BY <1>2, <1>3 DEF List

(* A mark that is written was pending: nothing more is than before.        *)
LEMMA MarkFits == ASSUME IInv, RoomInv, NEW c \in Callers, Mark(c) PROVE RoomInv'
<1>1. /\ pc[c] = "mark" /\ alone' = alone /\ file' = file
      /\ CallType /\ TypeOK /\ task[c] \in TaskType /\ MarkType
  BY Parts DEF Mark, At, IInv, CallType
<1>2. PICK m \in task[c].set :
        \/ /\ Unknown(m) /\ Return(c, "notfound", task[c])
           /\ UNCHANGED <<mark, strayed, quiet>>
        \/ /\ ~Unknown(m)
           /\ mark' = [mark EXCEPT ![m.at][m.who][m.day] = m.kind]
           /\ Advance(c, "mark", task[c].set \ {m}, [task[c] EXCEPT !.set = @ \ {m}])
           /\ strayed' = (strayed \/ (task[c].op = "restore" /\ m.at # task[c].group))
           /\ Disturb(c)
  BY DEF Mark
<1>3. CASE Return(c, "notfound", task[c]) /\ UNCHANGED <<mark, strayed, quiet>>
  BY <1>1, <1>3, ReturnFits
<1>4. CASE /\ mark' = [mark EXCEPT ![m.at][m.who][m.day] = m.kind]
           /\ Advance(c, "mark", task[c].set \ {m}, [task[c] EXCEPT !.set = @ \ {m}])
           /\ strayed' = (strayed \/ (task[c].op = "restore" /\ m.at # task[c].group))
  <2> DEFINE t == task[c]
             u == [t EXCEPT !.set = @ \ {m}]
  <2>1. u.set = t.set \ {m} /\ u.op = t.op /\ u.group = t.group /\ u \in TaskType
    BY <1>1 DEF TaskType
  <2>2. m \in [who : Who, day : Days, kind : Kinds, at : Groups]
    BY <1>1 DEF TaskType
  <2> HIDE DEF u
  <2>3. ASSUME NEW g \in Groups
        PROVE  CellsOf(mark', g) \cup Pending(u, g) \subseteq CellsOf(mark, g) \cup Pending(t, g)
    <3>1. CASE g = m.at
      <4>1. mark'[g] = [mark[g] EXCEPT ![m.who][m.day] = m.kind]
        BY <1>1, <1>4, <2>2, <3>1 DEF MarkType
      <4>2. CellsOf(mark', g) \subseteq CellsOf(mark, g) \cup {<<m.who, m.day>>}
        BY <1>1, <2>2, <4>1, <3>1 DEF CellsOf, Cells, MarkType
      <4>3. <<m.who, m.day>> \in Pending(t, g)
        BY <3>1 DEF Pending
      <4> QED BY <2>1, <4>2, <4>3 DEF Pending
    <3>2. CASE g # m.at
      <4>1. mark'[g] = mark[g]
        BY <1>1, <1>4, <2>2, <3>2 DEF MarkType
      <4> QED BY <2>1, <4>1 DEF Pending, CellsOf
    <3> QED BY <3>1, <3>2
  <2>4. ASSUME NEW g \in Groups, AllFits, t.op = "restore" => g = t.group
        PROVE  Cardinality(CellsOf(mark', g) \cup Pending(u, g)) <= MaxMarks
    <3>1. Cardinality(CellsOf(mark, g) \cup Pending(t, g)) <= MaxMarks
      BY <1>1, <2>4 DEF AllFits, Fits
    <3>2. CellsOf(mark, g) \cup Pending(t, g) \subseteq Cells
      BY <1>1, PendingCells DEF CellsOf
    <3> QED BY <2>3, <3>1, <3>2, Smaller
  <2>5. ASSUME Undisturbed', AllFits PROVE Limits(mark')
    <3> SUFFICES ASSUME NEW g \in Groups PROVE Cardinality(CellsOf(mark', g)) <= MaxMarks
      BY DEF Limits
    <3>1. CASE t.op = "restore" => g = t.group
      <4>1. CellsOf(mark', g) \cup Pending(u, g) \subseteq Cells
        BY <2>1, PendingCells DEF CellsOf
      <4> QED BY <2>4, <2>5, <3>1, <4>1, Smaller
    <3>2. CASE t.op = "restore" /\ g # t.group
      <4>1. m.at = t.group
        BY <1>4, <2>5, <3>2 DEF Undisturbed
      <4>2. mark'[g] = mark[g]
        BY <1>1, <1>4, <2>2, <3>2, <4>1 DEF MarkType
      <4> QED BY <2>5, <4>2 DEF AllFits, Limits, CellsOf
    <3> QED BY <3>1, <3>2
  <2>6. AllFits => Fits("mark", u, mark')
    BY <2>1, <2>4 DEF Fits
  <2>7. Undisturbed /\ Undisturbed' =>
          AllFits /\ Limits(mark') /\ Cardinality(Filed(file')) <= MaxMarks
    BY <1>1, <2>5 DEF RoomInv, AllFits
  <2>8. Return(c, "ok", u) \/ Proceed(c, "mark", u)
    BY <1>4 DEF Advance, u
  <2>9. Becomes(c, "idle", NoTask) \/ Becomes(c, "mark", u)
    <3>1. strayed => strayed'
      BY <1>4
    <3> QED BY <1>1, <2>8, <3>1, Moves
  <2>10. CASE Becomes(c, "idle", NoTask)
    BY <1>1, <2>7, <2>10, IdleFits, BecomesFits
  <2>11. CASE Becomes(c, "mark", u)
    BY <1>1, <2>6, <2>7, <2>11, BecomesFits
  <2> QED BY <2>9, <2>10, <2>11
<1> QED BY <1>2, <1>3, <1>4

LEMMA FoundFits ==
  ASSUME CallType, RoomInv, NEW c \in Callers, NEW q, Reads(c, q), q # "idle",
         NEW t, NEW wide, Found(c, t, wide)
  PROVE  RoomInv'
<1>1. pc[c] # "idle" /\ alone' = alone /\ strayed' = strayed /\ mark' = mark /\ file' = file
  BY DEF Reads, At
<1>2. PICK u : Return(c, "ok", u) \/ Proceed(c, "cut", u)
  BY DEF Found, Advance
<1>3. CASE Return(c, "ok", u) BY <1>1, <1>3, ReturnFits
<1>4. CASE Proceed(c, "cut", u) BY <1>1, <1>4, ProceedFits
<1> QED BY <1>2, <1>3, <1>4

LEMMA ListGroupFits == ASSUME CallType, RoomInv, NEW c \in Callers, ListGroup(c) PROVE RoomInv'
<1> DEFINE t == task[c]
           wide == {d \in Listed(t) : t.who # All /\ mark[t.group][All][d] # None}
           u == [t EXCEPT !.wide = wide]
<1>1. Reads(c, "listGroup") /\ (Found(c, t, wide) \/ Proceed(c, "listHome", u))
  BY DEF ListGroup
<1>2. pc[c] # "idle" /\ alone' = alone /\ strayed' = strayed /\ mark' = mark /\ file' = file
  BY <1>1 DEF Reads, At
<1> HIDE DEF t, wide, u
<1>3. CASE Found(c, t, wide) BY <1>1, <1>3, FoundFits
<1>4. CASE Proceed(c, "listHome", u) BY <1>2, <1>4, ProceedFits
<1> QED BY <1>1, <1>3, <1>4

LEMMA ListHomeFits == ASSUME CallType, RoomInv, NEW c \in Callers, ListHome(c) PROVE RoomInv'
  BY FoundFits DEF ListHome

LEMMA CutFits == ASSUME IInv, RoomInv, NEW c \in Callers, Cut(c) PROVE RoomInv'
<1>1. /\ pc[c] = "cut" /\ alone' = alone /\ file' = file /\ strayed' = strayed
      /\ CallType /\ task[c] \in TaskType /\ MarkType
  BY Parts DEF Cut, At, IInv, CallType
<1>2. PICK d \in task[c].cut :
        /\ mark' = [mark EXCEPT ![task[c].at][task[c].who][d] = None]
        /\ Advance(c, "cut", task[c].cut \ {d},
                   [task[c] EXCEPT !.cut = @ \ {d},
                                   !.gone = @ \cup IF Deleted(task[c], d) THEN {d} ELSE {}])
  BY DEF Cut
<1> DEFINE u == [task[c] EXCEPT !.cut = @ \ {d},
                                !.gone = @ \cup IF Deleted(task[c], d) THEN {d} ELSE {}]
<1>3. Return(c, "ok", u) \/ Proceed(c, "cut", u)
  BY <1>2 DEF Advance
<1> HIDE DEF u
<1>4. Becomes(c, "idle", NoTask) \/ Becomes(c, "cut", u)
  BY <1>1, <1>3, Moves
<1>5. ASSUME NEW g \in Groups PROVE CellsOf(mark', g) \subseteq CellsOf(mark, g)
  <2>1. ASSUME NEW w \in Who, NEW e \in Days, mark'[g][w][e] # None PROVE mark[g][w][e] # None
    <3>1. mark \in [Groups -> [Who -> [Days -> Kinds \cup {None}]]]
      BY <1>1 DEF MarkType
    <3>2. Without(mark, task[c].at, task[c].who, d)[g][w][e] # None
      BY <1>2, <2>1, Zenon DEF Without
    <3> QED BY <3>1, <3>2, Cleared
  <2> QED BY <2>1 DEF CellsOf, Cells
<1>6. Undisturbed => Limits(mark') /\ Cardinality(Filed(file')) <= MaxMarks
  <2> SUFFICES ASSUME AllFits PROVE Limits(mark')
    BY <1>1 DEF RoomInv, AllFits
  <2>1. ASSUME NEW g \in Groups PROVE Cardinality(CellsOf(mark', g)) <= MaxMarks
    <3>1. CellsOf(mark, g) \subseteq Cells /\ Cardinality(CellsOf(mark, g)) <= MaxMarks
      BY DEF CellsOf, AllFits, Limits
    <3> QED BY <1>5, <3>1, Smaller
  <2> QED BY <2>1 DEF Limits
<1>7. Fits("cut", u, mark') /\ Fits("idle", NoTask, mark')
  BY DEF Fits
<1> QED BY <1>1, <1>4, <1>6, <1>7, BecomesFits

LEMMA ExportMembersFits ==
  ASSUME CallType, RoomInv, NEW c \in Callers, ExportMembers(c) PROVE RoomInv'
<1>1. pc[c] # "idle" /\ alone' = alone /\ strayed' = strayed /\ mark' = mark /\ file' = file
  BY DEF ExportMembers, Reads, At
<1> DEFINE put == {[who |-> m, full |-> seat[task[c].group][m] = "full", at |-> task[c].group] :
                     m \in {m \in Members : HasRow(task[c].group, m)}}
           u == [task[c] EXCEPT !.put = put]
<1>2. Proceed(c, "marks", u)
  BY DEF ExportMembers
<1> HIDE DEF u
<1> QED BY <1>1, <1>2, ProceedFits

(* A file has no more marks than the group it was exported from.           *)
LEMMA ExportMarksFits == ASSUME IInv, RoomInv, NEW c \in Callers, ExportMarks(c) PROVE RoomInv'
<1>1. /\ pc[c] # "idle" /\ alone' = alone /\ strayed' = strayed /\ mark' = mark
      /\ CallType /\ task[c].group \in Groups /\ Return(c, "ok", task[c])
  BY Parts DEF ExportMarks, At, IInv, CallType, TaskType
<1> DEFINE g == task[c].group
           marks == {[who |-> p[1], day |-> p[2], kind |-> mark[g][p[1]][p[2]]] : p \in Marked(g)}
<1>2. file'.marks = marks
  BY DEF ExportMarks
<1>3. \A p \in Marked(g) : p = <<p[1], p[2]>>
  BY DEF Marked, Cells
<1>4. Filed(file') \subseteq Marked(g)
  BY <1>2, <1>3 DEF Filed
<1>5. AllFits => Cardinality(Filed(file')) <= MaxMarks
  <2> SUFFICES ASSUME AllFits PROVE Cardinality(Filed(file')) <= MaxMarks
    OBVIOUS
  <2>1. Cardinality(Marked(g)) <= MaxMarks /\ Marked(g) \subseteq Cells
    BY <1>1, MarkedCells DEF AllFits, Limits, CellsOf
  <2> QED BY <1>4, <2>1, Smaller
<1>6. Becomes(c, "idle", NoTask)
  BY <1>1, Moves
<1>7. Undisturbed => Limits(mark') /\ Cardinality(Filed(file')) <= MaxMarks
  BY <1>1, <1>5 DEF RoomInv, AllFits
<1> QED BY <1>1, <1>6, <1>7, IdleFits, BecomesFits

LEMMA ResolveFits == ASSUME IInv, RoomInv, NEW c \in Callers, Resolve(c) PROVE RoomInv'
<1>1. /\ pc[c] = "resolve" /\ alone' = alone /\ strayed' = strayed /\ mark' = mark /\ file' = file
      /\ CallType /\ task[c] \in TaskType /\ FilesType
  BY Parts DEF Resolve, Reads, At, IInv, CallType
<1> DEFINE g == task[c].group
           put == {[who |-> e.who, full |-> e.full, at |-> Home(g, e.who)] : e \in file.members}
           set == {[who |-> m.who, day |-> m.day, kind |-> m.kind, at |-> Home(g, m.who)] : m \in file.marks}
           far == \E x \in put \cup set : x.at # g
           u == [task[c] EXCEPT !.put = put, !.set = set, !.far = far]
<1>2. Proceed(c, IF put = {} THEN "wipe" ELSE "put", u)
  BY DEF Resolve
<1>3. u.op = task[c].op /\ u.set = set
  BY <1>1 DEF TaskType
<1>4. ASSUME NEW h \in Groups, AllFits PROVE Cardinality(Pending(u, h)) <= MaxMarks
  <2>1. Pending(u, h) \subseteq Filed(file)
    BY <1>3 DEF Pending, Filed
  <2>2. Filed(file) \subseteq Cells /\ Cardinality(Filed(file)) <= MaxMarks
    BY <1>1, <1>4 DEF Filed, FilesType, FileType, Cells, AllFits
  <2> QED BY <2>1, <2>2, Smaller
<1>5. AllFits => task[c].op = "restore"
  BY <1>1 DEF AllFits, Fits
<1> HIDE DEF u, put, set, far
<1>6. PICK q \in {"wipe", "put"} : Proceed(c, q, u)
  BY <1>2
<1>7. AllFits => Fits(q, u, mark)
  BY <1>3, <1>4, <1>5 DEF Fits
<1>8. Becomes(c, q, u)
  BY <1>1, <1>6, Moves
<1> QED BY <1>1, <1>7, <1>8, ReadsFits

LEMMA PutFits == ASSUME IInv, RoomInv, NEW c \in Callers, Put(c) PROVE RoomInv'
<1>1. /\ pc[c] = "put" /\ alone' = alone /\ strayed' = strayed /\ mark' = mark /\ file' = file
      /\ CallType /\ task[c] \in TaskType
  BY Parts DEF Put, At, IInv, CallType
<1>2. PICK e : Proceed(c, IF task[c].put = {e} THEN "wipe" ELSE "put",
                       [task[c] EXCEPT !.put = @ \ {e}])
  BY DEF Put
<1> DEFINE u == [task[c] EXCEPT !.put = @ \ {e}]
<1>3. u.op = task[c].op /\ u.set = task[c].set
  BY <1>1 DEF TaskType
<1> HIDE DEF u
<1>4. PICK q \in {"wipe", "put"} : Proceed(c, q, u)
  BY <1>2 DEF u
<1>5. AllFits => Fits(q, u, mark)
  BY <1>1, <1>3 DEF AllFits, Fits, Pending
<1>6. Becomes(c, q, u)
  BY <1>1, <1>4, Moves
<1> QED BY <1>1, <1>5, <1>6, ReadsFits

(* A group that has been emptied has room for all the marks of the file.   *)
LEMMA WipeFits == ASSUME IInv, RoomInv, NEW c \in Callers, Wipe(c) PROVE RoomInv'
<1> DEFINE t == task[c]
<1>1. /\ pc[c] = "wipe" /\ alone' = alone /\ strayed' = strayed /\ file' = file
      /\ CallType /\ t \in TaskType /\ MarkType
      /\ mark' = [mark EXCEPT ![t.group] = NoMarks] /\ Advance(c, "mark", t.set, t)
  BY Parts DEF Wipe, At, IInv, CallType
<1>2. \A g \in Groups : mark'[g] = IF g = t.group THEN NoMarks ELSE mark[g]
  BY <1>1 DEF MarkType
<1>3. CellsOf(mark', t.group) = {}
  BY <1>1, <1>2 DEF CellsOf, NoMarks, Cells, TaskType
<1>4. \A g \in Groups : CellsOf(mark', g) \subseteq CellsOf(mark, g)
  BY <1>2, <1>3 DEF CellsOf
<1>5. AllFits => Limits(mark')
  <2> SUFFICES ASSUME AllFits, NEW g \in Groups PROVE Cardinality(CellsOf(mark', g)) <= MaxMarks
    BY DEF Limits
  <2>1. CellsOf(mark, g) \subseteq Cells /\ Cardinality(CellsOf(mark, g)) <= MaxMarks
    BY DEF CellsOf, AllFits, Limits
  <2> QED BY <1>4, <2>1, Smaller
<1>6. AllFits => Fits("mark", t, mark')
  <2> SUFFICES ASSUME AllFits PROVE Fits("mark", t, mark')
    OBVIOUS
  <2>1. t.op = "restore" /\ Cardinality(Pending(t, t.group)) <= MaxMarks
    BY <1>1 DEF AllFits, Fits, TaskType
  <2>2. CellsOf(mark', t.group) \cup Pending(t, t.group) = Pending(t, t.group)
    BY <1>3
  <2> HIDE DEF t
  <2> QED BY <2>1, <2>2 DEF Fits
<1>7. Undisturbed => AllFits /\ Limits(mark') /\ Cardinality(Filed(file')) <= MaxMarks
  BY <1>1, <1>5 DEF RoomInv, AllFits
<1>8. Becomes(c, "idle", NoTask) \/ Becomes(c, "mark", t)
  BY <1>1, Moves DEF Advance
<1> HIDE DEF t
<1>9. CASE Becomes(c, "idle", NoTask)
  BY <1>1, <1>7, <1>9, IdleFits, BecomesFits
<1>10. CASE Becomes(c, "mark", t)
  BY <1>1, <1>6, <1>7, <1>10, BecomesFits
<1> QED BY <1>8, <1>9, <1>10

LEMMA FailFits == ASSUME CallType, RoomInv, NEW c \in Callers, Fail(c) PROVE RoomInv'
<1>1. /\ pc[c] # "idle" /\ alone' = alone /\ strayed' = strayed /\ mark' = mark /\ file' = file
      /\ Return(c, "error", task[c])
  BY DEF Fail
<1> QED BY <1>1, ReturnFits

LEMMA NextFits == IInv /\ RoomInv /\ [Next]_vars => RoomInv'
<1> SUFFICES ASSUME IInv, RoomInv, [Next]_vars PROVE RoomInv'
  OBVIOUS
<1>1. TypeOK /\ CallType
  BY Parts DEF IInv
<1>2. CASE UNCHANGED <<mark, file, pc, task, alone, strayed>>
  BY <1>2 DEF RoomInv, Undisturbed, AllFits, OneCall
<1>3. Edit \/ Toggle \/ UNCHANGED vars => UNCHANGED <<mark, file, pc, task, alone, strayed>>
  BY DEF Edit, Toggle, vars
<1> QED BY <1>1, <1>2, <1>3, StartFits, AimFits, ListFits, MarkFits, ListGroupFits, ListHomeFits,
           CutFits, ExportMembersFits, ExportMarksFits, ResolveFits, PutFits, WipeFits, FailFits
        DEF Next

(* THEOREM.  SetDayOverridesForTargets and the page count the marks before *)
(* they write them one at a time: as long as calls do not overlap and no   *)
(* restore writes where it has not cleared, no group exceeds the limit,    *)
(* through marks set, cleared, exported and restored in any order.         *)
THEOREM LimitHolds == Spec => []LimitKept
<1>1. Init => RoomInv
  <2> SUFFICES ASSUME Init PROVE AllFits
    BY DEF RoomInv
  <2>1. Limits(mark)
    <3>1. ASSUME NEW old \in Earlier, NEW g \in Groups
          PROVE  Cardinality(CellsOf(old, g)) <= MaxMarks
      BY EarlierAssumption DEF CellsOf, Cells
    <3> QED BY <3>1 DEF Limits, Init
  <2>2. Filed(file) = {}
    BY DEF Init, NoFile, Filed
  <2>3. Cardinality(Filed(file)) <= MaxMarks
    BY <2>2, FS_EmptySet, CapsAssumption
  <2>4. OneCall /\ \A c \in Callers : Fits(pc[c], task[c], mark)
    BY IdleFits DEF Init, OneCall
  <2> QED BY <2>1, <2>3, <2>4 DEF AllFits
<1>2. RoomInv => LimitKept
  BY MarkedCells DEF RoomInv, Undisturbed, AllFits, Limits, LimitKept, Count
<1> QED BY <1>1, <1>2, InitIInv, NextIInv, NextFits, PTL DEF Spec

--------------------------------------------------------------------------------
(* What a call that nobody has disturbed has done so far: a restore whose  *)
(* members all have their place in its group, and a call that marks days.  *)
StagesOf(op) ==
  IF op \in Marking THEN {"aim", "list", "mark"}
  ELSE IF op = "restore" THEN {"resolve", "put", "wipe", "mark"}
  ELSE IF op = "export" THEN {"members", "marks"}
  ELSE {"aim", "listGroup", "listHome", "cut"}

HeldAs(e) == IF e.full THEN "full" ELSE "empty"
ToPut(e, g) == [who |-> e.who, full |-> e.full, at |-> g]
ToSet(m, g) == [who |-> m.who, day |-> m.day, kind |-> m.kind, at |-> g]
AllToSet(g) == {ToSet(m, g) : m \in file.marks}

SeatsDone(g, left) == \A e \in file.members : ToPut(e, g) \in left \/ seat[g][e.who] = HeldAs(e)
MarksDone(g, left) ==
  /\ \A m \in file.marks : ToSet(m, g) \in left \/ mark[g][m.who][m.day] = m.kind
  /\ \A w \in Who, d \in Days :
       (\A m \in file.marks : ~(m.who = w /\ m.day = d)) => mark[g][w][d] = None

Restoring(q, t) ==
  /\ q = "put" => t.put \subseteq {ToPut(e, t.group) : e \in file.members}
                  /\ SeatsDone(t.group, t.put)
  /\ q \in {"wipe", "mark"} => SeatsDone(t.group, {})
  /\ q \in {"put", "wipe"} => t.set = AllToSet(t.group)
  /\ q = "mark" => t.set \subseteq AllToSet(t.group) /\ MarksDone(t.group, t.set)

ToMark(t, d) == [who |-> t.who, day |-> d, kind |-> t.kind, at |-> t.at]
MarkingDays(q, t) ==
  /\ q \in {"list", "mark"} => t.at = Home(t.group, t.who)
  /\ q = "mark" =>
       /\ t.set \subseteq {ToMark(t, d) : d \in Listed(t)}
       /\ \A d \in Listed(t) : ToMark(t, d) \in t.set \/ mark[t.at][t.who][d] = t.kind

Progress(q, t) ==
  /\ t.op = "restore" /\ ~t.far => Restoring(q, t)
  /\ t.op \in Marking => MarkingDays(q, t)

OnePerMember(s) == \A x, y \in s : x.who = y.who => x = y
OnePerCell(s) == \A m, n \in s : m.who = n.who /\ m.day = n.day => m = n
FileInv == OnePerMember(file.members) /\ OnePerCell(file.marks)

StageInv(c) ==
  /\ pc[c] # "idle" => pc[c] \in StagesOf(task[c].op)
  /\ pc[c] = "marks" => OnePerMember(task[c].put)
ProgressInv(c) == quiet[c] => Progress(pc[c], task[c])
QuietInv == FileInv /\ \A c \in Callers : StageInv(c) /\ ProgressInv(c)

(* A step of c that leaves it with u to do at q.  The others' calls are    *)
(* disturbed by it unless it has changed nothing.                          *)
Quietly(c) ==
  \A d \in Callers \ {c} : quiet'[d] => quiet[d] /\ UNCHANGED <<mark, seat, mode, file>>
Moved(c, q, u) ==
  /\ pc[c] # "idle" /\ (quiet'[c] => quiet[c]) /\ Quietly(c)
  /\ pc' = [pc EXCEPT ![c] = q] /\ task' = [task EXCEPT ![c] = u]

LEMMA UnmovedProgress ==
  ASSUME NEW c \in Callers, ProgressInv(c), StageInv(c), pc'[c] = pc[c], task'[c] = task[c],
         quiet'[c] => quiet[c] /\ UNCHANGED <<mark, seat, mode, file>>
  PROVE  ProgressInv(c)' /\ StageInv(c)'
<1>1. StageInv(c)'
  BY DEF StageInv
<1>2. ASSUME quiet'[c]
      PROVE  Progress(pc[c], task[c])'
  <2>1. Progress(pc[c], task[c]) /\ UNCHANGED <<mark, seat, mode, file>>
    BY <1>2 DEF ProgressInv
  <2>2. \A g, w : Home(g, w)' = Home(g, w)
    BY <2>1 DEF Home, Elsewhere
  <2> QED BY <2>1, <2>2 DEF Progress, Restoring, SeatsDone, MarksDone, AllToSet, MarkingDays
<1> QED BY <1>1, <1>2 DEF ProgressInv

LEMMA MovedQuiet ==
  ASSUME CallType, QuietInv, NEW c \in Callers, NEW q, NEW u, Moved(c, q, u), FileInv',
         q # "idle" => q \in StagesOf(u.op),
         q = "marks" => OnePerMember(u.put),
         quiet[c] /\ quiet'[c] => Progress(q, u)'
  PROVE  QuietInv'
<1>1. /\ pc'[c] = q /\ task'[c] = u
      /\ \A d \in Callers \ {c} : pc'[d] = pc[d] /\ task'[d] = task[d]
  BY DEF Moved, CallType
<1>2. StageInv(c)' /\ ProgressInv(c)'
  BY <1>1 DEF StageInv, ProgressInv, Moved
<1>3. ASSUME NEW d \in Callers \ {c}
      PROVE  StageInv(d)' /\ ProgressInv(d)'
  BY <1>1, UnmovedProgress DEF QuietInv, Moved, Quietly
<1> QED BY <1>2, <1>3 DEF QuietInv

LEMMA NothingToDo ==
  ASSUME NEW t, NEW q \in PCs \ {"put", "wipe", "mark", "list"}
  PROVE  Progress(q, t) /\ Progress(q, t)'
  BY DEF Progress, Restoring, MarkingDays, PCs

LEMMA FileStays == ASSUME QuietInv, file' = file PROVE FileInv'
  BY DEF QuietInv, FileInv

(* A call that ends, and one that goes on without marks to keep.           *)
LEMMA ReturnQuiet ==
  ASSUME CallType, QuietInv, NEW c \in Callers, pc[c] # "idle", quiet'[c] => quiet[c], Quietly(c),
         FileInv', NEW a, NEW t, Return(c, a, t)
  PROVE  QuietInv'
<1>1. Moved(c, "idle", NoTask)
  BY DEF Moved, Return
<1>2. PICK u : u = NoTask
  OBVIOUS
<1>3. Progress("idle", u)'
  BY NothingToDo DEF PCs
<1> QED BY <1>1, <1>2, <1>3, MovedQuiet

LEMMA ProceedQuiet ==
  ASSUME CallType, QuietInv, NEW c \in Callers, pc[c] # "idle", quiet'[c] => quiet[c], Quietly(c),
         FileInv', NEW q \in PCs \ {"put", "wipe", "mark", "list", "marks"}, NEW u, Proceed(c, q, u),
         q \in StagesOf(u.op)
  PROVE  QuietInv'
<1>1. Moved(c, q, u)
  BY DEF Moved, Proceed
<1>2. Progress(q, u)'
  BY NothingToDo
<1> QED BY <1>1, <1>2, MovedQuiet

LEMMA ReadsQuietly ==
  ASSUME NEW c \in Callers, UNCHANGED <<mark, seat, mode, file, quiet>>
  PROVE  Quietly(c) /\ (quiet'[c] => quiet[c])
  BY DEF Quietly

LEMMA DisturbsQuietly ==
  ASSUME CallType, NEW c \in Callers, Disturb(c)
  PROVE  Quietly(c) /\ (quiet'[c] => quiet[c])
  BY DEF Quietly, Disturb

LEMMA Staged ==
  ASSUME QuietInv, NEW c \in Callers
  PROVE  /\ pc[c] # "idle" => pc[c] \in StagesOf(task[c].op)
         /\ quiet[c] => Progress(pc[c], task[c])
  BY DEF QuietInv, StageInv, ProgressInv

LEMMA StartQuiet == ASSUME TypeOK, QuietInv, NEW c \in Callers, Start(c) PROVE QuietInv'
<1>1. PICK op \in Ops, g \in Groups, w \in Who, days \in Listings \cup {<<>>},
           kind \in Kinds \cup {None} :
        /\ Sensible(op, w, days, kind)
        /\ task' = [task EXCEPT ![c] = [NoTask EXCEPT !.op = op, !.group = g, !.who = w,
                                                      !.days = days, !.kind = kind]]
        /\ pc' = [pc EXCEPT ![c] = First(op)]
  BY DEF Start
<1>2. PICK u : u = [NoTask EXCEPT !.op = op, !.group = g, !.who = w, !.days = days, !.kind = kind]
  OBVIOUS
<1>3. u.op = op
  BY <1>2 DEF NoTask
<1>4. First(op) \in StagesOf(op) /\ First(op) \in {"members", "resolve", "aim"}
  BY OpsAssumption DEF First, StagesOf, Marking, Clearing
<1>5. /\ pc'[c] = First(op) /\ task'[c] = u
      /\ \A d \in Callers \ {c} : pc'[d] = pc[d] /\ task'[d] = task[d] /\ quiet'[d] = quiet[d]
      /\ UNCHANGED <<mark, seat, mode, file>>
  BY <1>1, <1>2 DEF TypeOK, Start
<1>6. PICK q \in {"members", "resolve", "aim"} : q = First(op)
  BY <1>4
<1>7. Progress(q, u)'
  BY NothingToDo DEF PCs
<1>8. StageInv(c)' /\ ProgressInv(c)'
  BY <1>3, <1>4, <1>5, <1>6, <1>7 DEF StageInv, ProgressInv
<1>9. ASSUME NEW d \in Callers \ {c} PROVE StageInv(d)' /\ ProgressInv(d)'
  BY <1>5, UnmovedProgress DEF QuietInv
<1> QED BY <1>5, <1>8, <1>9, FileStays DEF QuietInv

LEMMA AimQuiet == ASSUME IInv, QuietInv, NEW c \in Callers, Aim(c) PROVE QuietInv'
<1>1. /\ pc[c] = "aim" /\ CallType /\ task[c] \in TaskType /\ FileInv'
      /\ UNCHANGED <<mark, seat, mode, file, quiet>>
  BY Parts, FileStays DEF Aim, Reads, At, IInv, CallType
<1>2. PICK t : t = [task[c] EXCEPT !.at = Home(task[c].group, task[c].who)]
  OBVIOUS
<1>3. PICK u : u = [t EXCEPT !.cut = Listed(t)]
  OBVIOUS
<1>4. /\ t.op = task[c].op /\ u.op = task[c].op
      /\ t.group = task[c].group /\ t.who = task[c].who /\ t.at = Home(t.group, t.who)
  BY <1>1, <1>2, <1>3 DEF TaskType
<1>5. \/ Return(c, "notfound", t)
      \/ t.op \in Marking /\ Proceed(c, "list", t)
      \/ t.op = "clear" /\ Proceed(c, "listGroup", t)
      \/ t.op = "webErase" /\ Proceed(c, "cut", u)
  BY <1>2, <1>3 DEF Aim, Marking
<1>6. Quietly(c) /\ (quiet'[c] => quiet[c])
  BY <1>1, ReadsQuietly
<1>7. CASE Return(c, "notfound", t)
  BY <1>1, <1>6, <1>7, ReturnQuiet
<1>8. CASE t.op \in Marking /\ Proceed(c, "list", t)
  <2>1. t.op # "restore" /\ "list" \in StagesOf(t.op)
    BY <1>8 DEF Marking, StagesOf
  <2>2. Home(t.group, t.who)' = Home(t.group, t.who)
    BY <1>1 DEF Home, Elsewhere
  <2>3. Progress("list", t)'
    BY <1>4, <2>1, <2>2 DEF Progress, MarkingDays
  <2>4. Moved(c, "list", t)
    BY <1>1, <1>6, <1>8 DEF Moved, Proceed
  <2> QED BY <1>1, <2>1, <2>3, <2>4, MovedQuiet
<1>9. CASE t.op = "clear" /\ Proceed(c, "listGroup", t)
  BY <1>1, <1>6, <1>9, ProceedQuiet DEF StagesOf, Marking, PCs
<1>10. CASE t.op = "webErase" /\ Proceed(c, "cut", u)
  BY <1>1, <1>4, <1>6, <1>10, ProceedQuiet DEF StagesOf, Marking, PCs
<1> QED BY <1>5, <1>7, <1>8, <1>9, <1>10

LEMMA ListQuiet == ASSUME IInv, QuietInv, NEW c \in Callers, List(c) PROVE QuietInv'
<1>1. /\ pc[c] = "list" /\ CallType /\ task[c] \in TaskType /\ FileInv' /\ task[c].op \in Marking
      /\ UNCHANGED <<mark, seat, mode, file, quiet>>
  BY Parts, FileStays DEF List, Reads, At, IInv, CallType, CallInv
<1>2. PICK t : t = task[c]
  OBVIOUS
<1>3. PICK u : u = [t EXCEPT !.set =
               {[who |-> t.who, day |-> d, kind |-> t.kind, at |-> t.at] : d \in Listed(t)}]
  OBVIOUS
<1>4. /\ u.op = t.op /\ u.group = t.group /\ u.who = t.who /\ u.at = t.at /\ u.kind = t.kind
      /\ u.days = t.days /\ u.set = {ToMark(u, d) : d \in Listed(u)}
  BY <1>1, <1>2, <1>3 DEF TaskType, ToMark, Listed
<1>5. Return(c, "limit", t) \/ Proceed(c, "mark", u)
  BY <1>2, <1>3 DEF List
<1>6. Quietly(c) /\ (quiet'[c] => quiet[c])
  BY <1>1, ReadsQuietly
<1>7. CASE Return(c, "limit", t)
  BY <1>1, <1>6, <1>7, ReturnQuiet
<1>8. CASE Proceed(c, "mark", u)
  <2>1. u.op # "restore" /\ "mark" \in StagesOf(u.op)
    BY <1>1, <1>2, <1>4 DEF Marking, StagesOf
  <2>2. Home(u.group, u.who)' = Home(u.group, u.who)
    BY <1>1 DEF Home, Elsewhere
  <2>3. quiet[c] => u.at = Home(u.group, u.who)
    BY <1>1, <1>2, <1>4, Staged DEF Progress, MarkingDays
  <2>4. quiet[c] => Progress("mark", u)'
    BY <1>4, <2>1, <2>2, <2>3 DEF Progress, MarkingDays
  <2>5. Moved(c, "mark", u)
    BY <1>1, <1>6, <1>8 DEF Moved, Proceed
  <2> QED BY <1>1, <2>1, <2>4, <2>5, MovedQuiet
<1> QED BY <1>5, <1>7, <1>8

(* One mark is written: of the pending ones m is done, and no other cell   *)
(* has changed.                                                            *)
LEMMA MarkQuiet == ASSUME IInv, QuietInv, NEW c \in Callers, Mark(c) PROVE QuietInv'
<1>1. /\ pc[c] = "mark" /\ CallType /\ MarkType /\ FilesType /\ task[c] \in TaskType /\ FileInv' /\ FileInv
      /\ UNCHANGED <<seat, mode, file>>
  BY Parts, FileStays DEF Mark, At, IInv, CallType, QuietInv
<1>2. PICK m \in task[c].set :
        \/ /\ Unknown(m) /\ Return(c, "notfound", task[c])
           /\ UNCHANGED <<mark, strayed, quiet>>
        \/ /\ ~Unknown(m)
           /\ mark' = [mark EXCEPT ![m.at][m.who][m.day] = m.kind]
           /\ Advance(c, "mark", task[c].set \ {m}, [task[c] EXCEPT !.set = @ \ {m}])
           /\ strayed' = (strayed \/ (task[c].op = "restore" /\ m.at # task[c].group))
           /\ Disturb(c)
  BY DEF Mark
<1>3. CASE Return(c, "notfound", task[c]) /\ UNCHANGED <<mark, quiet>>
  BY <1>1, <1>3, ReturnQuiet, ReadsQuietly
<1>4. CASE /\ mark' = [mark EXCEPT ![m.at][m.who][m.day] = m.kind]
           /\ Advance(c, "mark", task[c].set \ {m}, [task[c] EXCEPT !.set = @ \ {m}])
           /\ Disturb(c)
  <2>1. PICK t : t = task[c]
    OBVIOUS
  <2>2. PICK u : u = [t EXCEPT !.set = @ \ {m}]
    OBVIOUS
  <2>3. /\ u.op = t.op /\ u.group = t.group /\ u.who = t.who /\ u.at = t.at /\ u.kind = t.kind
        /\ u.days = t.days /\ u.far = t.far /\ u.set = t.set \ {m}
    BY <1>1, <2>1, <2>2 DEF TaskType
  <2>4. Quietly(c) /\ (quiet'[c] => quiet[c])
    BY <1>1, <1>4, DisturbsQuietly
  <2>5. Return(c, "ok", u) \/ Proceed(c, "mark", u)
    BY <1>4, <2>1, <2>2 DEF Advance
  <2>6. m \in [who : Who, day : Days, kind : Kinds, at : Groups]
    BY <1>1 DEF TaskType
  <2>7. \A g \in Groups, w \in Who, d \in Days :
          mark'[g][w][d] = IF g = m.at /\ w = m.who /\ d = m.day THEN m.kind ELSE mark[g][w][d]
    BY <1>1, <1>4, <2>6 DEF MarkType
  <2>8. "mark" \in StagesOf(u.op)
    BY <1>1, <2>1, <2>3, Staged
  <2>9. t.group \in Groups /\ t.at \in Groups /\ t.who \in Who /\ Listed(t) \in SUBSET Days
        /\ \A n \in file.marks : n.who \in Who /\ n.day \in Days
    BY <1>1, <2>1, ListedType DEF TaskType, FilesType, FileType
  <2>10. ASSUME quiet[c], u.op = "restore", ~u.far PROVE Restoring("mark", u)'
    <3>1. Restoring("mark", t)
      BY <1>1, <2>1, <2>3, <2>10, Staged DEF Progress
    <3>2. SeatsDone(u.group, {})' /\ u.set \subseteq AllToSet(u.group)'
      BY <1>1, <2>3, <3>1 DEF Restoring, SeatsDone, AllToSet
    <3>3. PICK n \in file.marks : m = ToSet(n, t.group)
      BY <2>1, <3>1 DEF Restoring, AllToSet
    <3>4. m.at = t.group /\ m.who = n.who /\ m.day = n.day /\ m.kind = n.kind
      BY <3>3 DEF ToSet
    <3>5. ASSUME NEW o \in file.marks, ToSet(o, t.group) \notin u.set
          PROVE  mark'[t.group][o.who][o.day] = o.kind
      <4>1. CASE o = n
        BY <2>7, <2>9, <3>4, <4>1
      <4>2. CASE o # n
        <5>1. ~(o.who = n.who /\ o.day = n.day)
          BY <1>1, <4>2 DEF FileInv, OnePerCell
        <5>2. ToSet(o, t.group) # m
          BY <3>4, <5>1 DEF ToSet
        <5>3. mark[t.group][o.who][o.day] = o.kind
          BY <2>3, <3>1, <3>5, <5>2 DEF Restoring, MarksDone
        <5> QED BY <2>7, <2>9, <3>4, <5>1, <5>3
      <4> QED BY <4>1, <4>2
    <3>6. ASSUME NEW w \in Who, NEW d \in Days,
                 \A o \in file.marks : ~(o.who = w /\ o.day = d)
          PROVE  mark'[t.group][w][d] = None
      <4>1. ~(n.who = w /\ n.day = d) /\ mark[t.group][w][d] = None
        BY <3>1, <3>6 DEF Restoring, MarksDone
      <4> QED BY <2>7, <2>9, <3>4, <4>1
    <3>7. MarksDone(u.group, u.set)'
      BY <1>1, <2>3, <3>5, <3>6 DEF MarksDone
    <3> QED BY <3>2, <3>7 DEF Restoring
  <2>11. ASSUME quiet[c], u.op \in Marking PROVE MarkingDays("mark", u)'
    <3>1. MarkingDays("mark", t)
      BY <1>1, <2>1, <2>3, <2>11, Staged DEF Progress
    <3>2. Home(u.group, u.who)' = Home(u.group, u.who)
      BY <1>1 DEF Home, Elsewhere
    <3>3. u.at = Home(u.group, u.who)'
      BY <2>3, <3>1, <3>2 DEF MarkingDays
    <3>4. PICK e \in Listed(t) : m = ToMark(t, e)
      BY <2>1, <3>1 DEF MarkingDays
    <3>5. m.at = t.at /\ m.who = t.who /\ m.day = e /\ m.kind = t.kind
      BY <3>4 DEF ToMark
    <3>6. Listed(u) = Listed(t) /\ \A d : ToMark(u, d) = ToMark(t, d)
      BY <2>3 DEF Listed, ToMark
    <3>7. ASSUME NEW d \in Listed(t), ToMark(t, d) \notin u.set
          PROVE  mark'[t.at][t.who][d] = t.kind
      <4>1. CASE d = e
        BY <2>7, <2>9, <3>5, <4>1
      <4>2. CASE d # e
        <5>1. ToMark(t, d) # m
          BY <3>5, <4>2 DEF ToMark
        <5>2. mark[t.at][t.who][d] = t.kind
          BY <2>3, <3>1, <3>7, <5>1 DEF MarkingDays
        <5> QED BY <2>7, <2>9, <3>5, <4>2, <5>2
      <4> QED BY <4>1, <4>2
    <3>8. u.set \subseteq {ToMark(u, d) : d \in Listed(u)}
      BY <2>3, <3>1, <3>6 DEF MarkingDays
    <3> QED BY <2>3, <3>3, <3>6, <3>7, <3>8 DEF MarkingDays
  <2>12. quiet[c] => Progress("mark", u)'
    BY <2>10, <2>11 DEF Progress
  <2>13. CASE Return(c, "ok", u)
    BY <1>1, <2>4, <2>13, ReturnQuiet
  <2>14. CASE Proceed(c, "mark", u)
    <3>1. Moved(c, "mark", u)
      BY <1>1, <2>4, <2>14 DEF Moved, Proceed
    <3> QED BY <1>1, <2>8, <2>12, <3>1, MovedQuiet
  <2> QED BY <2>5, <2>13, <2>14
<1> QED BY <1>2, <1>3, <1>4

LEMMA FoundQuiet ==
  ASSUME CallType, QuietInv, NEW c \in Callers, NEW t, NEW wide, Found(c, t, wide),
         pc[c] # "idle", UNCHANGED <<mark, seat, mode, file, quiet>>,
         t \in TaskType, "cut" \in StagesOf(t.op)
  PROVE  QuietInv'
<1> DEFINE cut == {d \in Listed(t) : mark[t.at][t.who][d] # None}
<1>1. PICK u : u = [t EXCEPT !.cut = cut, !.wide = wide \ cut]
  OBVIOUS
<1>2. u.op = t.op
  BY <1>1 DEF TaskType
<1>3. Return(c, "ok", u) \/ Proceed(c, "cut", u)
  BY <1>1 DEF Found, Advance
<1>4. Quietly(c) /\ (quiet'[c] => quiet[c]) /\ FileInv'
  BY ReadsQuietly, FileStays
<1>5. CASE Return(c, "ok", u)
  BY <1>4, <1>5, ReturnQuiet
<1>6. CASE Proceed(c, "cut", u)
  BY <1>2, <1>4, <1>6, ProceedQuiet DEF PCs
<1> QED BY <1>3, <1>5, <1>6

LEMMA ListGroupQuiet == ASSUME IInv, QuietInv, NEW c \in Callers, ListGroup(c) PROVE QuietInv'
<1>1. /\ pc[c] = "listGroup" /\ CallType /\ task[c] \in TaskType
      /\ UNCHANGED <<mark, seat, mode, file, quiet>>
  BY Parts DEF ListGroup, Reads, At, IInv, CallType
<1>2. {"cut", "listHome"} \subseteq StagesOf(task[c].op)
  BY <1>1, Staged DEF StagesOf
<1> DEFINE wide == {d \in Listed(task[c]) : task[c].who # All /\ mark[task[c].group][All][d] # None}
<1>3. PICK u : u = [task[c] EXCEPT !.wide = wide]
  OBVIOUS
<1>4. u.op = task[c].op
  BY <1>1, <1>3 DEF TaskType
<1>5. Found(c, task[c], wide) \/ Proceed(c, "listHome", u)
  BY <1>3 DEF ListGroup
<1> HIDE DEF wide
<1>6. CASE Found(c, task[c], wide)
  BY <1>1, <1>2, <1>6, FoundQuiet
<1>7. CASE Proceed(c, "listHome", u)
  <2>1. Quietly(c) /\ (quiet'[c] => quiet[c]) /\ FileInv'
    BY <1>1, ReadsQuietly, FileStays
  <2> QED BY <1>1, <1>2, <1>4, <1>7, <2>1, ProceedQuiet DEF PCs
<1> QED BY <1>5, <1>6, <1>7

LEMMA ListHomeQuiet == ASSUME IInv, QuietInv, NEW c \in Callers, ListHome(c) PROVE QuietInv'
<1>1. /\ pc[c] = "listHome" /\ CallType /\ task[c] \in TaskType
      /\ UNCHANGED <<mark, seat, mode, file, quiet>>
  BY Parts DEF ListHome, Reads, At, IInv, CallType
<1>2. "cut" \in StagesOf(task[c].op)
  BY <1>1, Staged DEF StagesOf
<1> QED BY <1>1, <1>2, FoundQuiet DEF ListHome

LEMMA CutQuiet == ASSUME IInv, QuietInv, NEW c \in Callers, Cut(c) PROVE QuietInv'
<1>1. /\ pc[c] = "cut" /\ CallType /\ task[c] \in TaskType /\ FileInv' /\ Disturb(c)
  BY Parts, FileStays DEF Cut, At, IInv, CallType
<1>2. PICK d : Advance(c, "cut", task[c].cut \ {d},
                 [task[c] EXCEPT !.cut = @ \ {d},
                                 !.gone = @ \cup IF Deleted(task[c], d) THEN {d} ELSE {}])
  BY DEF Cut
<1>3. PICK u : u = [task[c] EXCEPT !.cut = @ \ {d},
                                   !.gone = @ \cup IF Deleted(task[c], d) THEN {d} ELSE {}]
  OBVIOUS
<1>4. u.op = task[c].op /\ (Return(c, "ok", u) \/ Proceed(c, "cut", u))
  BY <1>1, <1>2, <1>3 DEF TaskType, Advance
<1>5. "cut" \in StagesOf(u.op) /\ Quietly(c) /\ (quiet'[c] => quiet[c])
  BY <1>1, <1>4, Staged, DisturbsQuietly
<1>6. CASE Return(c, "ok", u)
  BY <1>1, <1>5, <1>6, ReturnQuiet
<1>7. CASE Proceed(c, "cut", u)
  BY <1>1, <1>5, <1>7, ProceedQuiet DEF PCs
<1> QED BY <1>4, <1>6, <1>7

(* The file has one entry for a member, and one for a cell.                *)
LEMMA ExportMembersQuiet == ASSUME IInv, QuietInv, NEW c \in Callers, ExportMembers(c) PROVE QuietInv'
<1>1. /\ pc[c] = "members" /\ CallType /\ task[c] \in TaskType /\ FileInv'
      /\ UNCHANGED <<mark, seat, mode, file, quiet>>
  BY Parts, FileStays DEF ExportMembers, Reads, At, IInv, CallType
<1> DEFINE g == task[c].group
           put == {[who |-> m, full |-> seat[g][m] = "full", at |-> g] :
                     m \in {m \in Members : HasRow(g, m)}}
<1>2. PICK u : u = [task[c] EXCEPT !.put = put]
  OBVIOUS
<1>3. u.op = task[c].op /\ u.put = put /\ Proceed(c, "marks", u)
  BY <1>1, <1>2 DEF TaskType, ExportMembers
<1>4. OnePerMember(put)
  BY DEF OnePerMember
<1>5. u.op \notin Marking /\ u.op # "restore" /\ "marks" \in StagesOf(u.op)
  BY <1>1, <1>3, Staged DEF StagesOf
<1>6. Progress("marks", u)'
  BY NothingToDo DEF PCs
<1>7. Moved(c, "marks", u)
  BY <1>1, <1>3, ReadsQuietly DEF Moved, Proceed
<1> QED BY <1>1, <1>3, <1>4, <1>5, <1>6, <1>7, MovedQuiet

LEMMA ExportMarksQuiet == ASSUME IInv, QuietInv, NEW c \in Callers, ExportMarks(c) PROVE QuietInv'
<1>1. /\ pc[c] = "marks" /\ CallType /\ task[c] \in TaskType /\ Return(c, "ok", task[c])
      /\ Disturb(c)
  BY Parts DEF ExportMarks, At, IInv, CallType
<1> DEFINE g == task[c].group
<1>2. /\ file'.members = {[who |-> e.who, full |-> e.full] : e \in task[c].put}
      /\ file'.marks = {[who |-> p[1], day |-> p[2], kind |-> mark[g][p[1]][p[2]]] : p \in Marked(g)}
  BY DEF ExportMarks
<1>3. OnePerMember(task[c].put)
  BY <1>1 DEF QuietInv, StageInv
<1>4. OnePerMember(file'.members)
  BY <1>2, <1>3 DEF OnePerMember
<1>5. \A p \in Marked(g) : p = <<p[1], p[2]>>
  BY DEF Marked, Cells
<1>6. OnePerCell(file'.marks)
  BY <1>2, <1>5 DEF OnePerCell
<1>7. FileInv' /\ Quietly(c) /\ (quiet'[c] => quiet[c])
  BY <1>1, <1>4, <1>6, DisturbsQuietly DEF FileInv
<1> QED BY <1>1, <1>7, ReturnQuiet

LEMMA ResolveQuiet == ASSUME IInv, QuietInv, NEW c \in Callers, Resolve(c) PROVE QuietInv'
<1>1. /\ pc[c] = "resolve" /\ CallType /\ task[c] \in TaskType /\ FileInv'
      /\ UNCHANGED <<mark, seat, mode, file, quiet>>
  BY Parts, FileStays DEF Resolve, Reads, At, IInv, CallType
<1> DEFINE g == task[c].group
           put == {[who |-> e.who, full |-> e.full, at |-> Home(g, e.who)] : e \in file.members}
           set == {[who |-> m.who, day |-> m.day, kind |-> m.kind, at |-> Home(g, m.who)] : m \in file.marks}
           far == \E x \in put \cup set : x.at # g
<1>2. PICK u : u = [task[c] EXCEPT !.put = put, !.set = set, !.far = far]
  OBVIOUS
<1>3. /\ u.op = task[c].op /\ u.group = g /\ u.put = put /\ u.set = set /\ u.far = far
  BY <1>1, <1>2 DEF TaskType
<1>4. PICK q \in {"wipe", "put"} : Proceed(c, q, u) /\ (q = "wipe" => put = {})
  BY <1>2 DEF Resolve
<1>5. u.op = "restore" /\ q \in StagesOf(u.op)
  BY <1>1, <1>3, Staged DEF StagesOf, Marking
<1>6. ASSUME ~u.far PROVE Restoring(q, u)'
  <2>0. \A x \in put \cup set : x.at = g
    BY <1>3, <1>6
  <2>1. (\A e \in file.members : Home(g, e.who) = g) /\ (\A m \in file.marks : Home(g, m.who) = g)
    <3>1. ASSUME NEW e \in file.members PROVE Home(g, e.who) = g
      <4>1. [who |-> e.who, full |-> e.full, at |-> Home(g, e.who)] \in put \cup set
        OBVIOUS
      <4> QED BY <2>0, <4>1
    <3>2. ASSUME NEW m \in file.marks PROVE Home(g, m.who) = g
      <4>1. [who |-> m.who, day |-> m.day, kind |-> m.kind, at |-> Home(g, m.who)] \in put \cup set
        OBVIOUS
      <4> QED BY <2>0, <4>1
    <3> QED BY <3>1, <3>2
  <2>2. put = {ToPut(e, g) : e \in file.members} /\ set = AllToSet(g)
    BY <2>1 DEF ToPut, ToSet, AllToSet
  <2> HIDE DEF put, set, far
  <2>3. SeatsDone(g, put) /\ (q = "wipe" => SeatsDone(g, {}))
    BY <1>4, <2>2 DEF SeatsDone
  <2> QED BY <1>1, <1>3, <2>2, <2>3 DEF Restoring, SeatsDone, AllToSet
<1>7. Progress(q, u)'
  BY <1>5, <1>6 DEF Progress, Marking
<1>8. Moved(c, q, u)
  BY <1>1, <1>4, ReadsQuietly DEF Moved, Proceed
<1> QED BY <1>1, <1>5, <1>7, <1>8, MovedQuiet

LEMMA PutQuiet == ASSUME IInv, QuietInv, NEW c \in Callers, Put(c) PROVE QuietInv'
<1>1. /\ pc[c] = "put" /\ CallType /\ SeatType /\ FilesType /\ task[c] \in TaskType
      /\ FileInv' /\ FileInv /\ UNCHANGED <<mark, mode, file>> /\ Disturb(c)
  BY Parts, FileStays DEF Put, At, IInv, CallType, QuietInv
<1>2. PICK t : t = task[c]
  OBVIOUS
<1>3. PICK e \in t.put :
        /\ seat' = [seat EXCEPT ![e.at][e.who] = IF e.full THEN "full" ELSE "empty"]
        /\ Proceed(c, IF t.put = {e} THEN "wipe" ELSE "put", [t EXCEPT !.put = @ \ {e}])
  BY <1>2 DEF Put
<1>4. PICK u : u = [t EXCEPT !.put = @ \ {e}]
  OBVIOUS
<1>5. /\ u.op = t.op /\ u.group = t.group /\ u.set = t.set /\ u.far = t.far /\ u.put = t.put \ {e}
  BY <1>1, <1>2, <1>4 DEF TaskType
<1>6. PICK q \in {"wipe", "put"} : Proceed(c, q, u) /\ (q = "wipe" => u.put = {})
  BY <1>3, <1>4, <1>5
<1>7. u.op = "restore" /\ q \in StagesOf(u.op)
  BY <1>1, <1>2, <1>5, Staged DEF StagesOf, Marking
<1>8. ASSUME quiet[c], ~u.far PROVE Restoring(q, u)'
  <2>1. Restoring("put", t)
    BY <1>1, <1>2, <1>5, <1>7, <1>8, Staged DEF Progress
  <2>2. PICK f \in file.members : e = ToPut(f, t.group)
    BY <2>1 DEF Restoring
  <2>3. e.at = t.group /\ e.who = f.who /\ e.full = f.full
    BY <2>2 DEF ToPut
  <2>4. t.group \in Groups /\ \A o \in file.members : o.who \in Members
    BY <1>1, <1>2 DEF TaskType, FilesType, FileType
  <2>5. ASSUME NEW o \in file.members, ToPut(o, t.group) \notin u.put
        PROVE  seat'[t.group][o.who] = HeldAs(o)
    <3>1. CASE o = f
      BY <1>1, <1>3, <2>3, <2>4, <3>1 DEF SeatType, HeldAs
    <3>2. CASE o # f
      <4>1. o.who # f.who
        BY <1>1, <3>2 DEF FileInv, OnePerMember
      <4>2. ToPut(o, t.group) # e
        BY <2>3, <4>1 DEF ToPut
      <4>3. seat[t.group][o.who] = HeldAs(o)
        BY <1>5, <2>1, <2>5, <4>2 DEF Restoring, SeatsDone
      <4> QED BY <1>1, <1>3, <2>3, <2>4, <4>1, <4>3 DEF SeatType
    <3> QED BY <3>1, <3>2
  <2>6. SeatsDone(u.group, u.put)'
    BY <1>1, <1>5, <2>5 DEF SeatsDone
  <2>7. q = "wipe" => SeatsDone(u.group, {})'
    BY <1>6, <2>6 DEF SeatsDone
  <2>8. u.set = AllToSet(u.group)' /\ u.put \subseteq {ToPut(o, u.group) : o \in file'.members}
    BY <1>1, <1>5, <2>1 DEF Restoring, AllToSet
  <2> QED BY <2>6, <2>7, <2>8 DEF Restoring
<1>9. quiet[c] => Progress(q, u)'
  BY <1>7, <1>8 DEF Progress, Marking
<1>10. Moved(c, q, u)
  BY <1>1, <1>6, DisturbsQuietly DEF Moved, Proceed
<1> QED BY <1>1, <1>7, <1>9, <1>10, MovedQuiet

LEMMA WipeQuiet == ASSUME IInv, QuietInv, NEW c \in Callers, Wipe(c) PROVE QuietInv'
<1>1. /\ pc[c] = "wipe" /\ CallType /\ MarkType /\ FilesType /\ task[c] \in TaskType
      /\ FileInv' /\ UNCHANGED <<seat, mode, file>> /\ Disturb(c)
  BY Parts, FileStays DEF Wipe, At, IInv, CallType
<1>2. PICK t : t = task[c]
  OBVIOUS
<1>3. mark' = [mark EXCEPT ![t.group] = NoMarks] /\ (Return(c, "ok", t) \/ Proceed(c, "mark", t))
  BY <1>2 DEF Wipe, Advance
<1>4. t.op = "restore" /\ "mark" \in StagesOf(t.op) /\ t.group \in Groups
  BY <1>1, <1>2, Staged DEF StagesOf, Marking, TaskType
<1>5. ASSUME quiet[c], ~t.far PROVE Restoring("mark", t)'
  <2>1. Restoring("wipe", t)
    BY <1>1, <1>2, <1>4, <1>5, Staged DEF Progress
  <2>2. SeatsDone(t.group, {})' /\ t.set = AllToSet(t.group)'
    BY <1>1, <2>1 DEF Restoring, SeatsDone, AllToSet
  <2>3. \A w \in Who, d \in Days : mark'[t.group][w][d] = None
    BY <1>1, <1>3, <1>4 DEF MarkType, NoMarks
  <2>4. MarksDone(t.group, t.set)'
    BY <1>1, <2>2, <2>3 DEF MarksDone, AllToSet
  <2> QED BY <2>2, <2>4 DEF Restoring
<1>6. quiet[c] => Progress("mark", t)'
  BY <1>4, <1>5 DEF Progress, Marking
<1>7. Quietly(c) /\ (quiet'[c] => quiet[c])
  BY <1>1, DisturbsQuietly
<1>8. CASE Return(c, "ok", t)
  BY <1>1, <1>7, <1>8, ReturnQuiet
<1>9. CASE Proceed(c, "mark", t)
  <2>1. Moved(c, "mark", t)
    BY <1>1, <1>7, <1>9 DEF Moved, Proceed
  <2> QED BY <1>1, <1>4, <1>6, <2>1, MovedQuiet
<1> QED BY <1>3, <1>8, <1>9

LEMMA FailQuiet == ASSUME IInv, QuietInv, NEW c \in Callers, Fail(c) PROVE QuietInv'
<1>1. /\ pc[c] # "idle" /\ CallType /\ FileInv' /\ Return(c, "error", task[c])
      /\ UNCHANGED <<mark, seat, mode, file, quiet>>
  BY Parts, FileStays DEF Fail, IInv
<1> QED BY <1>1, ReadsQuietly, ReturnQuiet

LEMMA NextQuiet == IInv /\ QuietInv /\ [Next]_vars => QuietInv'
<1> SUFFICES ASSUME IInv, QuietInv, [Next]_vars PROVE QuietInv'
  OBVIOUS
<1>1. TypeOK
  BY DEF IInv
<1>2. CASE Edit \/ Toggle \/ UNCHANGED vars
  <2>1. /\ UNCHANGED <<pc, task, file>>
        /\ (\A c \in Callers : quiet'[c] = FALSE) \/ UNCHANGED <<mark, seat, mode, quiet>>
    <3>1. CASE Edit
      BY <3>1 DEF Edit
    <3>2. CASE Toggle
      BY <3>2 DEF Toggle
    <3>3. CASE UNCHANGED vars
      BY <3>3 DEF vars
    <3> QED BY <1>2, <3>1, <3>2, <3>3
  <2>2. ASSUME NEW c \in Callers PROVE StageInv(c)' /\ ProgressInv(c)'
    BY <2>1, UnmovedProgress DEF QuietInv
  <2> QED BY <2>1, <2>2, FileStays DEF QuietInv
<1> QED BY <1>1, <1>2, StartQuiet, AimQuiet, ListQuiet, MarkQuiet, ListGroupQuiet, ListHomeQuiet,
           CutQuiet, ExportMembersQuiet, ExportMarksQuiet, ResolveQuiet, PutQuiet, WipeQuiet,
           FailQuiet DEF Next

LEMMA InitQuiet == Init => QuietInv
<1> SUFFICES ASSUME Init PROVE QuietInv
  OBVIOUS
<1>1. FileInv
  BY DEF Init, NoFile, FileInv, OnePerMember, OnePerCell
<1>2. \A c \in Callers : StageInv(c) /\ ProgressInv(c)
  BY DEF Init, StageInv, ProgressInv
<1> QED BY <1>1, <1>2 DEF QuietInv

LEMMA QuietAlways == Spec => [](IInv /\ QuietInv)
  BY InitIInv, NextIInv, InitQuiet, NextQuiet, PTL DEF Spec

--------------------------------------------------------------------------------
(* How a call that marks or restores ends with success: by the last mark   *)
(* it writes, or by the deletion when the file has no marks.               *)
LEMMA EndsByItself ==
  ASSUME IInv, [Next]_vars, NEW c \in Callers, pc[c] # "idle", pc'[c] = "idle"
  PROVE  \/ Aim(c) \/ List(c) \/ Mark(c) \/ ListGroup(c) \/ ListHome(c) \/ Cut(c)
         \/ ExportMembers(c) \/ ExportMarks(c) \/ Resolve(c) \/ Put(c) \/ Wipe(c) \/ Fail(c)
<1>0. CallType
  BY Parts DEF IInv
<1>1. ASSUME NEW b \in Callers \ {c}, NEW t, NEW a, NEW q,
             Return(b, a, t) \/ Proceed(b, q, t)
      PROVE  FALSE
  BY <1>0, <1>1 DEF Return, Proceed, CallType
<1>2. ASSUME NEW b \in Callers, Start(b)
      PROVE  FALSE
  <2>1. b # c
    BY <1>2 DEF Start
  <2> QED BY <1>0, <1>2, <2>1 DEF Start, CallType
<1>3. PICK b \in Callers :
        \/ Aim(b) \/ List(b) \/ Mark(b) \/ ListGroup(b) \/ ListHome(b) \/ Cut(b)
        \/ ExportMembers(b) \/ ExportMarks(b) \/ Resolve(b) \/ Put(b) \/ Wipe(b) \/ Fail(b)
  BY <1>2 DEF Next, vars, Edit, Toggle
<1>4. \E t, a, q : Return(b, a, t) \/ Proceed(b, q, t)
  BY <1>3 DEF Aim, List, Mark, ListGroup, ListHome, Found, Cut, ExportMembers, ExportMarks,
              Resolve, Put, Wipe, Fail, Advance
<1> QED BY <1>1, <1>3, <1>4

LEMMA EndsWith ==
  ASSUME IInv, QuietInv, [Next]_vars, NEW c \in Callers, pc[c] # "idle", pc'[c] = "idle",
         answer'[c].says = "ok", task[c].op \in Marking \cup {"restore"}
  PROVE  /\ UNCHANGED <<seat, mode, file>>
         /\ \/ /\ pc[c] = "mark"
               /\ \E m : /\ task[c].set = {m}
                        /\ mark' = [mark EXCEPT ![m.at][m.who][m.day] = m.kind]
            \/ /\ pc[c] = "wipe" /\ task[c].set = {}
               /\ mark' = [mark EXCEPT ![task[c].group] = NoMarks]
<1>0. CallType /\ task[c] \in TaskType
  BY Parts DEF IInv, CallType
<1>1. pc[c] \in {"aim", "list", "mark", "resolve", "put", "wipe"}
  BY Staged DEF StagesOf, Marking
<1>2. ASSUME NEW a \in {"limit", "notfound", "error"}, NEW t, Return(c, a, t) PROVE FALSE
  BY <1>0, <1>2 DEF Return, CallType
<1>3. ASSUME NEW q \in PCs \ {"idle"}, NEW t, Proceed(c, q, t) PROVE FALSE
  BY <1>0, <1>3 DEF Proceed, CallType
<1>4. Aim(c) \/ List(c) \/ Mark(c) \/ Resolve(c) \/ Put(c) \/ Wipe(c) \/ Fail(c)
  <2>1. ~(ListGroup(c) \/ ListHome(c) \/ Cut(c) \/ ExportMembers(c) \/ ExportMarks(c))
    BY <1>1 DEF ListGroup, ListHome, Cut, ExportMembers, ExportMarks, Reads, At
  <2> QED BY <2>1, EndsByItself
<1>5. ~Aim(c)
  <2> SUFFICES ASSUME Aim(c) PROVE FALSE
    OBVIOUS
  <2> DEFINE t == [task[c] EXCEPT !.at = Home(task[c].group, task[c].who)]
             u == [t EXCEPT !.cut = Listed(t)]
  <2>1. Return(c, "notfound", t) \/ Proceed(c, "list", t) \/ Proceed(c, "listGroup", t)
        \/ Proceed(c, "cut", u)
    BY DEF Aim
  <2> HIDE DEF t, u
  <2> QED BY <1>2, <1>3, <2>1 DEF PCs
<1>6. ~List(c) /\ ~Resolve(c) /\ ~Put(c) /\ ~Fail(c)
  <2>1. ASSUME List(c) PROVE FALSE
    <3>1. PICK u : Return(c, "limit", task[c]) \/ Proceed(c, "mark", u)
      BY <2>1 DEF List
    <3> QED BY <1>2, <1>3, <3>1 DEF PCs
  <2>2. ASSUME Resolve(c) PROVE FALSE
    <3>1. PICK u : \E q \in {"wipe", "put"} : Proceed(c, q, u)
      BY <2>2 DEF Resolve
    <3> QED BY <1>3, <3>1 DEF PCs
  <2>3. ASSUME Put(c) PROVE FALSE
    <3>1. PICK u : \E q \in {"wipe", "put"} : Proceed(c, q, u)
      BY <2>3 DEF Put
    <3> QED BY <1>3, <3>1 DEF PCs
  <2>4. ASSUME Fail(c) PROVE FALSE
    BY <1>2, <2>4 DEF Fail
  <2> QED BY <2>1, <2>2, <2>3, <2>4
<1>7. CASE Mark(c)
  <2>1. PICK m \in task[c].set :
          \/ Return(c, "notfound", task[c])
          \/ /\ mark' = [mark EXCEPT ![m.at][m.who][m.day] = m.kind]
             /\ Advance(c, "mark", task[c].set \ {m}, [task[c] EXCEPT !.set = @ \ {m}])
    BY <1>7 DEF Mark
  <2>2. /\ mark' = [mark EXCEPT ![m.at][m.who][m.day] = m.kind]
        /\ Advance(c, "mark", task[c].set \ {m}, [task[c] EXCEPT !.set = @ \ {m}])
    BY <1>2, <2>1
  <2>3. task[c].set \ {m} = {}
    BY <1>3, <2>2 DEF Advance, PCs
  <2>4. task[c].set = {m}
    BY <2>3
  <2> QED BY <1>7, <2>2, <2>4 DEF Mark, At
<1>8. CASE Wipe(c)
  <2>1. task[c].set = {}
    BY <1>3, <1>8 DEF Wipe, Advance, PCs
  <2> QED BY <1>8, <2>1 DEF Wipe, At
<1> QED BY <1>4, <1>5, <1>6, <1>7, <1>8

LEMMA RestoreStep ==
  ASSUME IInv, QuietInv, [Next]_vars, NEW c \in Callers, NEW g \in Groups,
         Ends(c, g, {"restore"}), ~task[c].far
  PROVE  /\ \A e \in file.members : seat'[g][e.who] = IF e.full THEN "full" ELSE "empty"
         /\ \A w \in Who, d \in Days :
              IF \E m \in file.marks : m.who = w /\ m.day = d
              THEN \E m \in file.marks : m.who = w /\ m.day = d /\ m.kind = mark'[g][w][d]
              ELSE mark'[g][w][d] = None
<1>1. /\ pc[c] # "idle" /\ pc'[c] = "idle" /\ answer'[c].says = "ok"
      /\ task[c].op = "restore" /\ task[c].group = g /\ quiet[c]
      /\ MarkType /\ FilesType /\ task[c] \in TaskType
  BY Parts DEF Ends, IInv, CallType
<1>2. Restoring(pc[c], task[c])
  BY <1>1, Staged DEF Progress
<1>3. UNCHANGED <<seat, mode, file>> /\ pc[c] \in {"mark", "wipe"}
  BY <1>1, EndsWith
<1>4. \A e \in file.members : seat'[g][e.who] = IF e.full THEN "full" ELSE "empty"
  BY <1>1, <1>2, <1>3 DEF Restoring, SeatsDone, HeldAs
<1>5. \A n \in file.marks : n.who \in Who /\ n.day \in Days
  BY <1>1 DEF FilesType, FileType
<1>6. ASSUME NEW w \in Who, NEW d \in Days
      PROVE  IF \E m \in file.marks : m.who = w /\ m.day = d
             THEN \E m \in file.marks : m.who = w /\ m.day = d /\ m.kind = mark'[g][w][d]
             ELSE mark'[g][w][d] = None
  <2>1. CASE pc[c] = "mark"
    <3>1. PICK m : /\ task[c].set = {m}
                   /\ mark' = [mark EXCEPT ![m.at][m.who][m.day] = m.kind]
      BY <1>1, <2>1, EndsWith
    <3>2. PICK n \in file.marks : m = ToSet(n, g)
      BY <1>1, <1>2, <2>1, <3>1 DEF Restoring, AllToSet
    <3>3. m.at = g /\ m.who = n.who /\ m.day = n.day /\ m.kind = n.kind
      BY <3>2 DEF ToSet
    <3>4. mark'[g][w][d] = IF w = n.who /\ d = n.day THEN n.kind ELSE mark[g][w][d]
      BY <1>1, <3>1, <3>3 DEF MarkType
    <3>5. CASE w = n.who /\ d = n.day
      BY <3>4, <3>5
    <3>6. CASE ~(w = n.who /\ d = n.day)
      <4>1. ASSUME NEW o \in file.marks, o.who = w, o.day = d PROVE mark[g][w][d] = o.kind
        <5>1. ToSet(o, g) # m
          BY <3>3, <3>6, <4>1 DEF ToSet
        <5> QED BY <1>1, <1>2, <2>1, <3>1, <4>1, <5>1 DEF Restoring, MarksDone
      <4>2. (\A o \in file.marks : ~(o.who = w /\ o.day = d)) => mark[g][w][d] = None
        BY <1>1, <1>2, <2>1 DEF Restoring, MarksDone
      <4> QED BY <3>4, <3>6, <4>1, <4>2
    <3> QED BY <3>5, <3>6
  <2>2. CASE pc[c] = "wipe"
    <3>1. mark' = [mark EXCEPT ![g] = NoMarks] /\ task[c].set = {}
      BY <1>1, <2>2, EndsWith
    <3>2. file.marks = {}
      BY <1>1, <1>2, <2>2, <3>1 DEF Restoring, AllToSet
    <3> QED BY <1>1, <3>1, <3>2 DEF MarkType, NoMarks
  <2> QED BY <1>3, <2>1, <2>2
<1> QED BY <1>4, <1>6

(* THEOREM.  ImportBackup: a restore that nothing disturbs and that nobody *)
(* has a place elsewhere for leaves the group with the schedules and the   *)
(* marks of the file, and with no other marks.                             *)
THEOREM RestoreIsComplete == Spec => RestoreRebuilds
<1> DEFINE Rebuilds ==
  \A c \in Callers, g \in Groups :
    Ends(c, g, {"restore"}) /\ ~task[c].far =>
      /\ \A e \in file.members : seat'[g][e.who] = IF e.full THEN "full" ELSE "empty"
      /\ \A w \in Who, d \in Days :
           IF \E m \in file.marks : m.who = w /\ m.day = d
           THEN \E m \in file.marks : m.who = w /\ m.day = d /\ m.kind = mark'[g][w][d]
           ELSE mark'[g][w][d] = None
<1>1. IInv /\ QuietInv /\ [Next]_vars => [Rebuilds]_vars
  BY RestoreStep
<1> QED BY <1>1, QuietAlways, PTL DEF Spec, RestoreRebuilds

LEMMA MarkShowsStep ==
  ASSUME IInv, QuietInv, [Next]_vars, NEW c \in Callers, NEW g \in Groups,
         Ends(c, g, Marking), NEW m \in Members, NEW d \in Listed(task[c]),
         Home(g, m) = g, m = task[c].who \/ (task[c].who = All /\ mark[g][m][d] = None)
  PROVE  Shown(g, m, d)' = task[c].kind
<1> DEFINE t == task[c]
<1>1. /\ pc[c] # "idle" /\ pc'[c] = "idle" /\ answer'[c].says = "ok"
      /\ t.op \in Marking /\ t.group = g /\ quiet[c]
      /\ MarkType /\ t \in TaskType /\ t.kind \in Kinds /\ d \in Days
  BY Parts, ListedType DEF Ends, IInv, CallType, CallInv
<1>2. MarkingDays(pc[c], t) /\ pc[c] = "mark" /\ UNCHANGED <<seat, mode, file>>
  <2>1. pc[c] \in {"mark", "wipe"} /\ UNCHANGED <<seat, mode, file>>
    BY <1>1, EndsWith
  <2>2. pc[c] # "wipe"
    BY <1>1, Staged DEF StagesOf
  <2> QED BY <1>1, <2>1, <2>2, Staged DEF Progress
<1>3. PICK n : t.set = {n} /\ mark' = [mark EXCEPT ![n.at][n.who][n.day] = n.kind]
  BY <1>1, <1>2, EndsWith
<1>4. t.at = Home(g, t.who) /\ t.at = g
  <2>1. t.at = Home(g, t.who)
    BY <1>1, <1>2 DEF MarkingDays
  <2>2. t.who = All => Home(g, t.who) = g
    BY DEF Home
  <2> QED BY <2>1, <2>2
<1>5. PICK e \in Listed(t) : n = ToMark(t, e)
  BY <1>2, <1>3 DEF MarkingDays
<1>6. n.at = g /\ n.who = t.who /\ n.day = e /\ n.kind = t.kind
  BY <1>4, <1>5 DEF ToMark
<1>7. t.who \in Who /\ m \in Who /\ All \in Who /\ m # All
  BY <1>1, AllAssumption DEF TaskType, Who
<1>8. \A w \in Who : mark'[g][w][d] = IF w = t.who /\ d = e THEN t.kind ELSE mark[g][w][d]
  BY <1>1, <1>3, <1>6 DEF MarkType
<1>9. mark'[g][t.who][d] = t.kind
  <2>1. CASE d = e
    BY <1>7, <1>8, <2>1
  <2>2. CASE d # e
    <3>1. ToMark(t, d) # n
      BY <1>6, <2>2 DEF ToMark
    <3>2. mark[t.at][t.who][d] = t.kind
      BY <1>2, <1>3, <3>1 DEF MarkingDays
    <3> QED BY <1>4, <1>7, <1>8, <2>2, <3>2
  <2> QED BY <2>1, <2>2
<1>10. t.kind # None
  BY <1>1 DEF Kinds, None
<1>11. Merged(g, m, d)' = t.kind
  <2>1. CASE m = t.who
    BY <1>9, <1>10, <2>1 DEF Merged
  <2>2. CASE t.who = All /\ mark[g][m][d] = None
    <3>1. mark'[g][m][d] = None
      BY <1>7, <1>8, <2>2
    <3> QED BY <1>9, <2>2, <3>1 DEF Merged
  <2> QED BY <2>1, <2>2
<1>12. Home(g, m)' = g
  BY <1>2 DEF Home, Elsewhere
<1> QED BY <1>11, <1>12 DEF Shown

(* THEOREM.  A mark that was set with success is what the member's card    *)
(* shows in the group it was set in, over every mark there was.            *)
THEOREM MarkIsShown == Spec => MarkShows
<1> DEFINE Shows ==
  \A c \in Callers, g \in Groups : Ends(c, g, Marking) =>
    \A m \in Members, d \in Listed(task[c]) :
      /\ Home(g, m) = g
      /\ m = task[c].who \/ (task[c].who = All /\ mark[g][m][d] = None)
      => Shown(g, m, d)' = task[c].kind
<1>1. IInv /\ QuietInv /\ [Next]_vars => [Shows]_vars
  BY MarkShowsStep
<1> QED BY <1>1, QuietAlways, PTL DEF Spec, MarkShows
===============================================================================
