------------------------------- MODULE DayMarks -------------------------------
(***************************************************************************)
(* Holidays and shifted days: a mark of one member, or of everybody in a   *)
(* group, on a day.  Commands (internal/bot/commands.go over               *)
(* internal/schedule/override.go) and the administration page              *)
(* (internal/admin/day_override.go) set and clear them, a backup           *)
(* (internal/admin/backup.go) carries them from one group to another       *)
(* together with the schedules.                                            *)
(*                                                                         *)
(* No operation has a transaction: it finds out where a member's marks are *)
(* kept, reads the marks of that group, and writes one mark at a time.     *)
(* One action is one such read or write; what finding a member's place     *)
(* takes is in GlobalSchedules.  Places in the v6 tables are left out.     *)
(***************************************************************************)
EXTENDS Naturals, Sequences, FiniteSets

CONSTANTS
  Callers,      \* concurrent callers: webhook goroutines and HTTP requests
  Groups,
  Members,      \* openids; the same one in two groups is the same person
  All,          \* DayOverrideAll: everybody in the group
  Days,
  MaxMarks,     \* MaxDayOverridesPerScope
  Earlier,      \* bound: the marks there are at first
  Listings,     \* bound: the days a command may list
  Ops,          \* bound: the operations that are called
  MaxCalls,     \* bound: calls started in a behaviour
  MaxTroubles   \* bound: statements that fail, changes of schedules and mode

Kinds == {"holiday", "shift"}
None == "none"
Who == Members \cup {All}
Marking == {"mark", "webMark"}
Clearing == {"clear", "webErase"}

ASSUME AllAssumption == All \notin Members
ASSUME EarlierAssumption ==
  \A old \in Earlier :
    /\ old \in [Groups -> [Who -> [Days -> Kinds \cup {None}]]]
    /\ \A g \in Groups :
         Cardinality({cell \in Who \X Days : old[g][cell[1]][cell[2]] # None}) <= MaxMarks
ASSUME ListingsAssumption == Listings \subseteq Seq(Days) \ {<<>>}
ASSUME OpsAssumption == Ops \subseteq Marking \cup Clearing \cup {"export", "restore"}
ASSUME CapsAssumption == {MaxMarks, MaxCalls, MaxTroubles} \subseteq Nat
ASSUME SetsAssumption == Groups # {} /\ IsFiniteSet(Days) /\ IsFiniteSet(Members)

VARIABLES
  mark,     \* mark[g][w][d]: the row of group_day_overrides, None without
  seat,     \* seat[g][m]: "unknown" to the group, "known", or with an "empty"
            \* or a "full" schedule
  mode,     \* the setting storage_mode
  file,     \* the backup that was exported last
  pc,       \* pc[c]: the statement c runs next
  task,     \* task[c]: the call's arguments and what is left to do
  answer,   \* answer[c]: how c's call ended
  alone,    \* history: no two calls have overlapped
  strayed,  \* history: a restore has written marks outside the group it cleared
  quiet,    \* history: nothing else has changed since c's call began
  budget    \* what is left of the bounds

vars == <<mark, seat, mode, file, pc, task, answer, alone, strayed, quiet, budget>>

Cells == Who \X Days
NoMarks == [w \in Who |-> [d \in Days |-> None]]
NoFile == [made |-> FALSE, members |-> {}, marks |-> {}]
NoAnswer == [says |-> "pending", gone |-> {}, wide |-> {}]
NoTask == LET g == CHOOSE h \in Groups : TRUE
          IN [op |-> "none", group |-> g, who |-> All, days |-> <<>>, kind |-> None, at |-> g,
              cut |-> {}, wide |-> {}, gone |-> {},
              put |-> {}, set |-> {}, far |-> FALSE]

(* The foreign key of group_day_overrides.                                 *)
MarkedAreKnown ==
  \A g \in Groups, m \in Members, d \in Days : mark[g][m][d] # None => seat[g][m] # "unknown"

Init ==
  /\ mark \in Earlier
  /\ seat \in [Groups -> [Members -> {"unknown", "known", "empty", "full"}]]
  /\ MarkedAreKnown
  /\ mode \in {"group", "global"}
  /\ file = NoFile
  /\ pc = [c \in Callers |-> "idle"]
  /\ task = [c \in Callers |-> NoTask]
  /\ answer = [c \in Callers |-> NoAnswer]
  /\ alone = TRUE /\ strayed = FALSE
  /\ quiet = [c \in Callers |-> FALSE]
  /\ budget = [calls |-> MaxCalls, troubles |-> MaxTroubles]

--------------------------------------------------------------------------------
(* Where a member's marks are kept and which marks a card shows.           *)

(* ResolveStorageTarget: with the member's courses.                        *)
Elsewhere(g, m) == {h \in Groups \ {g} : seat[h][m] = "full"}
Home(g, w) ==
  IF w = All \/ mode = "group" THEN g
  ELSE IF seat[g][w] = "full" \/ Elsewhere(g, w) = {} THEN g
  ELSE CHOOSE h \in Elsewhere(g, w) : TRUE

HasRow(g, m) == seat[g][m] \in {"empty", "full"}
VisibleMembers(g) ==
  {m \in Members : seat[g][m] # "unknown" /\ (HasRow(g, m) \/ Home(g, m) # g)}

\* A mutant: the group's mark wins.
MergedGroupFirst(g, m, d) == IF mark[g][All][d] # None THEN mark[g][All][d] ELSE mark[g][m][d]

(* mergeOverrides: a member's own mark wins over the group's.              *)
Merged(g, m, d) == IF mark[g][m][d] # None THEN mark[g][m][d] ELSE mark[g][All][d]

(* VisibleMember: an own schedule without courses keeps the group's marks, *)
(* without any own schedule those of the place found come first.           *)
Shown(g, m, d) ==
  LET h == Home(g, m)
      theirs == ~HasRow(g, m) /\ \E e \in Days : Merged(h, m, e) # None
  IN IF theirs THEN Merged(h, m, d) ELSE Merged(g, m, d)

Marked(g) == {cell \in Cells : mark[g][cell[1]][cell[2]] # None}
Count(g) == Cardinality(Marked(g))

--------------------------------------------------------------------------------
Listed(t) == {t.days[i] : i \in DOMAIN t.days}

(* A change is seen by all calls but c's own.                              *)
Disturb(c) == quiet' = [d \in Callers |-> d = c /\ quiet[d]]

(* The call ends: its user is told a, and of a success what it was.        *)
Return(c, a, t) ==
  /\ answer' = [answer EXCEPT ![c] = [says |-> a, gone |-> IF a = "ok" THEN t.gone ELSE {},
                                       wide |-> IF a = "ok" THEN t.wide ELSE {}]]
  /\ pc' = [pc EXCEPT ![c] = "idle"]
  /\ task' = [task EXCEPT ![c] = NoTask]

(* The call has t left to do, beginning with q.                            *)
Proceed(c, q, t) ==
  /\ pc' = [pc EXCEPT ![c] = q]
  /\ task' = [task EXCEPT ![c] = t]
  /\ UNCHANGED answer

Advance(c, q, left, t) == IF left = {} THEN Return(c, "ok", t) ELSE Proceed(c, q, t)

(* What may be asked: a command lists days, the page names one; courses    *)
(* are shifted to one day at a time.  A restore takes an exported file.    *)
Sensible(op, w, days, kind) ==
  /\ op \in Marking <=> kind # None
  /\ op \in Marking \cup Clearing <=> days # <<>>
  /\ op \in {"export", "restore"} => w = All
  /\ op \in {"webMark", "webErase"} \/ kind = "shift" => Len(days) = 1
  /\ op = "restore" => file.made

First(op) == CASE op = "export" -> "members" [] op = "restore" -> "resolve" [] OTHER -> "aim"

Start(c) ==
  /\ pc[c] = "idle" /\ budget.calls > 0
  /\ \E op \in Ops, g \in Groups, w \in Who, days \in Listings \cup {<<>>}, kind \in Kinds \cup {None} :
       /\ Sensible(op, w, days, kind)
       /\ task' = [task EXCEPT ![c] = [NoTask EXCEPT !.op = op, !.group = g, !.who = w,
                                                     !.days = days, !.kind = kind]]
       /\ pc' = [pc EXCEPT ![c] = First(op)]
  /\ answer' = [answer EXCEPT ![c] = NoAnswer]
  /\ alone' = (alone /\ \A d \in Callers \ {c} : pc[d] = "idle")
  /\ quiet' = [quiet EXCEPT ![c] = TRUE]
  /\ budget' = [budget EXCEPT !.calls = @ - 1]
  /\ UNCHANGED <<mark, seat, mode, file, strayed>>

At(c, q) == pc[c] = q /\ UNCHANGED <<mode, alone, budget>>
Reads(c, q) == At(c, q) /\ UNCHANGED <<mark, seat, file, strayed, quiet>>

(* OverrideTargets, ResolveStorageTarget: where the marks of the one the   *)
(* call is about are kept.  The page marks only who has something to show. *)
Aim(c) ==
  /\ Reads(c, "aim")
  /\ LET t == [task[c] EXCEPT !.at = Home(task[c].group, task[c].who)]
         unseen == Members \ VisibleMembers(t.group)
     IN \/ t.op = "webMark" /\ t.who \in unseen /\ Return(c, "notfound", t)
        \/ t.op = "webMark" /\ t.who \notin unseen /\ Proceed(c, "list", t)
        \/ t.op = "mark" /\ Proceed(c, "list", t)
        \/ t.op = "clear" /\ Proceed(c, "listGroup", t)
        \/ t.op = "webErase" /\ Proceed(c, "cut", [t EXCEPT !.cut = Listed(t)])

(* SetDayOverridesForTargets, SetWebDayOverride: the marks there are, and  *)
(* whether those that are new would be too many.  A day listed twice       *)
(* counts twice.                                                           *)
New(t) == {i \in DOMAIN t.days : mark[t.at][t.who][t.days[i]] = None}
\* A mutant: only a group that is full takes no more.
TooManyIfFull(t) == New(t) # {} /\ Count(t.at) >= MaxMarks
TooMany(t) == New(t) # {} /\ Count(t.at) + Cardinality(New(t)) > MaxMarks

List(c) ==
  /\ Reads(c, "list")
  /\ LET t == task[c]
     IN IF TooMany(t) THEN Return(c, "limit", t)
        ELSE Proceed(c, "mark", [t EXCEPT !.set =
               {[who |-> t.who, day |-> d, kind |-> t.kind, at |-> t.at] : d \in Listed(t)}])

\* A mutant: nobody looks for the profile.
UnknownNobody(m) == FALSE
Unknown(m) == m.who # All /\ seat[m.at][m.who] = "unknown"

(* SetGroupDayOverride, one mark after the other: only who has a profile   *)
(* can be marked.  What has been written stays when a later one fails.     *)
Mark(c) ==
  /\ At(c, "mark") /\ UNCHANGED <<seat, file>>
  /\ \E m \in task[c].set :
       \/ /\ Unknown(m) /\ Return(c, "notfound", task[c])
          /\ UNCHANGED <<mark, strayed, quiet>>
       \/ /\ ~Unknown(m)
          /\ mark' = [mark EXCEPT ![m.at][m.who][m.day] = m.kind]
          /\ Advance(c, "mark", task[c].set \ {m}, [task[c] EXCEPT !.set = @ \ {m}])
          /\ strayed' = (strayed \/ (task[c].op = "restore" /\ m.at # task[c].group))
          /\ Disturb(c)

--------------------------------------------------------------------------------
(* ClearDayOverridesForTargets reads the group's marks and, when they are  *)
(* kept elsewhere, the member's: it deletes what it has seen of the        *)
(* member's, and tells of the group's mark where it has seen none.         *)
Found(c, t, wide) ==
  LET cut == {d \in Listed(t) : mark[t.at][t.who][d] # None}
  IN Advance(c, "cut", cut, [t EXCEPT !.cut = cut, !.wide = wide \ cut])

ListGroup(c) ==
  /\ Reads(c, "listGroup")
  /\ LET t == task[c]
         wide == {d \in Listed(t) : t.who # All /\ mark[t.group][All][d] # None}
     IN IF t.at = t.group THEN Found(c, t, wide)
        ELSE Proceed(c, "listHome", [t EXCEPT !.wide = wide])

ListHome(c) == Reads(c, "listHome") /\ Found(c, task[c], task[c].wide)

\* A mutant: a mark that was seen is taken for deleted.
DeletedSeen(t, d) == TRUE
Deleted(t, d) == mark[t.at][t.who][d] # None

(* DeleteGroupDayOverride: the answer tells of the marks it has deleted.   *)
Cut(c) ==
  /\ At(c, "cut") /\ UNCHANGED <<seat, file, strayed>>
  /\ \E d \in task[c].cut :
       /\ mark' = [mark EXCEPT ![task[c].at][task[c].who][d] = None]
       /\ Advance(c, "cut", task[c].cut \ {d},
                  [task[c] EXCEPT !.cut = @ \ {d},
                                  !.gone = @ \cup IF Deleted(task[c], d) THEN {d} ELSE {}])
  /\ Disturb(c)

--------------------------------------------------------------------------------
(* ExportBackup: the schedules of the group, then its marks.               *)
ExportMembers(c) ==
  /\ Reads(c, "members")
  /\ LET g == task[c].group
         had == {m \in Members : HasRow(g, m)}
     IN Proceed(c, "marks", [task[c] EXCEPT !.put =
          {[who |-> m, full |-> seat[g][m] = "full", at |-> g] : m \in had}])

ExportMarks(c) ==
  /\ At(c, "marks") /\ UNCHANGED <<mark, seat, strayed>>
  /\ LET g == task[c].group
     IN file' = [made |-> TRUE, members |-> {[who |-> e.who, full |-> e.full] : e \in task[c].put},
                 marks |-> {[who |-> p[1], day |-> p[2], kind |-> mark[g][p[1]][p[2]]] : p \in Marked(g)}]
  /\ Disturb(c)
  /\ Return(c, "ok", task[c])

(* ImportBackup resolves everybody first,                                  *)
Resolve(c) ==
  /\ Reads(c, "resolve")
  /\ LET g == task[c].group
         put == {[who |-> e.who, full |-> e.full, at |-> Home(g, e.who)] : e \in file.members}
         set == {[who |-> m.who, day |-> m.day, kind |-> m.kind, at |-> Home(g, m.who)] : m \in file.marks}
     IN Proceed(c, IF put = {} THEN "wipe" ELSE "put",
                [task[c] EXCEPT !.put = put, !.set = set, !.far = \E x \in put \cup set : x.at # g])

(* then writes the schedules, each in its own transaction, which brings    *)
(* the profile,                                                            *)
Put(c) ==
  /\ At(c, "put") /\ UNCHANGED <<mark, file, strayed>>
  /\ \E e \in task[c].put :
       /\ seat' = [seat EXCEPT ![e.at][e.who] = IF e.full THEN "full" ELSE "empty"]
       /\ Proceed(c, IF task[c].put = {e} THEN "wipe" ELSE "put", [task[c] EXCEPT !.put = @ \ {e}])
  /\ Disturb(c)

\* A mutant: the marks that are there stay.
WipeNothing(c) ==
  /\ At(c, "wipe") /\ UNCHANGED <<mark, seat, file, strayed, quiet>>
  /\ Advance(c, "mark", task[c].set, task[c])

(* then deletes the marks of the group, and last writes the backup's.      *)
Wipe(c) ==
  /\ At(c, "wipe") /\ UNCHANGED <<seat, file, strayed>>
  /\ mark' = [mark EXCEPT ![task[c].group] = NoMarks]
  /\ Advance(c, "mark", task[c].set, task[c])
  /\ Disturb(c)

--------------------------------------------------------------------------------
Trouble == budget.troubles > 0 /\ budget' = [budget EXCEPT !.troubles = @ - 1]

(* A statement fails, or a schedule that is restored has been changed      *)
(* since it was read: the call ends with what it has done.  A process that *)
(* dies leaves the same.                                                   *)
Fail(c) ==
  /\ pc[c] # "idle" /\ Trouble
  /\ Return(c, "error", task[c])
  /\ UNCHANGED <<mark, seat, mode, file, alone, strayed, quiet>>

(* An import, a save or a deletion of a schedule, a message of somebody    *)
(* new: marks are not touched.                                             *)
Edits(s) ==
  {"known", "empty", "full"} \ {s}
Edit ==
  /\ Trouble
  /\ \E g \in Groups, m \in Members : \E to \in Edits(seat[g][m]) :
       seat' = [seat EXCEPT ![g][m] = to]
  /\ quiet' = [c \in Callers |-> FALSE]
  /\ UNCHANGED <<mark, mode, file, pc, task, answer, alone, strayed>>

Toggle ==
  /\ Trouble
  /\ mode' \in {"group", "global"} \ {mode}
  /\ quiet' = [c \in Callers |-> FALSE]
  /\ UNCHANGED <<mark, seat, file, pc, task, answer, alone, strayed>>

Next ==
  \/ \E c \in Callers :
       \/ Start(c) \/ Aim(c) \/ List(c) \/ Mark(c)
       \/ ListGroup(c) \/ ListHome(c) \/ Cut(c)
       \/ ExportMembers(c) \/ ExportMarks(c) \/ Resolve(c) \/ Put(c) \/ Wipe(c)
       \/ Fail(c)
  \/ Edit \/ Toggle

Spec == Init /\ [][Next]_vars

--------------------------------------------------------------------------------
PCs == {"idle", "aim", "list", "mark", "listGroup", "listHome", "cut",
        "members", "marks", "resolve", "put", "wipe"}
TaskType ==
  [op : Ops \cup {"none"}, group : Groups, who : Who, days : Listings \cup {<<>>},
   kind : Kinds \cup {None}, at : Groups, cut : SUBSET Days, wide : SUBSET Days,
   gone : SUBSET Days, put : SUBSET [who : Members, full : BOOLEAN, at : Groups],
   set : SUBSET [who : Who, day : Days, kind : Kinds, at : Groups], far : BOOLEAN]
FileType ==
  [made : BOOLEAN, members : SUBSET [who : Members, full : BOOLEAN],
   marks : SUBSET [who : Who, day : Days, kind : Kinds]]

(* INVARIANT.  Every mark has a kind and a place, and a member that is     *)
(* marked has a profile (the foreign key of group_day_overrides).          *)
TypeOK ==
  /\ mark \in [Groups -> [Who -> [Days -> Kinds \cup {None}]]]
  /\ seat \in [Groups -> [Members -> {"unknown", "known", "empty", "full"}]]
  /\ MarkedAreKnown
  /\ mode \in {"group", "global"}
  /\ file \in FileType
  /\ pc \in [Callers -> PCs]
  /\ task \in [Callers -> TaskType]
  /\ answer \in [Callers -> [says : {"pending", "ok", "limit", "notfound", "error"},
                            gone : SUBSET Days, wide : SUBSET Days]]
  /\ alone \in BOOLEAN /\ strayed \in BOOLEAN
  /\ quiet \in [Callers -> BOOLEAN]
  /\ budget \in [calls : Nat, troubles : Nat]

(* INVARIANT.  A group never has more marks than the limit as long as      *)
(* calls do not overlap (the count and the writes are separate statements) *)
(* and no restore has written into a group it had not cleared.             *)
LimitKept == alone /\ ~strayed => \A g \in Groups : Count(g) <= MaxMarks

(* ACTION.  A call that tells its user that it has taken a mark away has   *)
(* done so: of two that race for the same mark one tells so, and none does *)
(* when a restore has been faster.                                         *)
ClaimsAreTrue ==
  [][\A c \in Callers : pc[c] = "cut" =>
       \A d \in (task'[c].gone \cup answer'[c].gone) \ task[c].gone :
         LET t == task[c] IN mark[t.at][t.who][d] # None /\ mark'[t.at][t.who][d] = None]_vars

Ends(c, g, ops) ==
  /\ pc[c] # "idle" /\ pc'[c] = "idle" /\ answer'[c].says = "ok"
  /\ task[c].op \in ops /\ task[c].group = g /\ quiet[c]

(* ACTION.  What was restored is the backup, marks and schedules, in the   *)
(* group it was restored to, unless somebody's place is elsewhere.         *)
RestoreRebuilds ==
  [][\A c \in Callers, g \in Groups :
       Ends(c, g, {"restore"}) /\ ~task[c].far =>
         /\ \A e \in file.members : seat'[g][e.who] = IF e.full THEN "full" ELSE "empty"
         /\ \A w \in Who, d \in Days :
              IF \E m \in file.marks : m.who = w /\ m.day = d
              THEN \E m \in file.marks : m.who = w /\ m.day = d /\ m.kind = mark'[g][w][d]
              ELSE mark'[g][w][d] = None]_vars

(* ACTION.  A mark that was set with success is what the card shows,       *)
(* whatever marks of the group or of the member there were, if the         *)
(* member's place is the group it was set in.                              *)
MarkShows ==
  [][\A c \in Callers, g \in Groups : Ends(c, g, Marking) =>
       \A m \in Members, d \in Listed(task[c]) :
         /\ Home(g, m) = g
         /\ m = task[c].who \/ (task[c].who = All /\ mark[g][m][d] = None)
         => Shown(g, m, d)' = task[c].kind]_vars
===============================================================================
