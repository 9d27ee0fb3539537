---------------------------- MODULE GlobalSchedules ----------------------------
(***************************************************************************)
(* Storage mode: which schedule record a call of one group member reads,   *)
(* edits and deletes.  In isolated mode it is the member's own record in   *)
(* that group; in global mode an empty place is filled with the same       *)
(* person's record of another group, or of the v6 tables.                  *)
(* internal/schedule/shared.go resolves the record, internal/store/        *)
(* global_repository.go runs the queries, internal/admin/schedule_editor   *)
(* .go, internal/bot/{import,nickname}.go use them.                        *)
(*                                                                         *)
(* One action is one query: a call makes up to seven before its write, and *)
(* other calls run in between.  A record is read and written whole here;   *)
(* ScheduleStore has the statements of one record.                         *)
(***************************************************************************)
EXTENDS Naturals, FiniteSets

CONSTANTS
  Clients,      \* concurrent callers: webhook goroutines and HTTP requests
  Seats,        \* v7 keys: records [group, member]
  Legacies,     \* v6 keys: records [scope, user, importer] of global-user scopes
  Owner,        \* the union_openid of the person in a seat
  NoUnion,      \* the platform has not told
  Ops,          \* bound: the operations that are called
  MaxCalls,     \* bound: calls started in a behaviour
  MaxToggles,   \* bound: changes of the storage mode
  MaxLearned    \* bound: roster synchronisations that bring a union_openid

BotOps == {"import", "nickname"}
WebOps == {"load", "upload", "save", "delete"}
Unions == {Owner[s] : s \in Seats}
Slots == Seats \cup Legacies

ASSUME KeysAssumption ==
  /\ \A s \in Seats : DOMAIN s = {"group", "member"}
  /\ \A l \in Legacies : DOMAIN l = {"scope", "user", "importer"}
  /\ \A l, k \in Legacies : l.scope = k.scope /\ l.user = k.user => l = k  \* PRIMARY KEY
ASSUME UnionAssumption == NoUnion \notin Unions
ASSUME OpsAssumption == Ops \subseteq BotOps \cup WebOps
ASSUME CapsAssumption == {MaxCalls, MaxToggles, MaxLearned} \subseteq Nat

VARIABLES
  row,      \* row[s]: the record in slot s; rev = 0: none
  known,    \* known[s]: group_members.union_openid of a seat
  mode,     \* the setting storage_mode
  clock,    \* schedule_updated_at of the latest write
  pc,       \* pc[c]: the query c makes next
  task,     \* task[c]: the call's arguments and what it has found out
  page,     \* page[c]: the editor page c's administrator has open
  answer,   \* answer[c]: how c's call ended
  quiet,    \* history: nobody else has changed anything since c's call began
  steady,   \* history: the mode has not been changed since c's call began
  budget    \* what is left of the bounds

vars == <<row, known, mode, clock, pc, task, page, answer, quiet, steady, budget>>

NoRow == [rev |-> 0, full |-> FALSE, at |-> 0, iu |-> NoUnion]
NoSeat == [group |-> "none", member |-> "none"]
ASSUME SeatAssumption == NoSeat \notin Slots
NoTask == [op |-> "none", seat |-> NoSeat, msg |-> NoUnion, union |-> NoUnion,
           global |-> FALSE, slot |-> NoSeat, got |-> NoRow, iu |-> NoUnion,
           at |-> 0, tries |-> 0]
NoPage == [seat |-> NoSeat, slot |-> NoSeat, rev |-> 0]

Stored(at, iu) == [rev |-> 1, full |-> TRUE, at |-> at, iu |-> iu]

(* Some records and profiles from before: v6 records have courses.         *)
Init ==
  /\ row \in {r \in [Slots -> {NoRow, Stored(0, NoUnion), [NoRow EXCEPT !.rev = 1]}] :
                \A l \in Legacies : r[l] # [NoRow EXCEPT !.rev = 1]}
  /\ known \in {k \in [Seats -> Unions \cup {NoUnion}] :
                  \A s \in Seats : k[s] \in {NoUnion, Owner[s]}}
  /\ mode \in {"group", "global"}
  /\ clock = 0
  /\ pc = [c \in Clients |-> "idle"]
  /\ task = [c \in Clients |-> NoTask]
  /\ page = [c \in Clients |-> NoPage]
  /\ answer = [c \in Clients |-> "pending"]
  /\ quiet = [c \in Clients |-> FALSE]
  /\ steady = [c \in Clients |-> FALSE]
  /\ budget = [calls |-> MaxCalls, toggles |-> MaxToggles,
               learned |-> MaxLearned]

--------------------------------------------------------------------------------
(* c's step changes what others read: their calls are no longer quiet.     *)
Disturb(c) == quiet' = [d \in Clients |-> d = c /\ quiet[d]]

(* A group message or a request of the administration page.  A message     *)
(* that carries union_openid has it recorded first, unless that fails.     *)
Start(c) ==
  /\ pc[c] = "idle" /\ budget.calls > 0
  /\ \E op \in Ops, s \in Seats :
     \E u \in IF op \in BotOps THEN {NoUnion, Owner[s]} ELSE {NoUnion} :
       /\ op \in {"save", "delete"} => page[c].seat = s
       /\ task' = [task EXCEPT ![c] = [NoTask EXCEPT !.op = op, !.seat = s, !.msg = u,
                                                     !.union = u, !.slot = s]]
       /\ known' \in {known} \cup {[known EXCEPT ![s] = u] : v \in {u} \ {NoUnion}}
  /\ quiet' = [d \in Clients |-> d = c \/ (quiet[d] /\ known' = known)]
  /\ steady' = [steady EXCEPT ![c] = TRUE]
  /\ pc' = [pc EXCEPT ![c] = "mode"]
  /\ answer' = [answer EXCEPT ![c] = "pending"]
  /\ budget' = [budget EXCEPT !.calls = @ - 1]
  /\ UNCHANGED <<row, mode, clock, page>>

(* The call returns a, and forgets what it knew.                           *)
Return(c, a) ==
  /\ answer' = [answer EXCEPT ![c] = a]
  /\ pc' = [pc EXCEPT ![c] = "idle"]
  /\ task' = [task EXCEPT ![c] = NoTask]

(* The call has found out t; its next query is q.                          *)
Proceed(c, q, t) ==
  /\ pc' = [pc EXCEPT ![c] = q]
  /\ task' = [task EXCEPT ![c] = t]
  /\ UNCHANGED answer

(* What a call does with the record it has resolved.  Nothing but the      *)
(* editor can write a v6 record.                                           *)
Resolved(c, t) ==
  \/ /\ t.op = "load"
     /\ page' = IF t.got.rev = 0 THEN page
                ELSE [page EXCEPT ![c] = [seat |-> t.seat, slot |-> t.slot, rev |-> t.got.rev]]
     /\ Return(c, IF t.got.rev = 0 THEN "notfound" ELSE "ok")
  \/ /\ t.op \in BotOps \cup {"upload"} /\ t.slot \in Legacies
     /\ Return(c, "error") /\ UNCHANGED page
  \/ /\ t.op \in BotOps \cup {"upload"} /\ t.slot \in Seats
     /\ Proceed(c, IF t.op = "import" /\ t.msg = NoUnion THEN "identity" ELSE "target",
                [t EXCEPT !.iu = t.msg])
     /\ UNCHANGED page
  \/ t.op = "save" /\ Proceed(c, "target", t) /\ UNCHANGED page
  \/ t.op = "delete" /\ Proceed(c, "modeAgain", t) /\ UNCHANGED page

Query(c, q) == pc[c] = q /\ UNCHANGED <<row, known, mode, quiet, steady, budget>>

(* BotSettings: in isolated mode the record is the member's own.           *)
ReadMode(c) ==
  /\ Query(c, "mode")
  /\ LET t == [task[c] EXCEPT !.global = (mode = "global")]
     IN IF t.global \/ t.op = "load" THEN Proceed(c, "current", t) /\ UNCHANGED page
        ELSE Resolved(c, t)
  /\ UNCHANGED clock

(* GetGroupMemberSchedule of the member's own record: courses win.         *)
ReadCurrent(c) ==
  /\ Query(c, "current")
  /\ LET t == [task[c] EXCEPT !.got = row[task[c].seat]]
     IN IF t.got.full \/ ~t.global THEN Resolved(c, t)
        ELSE Proceed(c, IF t.union = NoUnion THEN "profile" ELSE "byUnion", t) /\ UNCHANGED page
  /\ UNCHANGED clock

(* GetGroupMember: the union_openid the group knows the member by.         *)
ReadProfile(c) ==
  /\ Query(c, "profile")
  /\ Proceed(c, IF known[task[c].seat] = NoUnion THEN "byOpenid" ELSE "byUnion",
             [task[c] EXCEPT !.union = known[task[c].seat]])
  /\ UNCHANGED <<clock, page>>

(* ORDER BY schedule_updated_at DESC, then the key, LIMIT 1.               *)
NewestIn(r, S) ==
  LET newest == {s \in S : \A t \in S : r[t].at <= r[s].at}
  IN CHOOSE s \in S : newest # {} => s \in newest
Newest(S) == NewestIn(row, S)

\* A mutant: the profiles alone.
ByUnionAll(u) == {s \in Seats : row[s].full /\ known[s] = u}
ByUnion(u) == {s \in Seats : row[s].full /\ u \in {known[s], row[s].iu}}

\* A mutant: whoever's the openid is.
ByOpenidAll(m, u) == {s \in Seats : row[s].full /\ s.member = m}

(* An openid can be another person's: once the union is known, only        *)
(* records nobody is known to own count.                                   *)
ByOpenid(m, u) ==
  {s \in Seats : /\ row[s].full /\ s.member = m
                 /\ u # NoUnion => row[s].iu = NoUnion /\ known[s] = NoUnion}

(* FindGlobalSchedule: a search of the v7 records ends it or leads on.       *)
Search(c, q, found, next) ==
  /\ Query(c, q)
  /\ Proceed(c, IF found = {} THEN next ELSE "found",
             IF found = {} THEN task[c] ELSE [task[c] EXCEPT !.slot = Newest(found)])
  /\ UNCHANGED <<clock, page>>

FindByUnion(c) ==
  Search(c, "byUnion", ByUnion(task[c].union) \ {task[c].seat}, "legacyByUnion")

(* One read of the v6 record of that union_openid.                         *)
FindLegacyByUnion(c) ==
  /\ Query(c, "legacyByUnion")
  /\ LET u == task[c].union
         found == {l \in Legacies : row[l].full /\ l.scope = u /\ l.user = u}
     IN \/ found = {} /\ Proceed(c, "byOpenid", task[c]) /\ UNCHANGED page
        \/ \E l \in found : Resolved(c, [task[c] EXCEPT !.slot = l, !.got = row[l]])
  /\ UNCHANGED clock

FindByOpenid(c) ==
  Search(c, "byOpenid",
         ByOpenid(task[c].seat.member, task[c].union) \ {task[c].seat}, "legacyByOpenid")

LegacyByOpenid(m) == {l \in Legacies : row[l].full /\ m \in {l.user, l.importer}}

(* The last search: without a match the record is the member's own.        *)
FindLegacyByOpenid(c) ==
  /\ Query(c, "legacyByOpenid")
  /\ LET found == LegacyByOpenid(task[c].seat.member)
     IN IF found = {} THEN Resolved(c, task[c])
        ELSE Proceed(c, "found", [task[c] EXCEPT !.slot = Newest(found)]) /\ UNCHANGED page
  /\ UNCHANGED clock

(* The record found is read; if it has gone meanwhile the member's own     *)
(* remains.  A v6 record must still have courses.                          *)
ReadFound(c) ==
  /\ Query(c, "found")
  /\ LET s == task[c].slot
         gone == IF s \in Seats THEN row[s].rev = 0 ELSE ~row[s].full
     IN Resolved(c, IF gone THEN [task[c] EXCEPT !.slot = task[c].seat]
                    ELSE [task[c] EXCEPT !.got = row[s]])
  /\ UNCHANGED clock

--------------------------------------------------------------------------------
\* A mutant: the target's openid is taken for its union_openid.
ReadIdentityOpenid(c) ==
  /\ Query(c, "identity")
  /\ Proceed(c, "target", [task[c] EXCEPT !.iu = task[c].slot.member])
  /\ UNCHANGED <<clock, page>>

(* ImportSource of a message without union_openid: the target's profile.   *)
ReadIdentity(c) ==
  /\ Query(c, "identity")
  /\ Proceed(c, "target", [task[c] EXCEPT !.iu = known[task[c].slot]])
  /\ UNCHANGED <<clock, page>>

(* The record is read again, to be changed, and the time is taken.         *)
ReadTarget(c) ==
  /\ Query(c, "target")
  /\ LET t == task[c] got == row[t.slot]
     IN \/ t.op = "save" /\ got.rev = 0 /\ Return(c, "notfound") /\ UNCHANGED clock
        \/ t.op = "nickname" /\ got.rev > 0 /\ Return(c, "ok") /\ UNCHANGED clock   \* same name
        \/ /\ t.op = "save" => got.rev > 0
           /\ clock' = IF t.op = "nickname" THEN clock ELSE clock + 1
           /\ Proceed(c, "put", [t EXCEPT !.got = got,
                 !.at = IF t.op = "nickname" THEN got.at ELSE clock + 1,
                 !.iu = IF t.op = "import" THEN t.iu ELSE got.iu])
  /\ UNCHANGED page

ExpectedRev(c) == IF task[c].op = "save" THEN page[c].rev ELSE task[c].got.rev

(* PutMember: a compare-and-set of the whole record.  A v7 record that     *)
(* names a union_openid gives it to the profile.                           *)
Put(c) ==
  /\ pc[c] = "put"
  /\ LET t == task[c] s == t.slot
     IN IF row[s].rev = ExpectedRev(c)
        THEN /\ \E full \in CASE t.op = "save" -> BOOLEAN
                              [] t.op = "nickname" -> {t.got.full}
                              [] OTHER -> {TRUE} :
                  row' = [row EXCEPT ![s] = [rev |-> row[s].rev + 1, full |-> full,
                                             at |-> t.at, iu |-> t.iu]]
             /\ known' = IF s \in Seats /\ t.iu # NoUnion THEN [known EXCEPT ![s] = t.iu] ELSE known
             /\ Disturb(c)
             /\ Return(c, "ok")
        ELSE /\ IF t.op = "nickname" /\ t.tries = 0
                THEN Proceed(c, "target", [t EXCEPT !.tries = 1])
                ELSE Return(c, "conflict")
             /\ UNCHANGED <<row, known, quiet>>
  /\ UNCHANGED <<mode, clock, page, steady, budget>>

--------------------------------------------------------------------------------
\* A mutant: what is deleted does not depend on the mode.
ReadModeAgainGlobal(c) ==
  /\ Query(c, "modeAgain")
  /\ Proceed(c, "profileAgain", [task[c] EXCEPT !.global = TRUE])
  /\ UNCHANGED <<clock, page>>

(* DeleteMemberSchedule reads the mode and the union_openid anew.          *)
ReadModeAgain(c) ==
  /\ Query(c, "modeAgain")
  /\ Proceed(c, "profileAgain", [task[c] EXCEPT !.global = (mode = "global")])
  /\ UNCHANGED <<clock, page>>

ReadProfileAgain(c) ==
  /\ Query(c, "profileAgain")
  /\ Proceed(c, "delete", [task[c] EXCEPT !.union = known[task[c].seat]])
  /\ UNCHANGED <<clock, page>>

Remove(c, S) ==
  /\ row' = [s \in Slots |-> IF s \in S THEN NoRow ELSE row[s]]
  /\ Disturb(c)
  /\ UNCHANGED <<known, mode, clock, page, steady, budget>>

(* deleteExactMemberSchedule: the record the call resolved to, if it has   *)
(* the revision of the page.                                               *)
DeleteExact(c) ==
  /\ pc[c] = "delete"
  /\ row[task[c].slot].rev = page[c].rev
  /\ Remove(c, {task[c].slot})
  /\ IF task[c].global THEN Proceed(c, "deleteGroup", task[c]) ELSE Return(c, "ok")

DeleteRefused(c) ==
  /\ Query(c, "delete")
  /\ row[task[c].slot].rev # page[c].rev
  /\ Proceed(c, "exists", task[c])
  /\ UNCHANGED <<clock, page>>

(* memberScheduleExists: a conflict, or nothing to delete.                 *)
ReadExists(c) ==
  /\ Query(c, "exists")
  /\ Return(c, IF row[task[c].slot].rev > 0 THEN "conflict" ELSE "notfound")
  /\ UNCHANGED <<clock, page>>

\* Mutants: every record of that openid; the profile's union_openid only.
MatchingGroupAny(seat, u) ==
  {s \in Seats : s.member = seat.member \/ (u # NoUnion /\ u \in {known[s], row[s].iu})}
MatchingGroupNamed(seat, u) ==
  {s \in Seats : s = seat \/ (u # NoUnion /\ u = known[s])
                 \/ (u = NoUnion /\ s.member = seat.member)}

(* deleteMatchingGroupSchedules: what else could be shown for the member.  *)
MatchingGroup(seat, u) ==
  {s \in Seats :
     \/ s = seat
     \/ u # NoUnion /\ u \in {known[s], row[s].iu}
     \/ s.member = seat.member /\ (u # NoUnion => row[s].iu = NoUnion /\ known[s] = NoUnion)}

DeleteGroup(c) ==
  /\ pc[c] = "deleteGroup"
  /\ Remove(c, MatchingGroup(task[c].seat, task[c].union))
  /\ Proceed(c, "deleteLegacy", task[c])

(* deleteMatchingLegacyGlobalSchedules: the same for the v6 tables.        *)
MatchingLegacy(m, u) ==
  {l \in Legacies : l.importer = m \/ (IF u # NoUnion THEN l.scope = u ELSE l.user = m)}

DeleteLegacy(c) ==
  /\ pc[c] = "deleteLegacy"
  /\ Remove(c, MatchingLegacy(task[c].seat.member, task[c].union))
  /\ Return(c, "ok")

--------------------------------------------------------------------------------
(* A query fails, or the process ends before it: earlier deletions stay,   *)
(* and a page is still open in a browser.                                  *)
Fail(c) ==
  /\ pc[c] # "idle"
  /\ Return(c, "error")
  /\ UNCHANGED <<row, known, mode, clock, page, quiet, steady, budget>>

(* SaveBotSettings.                                                        *)
Toggle ==
  /\ budget.toggles > 0
  /\ mode' = IF mode = "group" THEN "global" ELSE "group"
  /\ quiet' = [c \in Clients |-> FALSE]
  /\ steady' = [c \in Clients |-> FALSE]
  /\ budget' = [budget EXCEPT !.toggles = @ - 1]
  /\ UNCHANGED <<row, known, clock, pc, task, page, answer>>

(* ReplaceGroupRoster, or a message of the member: a union_openid is known.*)
Learn(s) ==
  /\ budget.learned > 0
  /\ known' = [known EXCEPT ![s] = Owner[s]]
  /\ quiet' = [c \in Clients |-> FALSE]
  /\ budget' = [budget EXCEPT !.learned = @ - 1]
  /\ UNCHANGED <<row, mode, clock, pc, task, page, answer, steady>>

Step(c) ==
  \/ ReadMode(c) \/ ReadCurrent(c) \/ ReadProfile(c)
  \/ FindByUnion(c) \/ FindLegacyByUnion(c) \/ FindByOpenid(c) \/ FindLegacyByOpenid(c)
  \/ ReadFound(c) \/ ReadIdentity(c) \/ ReadTarget(c) \/ Put(c)
  \/ ReadModeAgain(c) \/ ReadProfileAgain(c)
  \/ DeleteExact(c) \/ DeleteRefused(c) \/ ReadExists(c) \/ DeleteGroup(c) \/ DeleteLegacy(c)

Next ==
  \/ \E c \in Clients : Start(c) \/ Step(c) \/ Fail(c)
  \/ \E s \in Seats : Learn(s)
  \/ Toggle

Spec == Init /\ [][Next]_vars

--------------------------------------------------------------------------------
(* Every variable holds a value of its kind.                               *)
Rows == [rev : Nat, full : BOOLEAN, at : Nat, iu : Unions \cup {NoUnion}]
Tasks == [op : BotOps \cup WebOps \cup {"none"}, seat : Seats \cup {NoSeat},
          msg : Unions \cup {NoUnion}, union : Unions \cup {NoUnion}, global : BOOLEAN,
          slot : Slots \cup {NoSeat}, got : Rows, iu : Unions \cup {NoUnion},
          at : Nat, tries : 0..1]
PCs == {"idle", "mode", "current", "profile", "byUnion", "legacyByUnion", "byOpenid",
        "legacyByOpenid", "found", "identity", "target", "put", "modeAgain",
        "profileAgain", "delete", "exists", "deleteGroup", "deleteLegacy"}
TypeOK ==
  /\ row \in [Slots -> Rows]
  /\ known \in [Seats -> Unions \cup {NoUnion}]
  /\ mode \in {"group", "global"}
  /\ clock \in Nat
  /\ pc \in [Clients -> PCs]
  /\ task \in [Clients -> Tasks]
  /\ page \in [Clients -> [seat : Seats \cup {NoSeat}, slot : Slots \cup {NoSeat}, rev : Nat]]
  /\ answer \in [Clients -> {"pending", "ok", "conflict", "notfound", "error"}]
  /\ quiet \in [Clients -> BOOLEAN]
  /\ steady \in [Clients -> BOOLEAN]
  /\ budget \in [calls : Nat, toggles : Nat, learned : Nat]

(* The documented order (ARCHITECTURE.md 2.3, DEV-GUIDE.md 6.3): where the *)
(* schedule of a seat is found in global mode, given records r, profiles k *)
(* and the union u the platform has told, if any.                          *)
Places(r, k, seat, u) ==
  LET full(S) == {s \in S : r[s].full}
      named(s) == {k[s], r[s].iu} \ {NoUnion}
  IN << full({seat}),
        full({s \in Seats : u \in named(s)}),
        full({l \in Legacies : u # NoUnion /\ u = l.scope /\ u = l.user}),
        full({s \in Seats : s.member = seat.member /\ (u # NoUnion => named(s) = {})}),
        full({l \in Legacies : seat.member \in {l.user, l.importer}}) >>

(* The newest record of the first place that has one.                      *)
Shown(r, k, seat, u) ==
  LET place == Places(r, k, seat, u)
  IN {NewestIn(r, place[i]) :
        i \in {j \in 1..5 : place[j] # {} /\ \A h \in 1..(j - 1) : place[h] = {}}}

UnionOf(k, t) == IF t.msg # NoUnion THEN t.msg ELSE k[t.seat]

Ending(c, a) == pc[c] # "idle" /\ pc'[c] = "idle" /\ answer'[c] = a
Resolving(c) == pc[c] \in {"mode", "current", "legacyByUnion", "legacyByOpenid", "found"}
                /\ pc'[c] \in {"identity", "target", "modeAgain"}
Changed == {s \in Slots : row'[s] # row[s]}
By(c) == pc[c] # "idle" /\ pc'[c] # pc[c]

(* ACTION.  The queries of a call that nobody disturbs, made one after     *)
(* another, end at the record the documented order names; the member's own *)
(* one if there is none.                                                   *)
ResolvesAsDocumented ==
  [][\A c \in Clients :
       Resolving(c) /\ quiet[c] =>
         LET t == task[c]
             shown == IF mode = "global" THEN Shown(row, known, t.seat, UnionOf(known, t)) ELSE {}
         IN task'[c].slot \in (IF shown = {} THEN {t.seat} ELSE shown)]_vars

(* ACTION.  Isolated mode: a call during which the mode does not change    *)
(* changes no record but the member's own in that group, whatever other    *)
(* calls do meanwhile and whoever the profiles say the member is (PLAN.md  *)
(* 4.2, ARCHITECTURE.md 2.3).                                              *)
IsolatedStaysHome ==
  [][\A c \in Clients :
       By(c) /\ steady[c] /\ mode = "group" => Changed \subseteq {task[c].seat}]_vars

(* ACTION.  Global mode: after a deletion that nobody disturbed the member *)
(* has no schedule to show, wherever it would have been found: the queries *)
(* that delete match the queries that find (global_repository.go).         *)
DeletedIsGone ==
  [][\A c \in Clients :
       Ending(c, "ok") /\ quiet[c] /\ task[c].op = "delete" /\ mode = "global"
       => Shown(row', known', task[c].seat, known'[task[c].seat]) = {}]_vars

(* A record that carries the union_openid of two persons.                  *)
Mixed == \E s \in Seats : Cardinality({known[s], row[s].iu} \ {NoUnion}) > 1

(* ACTION.  What a member imports is what the next card shows: in either   *)
(* mode the record written is the one the member's place shows afterwards, *)
(* unless a record has come to carry two persons' union_openids.           *)
ImportedIsShown ==
  [][\A c \in Clients :
       Ending(c, "ok") /\ quiet[c] /\ task[c].op \in {"import", "upload"} /\ ~Mixed =>
         LET t == task[c]
         IN (IF mode = "global" THEN Shown(row', known', t.seat, UnionOf(known', t))
             ELSE {t.seat}) = {t.slot}]_vars

(* ACTION.  A call for a member whose union_openid is known never touches  *)
(* a record that is known to be another person's, although openids of two  *)
(* persons may be the same: not by editing, and not when deleting in bulk. *)
OthersAreSafe ==
  [][\A c \in Clients :
       By(c) /\ quiet[c] =>
         LET u == UnionOf(known, task[c])
         IN u = NoUnion \/ \A s \in Changed \cap (Seats \ {task[c].seat}) :
              {known[s], row[s].iu} \subseteq {NoUnion} \/ u \in {known[s], row[s].iu}]_vars

===============================================================================
