------------------------------- MODULE Migration -------------------------------
(***************************************************************************)
(* The start of the store: the v6 tables are moved into those of v7 in one *)
(* transaction (internal/store/schema.go, store.go), the process runs on   *)
(* them, stops and starts again.  The v6 tables and the old key-value data *)
(* stay where they are, and the part of the migration that moves settings, *)
(* edit links and the panel runs at every start.                           *)
(*                                                                         *)
(* One group; what is stored of other scopes is not moved.  Of a running   *)
(* process only what changes the moved tables is here, each operation      *)
(* whole; ScheduleStore has its statements.                                *)
(***************************************************************************)
EXTENDS Integers, Sequences, FiniteSets

CONSTANTS
  People,       \* the members of the group
  Tokens,       \* edit-link tokens
  Databases,    \* bound: the v6 databases there may be
  LinkLife,     \* how long an edit link is valid
  LastTime,     \* bound: the clock stops
  MaxWrites     \* bound: revisions and panel versions

None == "none"
Everybody == "*"     \* schedule.DayOverrideAll
Stages == {"down", "rows", "marks", "state", "named", "commit", "up"}

ASSUME MigrationAssumption == LinkLife \in Nat /\ LastTime \in Nat /\ MaxWrites \in Nat
ASSUME DatabasesAssumption ==
  \A d \in Databases :
    /\ d.marks = [x \in DOMAIN d.marks |-> d.marks[x]]
    /\ \A m \in DOMAIN d.rows : LET e == d.rows[m].events
                               IN Len(e) \in Nat /\ e = [i \in 1..Len(e) |-> e[i]]
    /\ \A t \in DOMAIN d.links : d.links[t].expires \in Nat
    /\ d.panel.version \in Nat

(* f, and g where f is not defined: INSERT ... ON CONFLICT DO NOTHING.     *)
Keep(f, g) == [x \in DOMAIN f \cup DOMAIN g |-> IF x \in DOMAIN f THEN f[x] ELSE g[x]]
Empty == [x \in {} |-> None]

VARIABLES
  v6,           \* schedule_members, course_events, schedule_day_overrides, kv_data
  db,           \* the tables of v7, as committed
  work,         \* as the transaction of the migration sees them
  stage,        \* how far the start is; "up": the process runs
  time,
  used,         \* tokens that were handed out
  expired       \* tokens that were refused as expired

migrationVars == <<v6, db, work, stage, time, used, expired>>

NewTables ==
  [done |-> FALSE, backup |-> FALSE, profiles |-> Empty, schedules |-> Empty, marks |-> Empty,
   links |-> Empty, settings |-> None, panel |-> 0]

MigrationInit ==
  /\ v6 \in Databases
  /\ db = NewTables /\ work = NewTables
  /\ stage = "down" /\ time = 0
  /\ used = DOMAIN v6.links /\ expired = {}

--------------------------------------------------------------------------------
(* The migration.  A value that cannot be read (v6.bad says at which stage *)
(* it is met) rolls everything back and the process does not start.        *)
Named(name, m) == IF name = None THEN m ELSE name
Readable(s) == stage = s /\ v6.bad # s

\* A mutant: the name a member has is lost to one that is not given.
UpsertNameless(profiles, said) ==
  [m \in DOMAIN profiles \cup DOMAIN said |->
     IF m \notin DOMAIN said THEN profiles[m]
     ELSE [name |-> Named(said[m].name, m),
           union |-> IF said[m].union = None /\ m \in DOMAIN profiles THEN profiles[m].union
                     ELSE said[m].union,
           roster |-> m \in DOMAIN profiles /\ profiles[m].roster]]

(* upsertMigratedMember, for all members of said.                          *)
Upsert(profiles, said) ==
  [m \in DOMAIN profiles \cup DOMAIN said |->
     CASE m \notin DOMAIN said -> profiles[m]
       [] m \in DOMAIN said \ DOMAIN profiles ->
            [name |-> Named(said[m].name, m), union |-> said[m].union, roster |-> FALSE]
       [] m \in DOMAIN said \cap DOMAIN profiles ->
            [profiles[m] EXCEPT !.name = IF said[m].name = None THEN @ ELSE said[m].name,
                                !.union = IF said[m].union = None THEN @ ELSE said[m].union]]
Unnamed(members) == [m \in members |-> [name |-> None, union |-> None]]

\* A mutant: the flag is not looked at.
BeginAlways == "rows"

(* backupBeforeV7, and the flag v7_group_migration_done.                   *)
Begin == IF db.done THEN "named" ELSE "rows"
Start ==
  /\ stage = "down"
  /\ stage' = Begin
  /\ db' = [db EXCEPT !.backup = @ \/ (v6.versioned /\ ~db.done)]
  /\ work' = db'
  /\ UNCHANGED <<v6, time, used, expired>>

Step(from, to, tables) ==
  /\ Readable(from)
  /\ work' = tables
  /\ stage' = to
  /\ UNCHANGED <<v6, db, time, used, expired>>

(* migrateLegacyGroupData with migrateLegacyEvents: event_index counts     *)
(* from 1 in v6 and from 0 in v7.                                          *)
Moved(events) == [i \in 0..(Len(events) - 1) |-> events[i + 1]]
MoveRows ==
  Step("rows", "marks",
    [work EXCEPT
       !.profiles = Keep(@, [m \in DOMAIN v6.rows |->
                               [name |-> Named(v6.rows[m].name, m), union |-> v6.rows[m].union,
                                roster |-> FALSE]]),
       !.schedules = Keep(@, [m \in DOMAIN v6.rows |->
                                [rev |-> IF v6.rows[m].rev < 1 THEN 1 ELSE v6.rows[m].rev,
                                 events |-> Moved(v6.rows[m].events)]])])

(* migrateLegacyOverrides: marks of a member or of everybody, by day.      *)
MarkedBy(marks) == {md[1] : md \in DOMAIN marks}
MoveMarks ==
  Step("marks", "state",
    [work EXCEPT !.profiles = Upsert(@, Unnamed(MarkedBy(v6.marks) \ {Everybody})),
                 !.marks = Keep(@, v6.marks)])

(* migrateLegacyMemberState: who was seen, then the union ids, then the    *)
(* roster.                                                                 *)
Listed(profiles) == [m \in DOMAIN profiles |-> [profiles[m] EXCEPT !.roster = @ \/ m \in DOMAIN v6.roster]]
MoveState ==
  Step("state", "named",
    [work EXCEPT
       !.profiles = Listed(Upsert(Upsert(Upsert(@,
                      [m \in DOMAIN v6.seen |-> [name |-> v6.seen[m], union |-> None]]),
                      [m \in DOMAIN v6.identity |-> [name |-> None, union |-> v6.identity[m]]]),
                      v6.roster)),
       !.done = TRUE])

\* A mutant: a moved link is valid from now on.
OldLinkFresh(t) == [member |-> v6.links[t].member, expires |-> time + LinkLife]

(* migrateNamedState, at every start: migrateSettings, migrateEditLinks,   *)
(* migratePanels.                                                          *)
OldLinks == {t \in DOMAIN v6.links : v6.links[t].group}
OldLink(t) == [member |-> v6.links[t].member, expires |-> v6.links[t].expires]
Holders == {v6.links[t].member : t \in OldLinks}
MoveNamed ==
  Step("named", "commit",
    [work EXCEPT
       !.settings = IF @ = None THEN v6.settings ELSE @,
       !.links = Keep(@, [t \in OldLinks |-> OldLink(t)]),
       !.profiles = Upsert(@, Unnamed(Holders)),
       !.panel = IF @ = 0 /\ v6.panel.known
                 THEN (IF v6.panel.version < 1 THEN 1 ELSE v6.panel.version) ELSE @])

(* checkForeignKeys.                                                       *)
ForeignKeys(tables) ==
  /\ DOMAIN tables.schedules \subseteq DOMAIN tables.profiles
  /\ MarkedBy(tables.marks) \subseteq DOMAIN tables.profiles \cup {Everybody}
  /\ {tables.links[t].member : t \in DOMAIN tables.links} \subseteq DOMAIN tables.profiles
Commit ==
  /\ stage = "commit" /\ ForeignKeys(work)
  /\ db' = work /\ stage' = "up"
  /\ UNCHANGED <<v6, work, time, used, expired>>

(* A value that cannot be read, a failing statement or a crash.            *)
Stop ==
  /\ stage # "down"
  /\ stage' = "down" /\ work' = db
  /\ UNCHANGED <<v6, db, time, used, expired>>

--------------------------------------------------------------------------------
(* The running process.                                                    *)
Write(tables) ==
  /\ stage = "up"
  /\ db' = tables /\ work' = tables
  /\ UNCHANGED <<v6, stage, time>>
Put(f, x, v) == [y \in DOMAIN f \cup {x} |-> IF y = x THEN v ELSE f[y]]
Drop(f, x) == [y \in DOMAIN f \ {x} |-> f[y]]

(* PutGroupMemberSchedule, with the name and the revision its caller has   *)
(* just read.                                                              *)
SaveSchedule(m) ==
  LET rev == IF m \in DOMAIN db.schedules THEN db.schedules[m].rev + 1 ELSE 1
  IN /\ rev <= MaxWrites
     /\ Write([db EXCEPT !.profiles = Upsert(@, Unnamed({m})),
                         !.schedules = Put(@, m, [rev |-> rev, events |-> Moved(<<"new">>)])])
     /\ UNCHANGED <<used, expired>>
DeleteSchedule(m) ==
  /\ m \in DOMAIN db.schedules
  /\ Write([db EXCEPT !.schedules = Drop(@, m)])
  /\ UNCHANGED <<used, expired>>
Rename(m) ==
  /\ m \in DOMAIN db.profiles /\ db.profiles[m].name # "chosen"
  /\ Write([db EXCEPT !.profiles[m].name = "chosen"])
  /\ UNCHANGED <<used, expired>>
Unmark(md) ==
  /\ md \in DOMAIN db.marks
  /\ Write([db EXCEPT !.marks = Drop(@, md)])
  /\ UNCHANGED <<used, expired>>
SaveSettings ==
  /\ db.settings # "saved"
  /\ Write([db EXCEPT !.settings = "saved"])
  /\ UNCHANGED <<used, expired>>
SavePanel ==
  /\ db.panel < MaxWrites
  /\ Write([db EXCEPT !.panel = @ + 1])
  /\ UNCHANGED <<used, expired>>

(* CreateScheduleEditLink; the command makes sure of the member before.    *)
CreateLink(t, m) ==
  /\ t \in Tokens \ used
  /\ Write([db EXCEPT !.profiles = Upsert(@, Unnamed({m})),
                      !.links = Put(@, t, [member |-> m, expires |-> time + LinkLife])])
  /\ used' = used \cup {t}
  /\ UNCHANGED expired

(* ResolveScheduleEditLink: a link is valid before it expires, and deleted *)
(* when it is met later, if the statement does not fail.                   *)
Valid(t) == t \in DOMAIN db.links /\ time < db.links[t].expires
RefuseLink(t) ==
  /\ t \in DOMAIN db.links /\ ~Valid(t)
  /\ \/ Write([db EXCEPT !.links = Drop(@, t)])
     \/ Write(db)
  /\ expired' = expired \cup {t}
  /\ UNCHANGED used

Pass ==
  /\ time < LastTime
  /\ time' = time + 1
  /\ UNCHANGED <<v6, db, work, stage, used, expired>>

MigrationNext ==
  \/ Start \/ MoveRows \/ MoveMarks \/ MoveState \/ MoveNamed \/ Commit \/ Stop
  \/ \E m \in People : SaveSchedule(m) \/ DeleteSchedule(m) \/ Rename(m)
  \/ \E md \in DOMAIN db.marks : Unmark(md)
  \/ SaveSettings \/ SavePanel
  \/ \E t \in Tokens : RefuseLink(t) \/ \E m \in People : CreateLink(t, m)
  \/ Pass

MigrationSpec == MigrationInit /\ [][MigrationNext]_migrationVars

--------------------------------------------------------------------------------
Given(values) == values \ {None}
NamesOf(m) ==
  Given((IF m \in DOMAIN v6.rows THEN {v6.rows[m].name} ELSE {})
        \cup (IF m \in DOMAIN v6.seen THEN {v6.seen[m]} ELSE {})
        \cup (IF m \in DOMAIN v6.roster THEN {v6.roster[m].name} ELSE {}))
UnionsOf(m) ==
  Given((IF m \in DOMAIN v6.rows THEN {v6.rows[m].union} ELSE {})
        \cup (IF m \in DOMAIN v6.identity THEN {v6.identity[m]} ELSE {})
        \cup (IF m \in DOMAIN v6.roster THEN {v6.roster[m].union} ELSE {}))
Chosen(value, among, default) == IF among = {} THEN value = default ELSE value \in among
Mentioned ==
  DOMAIN v6.rows \cup (MarkedBy(v6.marks) \ {Everybody}) \cup DOMAIN v6.seen
  \cup DOMAIN v6.identity \cup DOMAIN v6.roster \cup Holders

(* The first start that succeeds, after any number that failed at any      *)
(* stage, has moved everything and nothing else: every schedule with its   *)
(* courses in their order, every mark and link, and for whoever v6         *)
(* mentions anywhere a profile that has lost no name and no union id that  *)
(* one of its tables gives; and the v6 database has its backup.            *)
(* (migrateLegacyGroupData, migrateNamedState.)                            *)
MovedWhole ==
  [][~db.done /\ db'.done =>
       /\ DOMAIN db'.schedules = DOMAIN v6.rows
       /\ \A m \in DOMAIN v6.rows :
            [i \in 1..Len(v6.rows[m].events) |-> db'.schedules[m].events[i - 1]] = v6.rows[m].events
       /\ db'.marks = v6.marks
       /\ db'.links = [t \in OldLinks |-> OldLink(t)]
       /\ DOMAIN db'.profiles = Mentioned
       /\ \A m \in Mentioned :
            /\ Chosen(db'.profiles[m].name, NamesOf(m), m)
            /\ Chosen(db'.profiles[m].union, UnionsOf(m), None)
            /\ db'.profiles[m].roster <=> m \in DOMAIN v6.roster
       /\ v6.versioned => db'.backup]_migrationVars

(* A later start brings nothing back: schedules, profiles, marks, settings *)
(* and the panel are as the process left them, though the v6 tables still  *)
(* hold what was deleted or changed since; of the links only some that     *)
(* were refused as expired reappear.  (The migration's flag, and           *)
(* migrateNamedState at every start.)                                      *)
RestartChangesNothing ==
  [][stage = "commit" /\ stage' = "up" /\ db.done =>
       /\ [db' EXCEPT !.links = db.links] = db
       /\ \A t \in DOMAIN db.links : t \in DOMAIN db'.links /\ db'.links[t] = db.links[t]
       /\ DOMAIN db'.links \ DOMAIN db.links \subseteq expired]_migrationVars

(* A link that was refused as expired is never valid again, whether its    *)
(* row was deleted or not and although a start brings the row back.        *)
(* (ResolveScheduleEditLink, migrateEditLinks.)                            *)
ExpiredStaysExpired == \A t \in expired : ~Valid(t)

================================================================================
