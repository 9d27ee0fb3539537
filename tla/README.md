# A verification of qqbot-course-schedule

The program is a bot for QQ groups. It keeps the course schedules of a group's members, draws
them as day cards and leader boards, and lets members and administrators edit them from chat
and from a web page. This project holds TLA+ models of the parts where concurrency, failure and
order matter, the TLC configurations that check them, and TLAPS proofs of their main properties.
Paths below are relative to `src/internal/` unless they say otherwise.

## 1. Inventory

| Part | State it keeps | Operations | What is hard | What makes it correct |
| --- | --- | --- | --- | --- |
| member schedule record (`store/schedule_repository.go`, `schedule/{service,member}.go`, `admin/schedule_editor.go`) | rows `groups`, `group_members`, `group_member_schedules`, `group_member_course_events` | import, /nickname, QQ binding, EnsureMember, load, save, delete | reads of several statements without a transaction, stale pages, retries, one SQLite connection for all | compare-and-set on the revision: no lost update, no torn copy, no half write |
| storage mode (`schedule/{shared,identity}.go`, `store/global_repository.go`) | setting `storage_mode`, `union_openid` of profiles and records, v6 rows | resolve, import, load, save, delete, rename | up to seven queries for one call, the mode may change between any two, openids of different people may coincide | isolation in isolated mode; in global mode the documented order, deletion complete, other people's records untouched |
| command panel (`bot/panel.go`, `store/kv_state.go`, `qqapi/panel.go`) | row of `bot_panels`, the platform's panels | SyncPanels at start and by command | crash between platform and row, lost answers, two syncs, panels deleted elsewhere | one panel, never falsely taken for current, every sync ends |
| event delivery (`webhook/dispatch.go`, `bot/{handler,replier,env}.go`) | table of events seen, goroutine per event, handling records | Handle, process, Dispatch, HandleCallback, the sends, recordStats | repeated events, a full table, lost requests, timeouts, shutdown while goroutines run | handled once, acknowledged first, one record which is true |
| platform client (`qqapi/client.go`) | access token and its expiry | AccessToken, request | many callers find it expired at once, retries of what was done | nobody asks for a token while one is fresh, no token expires on its way |
| group membership (`store/group_repository.go`, `schedule/roster.go`, `bot/group_context.go`, `qqapi/member.go`) | `group_members`, time of the last listing | RecordSeen, ListGroupMembers, ReplaceRoster | a listing of many pages while members come and go, two commands at once | a roster is whole and later than the one it replaces |
| day overrides (`schedule/{override,dayoff}.go`, `admin/day_override.go`, `store/override_repository.go`) | `group_day_overrides` | set, list, delete, merge | limit checked apart from the write, the shared schedule of global mode | precedence of personal over group days |
| public edit links (`schedule/editlink.go`, `store/edit_link_store.go`, `admin/public_editor.go`) | `schedule_edit_links` | create, resolve, save | the copy of the v6 links at every start | no use after expiry |
| backup and transfer (`admin/{backup,transfer,service}.go`) | none of its own | export, restore, create members | a restore is many transactions | what was restored equals the backup |
| administration server (`server/*.go`) | sessions, login failures (memory) | login, validate, logout; JSON handlers | entries that expire while nobody looks | an expired session is worth nothing |
| migration (`store/schema.go`) | v6 tables, flag `v7_group_migration_done` | migrate at every start | crash, second run, precedence | moved once, whole |
| statistics (`store/stats_repository.go`, `schedule/stats.go`) | `message_stats` | insert, aggregate, prune | failed sends and fallbacks | one row per message |
| day cards and boards (`schedule/{occurrence,daycard,dayquery,rank,timerange}.go`) | none: functions of schedules, marks and clock | recurrence, status of a day, merge of intervals, rank | midnight, marked days, touching intervals, ties | equal to a definition without windows |
| calendar text (`schedule/{ics,wakeup_share}.go`, `admin/schedule_editor.go`) | the ICS text of a record beside its events | import, show a page, save it, export | lines and components the page does not show; odd and even weeks | the text means the events, an untouched course stays as it is |
| lifecycle (`app/*.go`, `cmd/bot/main.go`) | workers, server, database handle | start, Run, close | shutdown order | the database outlives its users |
| rendering, configuration, WakeUp client, the other Vue pages (`web/`) | none a model checker could tell apart | | | not modelled |

How they interact: an HTTP request or a webhook goroutine (event delivery) runs a command or an
editor handler; the handler resolves a record (storage mode) and reads and writes it (schedule
record) over the one connection of `store.Store`, and with the record its calendar text; a card or a
board is computed from what was loaded; the command answers through the platform
client, and the handling is recorded. The store is migrated before anything else runs. A worker synchronises the panel at start. The platform,
the browsers and the database file are the parts that survive a restart.

## 2. Modules

| Module | What it is |
| --- | --- |
| `ScheduleRegister` | the promise of a schedule record: an atomic register with compare-and-set, a profile, and deletion |
| `ScheduleStore` | the SQL statements and handlers of one member's record; implements `ScheduleRegister` |
| `GlobalSchedules` | which record a call reads, edits and deletes, query by query, in both storage modes |
| `PanelSync` | SyncPanels against the platform and the row |
| `EventDelivery` | acceptance, acknowledgement, command, replies and record of an event |
| `DayMarks` | holidays and shifted days: command, page, card, and the backup that carries them, in two groups and both storage modes |
| `Courses` | the times of a course and the class time of a window: operators only, shared by the next two |
| `CourseDays` | day cards and class-time boards while the clock runs, schedules are replaced and days are marked |
| `CalendarText` | one record as text and as events: ICS upload, WakeUp import, the page and its save |
| `Migration` | the start of the store over v6 tables with failures and restarts, and the edit links |
| `AdminAccess` | sessions and failed logins of the administration |
| `TokenCache` | requests to the platform and the access token they share |
| `RosterSync` | the listing of a group's members, page by page, and the roster |
| `MC…` | the instances TLC explores; `MCServices` holds the last four, each explored by itself |
| `ScheduleStoreProofs`, `GlobalSchedulesProofs`, `PanelSyncProofs`, `EventDeliveryProofs`, `DayMarksProofs`, `CourseDaysProofs`, `CalendarTextProofs`, `ServicesProofs` | theorems; `ServicesProofs` those of `Migration`, `AdminAccess`, `TokenCache` and `RosterSync` |

The modules meet at records: what `GlobalSchedules` treats as one read or write of a record is
what `ScheduleStore` takes apart into statements, a command of `EventDelivery` is a call of
these two or of `DayMarks`, and what `DayMarks` takes as one step, finding a member's place, is what
`GlobalSchedules` takes apart. The events `CourseDays` shows are those `CalendarText` stores: `Meaning` of
`CalendarText` yields the courses of `Courses`. A request that `PanelSync`, `EventDelivery` or `RosterSync`
sends carries a token of `TokenCache`. They are separate modules because their product is out of reach and because each
property is about one of them.

### ScheduleStore

`db` is the committed rows of one member: profile name and QQ, revision (0: no row), ICS text
and events. `conn` says whose transaction holds the connection (`SetMaxOpenConns(1)`), and
`draft` is what that transaction has written. A call goes through `pc`: `ReadRow` and
`ReadEvents` are the two statements of GetGroupMemberSchedule (no transaction around them),
`Decide` is the handler, `TxProfile … TxCommit` the statements of PutGroupMemberSchedule,
`Conflict` the refused revision with the retry of SetMemberName and SetMemberQQ, `DeleteRow` and
`DeleteCheck` the deletion, `Fail` any statement that fails. `RecordSeen` and `ReplaceRoster`
are the platform's writes to the profile. `page` is what an editor has open in a browser; it
survives `Crash`. Two history variables say what the program does not store: how often the row
was created, and whether a write was granted across a deletion.

### GlobalSchedules

A slot is a seat (group, member openid) or a v6 key. `row`, `known` (union_openid of a profile)
and `mode` are the database; `task[c]` is what a call has found out, and each value of `pc` is
the query it makes next. `Resolved` is what import, rename, load and save do with the record
found; the deletion reads mode and profile again and deletes by seat, by person and in the v6
tables, each in its own transaction. `Toggle` changes the mode at any moment and `Learn` brings a
union_openid. Ties between records of the same age are broken by key, as SQL's order does.

### PanelSync

`panel[p]` is the release whose commands panel `p` shows on the platform, `saved` the row. A
sync is `Load`, then `Update`, `Verify`, `Adopt`, `Create`, `Save` as the branches of
SyncPanels; `Unanswered` is the client's retry loop (the platform may have carried out what was
not answered). `Crash`, `Upgrade`, `DeletePanel` and `LoseRow` are the environment. For requests
that only read, one step stands for all attempts. A request of a process that has crashed does
not arrive later. `Upgrade` starts any other release, a newer one or one that has run before. `alone` remembers
whether the syncs have so far run one at a time, `unsaved` the releases whose commands a panel got since the row was written.

### EventDelivery

`seen` is the table of markSeen with the time of each event, `runs[g]` a goroutine: the event,
when and in which life of the process it started, where it stands, whether its context has ended
(`late`) and its statements fail (`mute`), the stage claimed (claimStatsStage), what the user got
and the rows written. `Ack`, `Dispatch`, `Send` and `Record` are its steps; `Late` is
handlerTimeout, `Shutdown` and `Close` are App.Run and App.close, `Restart` ends the process.
A confirmed message stands for any repetition of the same request by the client; a panicking
command leaves the record of one that sends nothing, since the deferred call runs with no error.

### DayMarks

`mark[g][w][d]` is the row of `group_day_overrides` of group `g` for a member or everybody (`All`) on a
day, `seat[g][m]` what the group holds of a member: nothing, a profile, a schedule without courses or
with courses. `file` is the backup exported last. A call goes through `pc`: `Aim` finds where the marks
are kept, `List` reads them and checks the limit, `Mark` is one SetGroupDayOverride; `ListGroup`,
`ListHome` and `Cut` are the reads and deletions of ClearDayOverridesForTargets (`Cut` alone is
the page's deletion); `ExportMembers` and `ExportMarks` the two reads of ExportBackup; `Resolve`, `Put`,
`Wipe` and `Mark` the four parts of ImportBackup. `Fail` is any of these statements failing, or the
process dying: nothing here lives in memory between calls, so the two leave the same. `Edit` and
`Toggle` are everybody else: schedules that come and go, and the storage mode. `Shown` is what
VisibleMember gives a card. Of the mark, its source day, author and time are left out, of the
schedule everything but whether it has courses; a mark of the v6 tables, which only an
unmigrated private chat has, and places in the v6 tables are left out. In two groups a member has
at most one place elsewhere; in more, FindGlobalSchedule takes the one updated last, where `Home` takes
a fixed one, since the theorems need only that it is a group.

### Courses and CourseDays

Time is counted in slots, a day has `Slots` of them, and an event has a start, an end, a rule (every so
many days, so often) and what is only read from its RAW_ICAL: EXDATEs, RDATEs and a DURATION. `Starts`,
`Meetings` and `Expand` are ExpandEventOccurrences, ExpandEventsOnDay and ExpandIndexedOccurrences with their windows;
`Clipped` and `Minutes` the class time of a board, which `Merge` finds in order of start with `Join`, one span at a time, and
`Total` adds up. `Times` has no window: what the windowed
functions are compared with. `Row` is one row of DailyMemberRows, asked live or for an instant,
`Listed` the blocks of MarkdownDayList, `RowOf`, `Board` and `Place` are BuildRankRows. Cards and boards hold no state, so
they are evaluated in every state of `Tick`, `Replace`, `Mark` and `Unmark`. Rules of the library rrule that
are not "every n days, so often" are left out, as are months, terms, wording, countdowns and names: rows equal in time and courses, which the code orders
by name, may come in any order in `Board`.

### CalendarText

A text is a sequence of components, a component a sequence of lines, a line a property with a value or
a nested component. `Extract`, `EventOf`, `Meaning` and `SortEvents` are the reading, `Component` and `Serialize` the
writing, `TooMany` the error of the reading; a loop of the code that picks elements of a list is `Only`, and sorting is by the pairs in `Places`, what sort.SliceStable
does with the comparison `Precedes`. `ShareEvent` is WakeUpShare.Events: `Begins` and `Ends` are
courseTimes, the clocks of a row that has its own and otherwise those of the nodes it covers, a clock that cannot be parsed is `NoTime`,
and one first day that cannot be parsed refuses the share (`Refused`). `Upload`, `ImportShare`, `ShowPage` and `SavePage` are the operations on
one record, and `Edits` what the dialog of a course lets its user do to the page (`web/src/components/CourseDialog.vue`): add a course at the
end, move one, remove one that is not the last. A time is a number of slots and a minute has `Minute` of them, so that there are times with seconds:
`ToMinute` is webDateTimeValue, which cuts them off. The limit of a text's bytes is left out. Two components nested in each
other deeper than once, folding, escaping and the digits of times are left out, and so is a VEVENT inside a VEVENT, which no calendar has and whose
lines the code takes for its parent's. `FilesAssumption` says so, and that a line holds what is read there: a time, a rule or dates, each possibly
unreadable. `SharesAssumption` says that a share has a table (without one the code finds no course) and that its numbers are
numbers, of any size and sign. Between events whose start cannot be
read SortEvents compares strings; the model keeps their order.

### Migration

`v6` holds the old tables, which nobody changes, `db` the tables of v7 as committed, `work` as the transaction
sees them, `stage` how far the start is. `Start`, `MoveRows`, `MoveMarks`, `MoveState`, `MoveNamed` and `Commit` are the
parts of migrate in their order; `Stop` is a value that cannot be read, a failing statement or a crash. While the process
runs (`up`), each operation that changes a moved table is one step: a schedule saved or deleted, a renaming, a mark
cleared, settings and panel saved, a link created or refused as expired, with a deletion of its row that may fail.
`expired` remembers the tokens that were refused. One group; v6 rows of private chats are not moved by the code either.

### AdminAccess, TokenCache, RosterSync

`AdminAccess`: `sessions` and `failures` are the two maps of adminAuth. A login is `Login` (blockRemaining), then `Wrong`
(recordFailure) or `Right` and `CreateSession`, each under its own lock, so that other logins run in between; `Refuse` and
`Logout` meet a session, `Forget` is a restart. `wrong` and `holders` remember what really happened.

`TokenCache`: `token` and `expireAt` are the cache, `holder` has the write lock, a caller goes from `ask` (under the read
lock) over `wait` and `fetch` to `reply` and `send`. The platform issues tokens of several lifetimes, an answer may be late by
the client's timeout, lost, or a refusal.

`RosterSync`: `attempt` is rosterAttempts of the group, `syncs[s]` the listing of a command with its cursor and what it has found,
`roster` and `profiles` are rows of group_members. `group` is who is in the group on the platform; a page holds who comes
after the cursor when it is asked for. `stayed` and `met` of a listing remember who was there all
the time and who was there at any time. A command is over after handlerTimeout, which is shorter than the interval of
the listings: the code relies on that, and so does the assumption `Limit < Interval`.

## 3. Runs

| Run | Question | Bounds |
| --- | --- | --- |
| `store` | do the statements keep what a compare-and-set promises, implement the register, and does every call end, over a crash at any statement? | 2 callers, none or both with the page of the first import open, 2 calls, 1 observation, 1 crash, 2 bodies, 2 QQ values |
| `global_serial` | do the queries find the documented record, does an import show, does a deletion remove what could be shown and nothing of others? | 1 caller, 2 calls of any kind, 3 seats of 2 persons, a v6 record, 1 change of mode |
| `global_concurrent` | does isolated mode isolate under every interleaving? | 2 callers, all operations, 2 seats, 1 union_openid learned |
| `panel` | one panel over crashes, releases and losses? may a sync that sends nothing trust its row? does every sync end? | 2 syncs, alone or at once, 3 calls, 3 releases started in any order, 3 faults, 1 crash, 1 loss, 6 panels, 3 attempts |
| `event_dedup` | is an event handled once, and is the table full only of fresh ones? | 3 events, table of 1, time to live 1, 3 goroutines, 4 ticks, 2 lives |
| `marks` | is the limit kept, is no deletion claimed by two, does a restore rebuild, does a mark show? | 2 calls of 6 kinds by 2 callers, 2 groups, 1 member and everybody, 2 days, limit 3, 2 sets of marks at first, a list of one day and one of three with a repetition, 1 failure, edit or change of mode |
| `event_replies` | acknowledged first, one record, a true one? | 1 message, 1 press, all answer plans, 3 attempts, 2 lives |
| `course_days` | is every card right at every instant, is every board's class time that of the courses, does the elapsed part catch up? | 2 members, 3 lists of 7 kinds of course, days of 4 slots, 3 days, 2 marks, every window of the 3 days and 2 weeks |
| `calendar` | does the text mean the events, does a save leave alone what was not touched, are the weeks and clocks those of the share? | 3 imports and saves, 7 files, 7 shares of 9 courses, one with more courses than the limit of 6 events and one refused, days of 4 slots, 2 to the minute |
| `services` | moved once and whole? nothing back after a restart? expired for ever? only recent sessions and failures? a token that serves? a whole roster? | migration: 4 v6 databases, 2 members, 2 links, 2 writes, 3 times; access: 1 address, 2 logins, 2 sessions, 7 minutes, 4 wrong passwords; token: 2 callers, 2 tokens of 2 lifetimes, 7 seconds, 2 attempts; roster: 4 members of which 1 is a bot, 2 commands, pages of 2, 2 moves, 5 ticks |

Why the bounds are enough to be of interest: a lost update and a torn read need two callers and two
calls, or one call against a page that is already open; the hardest case of the storage mode is a person
in two groups whose openid in one is another person's in the other, which are the three seats; a panel
that is created twice needs a crash or a second sync between two steps; forgetting an event needs
a full table, so the table is smaller than the number of events; the attempts are the program's
own three; a group passes its limit of marks when one command lists three days, and a restore strays when the
member's courses are in the second group; a course runs over midnight and over the end of the clock's days;
a token lives as long as the margin or longer, and the clock passes both; the times of the logins are longer and shorter than
the window; a listing needs two pages and members who move between them. The theorems of section 5 take the bounds away for what they cover.

The other runs show where the program and its documents part. Each checks one property, which
states the sentence of a document or comment, and TLC shows a behaviour that violates it.

| Run | What it shows |
| --- | --- |
| `panel_follows` | an adopted panel counts as current without an update (`bot/panel.go` 101) |
| `components_kept` | a save copies nested components, the alarm of an event or the parts of a time zone, to the top of the calendar, again with every save (`schedule/ics.go` 482) |

Differences met while modelling that have no run of their own: a save of a page resolves its target
anew and may hit another record than the page showed (`PLAN.md` 4.2); an acknowledgement whose answer is
lost is sent again (`qqapi/message.go` 112 wants exactly one); a restore deletes the marks of the group only,
not those of its visible schedules (`admin/backup.go` 81), and refuses, after that deletion, the mark
of a member that has no profile in a new group (`PLAN.md` 7.3 wants a closed loop); a write on a row that was deleted
meanwhile is called a conflict (`ARCHITECTURE.md` 5.3 wants the two told apart); a failing deletion in
global mode has deleted half (`DEV-GUIDE.md` 6.3); /nickname in global mode renames the member in
the group its record is in (`PLAN.md` 4.1); a v6 record kept under the member's openid survives a
deletion once the union_openid is known; two syncs at once, or a POST that was carried out and not
answered, make two panels (`DEV-GUIDE.md` 6.7), and a panel deleted on the platform is not rebuilt in
the same release; the table of events grows beyond its limit while all of it is fresh
(`webhook/dispatch.go` 190); after deletion and re-creation revisions start at 1
(`store/schedule_repository.go` 187), so a stale page can save (`PLAN.md` 7.2 wants a conflict); EnsureMember overwrites a nickname
the profile has kept (`schedule/service.go` 146 and 162); a handling that has timed out leaves no record (`bot/handler.go`
108 and 112); a mark set with success in global mode need not show on the member's card (`schedule/shared.go` 136,
`PLAN.md` 7.3).

A release that is started again after a later one's commands were sent to the panel but not recorded (a crash, a failed save, lost answers) finds its own hash in the row and
leaves the later one's commands on the panel (`bot/panel.go` 54).

And of the calendar, the client and the start: a WakeUp share may bring more courses than a file (`schedule/service.go` 86 against `schedule/ics.go`
298), and the text stored for them is refused when it is imported again; the page shows whole minutes (`admin/schedule_editor.go` 102), so any
save cuts the seconds off the times of every course, and an EXDATE that has them no longer excludes a meeting; of two events with one UID a save gives both the hidden lines of the first
(`admin/schedule_editor.go` 262); a whole-day event that is saved untouched has become a timed one and counts as class time from
then on (`schedule/rank.go` 33); a page with one event that has no DTEND cannot be saved until it has been given
one; the DURATION, EXDATE and RDATE lines of an alarm inside an event are read as the event's own; a shifted course that runs past
midnight is missing from a window that begins after its day (`schedule/occurrence.go` 142); in the migration the names of `seen` and
of the roster win over the name in `schedule_members`; SaveGroupRoster hands a member without a name over with the openid as
its name, so the guard of the SQL against empty names never applies (`schedule/roster.go` 54); a token with `expires_in` of
at most 50 seconds is taken to live 2 minutes, and a 401 does not drop the cached token (`qqapi/client.go` 76); an edit link that
has expired and was deleted is copied from v6 again at every start, expired as it is (`store/schema.go` 644).

`CHECK_DEADLOCK FALSE` stands in every configuration but that of `course_days`: the behaviours are bounded by their
budgets, and a system at rest with nothing left to spend is not stuck. That calls end is checked as
liveness where it matters.

Restrictions that are part of the properties: `OnePanel` speaks of behaviours in which no sync has
begun while another was running (the history variable `alone`) and every request was answered;
`UnchangedMeansCurrent` excepts adopted panels and rows older than another release's commands (`unsaved`); `ImportedIsShown` excepts records that have come to
carry two persons' union_openids; `RecordTellsOutcome` excepts messages the platform delivered
without confirming; `LimitKept` speaks of behaviours without
overlapping calls (`alone`) and without a restore that wrote outside the group it cleared
(`strayed`); `RestoreRebuilds` and `MarkShows` of calls during which nothing else has changed (`quiet`) and
of members at home in the group; `IcsMatchesEvents` and `EditsActOnWhatWasShown` except writes that were granted
across a deletion, the case of the revisions that start at 1 again; `CardIsRight` and `RankIsFair` members with a shifted
course that runs past midnight; `TextHoldsEvents` says of more events than the limit, which only a share can bring, that their text is refused; `UntouchedAreKept`
excepts lists in which two events share a UID, and speaks of the times only of a course that starts and ends at whole minutes; `TokenServesAll` tokens that live no longer than the
margin; `RosterIsSnapshot` demands everybody who stayed only of groups that do not pass the limit of the roster.

## 4. Fairness

- `ScheduleStore`: strong fairness of each caller's steps. A goroutine that waits for the
  connection is enabled whenever the connection is free, and `database/sql` hands it to waiting
  callers in order, so a caller is not passed over for ever. Starting a call, failures and
  crashes have no fairness.
- `PanelSync`: weak fairness of each sync's steps: a goroutine that can go on does. Every fault
  is spent from a budget, since without a bound on faults nothing would have to end.
- The other modules state no liveness and have no fairness: what their calls must reach is a matter of the
  context's end, not of the code's order. `ElapsedCatchesUp` says of every tick what a liveness property would say of the last.

## 5. Proofs

All theorems hold for every value of the constants under the modules' assumptions: limits are
natural numbers, the empty name and the like are in or outside their sets, events are a finite
set, the keys of v6 records are one per scope and user, a stored list is a sequence of events
(SchedulesAssumption), an uploaded text and a share are what can be read (FilesAssumption, SharesAssumption, see section 2), a group's members are finitely many (MembersAssumption). The pattern is the same everywhere: `Init => IInv`, one lemma per action that
it keeps `IInv`, and PTL for the rest. Where a property speaks of calls that nobody disturbs, a second
invariant says what such a call knows at each of its queries; it was checked with TLC on the module's run
before it was proved.

- `ScheduleStoreProofs`. `IInv` is TypeOK and five parts: who holds the connection and what its
  draft is (ConnInv); a copy read at the row's present creation and revision agrees with it in
  the statements already made (CopyInv); a planned write is what its copy allows (PlanInv); the
  draft of a transaction is the row with the statements already run (DraftInv); and a caller that
  waits has planned nothing (WaitInv). Proved: TypeCorrect, IcsMatches, ProfileCallsAreSafe,
  EditsAreInformed, ConflictsHaveCause and Refinement. The invariant is needed because a torn
  copy is harmless only through the revision that goes with it: nothing can be said of a copy by
  itself.
- `GlobalSchedulesProofs`. `IInv` is TypeOK and OwnInv: as long as the mode has been isolated
  since a call began, the call aims at its own seat and has not left the isolated branch. It gives
  GlobalTypeCorrect and IsolationHolds, for any groups, people and interleavings. `QInv` adds RecordInv
  (a record with courses has a revision, none is later than the clock, a name on a record is one of its profile),
  PlanInv, and StageInv: an undisturbed call has found the places it has already asked for empty, goes for the record the
  documented order names once it has decided, and in a deletion has cleared what the queries so far delete. Proved from it:
  OrderHolds, OthersStaySafe, ImportIsWhatShows, and DeletionIsComplete. The last has one hypothesis, KeysTellWho: a
  v6 record kept under a member's openid names that member as its importer. It excludes exactly the difference noted in section 3,
  a v6 record that survives the deletion because it is kept under the openid and names nobody.
- `PanelSyncProofs`. `IInv` is TypeOK, AimInv and MineInv (a sync about to save works on a panel
  that shows its release or is gone) and RowInv: the panel of a row that was not adopted is gone, or shows the release of the row or one
  in `unsaved`. UnchangedMeansCurrent follows from the last, but is not inductive: it says nothing of a release that does not run, which may be started next. Proved: PanelTypeCorrect and
  UnchangedIsCurrent. OnePanelHolds needs OneInv: while syncs run one at a time and are answered there is one panel,
  one sync, and a sync about to create a panel has seen that the platform has none. Without the last part the
  creation could not be told from a second one.
- `EventDeliveryProofs`. `IInv` is TypeOK, ProcessedOnce, and: a goroutine of this life has its
  event in the table, no older than itself, or has been started longer ago than dedupTTL
  (TimeInv); past the acknowledgement the platform has got it (AckInv); a goroutine has claimed a
  stage exactly when it is past its sends, and its row tells what the user got (LocalInv). Proved:
  EventTypeCorrect, EventsOnce, AckFirst, OneRecordKept, RecordsTell, and TableBounded: a sweep of a full
  table leaves only fresh events, and one that is not full cannot pass its limit by one.
- `DayMarksProofs`. `IInv` is TypeOK and CallInv: a call about to set marks knows their kind, and one
  that runs has told its user nothing yet. Proved: MarksTypeCorrect, which includes the foreign key
  (nobody without a profile is marked, however restores, failures and marks interleave), and
  ClaimsTrue. CallInv is needed because a claim is made in the answer: a call that
  runs must not have one that another call's step could be blamed for. LimitHolds needs RoomInv: while calls do not overlap, what
  the one call is still to write fits with what is there, and a backup never holds more than the limit. RestoreIsComplete
  and MarkIsShown need QuietInv: a backup names nobody and no day twice (FileInv), a call is at a stage its operation
  has (StageInv), and an undisturbed one has done what the stages before ask for (ProgressInv).
- `CourseDaysProofs`. CardsAreRight. The invariant is only that the stored lists and marks are well-formed; the argument
  is about the windows. OfDayIs says which meetings the window of a day holds, OfDayHas that each has a slot in the day;
  SameMeeting and OfDayIsFinite that no two are equal in the order and that they are finitely many, so that the row of a
  finished day has a last one (LatestIs, by counting how many are up to each); BusyIsMet and MetIsBusy that they cover
  exactly the slots in which the courses, without a window, say the member is busy. The first of the two needs
  that no shifted course passes midnight, which is what `Comparable` asks for.
  RanksAreFair and ElapsedIsRight are about class time. WindowIs says which occurrences a window of days holds, ClassIsCounted that
  clipping them keeps what lies inside, JoinedCovers that the merged spans keep the moments of those they come from and lie apart,
  TotalCounts that the sum of spans apart counts their moments: MinutesCount puts the three together. InOrderIs says that a finite set can be listed in an order, which is
  what the sorts of the code come to, RankingExists and PlaceIs that a list behind nobody with less has the places
  promised. ElapsedGrows is that a later instant ends a superset of courses. The provers take no operator for an induction
  hypothesis, so what runs along a list is proved over the set of the naturals it has reached (AlongIt), and a
  recursive function is shown to exist and to be unique before it is used (Computed).
- `CalendarTextProofs`. CalendarIsTyped, StoredTextHoldsEvents, UntouchedCoursesAreKept and SharesAreComplete. `CalendarInv` is that the text can be
  read, what is stored are events, and what the page shows are inputs; TLC checked it on the module's run before it was proved. Everything else is about lists.
  OnlyHas, OnlyOfConcat and OnlyAgrees say what a selection keeps and that it goes through a concatenation, FlattenHas and FlattenOfAppend the same of
  flattening, each by the recursion and the induction of `CourseDaysProofs` (Computed, AlongIt). SortIs: what SortEvents returns is a permutation and
  sorted, because Precedes with the places of a list is a strict total order (PlacesOrder); SortedStays: what is sorted stays.
  That the text holds the events then goes in four steps. ComponentHas: the component of an event holds the lines the page does not
  know, then the fields that are there and no other. RereadIs: the event read from it has the same times, the same rule, and from its unknown lines the
  same exceptions, extra dates and length (UnseenHave), hence the same meaning. WrittenEvents: the events of a serialized text are the components just written,
  whatever components of the old text stand before them. SerializedRead: reading sorts what is sorted already, and so keeps the order, and finds as many events as were written. A save
  keeps the lines of an untouched course because its UID, or without one its place, leads back to its own lines (RemadeIs), and its times when ToMinute changes neither. ClocksAre says that the clocks of a row, its own or those
  of the nodes it covers, are there whenever HasTimes says so. The weeks of a share are arithmetic:
  WeeksAre says that the starts of the rule, every one or two weeks from the first week of the right parity, are the weeks in which the
  course is held. The proofs extend `CourseDaysProofs` for its lemmas on lists and on times; they do not use the assumptions on its members and marks.
- `ServicesProofs`, Migration. `IInv` is the types that matter, LinkInv (a refused token is out of its time in v6, in `db` and in `work`, and no
  token is handed out twice) and DoneInv (once the flag is committed, `work` differs from `db` only by old links); MovedWhole needs FirstInv besides:
  before the flag, `work` is exactly what the stages so far have made of v6. Proved: MovesWhole, RestartsChangeNothing and ExpiredStay, for
  every v6 database.
- `ServicesProofs`, AdminAccess. `AccessInv` is the types, LoginInv (a login past its check has an address), SessionInv (a session that
  is to be valid is stored with its expiry, or has been swept after it), and FailureInv: the entry of an address counts the last of the wrong passwords, all since it began
  and within one window, and blocks from the one that filled it. The program stores a count and a start, so the
  property, which speaks of the times themselves, needs to be told which times the count stands for. Proved: RecentCounts.
- `ServicesProofs`, TokenCache. `TokenInv` is the types and four parts: who fetches holds the lock (LockInv); the cached token lives past
  `expireAt` by the margin (CacheInv); the answer under way is not older than the timeout (ReplyInv); nor is a request, whose token was
  fresh when it was taken (SendInv). Twice the timeout is at most the margin: that assumption is the argument. Proved: TokenServes.
- `ServicesProofs`, RosterSync. `RosterInv` is RosterType, OneInv (a listing under way is the only one, begun at the last attempt, and the roster is of
  an earlier one: the stamp and the context's end replace a lock) and FoundInv (what it has found was there, and who stayed is found as far as the
  cursor). The lemmas MaxOf and PageFacts say that a page leaves nobody out before its last member. Proved: RosterSnapshot.

Only model-checked: liveness (CallsEnd, SyncsEnd), which needs ENABLED and fairness. Every other property of a passing run is stated by
a theorem.

## 6. What is left out

- Rendering, fonts and avatars, configuration, the WakeUp client with its ciphers, encodings, JSON and the Vue pages apart from what the course dialog does to a schedule (`Edits`): no state, or none
  a property is about.
- Of what is modelled: message-statistics pruning and aggregation, the format of cards and lists, months and academic terms of boards, the five reply
  slots (no command sends as many), the throttling of avatars, times of records beyond their order, the creation of members one
  by one, the archive around the exported texts, the writes of private chats that keep their v6 tables, and the moment between the check of an
  edit link and the write that follows it.

## 7. What would come next

1. The product of `ScheduleStore` and the links: a save through a link that expires after it was resolved.
2. Aggregation and pruning of the statistics against the records of `EventDelivery`.
3. Components nested deeper than once, as a set defined by levels.
