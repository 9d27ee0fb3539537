----------------------------- MODULE ScheduleStore -----------------------------
(***************************************************************************)
(* The v7 schedule record of ONE member of one group and the handlers that *)
(* write it: internal/store/schedule_repository.go runs the SQL, and       *)
(* internal/schedule/{service,member}.go and internal/admin/               *)
(* schedule_editor.go call it.  Each action is one SQL statement or one    *)
(* decision between two statements.                                        *)
(*                                                                         *)
(* All statements share a single SQLite connection (SetMaxOpenConns(1)): a *)
(* transaction holds it from BEGIN to COMMIT or ROLLBACK, but a read that  *)
(* takes several statements gives it back after each of them.              *)
(***************************************************************************)
EXTENDS Naturals, Sequences, FiniteSets

CONSTANTS
  Clients,        \* concurrent callers: webhook goroutines and HTTP requests
  Names, NoName, Self,    \* display names; the empty one; the member_openid
  PlatformNames,  \* names the QQ platform reports for the member
  Nicknames,      \* names members and administrators choose
  QQs, NoQQ,      \* QQ bindings; no binding
  Courses,        \* single courses
  Bodies,         \* course lists, <<>> among them
  MaxCalls,       \* bound: calls started in a behaviour
  MaxObserved,    \* bound: platform observations in a behaviour
  MaxCrashes      \* bound: process crashes in a behaviour

ASSUME NamesAssumption ==
  /\ {NoName, Self} \cup PlatformNames \cup Nicknames \subseteq Names
  /\ NoName # Self
ASSUME DataAssumption ==
  NoQQ \in QQs /\ <<>> \in Bodies /\ Bodies \subseteq Seq(Courses)
ASSUME BoundsAssumption == {MaxCalls, MaxObserved, MaxCrashes} \subseteq Nat

VARIABLES
  db,       \* committed rows: [name, qq, rev, ics, events], rev = 0: no row
  conn,     \* the client whose transaction holds the connection, or Free
  draft,    \* the rows as that transaction sees them
  pc,       \* pc[c]: where c's call stands
  req,      \* req[c]: the call's arguments
  seen,     \* seen[c]: what GetGroupMemberSchedule has returned so far
  put,      \* put[c]: the write the call has decided on
  tries,    \* tries[c]: attempts SetMemberName / SetMemberQQ have used
  page,     \* page[c]: the editor page c's user has open
  answer,   \* answer[c]: how c's call ended
  budget,   \* what is left of the three bounds
  gen,      \* history: how often the row has been created
  crossed   \* history: a write was granted on a read of an earlier row

program == <<db, conn, draft, pc, req, seen, put, tries, page, answer>>
history == <<gen, crossed>>
vars == <<db, conn, draft, pc, req, seen, put, tries, page, answer, budget,
          gen, crossed>>

Free == "free"
Keep == "keep"      \* the editor payload carries no name and no QQ
ASSUME FreeAssumption == Free \notin Clients /\ Keep \notin Names

EmptyRow == [name |-> NoName, qq |-> NoQQ, rev |-> 0, ics |-> <<>>, events |-> <<>>]
Nothing  == [name |-> NoName, qq |-> NoQQ, rev |-> 0, ics |-> <<>>, events |-> <<>>, gen |-> 0]
NoWrite  == [kind |-> "none", expected |-> 0, name |-> NoName, qq |-> NoQQ,
             ics |-> <<>>, events |-> <<>>]
NoCall   == [op |-> "none", name |-> NoName, qq |-> NoQQ, body |-> <<>>]

FirstNonEmpty(a, b) == IF a # NoName THEN a ELSE b

(* The calls a member or an administrator can make.                        *)
Calls ==
  [op : {"import"}, name : PlatformNames \cup {NoName}, qq : {NoQQ}, body : Bodies \ {<<>>}]
  \cup [op : {"nickname"}, name : Nicknames \cup {NoName}, qq : {NoQQ}, body : {<<>>}]
  \cup [op : {"qq"}, name : {NoName}, qq : QQs, body : {<<>>}]
  \cup [op : {"ensure"}, name : PlatformNames \cup {NoName}, qq : {NoQQ}, body : {<<>>}]
  \cup [op : {"save"}, name : Nicknames, qq : QQs, body : Bodies]
  \cup [op : {"save"}, name : {Keep}, qq : {NoQQ}, body : Bodies]
  \cup [op : {"load", "delete"}, name : {NoName}, qq : {NoQQ}, body : {<<>>}]

(* A member nobody has imported for yet, or one with a first import, which *)
(* some editors may have open.                                             *)
FirstRows ==
  {EmptyRow} \cup
  {[name |-> n, qq |-> NoQQ, rev |-> 1, ics |-> b, events |-> b] :
     n \in PlatformNames, b \in Bodies \ {<<>>}}

PageOf(r) ==
  IF r.rev = 0 THEN Nothing
  ELSE [name |-> r.name, qq |-> r.qq, rev |-> r.rev, ics |-> r.ics,
        events |-> r.events, gen |-> r.rev]

Init ==
  /\ db \in FirstRows
  /\ conn = Free /\ draft = EmptyRow
  /\ pc = [c \in Clients |-> "idle"]
  /\ req = [c \in Clients |-> NoCall]
  /\ seen = [c \in Clients |-> Nothing]
  /\ put = [c \in Clients |-> NoWrite]
  /\ tries = [c \in Clients |-> 0]
  /\ \E x \in {Nothing, PageOf(db)} : page = [c \in Clients |-> x]
  /\ answer = [c \in Clients |-> "pending"]
  /\ budget = [calls |-> MaxCalls, observed |-> MaxObserved, crashes |-> MaxCrashes]
  /\ gen = db.rev /\ crossed = FALSE

--------------------------------------------------------------------------------
(* A call arrives.  Saving and deleting act on the page the user has open. *)
Start(c) ==
  /\ pc[c] = "idle" /\ budget.calls > 0
  /\ \E r \in Calls :
       /\ r.op \in {"save", "delete"} => page[c].rev > 0
       /\ req' = [req EXCEPT ![c] = r]
       /\ pc' = [pc EXCEPT ![c] = IF r.op = "delete" THEN "delete" ELSE "readRow"]
       /\ put' = [put EXCEPT ![c] = IF r.op = "delete"
                    THEN [NoWrite EXCEPT !.kind = "delete", !.expected = page[c].rev]
                    ELSE NoWrite]
  /\ seen' = [seen EXCEPT ![c] = Nothing]
  /\ tries' = [tries EXCEPT ![c] = 0]
  /\ answer' = [answer EXCEPT ![c] = "pending"]
  /\ budget' = [budget EXCEPT !.calls = @ - 1]
  /\ UNCHANGED <<db, conn, draft, page, history>>

(* The call returns a to its caller; a call that ends drops its plan.      *)
Return(c, a) ==
  /\ answer' = [answer EXCEPT ![c] = a]
  /\ pc' = [pc EXCEPT ![c] = "idle"]

(* GetGroupMemberSchedule, first statement: profile and row in one join.   *)
ReadRow(c) ==
  /\ pc[c] = "readRow" /\ conn = Free
  /\ IF db.rev = 0
     THEN /\ seen' = [seen EXCEPT ![c] = Nothing]
          /\ pc' = [pc EXCEPT ![c] = "decide"]
     ELSE /\ seen' = [seen EXCEPT ![c] =
                [name |-> db.name, qq |-> db.qq, rev |-> db.rev, ics |-> db.ics,
                 events |-> <<>>, gen |-> gen]]
          /\ pc' = [pc EXCEPT ![c] = "readEvents"]
  /\ UNCHANGED <<db, conn, draft, req, put, tries, page, answer, budget, history>>

(* GetGroupMemberSchedule, second statement: the events, as they are now.  *)
ReadEvents(c) ==
  /\ pc[c] = "readEvents" /\ conn = Free
  /\ seen' = [seen EXCEPT ![c].events = db.events]
  /\ pc' = [pc EXCEPT ![c] = "decide"]
  /\ UNCHANGED <<db, conn, draft, req, put, tries, page, answer, budget, history>>

ExpectedAtSave(r, s, p) == IF r.op = "ensure" THEN 0 ELSE s.rev  \* mutant: revision of the save
ExpectedCreate(r, s, p) == IF r.op = "save" THEN p.rev ELSE 0    \* mutant: an import always creates

(* The revision a call expects: of the page, of its read, or of no row.    *)
Expected(r, s, p) ==
  CASE r.op = "ensure" -> 0
    [] r.op = "save"   -> p.rev
    [] OTHER           -> s.rev

(* The write a call asks for once it has read s.                           *)
PutOf(r, s, p) ==
  LET plan(n, q, i, ev) == [kind |-> "put", expected |-> Expected(r, s, p), name |-> n,
                            qq |-> q, ics |-> i, events |-> ev]
  IN CASE r.op = "import"   -> plan(FirstNonEmpty(s.name, FirstNonEmpty(r.name, Self)),
                                    s.qq, r.body, r.body)
       [] r.op = "nickname" -> plan(r.name, s.qq, s.ics, s.events)
       [] r.op = "qq"       -> plan(s.name, r.qq, s.ics, s.events)
       [] r.op = "ensure"   -> plan(FirstNonEmpty(r.name, Self), NoQQ, <<>>, <<>>)
       [] r.op = "save"     -> plan(IF r.name = Keep THEN s.name ELSE r.name,
                                    IF r.name = Keep THEN s.qq ELSE r.qq, r.body, r.body)

(* The reads that end the call without a write.                            *)
NothingToDo(c) ==
  LET s == seen[c] r == req[c] IN
  \/ r.op = "load"
  \/ r.op = "nickname" /\ s.rev > 0 /\ s.name = r.name
  \/ r.op = "qq" /\ s.rev > 0 /\ s.qq = r.qq
  \/ r.op = "ensure" /\ s.rev > 0

Missing(c) == req[c].op \in {"load", "qq", "save"} /\ seen[c].rev = 0

(* The handler looks at what it has read and returns, or plans its write.  *)
Decide(c) ==
  /\ pc[c] = "decide"
  /\ IF Missing(c) \/ NothingToDo(c)
     THEN /\ Return(c, IF Missing(c) THEN "notfound" ELSE "ok")
          /\ page' = IF req[c].op = "load" THEN [page EXCEPT ![c] = seen[c]] ELSE page
          /\ UNCHANGED put
     ELSE /\ put' = [put EXCEPT ![c] = PutOf(req[c], seen[c], page[c])]
          /\ pc' = [pc EXCEPT ![c] = "begin"]
          /\ UNCHANGED <<answer, page>>
  /\ UNCHANGED <<db, conn, draft, req, seen, tries, budget, history>>

--------------------------------------------------------------------------------
(* PutGroupMemberSchedule, statement by statement.  draft is private to    *)
(* the transaction: nobody reads while it holds the connection.            *)

(* BEGIN IMMEDIATE, the group row, and the upsert of the member's profile. *)
TxProfile(c) ==
  /\ pc[c] = "begin" /\ conn = Free
  /\ conn' = c
  /\ draft' = [db EXCEPT !.name = FirstNonEmpty(put[c].name, Self), !.qq = put[c].qq]
  /\ pc' = [pc EXCEPT ![c] = "row"]
  /\ UNCHANGED <<db, req, seen, put, tries, page, answer, budget, history>>

RollbackLeavesProfile ==   \* mutant: the profile is written outside the transaction
  conn' = Free /\ draft' = EmptyRow /\ db' = [db EXCEPT !.name = draft.name, !.qq = draft.qq]
RollbackKeepsConnection == draft' = EmptyRow /\ UNCHANGED <<db, conn>>   \* mutant: a leak

(* ROLLBACK: the transaction's rows are forgotten.                         *)
Rollback == conn' = Free /\ draft' = EmptyRow /\ UNCHANGED db

TxRowUnchecked(c) ==   \* mutant: no revision check
  /\ pc[c] = "row" /\ conn = c
  /\ draft' = [draft EXCEPT !.rev = @ + 1, !.ics = put[c].ics]
  /\ pc' = [pc EXCEPT ![c] = "clear"]
  /\ UNCHANGED <<db, conn, req, seen, put, tries, page, answer, budget, history>>

(* The revision the caller expects is the row's: none for 0.               *)
TxRow(c) ==
  /\ pc[c] = "row" /\ conn = c
  /\ draft.rev = put[c].expected
  /\ draft' = [draft EXCEPT !.rev = @ + 1, !.ics = put[c].ics]
  /\ pc' = [pc EXCEPT ![c] = "clear"]
  /\ UNCHANGED <<db, conn, req, seen, put, tries, page, answer, budget, history>>

ConflictForces(c) ==   \* mutant: the retry takes the new revision and the old copy
  /\ pc[c] = "row" /\ conn = c /\ draft.rev # put[c].expected
  /\ Rollback
  /\ put' = [put EXCEPT ![c].expected = draft.rev]
  /\ pc' = [pc EXCEPT ![c] = "begin"]
  /\ UNCHANGED <<req, seen, tries, page, answer, budget, history>>

(* It is not: ErrConflict.  SetMemberName and SetMemberQQ read again once, *)
(* EnsureMember swallows it, everybody else is told.                       *)
Conflict(c) ==
  /\ pc[c] = "row" /\ conn = c
  /\ draft.rev # put[c].expected
  /\ Rollback
  /\ put' = [put EXCEPT ![c].kind = "none"]
  /\ IF req[c].op \in {"nickname", "qq"} /\ tries[c] = 0
     THEN /\ tries' = [tries EXCEPT ![c] = 1]
          /\ pc' = [pc EXCEPT ![c] = "readRow"]
          /\ UNCHANGED answer
     ELSE /\ Return(c, IF req[c].op = "ensure" THEN "ok" ELSE "conflict")
          /\ UNCHANGED tries
  /\ UNCHANGED <<req, seen, page, budget, history>>

(* DELETE FROM group_member_course_events ...                              *)
TxClear(c) ==
  /\ pc[c] = "clear" /\ conn = c
  /\ draft' = [draft EXCEPT !.events = <<>>]
  /\ pc' = [pc EXCEPT ![c] = "insert"]
  /\ UNCHANGED <<db, conn, req, seen, put, tries, page, answer, budget, history>>

(* INSERT INTO group_member_course_events ..., one event at a time.        *)
TxInsert(c) ==
  /\ pc[c] = "insert" /\ conn = c
  /\ Len(draft.events) < Len(put[c].events)
  /\ draft' = [draft EXCEPT !.events = Append(@, put[c].events[Len(@) + 1])]
  /\ UNCHANGED <<db, conn, pc, req, seen, put, tries, page, answer, budget, history>>

CompleteShort(c) == Len(draft.events) + 1 >= Len(put[c].events)   \* mutant: one event is left out

(* The loop over the events is done.                                       *)
Complete(c) == Len(draft.events) >= Len(put[c].events)

(* COMMIT.  The editor keeps the page it has, at the revision it is told.  *)
TxCommit(c) ==
  /\ pc[c] = "insert" /\ conn = c
  /\ Complete(c)
  /\ db' = draft
  /\ conn' = Free /\ draft' = EmptyRow
  /\ Return(c, "ok")
  /\ gen' = IF db.rev = 0 THEN gen + 1 ELSE gen
  /\ crossed' = (crossed \/ (db.rev > 0 /\ (seen[c].gen # gen \/
                               (req[c].op = "save" /\ page[c].gen # gen))))
  /\ UNCHANGED <<req, seen, put, tries, page, budget>>

(* A statement fails (disk, cancelled context): an error for the caller,   *)
(* and a ROLLBACK if it was inside the transaction.                        *)
Fail(c) ==
  /\ pc[c] \notin {"idle", "decide"}
  /\ IF conn = c THEN Rollback ELSE UNCHANGED <<db, conn, draft>>
  /\ Return(c, "error")
  /\ UNCHANGED <<req, seen, put, tries, page, budget, history>>

--------------------------------------------------------------------------------
(* deleteExactMemberSchedule: one DELETE that carries the revision; the    *)
(* events go with the row (ON DELETE CASCADE), the profile stays.          *)
DeleteRow(c) ==
  /\ pc[c] = "delete" /\ conn = Free
  /\ IF db.rev = put[c].expected
     THEN /\ db' = [db EXCEPT !.rev = 0, !.ics = <<>>, !.events = <<>>]
          /\ Return(c, "ok")
     ELSE /\ pc' = [pc EXCEPT ![c] = "deleteCheck"]
          /\ UNCHANGED <<db, answer>>
  /\ UNCHANGED <<conn, draft, req, seen, put, tries, page, budget, history>>

(* Nothing was deleted: is there a row at all?                             *)
DeleteCheck(c) ==
  /\ pc[c] = "deleteCheck" /\ conn = Free
  /\ Return(c, IF db.rev > 0 THEN "conflict" ELSE "notfound")
  /\ UNCHANGED <<db, conn, draft, req, seen, put, tries, page, budget, history>>

--------------------------------------------------------------------------------
(* RecordGroupMemberSeen and ReplaceGroupRoster: the platform's name for   *)
(* the member overwrites the stored one.  A message without a user name    *)
(* keeps it, a roster entry without one puts the member_openid there.      *)
Observe(shown) ==
  /\ conn = Free /\ budget.observed > 0
  /\ db' = [db EXCEPT !.name = shown]
  /\ budget' = [budget EXCEPT !.observed = @ - 1]
  /\ UNCHANGED <<conn, draft, pc, req, seen, put, tries, page, answer, history>>

RecordSeen ==
  \E n \in PlatformNames \cup {NoName} :
    Observe(IF n # NoName THEN n ELSE FirstNonEmpty(db.name, Self))

ReplaceRoster ==
  \E n \in PlatformNames \cup {NoName} : Observe(FirstNonEmpty(n, Self))

(* The process dies and starts again.  Pages live in browsers and survive. *)
Crash ==
  /\ budget.crashes > 0
  /\ conn' = Free /\ draft' = EmptyRow
  /\ pc' = [c \in Clients |-> "idle"]
  /\ req' = [c \in Clients |-> NoCall]
  /\ seen' = [c \in Clients |-> Nothing]
  /\ put' = [c \in Clients |-> NoWrite]
  /\ tries' = [c \in Clients |-> 0]
  /\ answer' = [c \in Clients |-> "pending"]
  /\ budget' = [budget EXCEPT !.crashes = @ - 1]
  /\ UNCHANGED <<db, page, history>>

--------------------------------------------------------------------------------
Step(c) ==
  \/ ReadRow(c) \/ ReadEvents(c) \/ Decide(c)
  \/ TxProfile(c) \/ TxRow(c) \/ Conflict(c) \/ TxClear(c) \/ TxInsert(c) \/ TxCommit(c)
  \/ DeleteRow(c) \/ DeleteCheck(c)

Next ==
  \/ \E c \in Clients : Start(c) \/ Step(c) \/ Fail(c)
  \/ RecordSeen \/ ReplaceRoster
  \/ Crash

(* Goroutines are scheduled, and database/sql hands the connection to the  *)
(* callers that wait for it: a call that can take its next step again and  *)
(* again takes it.                                                         *)
Fairness == \A c \in Clients : SF_vars(Step(c))

Spec == Init /\ [][Next]_vars
FairSpec == Spec /\ Fairness

--------------------------------------------------------------------------------
(* Every variable holds a value of its kind.                               *)
PCs == {"idle", "readRow", "readEvents", "decide", "begin", "row", "clear",
        "insert", "delete", "deleteCheck"}
Rows == [name : Names, qq : QQs, rev : Nat, ics : Bodies, events : Seq(Courses)]
Reads == [name : Names, qq : QQs, rev : Nat, ics : Bodies, events : Bodies, gen : Nat]
Writes == [kind : {"none", "put", "delete"}, expected : Nat,
           name : Names, qq : QQs, ics : Bodies, events : Bodies]
Requests == [op : {"none", "import", "nickname", "qq", "ensure", "save", "load", "delete"},
             name : Names \cup {Keep}, qq : QQs, body : Bodies]
Budgets == [calls : Nat, observed : Nat, crashes : Nat]

TypeOK ==
  /\ db \in Rows /\ db.events \in Bodies
  /\ conn \in Clients \cup {Free}
  /\ draft \in Rows
  /\ pc \in [Clients -> PCs]
  /\ req \in [Clients -> Requests]
  /\ seen \in [Clients -> Reads]
  /\ put \in [Clients -> Writes]
  /\ tries \in [Clients -> 0..1]
  /\ page \in [Clients -> Reads]
  /\ answer \in [Clients -> {"pending", "ok", "conflict", "notfound", "error"}]
  /\ budget \in Budgets
  /\ gen \in Nat /\ crossed \in BOOLEAN

Committing(c) == pc[c] = "insert" /\ pc'[c] = "idle" /\ answer'[c] = "ok"
Deleting(c)   == pc[c] = "delete" /\ pc'[c] = "idle" /\ answer'[c] = "ok"
EditLands(c)  == Deleting(c) \/ (Committing(c) /\ req[c].op = "save")
Refusing(c)   == pc[c] # "idle" /\ pc'[c] = "idle" /\ answer'[c] = "conflict"

(* SAFETY.  The stored ICS text and the stored event rows always describe  *)
(* the same courses, although a handler that renames a member or binds a   *)
(* QQ number copies both from a read made of several statements, between   *)
(* which another call may commit: the revision check refuses a torn copy.  *)
(* It can only fail after a write was granted on a read of a row that has  *)
(* been deleted and created again since.                                   *)
IcsMatchesEvents == crossed \/ db.ics = db.events

(* ACTION.  A /nickname or QQ binding never changes the courses of the row *)
(* it was read from, whatever commits between its reads and its write      *)
(* (SetMemberName, SetMemberQQ: read, modify, compare-and-set, retry).     *)
ProfileCallsKeepCourses ==
  [][\A c \in Clients :
       Committing(c) /\ req[c].op \in {"nickname", "qq"} /\ db.rev > 0 /\ seen[c].gen = gen
       => db'.events = db.events /\ db'.ics = db.ics]_vars

(* ACTION.  An editor that saves or deletes replaces exactly the courses   *)
(* its page showed, as long as the row has not been deleted and created    *)
(* again since: the page carries the revision of a read that took several  *)
(* statements (SavePageScheduleAtContext, deleteExactMemberSchedule).      *)
EditsActOnWhatWasShown ==
  [][\A c \in Clients :
       EditLands(c) /\ page[c].gen = gen
       => page[c].events = db.events /\ page[c].ics = db.ics]_vars

(* ACTION.  Nobody is told "conflict" without cause: the row is no longer  *)
(* the one the call read, or the one its page showed.                      *)
ConflictHasCause ==
  [][\A c \in Clients :
       Refusing(c) =>
         LET basis == IF req[c].op \in {"save", "delete"} THEN page[c] ELSE seen[c]
         IN <<basis.gen, basis.rev>> # <<gen, db.rev>>]_vars

(* LIVENESS.  Every call is answered: the retry loop of SetMemberName and  *)
(* SetMemberQQ, the several statements and the queue for the connection    *)
(* never leave a handler running for ever.                                 *)
CallsEnd == \A c \in Clients : pc[c] # "idle" ~> pc[c] = "idle"

(* REFINEMENT.  The statements implement the register: a write appears at  *)
(* its COMMIT, whole, with the profile of the same call, and a refused or  *)
(* failed write leaves no trace.                                           *)
Register == INSTANCE ScheduleRegister WITH reg <- db, wanted <- put
ImplementsRegister == Register!RegSpec
===============================================================================
