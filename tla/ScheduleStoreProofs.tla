-------------------------- MODULE ScheduleStoreProofs --------------------------
(***************************************************************************)
(* Theorems of ScheduleStore.  The inductive invariant says, for every     *)
(* call and every open page, what its copy of the row is still worth: as   *)
(* long as the row has the generation and the revision of the copy, the    *)
(* copy is the row.                                                        *)
(***************************************************************************)
EXTENDS ScheduleStore, TLAPS

InTx(c)    == pc[c] \in {"row", "clear", "insert"}
Planned(c) == pc[c] \in {"begin", "row", "clear", "insert"}

(* Exactly the client inside a transaction holds the connection.           *)
ConnInv ==
  /\ \A c \in Clients : InTx(c) <=> conn = c
  /\ conn # Free => InTx(conn)

(* A copy x of the row is not newer than the row, ...                      *)
NotNewer(x) ==
  /\ x.gen <= gen
  /\ x.gen = gen /\ db.rev > 0 => x.rev <= db.rev
(* ... and it is the row while the row is the one it was read from.        *)
Current(x) == x.rev > 0 /\ x.gen = gen /\ x.rev = db.rev
Faithful(x) == Current(x) => x.ics = db.ics /\ x.events = db.events

CopyInv ==
  /\ db.rev > 0 => gen > 0
  /\ db.rev = 0 => db.ics = <<>> /\ db.events = <<>>
  /\ \A c \in Clients :
       /\ NotNewer(seen[c]) /\ NotNewer(page[c])
       /\ Faithful(page[c])
       /\ pc[c] = "readEvents" => (Current(seen[c]) => seen[c].ics = db.ics)
       /\ pc[c] = "decide" \/ Planned(c) => Faithful(seen[c])
       /\ seen[c].rev = 0 => seen[c].ics = <<>> /\ seen[c].events = <<>>
       /\ pc[c] = "readEvents" => seen[c].rev > 0

(* The write a call has planned is the one its copies call for.            *)
PlanInv ==
  \A c \in Clients :
    /\ pc[c] # "idle" => req[c] \in Calls
    /\ pc[c] # "idle" /\ req[c].op \in {"save", "delete"} => page[c].rev > 0
    /\ pc[c] \in {"delete", "deleteCheck"} =>
         /\ req[c].op = "delete"
         /\ put[c].kind = "delete" /\ put[c].expected = page[c].rev
    /\ pc[c] \notin {"idle", "delete", "deleteCheck"} => req[c].op # "delete"
    /\ Planned(c) => /\ put[c] = PutOf(req[c], seen[c], page[c])
                     /\ req[c].op \in {"import", "nickname", "qq", "ensure", "save"}
                     /\ req[c].op \in {"qq", "save"} => seen[c].rev > 0
                     /\ req[c].op = "ensure" => seen[c].rev = 0

(* The transaction's rows, statement after statement.                      *)
DraftInv ==
  \A c \in Clients :
    /\ InTx(c) => /\ draft.name = FirstNonEmpty(put[c].name, Self)
                  /\ draft.qq = put[c].qq
    /\ pc[c] = "row" => draft.rev = db.rev
    /\ pc[c] \in {"clear", "insert"} =>
         /\ put[c].expected = db.rev
         /\ draft.rev = db.rev + 1
         /\ draft.ics = put[c].ics
    /\ pc[c] = "insert" =>
         /\ Len(draft.events) <= Len(put[c].events)
         /\ \A i \in 1..Len(draft.events) : draft.events[i] = put[c].events[i]

(* A call in progress has not been answered.                               *)
WaitInv == \A c \in Clients : pc[c] # "idle" => answer[c] = "pending"

IInv == TypeOK /\ ConnInv /\ CopyInv /\ PlanInv /\ DraftInv /\ WaitInv

--------------------------------------------------------------------------------
(* The values a variable is reset to are of its kind.                      *)
LEMMA NeutralTypes ==
  /\ EmptyRow \in Rows /\ EmptyRow.events \in Bodies
  /\ Nothing \in Reads /\ NoWrite \in Writes /\ NoCall \in Requests
BY NamesAssumption, DataAssumption
   DEF EmptyRow, Nothing, NoWrite, NoCall, Rows, Reads, Writes, Requests

(* Changing one field of a record keeps its kind.                          *)
LEMMA Updates ==
  /\ \A w \in Writes : [w EXCEPT !.kind = "none"] \in Writes
  /\ \A r \in Reads, b \in Bodies : [r EXCEPT !.events = b] \in Reads
  /\ \A r \in Rows, b \in Bodies : [r EXCEPT !.rev = @ + 1, !.ics = b] \in Rows
<1>1. ASSUME NEW w \in Writes PROVE [w EXCEPT !.kind = "none"] \in Writes
  BY DEF Writes
<1>2. ASSUME NEW r \in Reads, NEW b \in Bodies PROVE [r EXCEPT !.events = b] \in Reads
  BY DEF Reads
<1>3. ASSUME NEW r \in Rows, NEW b \in Bodies
      PROVE  [r EXCEPT !.rev = @ + 1, !.ics = b] \in Rows
  <2>1. r.rev + 1 \in Nat
    BY DEF Rows
  <2>2. \A k \in Nat : [r EXCEPT !.rev = k, !.ics = b] \in Rows
    BY DEF Rows
  <2> QED
    BY <2>1, <2>2
<1> QED
  BY <1>1, <1>2, <1>3

LEMMA FullBudget ==
  [calls |-> MaxCalls, observed |-> MaxObserved, crashes |-> MaxCrashes] \in Budgets
<1>1. MaxCalls \in Nat /\ MaxObserved \in Nat /\ MaxCrashes \in Nat
  BY BoundsAssumption
<1> QED
  BY <1>1 DEF Budgets

LEMMA InitInv == Init => IInv
<1> SUFFICES ASSUME Init PROVE IInv
  OBVIOUS
<1> USE DEF Init
<1>1. db \in Rows /\ db.events \in Bodies /\ db.rev \in {0, 1}
      /\ (db.rev = 0 => db.ics = <<>> /\ db.events = <<>>)
  BY NamesAssumption, DataAssumption DEF FirstRows, EmptyRow, Rows
<1>2. budget \in Budgets
  BY FullBudget
<1>g. gen \in Nat
  <2>1. db.rev \in Nat
    BY <1>1 DEF Rows
  <2> QED
    BY <2>1, Zenon
<1>p. PageOf(db) \in Reads
  BY <1>1, NeutralTypes DEF PageOf, Rows, Reads
<1>3. TypeOK
  <2>1. conn \in Clients \cup {Free} /\ draft \in Rows /\ crossed \in BOOLEAN
    BY NeutralTypes
  <2>3. /\ pc \in [Clients -> PCs] /\ req \in [Clients -> Requests]
        /\ seen \in [Clients -> Reads] /\ put \in [Clients -> Writes]
        /\ page \in [Clients -> Reads]
    BY <1>p, NeutralTypes DEF PCs
  <2>4. /\ tries \in [Clients -> 0..1]
        /\ answer \in [Clients -> {"pending", "ok", "conflict", "notfound", "error"}]
    OBVIOUS
  <2> QED
    BY <1>1, <1>2, <1>g, <2>1, <2>3, <2>4 DEF TypeOK
<1>4. ConnInv
  BY FreeAssumption DEF ConnInv, InTx
<1>5. CopyInv
  <2>1. PICK x \in {Nothing, PageOf(db)} : page = [c \in Clients |-> x]
    OBVIOUS
  <2>2. NotNewer(x) /\ Faithful(x)
    BY <1>1 DEF NotNewer, Faithful, Current, PageOf, Nothing
  <2>3. NotNewer(Nothing)
    BY <1>1 DEF NotNewer, Nothing
  <2> QED
    BY <1>1, <2>1, <2>2, <2>3 DEF CopyInv, Planned, Nothing
<1>6. PlanInv
  BY DEF PlanInv, Planned
<1>7. DraftInv
  BY DEF DraftInv, InTx
<1>8. WaitInv
  BY DEF WaitInv
<1> QED
  BY <1>3, <1>4, <1>5, <1>6, <1>7, <1>8 DEF IInv

--------------------------------------------------------------------------------
(* Sequences with the same elements are the same sequence.                 *)
LEMMA SameElements ==
  ASSUME NEW S, NEW s \in Seq(S), NEW t \in Seq(S), Len(s) = Len(t),
         \A i \in 1..Len(s) : s[i] = t[i]
  PROVE  s = t
OBVIOUS

(* A transaction that commits has written all the events of its call.      *)
LEMMA CommitWhole ==
  ASSUME IInv, NEW c \in Clients, TxCommit(c)
  PROVE  draft.events = put[c].events
<1>1. put[c].events \in Seq(Courses) /\ draft.events \in Seq(Courses)
  BY DataAssumption DEF IInv, TypeOK, Writes, Rows
<1>2. \A i \in 1..Len(draft.events) : draft.events[i] = put[c].events[i]
  BY DEF IInv, DraftInv, TxCommit
<1>3. Len(draft.events) = Len(put[c].events)
  <2>1. Len(draft.events) <= Len(put[c].events)
    BY DEF IInv, DraftInv, TxCommit
  <2> QED
    BY <1>1, <2>1 DEF TxCommit, Complete
<1> QED
  BY <1>1, <1>2, <1>3, SameElements

(* Both observations write one name.                                       *)
LEMMA ObservedName ==
  ASSUME TypeOK, RecordSeen \/ ReplaceRoster
  PROVE  \E n \in Names : Observe(n)
BY NamesAssumption DEF RecordSeen, ReplaceRoster, FirstNonEmpty, TypeOK, Rows

--------------------------------------------------------------------------------
(* Type correctness of every step.                                         *)
LEMMA TypeStep == IInv /\ [Next]_vars => TypeOK'
<1> SUFFICES ASSUME IInv, [Next]_vars PROVE TypeOK'
  OBVIOUS
<1> USE NamesAssumption, DataAssumption, FreeAssumption
<1>t. TypeOK
  BY DEF IInv
<1>1. ASSUME NEW c \in Clients, Start(c) PROVE TypeOK'
  <2>1. PICK r \in Calls :
          /\ req' = [req EXCEPT ![c] = r]
          /\ pc' = [pc EXCEPT ![c] = IF r.op = "delete" THEN "delete" ELSE "readRow"]
          /\ put' = [put EXCEPT ![c] = IF r.op = "delete"
                       THEN [NoWrite EXCEPT !.kind = "delete", !.expected = page[c].rev]
                       ELSE NoWrite]
    BY <1>1 DEF Start
  <2>2. r \in Requests
    BY DEF Calls, Requests
  <2>3. [NoWrite EXCEPT !.kind = "delete", !.expected = page[c].rev] \in Writes
    BY <1>t DEF TypeOK, Reads, Writes, NoWrite
  <2>4. put' \in [Clients -> Writes]
    BY <1>t, <2>1, <2>3, NeutralTypes DEF TypeOK
  <2>5. budget' \in Budgets
    BY <1>1, <1>t DEF TypeOK, Start, Budgets
  <2> QED
    BY <1>1, <1>t, <2>1, <2>2, <2>4, <2>5, NeutralTypes DEF TypeOK, Start, PCs, history
<1>2. ASSUME NEW c \in Clients, ReadRow(c) PROVE TypeOK'
  <2>1. [name |-> db.name, qq |-> db.qq, rev |-> db.rev, ics |-> db.ics,
         events |-> <<>>, gen |-> gen] \in Reads
    BY <1>t DEF TypeOK, Rows, Reads
  <2>2. seen' \in [Clients -> Reads]
    BY <1>2, <1>t, <2>1, NeutralTypes, SMTT(30) DEF TypeOK, ReadRow
  <2> QED
    BY <1>2, <1>t, <2>2 DEF TypeOK, ReadRow, PCs, history
<1>3. ASSUME NEW c \in Clients, ReadEvents(c) PROVE TypeOK'
  <2>1. seen[c] \in Reads /\ [seen[c] EXCEPT !.events = db.events] \in Reads
    BY <1>t, Updates DEF TypeOK
  <2> QED
    BY <1>3, <1>t, <2>1 DEF TypeOK, ReadEvents, PCs, history
<1>4. ASSUME NEW c \in Clients, Decide(c) PROVE TypeOK'
  <2>1. pc[c] = "decide" /\ req[c] \in Calls /\ req[c].op # "delete"
    BY <1>4 DEF IInv, PlanInv, Decide
  <2>2. CASE Missing(c) \/ NothingToDo(c)
    BY <1>4, <1>t, <2>1, <2>2 DEF TypeOK, Decide, Return, PCs, history
  <2>3. CASE ~(Missing(c) \/ NothingToDo(c))
    <3>1. seen[c] \in Reads /\ page[c] \in Reads
      BY <1>t DEF TypeOK
    <3>2. PutOf(req[c], seen[c], page[c]) \in Writes
      BY <2>1, <2>3, <3>1 DEF PutOf, Expected, Calls, Reads, Writes, FirstNonEmpty, NothingToDo
    <3> QED
      BY <1>4, <1>t, <2>3, <3>2 DEF TypeOK, Decide, PCs, history
  <2> QED
    BY <2>2, <2>3
<1>5. ASSUME NEW c \in Clients, TxInsert(c) PROVE TypeOK'
  <2>1. put[c].events \in Seq(Courses) /\ draft.events \in Seq(Courses)
    BY <1>t DEF TypeOK, Writes, Rows
  <2>2. Append(draft.events, put[c].events[Len(draft.events) + 1]) \in Seq(Courses)
    BY <2>1, <1>5 DEF TxInsert
  <2> QED
    BY <1>5, <1>t, <2>2 DEF TypeOK, TxInsert, Rows, history
<1>6. ASSUME NEW c \in Clients, TxCommit(c) PROVE TypeOK'
  <2>1. draft.events = put[c].events
    BY <1>6, CommitWhole
  <2>2. draft.events \in Bodies
    BY <1>t, <2>1 DEF TypeOK, Writes
  <2> QED
    BY <1>6, <1>t, <2>2 DEF TypeOK, TxCommit, Return, EmptyRow, Rows, PCs
<1>7. ASSUME NEW c \in Clients, Fail(c) PROVE TypeOK'
  <2>1. conn' \in Clients \cup {Free} /\ draft' \in Rows /\ db' = db
    BY <1>7, <1>t DEF TypeOK, Fail, Rollback, EmptyRow, Rows
  <2> QED
    BY <1>7, <1>t, <2>1 DEF TypeOK, Fail, Return, PCs, history
<1>8. ASSUME NEW c \in Clients, TxProfile(c) PROVE TypeOK'
  BY <1>8, <1>t DEF TypeOK, TxProfile, Rows, FirstNonEmpty, Writes, PCs, history
<1>9. ASSUME NEW c \in Clients, TxRow(c) PROVE TypeOK'
  <2>1. put[c].ics \in Bodies
    BY <1>t DEF TypeOK, Writes
  <2>2. [draft EXCEPT !.rev = @ + 1, !.ics = put[c].ics] \in Rows
    BY <1>t, <2>1, Updates DEF TypeOK
  <2> QED
    BY <1>9, <1>t, <2>2 DEF TypeOK, TxRow, PCs, history
<1>10. ASSUME NEW c \in Clients, Conflict(c) PROVE TypeOK'
  <2>1. [put[c] EXCEPT !.kind = "none"] \in Writes
    BY <1>t, Updates DEF TypeOK
  <2>2. conn' = Free /\ draft' = EmptyRow /\ db' = db
    BY <1>10 DEF Conflict, Rollback
  <2>3. pc' \in [Clients -> PCs] /\ tries' \in [Clients -> 0..1]
    BY <1>10, <1>t DEF TypeOK, Conflict, Return, PCs
  <2>4. answer' \in [Clients -> {"pending", "ok", "conflict", "notfound", "error"}]
    BY <1>10, <1>t DEF TypeOK, Conflict, Return
  <2>5. put' \in [Clients -> Writes]
    BY <1>10, <1>t, <2>1 DEF TypeOK, Conflict
  <2> QED
    BY <1>10, <1>t, <2>2, <2>3, <2>4, <2>5, NeutralTypes DEF TypeOK, Conflict, history
<1>11. ASSUME NEW c \in Clients, TxClear(c) PROVE TypeOK'
  BY <1>11, <1>t DEF TypeOK, TxClear, Rows, PCs, history
<1>12. ASSUME NEW c \in Clients, DeleteRow(c) PROVE TypeOK'
  <2>1. [db EXCEPT !.rev = 0, !.ics = <<>>, !.events = <<>>] \in Rows
    BY <1>t DEF TypeOK, Rows
  <2>2. [db EXCEPT !.rev = 0, !.ics = <<>>, !.events = <<>>].events = <<>>
    BY <1>t DEF TypeOK, Rows
  <2>3. db' \in Rows /\ db'.events \in Bodies
    BY <1>12, <1>t, <2>1, <2>2 DEF TypeOK, DeleteRow
  <2> QED
    BY <1>12, <1>t, <2>3 DEF TypeOK, DeleteRow, Return, PCs, history
<1>13. ASSUME NEW c \in Clients, DeleteCheck(c) PROVE TypeOK'
  BY <1>13, <1>t DEF TypeOK, DeleteCheck, Return, PCs, history
<1>14. ASSUME NEW n \in Names, Observe(n) PROVE TypeOK'
  <2>1. [db EXCEPT !.name = n] \in Rows /\ [db EXCEPT !.name = n].events = db.events
    BY <1>t DEF TypeOK, Rows
  <2>2. budget' \in Budgets
    BY <1>14, <1>t DEF TypeOK, Observe, Budgets
  <2> QED
    BY <1>14, <1>t, <2>1, <2>2 DEF TypeOK, Observe, history
<1>15. ASSUME Crash PROVE TypeOK'
  <2>1. budget' \in Budgets
    BY <1>15, <1>t DEF TypeOK, Crash, Budgets
  <2> QED
    BY <1>15, <1>t, <2>1, NeutralTypes DEF TypeOK, Crash, PCs, history
<1>s. RecordSeen \/ ReplaceRoster => \E n \in Names : Observe(n)
  BY <1>t, ObservedName
<1>16. ASSUME UNCHANGED vars PROVE TypeOK'
  BY <1>16, <1>t DEF TypeOK, vars
<1> QED
  BY <1>1, <1>2, <1>3, <1>4, <1>5, <1>6, <1>7, <1>8, <1>9, <1>10, <1>11, <1>12, <1>13, <1>14, <1>15, <1>16, <1>s DEF Next, Step

--------------------------------------------------------------------------------
(* Exactly the client in a transaction holds the connection.               *)
LEMMA ConnStep == IInv /\ [Next]_vars => ConnInv'
<1> SUFFICES ASSUME IInv, [Next]_vars PROVE ConnInv'
  OBVIOUS
<1> USE FreeAssumption
<1>t. TypeOK /\ ConnInv
  BY DEF IInv
<1>1. ASSUME NEW c \in Clients, Start(c) PROVE ConnInv'
  BY <1>1, <1>t DEF Start, TypeOK, ConnInv, InTx, history
<1>2. ASSUME NEW c \in Clients, ReadRow(c) PROVE ConnInv'
  BY <1>2, <1>t DEF ReadRow, TypeOK, ConnInv, InTx, history
<1>3. ASSUME NEW c \in Clients, ReadEvents(c) PROVE ConnInv'
  BY <1>3, <1>t DEF ReadEvents, TypeOK, ConnInv, InTx, history
<1>4. ASSUME NEW c \in Clients, Decide(c) PROVE ConnInv'
  BY <1>4, <1>t DEF Decide, Return, TypeOK, ConnInv, InTx, history
<1>5. ASSUME NEW c \in Clients, TxProfile(c) PROVE ConnInv'
  BY <1>5, <1>t DEF TxProfile, TypeOK, ConnInv, InTx, history
<1>6. ASSUME NEW c \in Clients, TxRow(c) PROVE ConnInv'
  BY <1>6, <1>t DEF TxRow, TypeOK, ConnInv, InTx, history
<1>7. ASSUME NEW c \in Clients, Conflict(c) PROVE ConnInv'
  BY <1>7, <1>t DEF Conflict, Rollback, Return, TypeOK, ConnInv, InTx, history
<1>8. ASSUME NEW c \in Clients, TxClear(c) PROVE ConnInv'
  BY <1>8, <1>t DEF TxClear, TypeOK, ConnInv, InTx, history
<1>9. ASSUME NEW c \in Clients, TxInsert(c) PROVE ConnInv'
  BY <1>9, <1>t DEF TxInsert, TypeOK, ConnInv, InTx, history
<1>10. ASSUME NEW c \in Clients, TxCommit(c) PROVE ConnInv'
  BY <1>10, <1>t DEF TxCommit, Return, TypeOK, ConnInv, InTx, history
<1>11. ASSUME NEW c \in Clients, Fail(c) PROVE ConnInv'
  BY <1>11, <1>t DEF Fail, Rollback, Return, TypeOK, ConnInv, InTx, history
<1>12. ASSUME NEW c \in Clients, DeleteRow(c) PROVE ConnInv'
  BY <1>12, <1>t DEF DeleteRow, Return, TypeOK, ConnInv, InTx, history
<1>13. ASSUME NEW c \in Clients, DeleteCheck(c) PROVE ConnInv'
  BY <1>13, <1>t DEF DeleteCheck, Return, TypeOK, ConnInv, InTx, history
<1>14. ASSUME NEW n \in Names, Observe(n) PROVE ConnInv'
  BY <1>14, <1>t DEF Observe, TypeOK, ConnInv, InTx, history
<1>15. ASSUME Crash PROVE ConnInv'
  BY <1>15, <1>t DEF Crash, TypeOK, ConnInv, InTx, history
<1>16. ASSUME UNCHANGED vars PROVE ConnInv'
  BY <1>16, <1>t DEF vars, TypeOK, ConnInv, InTx, history
<1>s. RecordSeen \/ ReplaceRoster => \E n \in Names : Observe(n)
  BY <1>t, ObservedName
<1> QED
  BY <1>1, <1>2, <1>3, <1>4, <1>5, <1>6, <1>7, <1>8, <1>9, <1>10, <1>11, <1>12, <1>13, <1>14, <1>15, <1>16, <1>s DEF Next, Step

--------------------------------------------------------------------------------
(* The transaction's rows stay what its statements have made of them.      *)
LEMMA DraftStep == IInv /\ [Next]_vars => DraftInv'
<1> SUFFICES ASSUME IInv, [Next]_vars PROVE DraftInv'
  OBVIOUS
<1> USE FreeAssumption
<1>t. TypeOK /\ ConnInv /\ DraftInv
  BY DEF IInv
<1>1. ASSUME NEW c \in Clients, Start(c) PROVE DraftInv'
  BY <1>1, <1>t DEF Start, TypeOK, Rows, Writes, ConnInv, DraftInv, InTx, history
<1>2. ASSUME NEW c \in Clients, ReadRow(c) PROVE DraftInv'
  <2>1. UNCHANGED <<db, conn, draft, put>>
    BY <1>2 DEF ReadRow
  <2>2. \A d \in Clients : pc'[d] \in {"row", "clear", "insert"} => pc'[d] = pc[d]
    BY <1>2, <1>t DEF ReadRow, TypeOK
  <2> QED
    BY <1>t, <2>1, <2>2 DEF DraftInv, InTx
<1>3. ASSUME NEW c \in Clients, ReadEvents(c) PROVE DraftInv'
  BY <1>3, <1>t DEF ReadEvents, TypeOK, Rows, Writes, ConnInv, DraftInv, InTx, history
<1>4. ASSUME NEW c \in Clients, Decide(c) PROVE DraftInv'
  BY <1>4, <1>t DEF Decide, Return, TypeOK, Rows, Writes, ConnInv, DraftInv, InTx, history
<1>5. ASSUME NEW c \in Clients, TxProfile(c) PROVE DraftInv'
  BY <1>5, <1>t DEF TxProfile, TypeOK, Rows, Writes, ConnInv, DraftInv, InTx, history
<1>6. ASSUME NEW c \in Clients, TxRow(c) PROVE DraftInv'
  BY <1>6, <1>t DEF TxRow, TypeOK, Rows, Writes, ConnInv, DraftInv, InTx, history
<1>7. ASSUME NEW c \in Clients, Conflict(c) PROVE DraftInv'
  BY <1>7, <1>t DEF Conflict, Rollback, Return, TypeOK, Rows, Writes, ConnInv, DraftInv, InTx, history
<1>8. ASSUME NEW c \in Clients, TxClear(c) PROVE DraftInv'
  BY <1>8, <1>t DEF TxClear, TypeOK, Rows, Writes, ConnInv, DraftInv, InTx, history
<1>9. ASSUME NEW c \in Clients, TxInsert(c) PROVE DraftInv'
  BY <1>9, <1>t DEF TxInsert, TypeOK, Rows, Writes, ConnInv, DraftInv, InTx, history
<1>10. ASSUME NEW c \in Clients, TxCommit(c) PROVE DraftInv'
  BY <1>10, <1>t DEF TxCommit, Return, TypeOK, Rows, Writes, ConnInv, DraftInv, InTx, history
<1>11. ASSUME NEW c \in Clients, Fail(c) PROVE DraftInv'
  BY <1>11, <1>t DEF Fail, Rollback, Return, TypeOK, Rows, Writes, ConnInv, DraftInv, InTx, history
<1>12. ASSUME NEW c \in Clients, DeleteRow(c) PROVE DraftInv'
  BY <1>12, <1>t DEF DeleteRow, Return, TypeOK, Rows, Writes, ConnInv, DraftInv, InTx, history
<1>13. ASSUME NEW c \in Clients, DeleteCheck(c) PROVE DraftInv'
  BY <1>13, <1>t DEF DeleteCheck, Return, TypeOK, Rows, Writes, ConnInv, DraftInv, InTx, history
<1>14. ASSUME NEW n \in Names, Observe(n) PROVE DraftInv'
  BY <1>14, <1>t DEF Observe, TypeOK, Rows, Writes, ConnInv, DraftInv, InTx, history
<1>15. ASSUME Crash PROVE DraftInv'
  BY <1>15, <1>t DEF Crash, TypeOK, Rows, Writes, ConnInv, DraftInv, InTx, history
<1>16. ASSUME UNCHANGED vars PROVE DraftInv'
  BY <1>16, <1>t DEF vars, TypeOK, Rows, Writes, ConnInv, DraftInv, InTx, history
<1>s. RecordSeen \/ ReplaceRoster => \E n \in Names : Observe(n)
  BY <1>t, ObservedName
<1> QED
  BY <1>1, <1>2, <1>3, <1>4, <1>5, <1>6, <1>7, <1>8, <1>9, <1>10, <1>11, <1>12, <1>13, <1>14, <1>15, <1>16, <1>s DEF Next, Step

--------------------------------------------------------------------------------
(* A plan stays the one the call's copies call for.                        *)
LEMMA PlanStep == IInv /\ [Next]_vars => PlanInv'
<1> SUFFICES ASSUME IInv, [Next]_vars PROVE PlanInv'
  OBVIOUS
<1>t. TypeOK /\ PlanInv
  BY DEF IInv
<1>1. ASSUME NEW c \in Clients, Start(c) PROVE PlanInv'
  BY <1>1, <1>t DEF Start, TypeOK, PlanInv, Planned, history
<1>2. ASSUME NEW c \in Clients, ReadRow(c) PROVE PlanInv'
  BY <1>2, <1>t DEF ReadRow, TypeOK, PlanInv, Planned, history
<1>3. ASSUME NEW c \in Clients, ReadEvents(c) PROVE PlanInv'
  BY <1>3, <1>t DEF ReadEvents, TypeOK, PlanInv, Planned, history
<1>4. ASSUME NEW c \in Clients, Decide(c) PROVE PlanInv'
  <2>1. CASE Missing(c) \/ NothingToDo(c)
    <3>1. /\ pc' = [pc EXCEPT ![c] = "idle"] /\ UNCHANGED <<put, req, seen>>
          /\ \A d \in Clients : d # c => page'[d] = page[d]
      BY <1>4, <1>t, <2>1 DEF Decide, Return, TypeOK
    <3> QED
      BY <1>t, <3>1 DEF TypeOK, PlanInv, Planned
  <2>2. CASE ~(Missing(c) \/ NothingToDo(c))
    <3>1. /\ pc' = [pc EXCEPT ![c] = "begin"] /\ UNCHANGED <<req, seen, page>>
          /\ put' = [put EXCEPT ![c] = PutOf(req[c], seen[c], page[c])]
      BY <1>4, <2>2 DEF Decide
    <3>2. /\ pc[c] = "decide" /\ req[c] \in Calls /\ req[c].op # "delete"
      BY <1>4, <1>t DEF Decide, PlanInv
    <3>3. /\ req[c].op \in {"import", "nickname", "qq", "ensure", "save"}
          /\ req[c].op \in {"qq", "save"} => seen[c].rev > 0
          /\ req[c].op = "ensure" => seen[c].rev = 0
      <4>1. req[c].op \in {"import", "nickname", "qq", "ensure", "save", "load", "delete"}
        BY <3>2 DEF Calls
      <4>2. seen[c].rev \in Nat
        BY <1>t DEF TypeOK, Reads
      <4> QED
        BY <2>2, <3>2, <4>1, <4>2 DEF Missing, NothingToDo
    <3>4. \A d \in Clients : d # c =>
            /\ pc'[d] = pc[d] /\ req'[d] = req[d] /\ seen'[d] = seen[d]
            /\ put'[d] = put[d] /\ page'[d] = page[d]
      BY <3>1, <1>t DEF TypeOK
    <3>5. /\ pc'[c] = "begin" /\ req'[c] = req[c] /\ seen'[c] = seen[c] /\ page'[c] = page[c]
          /\ put'[c] = PutOf(req[c], seen[c], page[c])
      BY <3>1, <1>t DEF TypeOK
    <3>6. req[c].op = "save" => page[c].rev > 0
      BY <3>2, <1>t DEF PlanInv
    <3> QED
      BY <1>t, <3>2, <3>3, <3>4, <3>5, <3>6 DEF PlanInv, Planned
  <2> QED
    BY <2>1, <2>2
<1>5. ASSUME NEW c \in Clients, TxProfile(c) PROVE PlanInv'
  BY <1>5, <1>t DEF TxProfile, TypeOK, PlanInv, Planned, history
<1>6. ASSUME NEW c \in Clients, TxRow(c) PROVE PlanInv'
  BY <1>6, <1>t DEF TxRow, TypeOK, PlanInv, Planned, history
<1>7. ASSUME NEW c \in Clients, Conflict(c) PROVE PlanInv'
  BY <1>7, <1>t DEF Conflict, Rollback, Return, TypeOK, PlanInv, Planned, history
<1>8. ASSUME NEW c \in Clients, TxClear(c) PROVE PlanInv'
  BY <1>8, <1>t DEF TxClear, TypeOK, PlanInv, Planned, history
<1>9. ASSUME NEW c \in Clients, TxInsert(c) PROVE PlanInv'
  BY <1>9, <1>t DEF TxInsert, TypeOK, PlanInv, Planned, history
<1>10. ASSUME NEW c \in Clients, TxCommit(c) PROVE PlanInv'
  BY <1>10, <1>t DEF TxCommit, Return, TypeOK, PlanInv, Planned, history
<1>11. ASSUME NEW c \in Clients, Fail(c) PROVE PlanInv'
  BY <1>11, <1>t DEF Fail, Rollback, Return, TypeOK, PlanInv, Planned, history
<1>12. ASSUME NEW c \in Clients, DeleteRow(c) PROVE PlanInv'
  BY <1>12, <1>t DEF DeleteRow, Return, TypeOK, PlanInv, Planned, history
<1>13. ASSUME NEW c \in Clients, DeleteCheck(c) PROVE PlanInv'
  BY <1>13, <1>t DEF DeleteCheck, Return, TypeOK, PlanInv, Planned, history
<1>14. ASSUME NEW n \in Names, Observe(n) PROVE PlanInv'
  BY <1>14, <1>t DEF Observe, TypeOK, PlanInv, Planned, history
<1>15. ASSUME Crash PROVE PlanInv'
  BY <1>15, <1>t DEF Crash, TypeOK, PlanInv, Planned, history
<1>16. ASSUME UNCHANGED vars PROVE PlanInv'
  BY <1>16, <1>t DEF vars, TypeOK, PlanInv, Planned, history
<1>s. RecordSeen \/ ReplaceRoster => \E n \in Names : Observe(n)
  BY <1>t, ObservedName
<1> QED
  BY <1>1, <1>2, <1>3, <1>4, <1>5, <1>6, <1>7, <1>8, <1>9, <1>10, <1>11, <1>12, <1>13, <1>14, <1>15, <1>16, <1>s DEF Next, Step

--------------------------------------------------------------------------------
(* A copy of the row that is still current is still the row.               *)
LEMMA CopyStep == IInv /\ [Next]_vars => CopyInv'
<1> SUFFICES ASSUME IInv, [Next]_vars PROVE CopyInv'
  OBVIOUS
<1>t. TypeOK /\ CopyInv
  BY DEF IInv
<1>1. ASSUME NEW c \in Clients, Start(c) PROVE CopyInv'
  <2>1. Nothing.rev = 0 /\ Nothing.gen = 0 /\ Nothing.ics = <<>> /\ Nothing.events = <<>>
    BY DEF Nothing
  <2>2. /\ UNCHANGED <<db, gen, page>>
        /\ seen' = [seen EXCEPT ![c] = Nothing]
        /\ pc'[c] \in {"delete", "readRow"}
        /\ \A d \in Clients : d # c => pc'[d] = pc[d]
    BY <1>1, <1>t DEF Start, TypeOK, history
  <2> QED
    BY <1>t, <2>1, <2>2 DEF TypeOK, CopyInv, NotNewer, Faithful, Current, Planned
<1>2. ASSUME NEW c \in Clients, ReadRow(c) PROVE CopyInv'
  <2>1. Nothing.rev = 0 /\ Nothing.gen = 0 /\ Nothing.ics = <<>> /\ Nothing.events = <<>>
    BY DEF Nothing
  <2>2. UNCHANGED <<db, gen, page>> /\ \A d \in Clients : d # c => pc'[d] = pc[d] /\ seen'[d] = seen[d]
    BY <1>2, <1>t DEF ReadRow, TypeOK, history
  <2>3. CASE db.rev = 0
    <3>1. seen'[c] = Nothing /\ pc'[c] = "decide"
      BY <1>2, <1>t, <2>3 DEF ReadRow, TypeOK
    <3> QED
      BY <1>t, <2>1, <2>2, <3>1 DEF TypeOK, CopyInv, NotNewer, Faithful, Current, Planned
  <2>4. CASE db.rev # 0
    <3>1. /\ seen'[c].rev = db.rev /\ seen'[c].gen = gen /\ seen'[c].ics = db.ics
          /\ pc'[c] = "readEvents"
      BY <1>2, <1>t, <2>4 DEF ReadRow, TypeOK
    <3>2. db.rev \in Nat /\ db.rev > 0
      BY <1>t, <2>4 DEF TypeOK, Rows
    <3> QED
      BY <1>t, <2>2, <3>1, <3>2 DEF TypeOK, CopyInv, NotNewer, Faithful, Current, Planned
  <2> QED
    BY <2>3, <2>4
<1>3. ASSUME NEW c \in Clients, ReadEvents(c) PROVE CopyInv'
  BY <1>3, <1>t DEF ReadEvents, TypeOK, Rows, Reads, CopyInv, NotNewer, Faithful, Current, Planned, history
<1>4. ASSUME NEW c \in Clients, Decide(c) PROVE CopyInv'
  BY <1>4, <1>t, SMTT(30) DEF Decide, Return, TypeOK, Rows, Reads, CopyInv, NotNewer, Faithful, Current, Planned, history
<1>5. ASSUME NEW c \in Clients, TxProfile(c) PROVE CopyInv'
  BY <1>5, <1>t DEF TxProfile, TypeOK, Rows, Reads, CopyInv, NotNewer, Faithful, Current, Planned, history
<1>6. ASSUME NEW c \in Clients, TxRow(c) PROVE CopyInv'
  BY <1>6, <1>t DEF TxRow, TypeOK, Rows, Reads, CopyInv, NotNewer, Faithful, Current, Planned, history
<1>7. ASSUME NEW c \in Clients, Conflict(c) PROVE CopyInv'
  BY <1>7, <1>t DEF Conflict, Rollback, Return, TypeOK, Rows, Reads, CopyInv, NotNewer, Faithful, Current, Planned, history
<1>8. ASSUME NEW c \in Clients, TxClear(c) PROVE CopyInv'
  BY <1>8, <1>t DEF TxClear, TypeOK, Rows, Reads, CopyInv, NotNewer, Faithful, Current, Planned, history
<1>9. ASSUME NEW c \in Clients, TxInsert(c) PROVE CopyInv'
  BY <1>9, <1>t DEF TxInsert, TypeOK, Rows, Reads, CopyInv, NotNewer, Faithful, Current, Planned, history
<1>10. ASSUME NEW c \in Clients, TxCommit(c) PROVE CopyInv'
  <2>1. db' = draft /\ draft.rev = db.rev + 1
    BY <1>10 DEF TxCommit, IInv, DraftInv
  <2>2. gen' = (IF db.rev = 0 THEN gen + 1 ELSE gen) /\ db.rev \in Nat /\ gen \in Nat
    BY <1>10, <1>t DEF TxCommit, TypeOK, Rows
  <2>3. /\ UNCHANGED <<seen, page>>
        /\ pc'[c] = "idle" /\ \A d \in Clients : d # c => pc'[d] = pc[d]
    BY <1>10, <1>t DEF TxCommit, Return, TypeOK
  <2>4. ASSUME NEW x \in Reads, NotNewer(x) PROVE NotNewer(x)' /\ ~Current(x)'
    <3>1. x.gen \in Nat /\ x.rev \in Nat
      BY DEF Reads
    <3> QED
      BY <2>1, <2>2, <2>4, <3>1 DEF NotNewer, Current
  <2>5. \A d \in Clients : /\ seen[d] \in Reads /\ page[d] \in Reads
                            /\ seen'[d] = seen[d] /\ page'[d] = page[d]
    BY <1>t, <2>3 DEF TypeOK
  <2>6. db'.rev > 0 /\ gen' > 0
    BY <1>t, <2>1, <2>2 DEF CopyInv
  <2>7. \A d \in Clients : /\ NotNewer(seen[d])' /\ NotNewer(page[d])'
                            /\ ~Current(seen[d])' /\ ~Current(page[d])'
    BY <1>t, <2>4, <2>5 DEF CopyInv, NotNewer, Current
  <2> QED
    BY <1>t, <2>3, <2>5, <2>6, <2>7 DEF CopyInv, Faithful, Planned
<1>11. ASSUME NEW c \in Clients, Fail(c) PROVE CopyInv'
  BY <1>11, <1>t, SMTT(30) DEF Fail, Rollback, Return, TypeOK, Rows, Reads, CopyInv, NotNewer, Faithful, Current, Planned, history
<1>12. ASSUME NEW c \in Clients, DeleteRow(c) PROVE CopyInv'
  <2>1. CASE db.rev = put[c].expected
    <3>1. db' = [db EXCEPT !.rev = 0, !.ics = <<>>, !.events = <<>>]
      BY <1>12, <2>1 DEF DeleteRow
    <3>2. db'.rev = 0 /\ db'.ics = <<>> /\ db'.events = <<>>
      BY <1>t, <3>1 DEF TypeOK, Rows
    <3>3. /\ UNCHANGED <<gen, seen, page>>
          /\ pc'[c] = "idle" /\ \A d \in Clients : d # c => pc'[d] = pc[d]
      BY <1>12, <1>t, <2>1 DEF DeleteRow, Return, TypeOK, history
    <3> QED
      BY <1>t, <3>2, <3>3 DEF TypeOK, Reads, CopyInv, NotNewer, Faithful, Current, Planned
  <2>2. CASE db.rev # put[c].expected
    BY <1>12, <1>t, <2>2 DEF DeleteRow, TypeOK, CopyInv, NotNewer, Faithful, Current, Planned, history
  <2> QED
    BY <2>1, <2>2
<1>13. ASSUME NEW c \in Clients, DeleteCheck(c) PROVE CopyInv'
  BY <1>13, <1>t DEF DeleteCheck, Return, TypeOK, Rows, Reads, CopyInv, NotNewer, Faithful, Current, Planned, history
<1>14. ASSUME NEW n \in Names, Observe(n) PROVE CopyInv'
  BY <1>14, <1>t DEF Observe, TypeOK, Rows, Reads, CopyInv, NotNewer, Faithful, Current, Planned, history
<1>15. ASSUME Crash PROVE CopyInv'
  <2>1. Nothing.rev = 0 /\ Nothing.gen = 0 /\ Nothing.ics = <<>> /\ Nothing.events = <<>>
    BY DEF Nothing
  <2>2. /\ UNCHANGED <<db, gen, page>>
        /\ \A d \in Clients : pc'[d] = "idle" /\ seen'[d] = Nothing
    BY <1>15 DEF Crash, history
  <2> QED
    BY <1>t, <2>1, <2>2 DEF TypeOK, CopyInv, NotNewer, Faithful, Current, Planned
<1>16. ASSUME UNCHANGED vars PROVE CopyInv'
  BY <1>16, <1>t DEF vars, TypeOK, Rows, Reads, CopyInv, NotNewer, Faithful, Current, Planned, history
<1>s. RecordSeen \/ ReplaceRoster => \E n \in Names : Observe(n)
  BY <1>t, ObservedName
<1> QED
  BY <1>1, <1>2, <1>3, <1>4, <1>5, <1>6, <1>7, <1>8, <1>9, <1>10, <1>11, <1>12, <1>13, <1>14, <1>15, <1>16, <1>s DEF Next, Step
--------------------------------------------------------------------------------
(* A call is answered when it returns, and only then.                      *)
LEMMA WaitStep == IInv /\ [Next]_vars => WaitInv'
<1> SUFFICES ASSUME IInv, [Next]_vars PROVE WaitInv'
  OBVIOUS
<1>t. TypeOK /\ WaitInv
  BY DEF IInv
<1>1. ASSUME NEW c \in Clients, Start(c) PROVE WaitInv'
  BY <1>1, <1>t DEF Start, TypeOK, WaitInv, history
<1>2. ASSUME NEW c \in Clients, ReadRow(c) PROVE WaitInv'
  BY <1>2, <1>t DEF ReadRow, TypeOK, WaitInv, history
<1>3. ASSUME NEW c \in Clients, ReadEvents(c) PROVE WaitInv'
  BY <1>3, <1>t DEF ReadEvents, TypeOK, WaitInv, history
<1>4. ASSUME NEW c \in Clients, Decide(c) PROVE WaitInv'
  BY <1>4, <1>t DEF Decide, Return, TypeOK, WaitInv, history
<1>5. ASSUME NEW c \in Clients, TxProfile(c) PROVE WaitInv'
  BY <1>5, <1>t DEF TxProfile, TypeOK, WaitInv, history
<1>6. ASSUME NEW c \in Clients, TxRow(c) PROVE WaitInv'
  BY <1>6, <1>t DEF TxRow, TypeOK, WaitInv, history
<1>7. ASSUME NEW c \in Clients, Conflict(c) PROVE WaitInv'
  <2>1. CASE req[c].op \in {"nickname", "qq"} /\ tries[c] = 0
    BY <1>7, <1>t, <2>1 DEF Conflict, TypeOK, WaitInv
  <2>2. CASE ~(req[c].op \in {"nickname", "qq"} /\ tries[c] = 0)
    BY <1>7, <1>t, <2>2 DEF Conflict, Return, TypeOK, WaitInv
  <2> QED
    BY <2>1, <2>2
<1>8. ASSUME NEW c \in Clients, TxClear(c) PROVE WaitInv'
  BY <1>8, <1>t DEF TxClear, TypeOK, WaitInv, history
<1>9. ASSUME NEW c \in Clients, TxInsert(c) PROVE WaitInv'
  BY <1>9, <1>t DEF TxInsert, TypeOK, WaitInv, history
<1>10. ASSUME NEW c \in Clients, TxCommit(c) PROVE WaitInv'
  BY <1>10, <1>t DEF TxCommit, Return, TypeOK, WaitInv, history
<1>11. ASSUME NEW c \in Clients, Fail(c) PROVE WaitInv'
  BY <1>11, <1>t DEF Fail, Return, TypeOK, WaitInv, history
<1>12. ASSUME NEW c \in Clients, DeleteRow(c) PROVE WaitInv'
  BY <1>12, <1>t DEF DeleteRow, Return, TypeOK, WaitInv, history
<1>13. ASSUME NEW c \in Clients, DeleteCheck(c) PROVE WaitInv'
  BY <1>13, <1>t DEF DeleteCheck, Return, TypeOK, WaitInv, history
<1>14. ASSUME NEW n \in Names, Observe(n) PROVE WaitInv'
  BY <1>14, <1>t DEF Observe, TypeOK, WaitInv, history
<1>15. ASSUME Crash PROVE WaitInv'
  BY <1>15, <1>t DEF Crash, TypeOK, WaitInv, history
<1>16. ASSUME UNCHANGED vars PROVE WaitInv'
  BY <1>16, <1>t DEF vars, TypeOK, WaitInv, history
<1>s. RecordSeen \/ ReplaceRoster => \E n \in Names : Observe(n)
  BY <1>t, ObservedName
<1> QED
  BY <1>1, <1>2, <1>3, <1>4, <1>5, <1>6, <1>7, <1>8, <1>9, <1>10, <1>11, <1>12, <1>13, <1>14, <1>15, <1>16,
     <1>s DEF Next, Step

--------------------------------------------------------------------------------
(* Every state of every behaviour satisfies the inductive invariant.       *)
LEMMA Invariance == Spec => []IInv
<1>1. IInv /\ [Next]_vars => IInv'
  BY TypeStep, ConnStep, CopyStep, PlanStep, DraftStep, WaitStep DEF IInv
<1> QED
  BY <1>1, InitInv, PTL DEF Spec

(* Type correctness: whatever the handlers read, plan and write, every row *)
(* and every copy of it keeps its shape.                                   *)
THEOREM TypeCorrect == Spec => []TypeOK
<1>1. IInv => TypeOK
  BY DEF IInv
<1> QED
  BY <1>1, Invariance, PTL
--------------------------------------------------------------------------------
(* A call that reaches its COMMIT commits the write its copies call for,   *)
(* and the row still has the revision that write expects.                  *)
LEMMA CommitGranted ==
  ASSUME IInv, NEW c \in Clients, TxCommit(c)
  PROVE  /\ put[c] = PutOf(req[c], seen[c], page[c])
         /\ req[c].op \in {"import", "nickname", "qq", "ensure", "save"}
         /\ put[c].expected = db.rev
         /\ db'.ics = put[c].ics /\ db'.events = put[c].events
<1>1. pc[c] = "insert" /\ db' = draft
  BY DEF TxCommit
<1> QED
  BY <1>1, CommitWhole DEF IInv, PlanInv, DraftInv, Planned

(* Renaming and binding plan to copy the courses they have read, on the    *)
(* revision they have read; the other calls plan text and rows of one      *)
(* course list.                                                            *)
LEMMA PlannedWrite ==
  ASSUME NEW r, NEW s, NEW p
  PROVE  /\ r.op \in {"nickname", "qq"} =>
              /\ PutOf(r, s, p).kind = "put" /\ PutOf(r, s, p).expected = s.rev
              /\ PutOf(r, s, p).ics = s.ics /\ PutOf(r, s, p).events = s.events
         /\ r.op \in {"import", "ensure", "save"} =>
              /\ PutOf(r, s, p).kind = "put"
              /\ PutOf(r, s, p).ics = PutOf(r, s, p).events
         /\ r.op = "import" => PutOf(r, s, p).expected = s.rev
         /\ r.op = "ensure" => PutOf(r, s, p).expected = 0
         /\ r.op = "save" => PutOf(r, s, p).expected = p.rev
<1>1. CASE r.op = "nickname"
  BY <1>1 DEF PutOf, Expected
<1>2. CASE r.op = "qq"
  BY <1>2 DEF PutOf, Expected
<1>3. CASE r.op = "import"
  BY <1>3 DEF PutOf, Expected
<1>4. CASE r.op = "ensure"
  BY <1>4 DEF PutOf, Expected
<1>5. CASE r.op = "save"
  BY <1>5 DEF PutOf, Expected
<1> QED
  BY <1>1, <1>2, <1>3, <1>4, <1>5

(* A /nickname or a QQ binding that commits onto the row it has read       *)
(* writes the courses that row has.                                        *)
LEMMA ProfileCommit ==
  ASSUME IInv, NEW c \in Clients, TxCommit(c), req[c].op \in {"nickname", "qq"},
         db.rev > 0, seen[c].gen = gen
  PROVE  db'.events = db.events /\ db'.ics = db.ics
<1>1. /\ put[c].expected = seen[c].rev
      /\ put[c].ics = seen[c].ics /\ put[c].events = seen[c].events
  BY CommitGranted, PlannedWrite
<1>2. Faithful(seen[c]) /\ Current(seen[c])
  BY <1>1, CommitGranted DEF IInv, CopyInv, Planned, TxCommit, Current
<1> QED
  BY <1>1, <1>2, CommitGranted DEF Faithful

(* The text and the rows of the schedule agree again after every COMMIT.   *)
LEMMA CommitMatches ==
  ASSUME IInv, NEW c \in Clients, TxCommit(c), IcsMatchesEvents
  PROVE  IcsMatchesEvents'
<1> SUFFICES ASSUME ~crossed' PROVE db'.ics = db'.events
  BY DEF IcsMatchesEvents
<1>1. ~crossed /\ (db.rev > 0 => seen[c].gen = gen)
  BY DEF TxCommit
<1>2. CASE req[c].op \in {"import", "ensure", "save"}
  BY <1>2, CommitGranted, PlannedWrite
<1>3. CASE req[c].op \in {"nickname", "qq"} /\ db.rev > 0
  BY <1>1, <1>3, ProfileCommit DEF IcsMatchesEvents
<1>4. CASE req[c].op \in {"nickname", "qq"} /\ ~(db.rev > 0)
  <2>1. db.rev = 0
    BY <1>4 DEF IInv, TypeOK, Rows
  <2>2. put[c].expected = seen[c].rev /\ put[c].ics = seen[c].ics /\ put[c].events = seen[c].events
    BY <1>4, CommitGranted, PlannedWrite
  <2> QED
    BY <2>1, <2>2, CommitGranted DEF IInv, CopyInv
<1> QED
  BY <1>2, <1>3, <1>4, CommitGranted

(* No other step touches the schedule, but for a deletion: text and rows   *)
(* are both gone.                                                          *)
LEMMA OtherSteps ==
  ASSUME IInv, [Next]_vars, ~ \E c \in Clients : TxCommit(c)
  PROVE  /\ UNCHANGED <<gen, crossed>>
         /\ \/ db'.ics = db.ics /\ db'.events = db.events /\ db'.rev = db.rev
            \/ db'.ics = <<>> /\ db'.events = <<>> /\ db'.rev = 0
<1>t. TypeOK
  BY DEF IInv
<1>1. ASSUME NEW c \in Clients, Start(c) \/ (Step(c) /\ ~DeleteRow(c)) \/ Fail(c)
      PROVE  UNCHANGED <<gen, crossed, db>>
  BY <1>1 DEF Step, Start, ReadRow, ReadEvents, Decide, TxProfile, TxRow, Conflict, TxClear,
              TxInsert, Fail, Rollback, DeleteCheck, history
<1>2. ASSUME NEW c \in Clients, DeleteRow(c)
      PROVE  /\ UNCHANGED <<gen, crossed>>
             /\ db' = db \/ db' = [db EXCEPT !.rev = 0, !.ics = <<>>, !.events = <<>>]
  BY <1>2 DEF DeleteRow, history
<1>3. ASSUME NEW n \in Names, Observe(n)
      PROVE  UNCHANGED <<gen, crossed>> /\ db' = [db EXCEPT !.name = n]
  BY <1>3 DEF Observe, history
<1>4. Crash \/ UNCHANGED vars => UNCHANGED <<gen, crossed, db>>
  BY DEF Crash, vars, history
<1>5. RecordSeen \/ ReplaceRoster => \E n \in Names : Observe(n)
  BY <1>t, ObservedName
<1>6. /\ UNCHANGED <<gen, crossed>>
      /\ \/ db' = db
         \/ db' = [db EXCEPT !.rev = 0, !.ics = <<>>, !.events = <<>>]
         \/ \E n \in Names : db' = [db EXCEPT !.name = n]
  BY <1>1, <1>2, <1>3, <1>4, <1>5 DEF Next, Step
<1> QED
  BY <1>t, <1>6 DEF TypeOK, Rows

(* The stored ICS text and the stored event rows describe the same courses *)
(* (the revision check refuses a copy torn between two SELECTs), unless a  *)
(* write has been granted on a read of an earlier row.                     *)
THEOREM IcsMatches == Spec => []IcsMatchesEvents
<1>1. Init => IcsMatchesEvents
  BY DEF Init, FirstRows, EmptyRow, IcsMatchesEvents
<1>2. IInv /\ IcsMatchesEvents /\ [Next]_vars => IcsMatchesEvents'
  <2> SUFFICES ASSUME IInv, IcsMatchesEvents, [Next]_vars PROVE IcsMatchesEvents'
    OBVIOUS
  <2>1. CASE \E c \in Clients : TxCommit(c)
    BY <2>1, CommitMatches
  <2>2. CASE ~ \E c \in Clients : TxCommit(c)
    BY <2>2, OtherSteps DEF IcsMatchesEvents
  <2> QED
    BY <2>1, <2>2
<1> QED
  BY <1>1, <1>2, Invariance, PTL DEF Spec

--------------------------------------------------------------------------------
(* Who commits: only the client whose call is at its last statement.       *)
LEMMA Committer ==
  ASSUME IInv, [Next]_vars, NEW c \in Clients, Committing(c)
  PROVE  TxCommit(c)
<1>t. TypeOK
  BY DEF IInv
<1>1. ASSUME NEW d \in Clients, d # c, Start(d) \/ Step(d) \/ Fail(d) PROVE pc'[c] = pc[c]
  BY <1>1, <1>t DEF TypeOK, Step, Start, ReadRow, ReadEvents, Decide, TxProfile, TxRow, Conflict,
                    TxClear, TxInsert, TxCommit, Fail, DeleteRow, DeleteCheck, Return
<1>2. ~(Start(c) \/ ReadRow(c) \/ ReadEvents(c) \/ Decide(c) \/ TxProfile(c) \/ TxRow(c)
        \/ Conflict(c) \/ TxClear(c) \/ TxInsert(c) \/ DeleteRow(c) \/ DeleteCheck(c))
  BY <1>t DEF Committing, TypeOK, Start, ReadRow, ReadEvents, Decide, TxProfile, TxRow, Conflict,
              TxClear, TxInsert, DeleteRow, DeleteCheck
<1>3. ~Fail(c) /\ ~Crash
  BY <1>t DEF Committing, TypeOK, Fail, Crash, Return
<1>4. ~(RecordSeen \/ ReplaceRoster) /\ ~(UNCHANGED vars)
  BY DEF Committing, RecordSeen, ReplaceRoster, Observe, vars
<1> QED
  BY <1>1, <1>2, <1>3, <1>4 DEF Next, Step, Committing

(* A /nickname or QQ binding never changes the courses of the row it was   *)
(* read from.                                                              *)
THEOREM ProfileCallsAreSafe == Spec => ProfileCallsKeepCourses
<1>1. IInv /\ [Next]_vars =>
        \A c \in Clients :
          Committing(c) /\ req[c].op \in {"nickname", "qq"} /\ db.rev > 0 /\ seen[c].gen = gen
          => db'.events = db.events /\ db'.ics = db.ics
  BY Committer, ProfileCommit
<1> QED
  BY <1>1, Invariance, PTL DEF Spec, ProfileCallsKeepCourses

--------------------------------------------------------------------------------
(* Who deletes, and who is refused.                                        *)
LEMMA Deleter ==
  ASSUME IInv, [Next]_vars, NEW c \in Clients, Deleting(c)
  PROVE  DeleteRow(c) /\ db.rev = put[c].expected
<1>t. TypeOK
  BY DEF IInv
<1>1. ASSUME NEW d \in Clients, d # c, Start(d) \/ Step(d) \/ Fail(d) PROVE pc'[c] = pc[c]
  BY <1>1, <1>t DEF TypeOK, Step, Start, ReadRow, ReadEvents, Decide, TxProfile, TxRow, Conflict,
                    TxClear, TxInsert, TxCommit, Fail, DeleteRow, DeleteCheck, Return
<1>2. ~(Start(c) \/ ReadRow(c) \/ ReadEvents(c) \/ Decide(c) \/ TxProfile(c) \/ TxRow(c)
        \/ Conflict(c) \/ TxClear(c) \/ TxInsert(c) \/ TxCommit(c) \/ DeleteCheck(c))
  BY DEF Deleting, Start, ReadRow, ReadEvents, Decide, TxProfile, TxRow, Conflict,
         TxClear, TxInsert, TxCommit, DeleteCheck
<1>3. ~Fail(c) /\ ~Crash
  BY <1>t DEF Deleting, TypeOK, Fail, Crash, Return
<1>4. ~(RecordSeen \/ ReplaceRoster) /\ ~(UNCHANGED vars)
  BY DEF Deleting, RecordSeen, ReplaceRoster, Observe, vars
<1>5. DeleteRow(c)
  BY <1>1, <1>2, <1>3, <1>4 DEF Next, Step, Deleting
<1> QED
  BY <1>5, <1>t DEF Deleting, DeleteRow, TypeOK

LEMMA Refuser ==
  ASSUME IInv, [Next]_vars, NEW c \in Clients, Refusing(c)
  PROVE  \/ Conflict(c)
         \/ DeleteCheck(c)
<1>t. TypeOK
  BY DEF IInv
<1>1. ASSUME NEW d \in Clients, d # c, Start(d) \/ Step(d) \/ Fail(d) PROVE pc'[c] = pc[c]
  BY <1>1, <1>t DEF TypeOK, Step, Start, ReadRow, ReadEvents, Decide, TxProfile, TxRow, Conflict,
                    TxClear, TxInsert, TxCommit, Fail, DeleteRow, DeleteCheck, Return
<1>2. ~(Start(c) \/ ReadRow(c) \/ ReadEvents(c) \/ TxProfile(c) \/ TxRow(c)
        \/ TxClear(c) \/ TxInsert(c))
  BY <1>t DEF Refusing, TypeOK, Start, ReadRow, ReadEvents, TxProfile, TxRow, TxClear, TxInsert
<1>3. ~(Decide(c) \/ TxCommit(c) \/ DeleteRow(c) \/ Fail(c))
  BY <1>t DEF Refusing, TypeOK, Decide, TxCommit, DeleteRow, Fail, Return
<1>4. ~(RecordSeen \/ ReplaceRoster) /\ ~(UNCHANGED vars) /\ ~Crash
  BY <1>t DEF Refusing, TypeOK, RecordSeen, ReplaceRoster, Observe, vars, Crash
<1> QED
  BY <1>1, <1>2, <1>3, <1>4 DEF Next, Step, Refusing

(* An editor that saves or deletes replaces exactly the courses its page   *)
(* showed, as long as the row is the one the page was read from.           *)
THEOREM EditsAreInformed == Spec => EditsActOnWhatWasShown
<1>1. ASSUME IInv, [Next]_vars, NEW c \in Clients, EditLands(c), page[c].gen = gen
      PROVE  page[c].events = db.events /\ page[c].ics = db.ics
  <2>1. CASE Deleting(c)
    <3>1. page[c].rev > 0 /\ page[c].rev = db.rev
      BY <1>1, <2>1, Deleter DEF IInv, PlanInv, DeleteRow
    <3> QED
      BY <1>1, <3>1 DEF IInv, CopyInv, Faithful, Current
  <2>2. CASE Committing(c) /\ req[c].op = "save"
    <3>1. page[c].rev > 0 /\ page[c].rev = db.rev
      BY <1>1, <2>2, Committer, CommitGranted, PlannedWrite DEF IInv, PlanInv, TxCommit
    <3> QED
      BY <1>1, <3>1 DEF IInv, CopyInv, Faithful, Current
  <2> QED
    BY <1>1, <2>1, <2>2 DEF EditLands
<1>2. IInv /\ [Next]_vars =>
        \A c \in Clients : EditLands(c) /\ page[c].gen = gen
          => page[c].events = db.events /\ page[c].ics = db.ics
  BY <1>1
<1> QED
  BY <1>2, Invariance, PTL DEF Spec, EditsActOnWhatWasShown

(* A deletion that has found another revision, or no row, finds its own    *)
(* revision in the same row never again.                                   *)
StaleInv == \A c \in Clients : pc[c] = "deleteCheck" => ~Current(page[c])

LEMMA StaleStep == IInv /\ StaleInv /\ [Next]_vars => StaleInv'
<1> SUFFICES ASSUME IInv, StaleInv, [Next]_vars, NEW c \in Clients, pc'[c] = "deleteCheck"
             PROVE  ~Current(page[c])'
  BY DEF StaleInv
<1>t. TypeOK
  BY DEF IInv
<1>1. page'[c] = page[c] /\ (pc[c] = "deleteCheck" \/ (DeleteRow(c) /\ db.rev # put[c].expected))
  <2>1. ASSUME NEW d \in Clients, d # c, Start(d) \/ Step(d) \/ Fail(d)
        PROVE  pc'[c] = pc[c] /\ page'[c] = page[c]
    BY <2>1, <1>t DEF TypeOK, Step, Start, ReadRow, ReadEvents, Decide, TxProfile, TxRow, Conflict,
                      TxClear, TxInsert, TxCommit, Fail, DeleteRow, DeleteCheck, Return
  <2>2. ~(Start(c) \/ ReadRow(c) \/ ReadEvents(c) \/ TxProfile(c) \/ TxRow(c)
          \/ TxClear(c) \/ TxInsert(c))
    BY <1>t DEF TypeOK, Start, ReadRow, ReadEvents, TxProfile, TxRow, TxClear, TxInsert
  <2>3. ~(Decide(c) \/ Conflict(c) \/ TxCommit(c) \/ DeleteCheck(c) \/ Fail(c) \/ Crash)
    BY <1>t DEF TypeOK, Decide, Conflict, TxCommit, DeleteCheck, Fail, Crash, Return
  <2>4. DeleteRow(c) => page'[c] = page[c] /\ db.rev # put[c].expected
    BY <1>t DEF TypeOK, DeleteRow, Return
  <2>5. RecordSeen \/ ReplaceRoster \/ UNCHANGED vars => pc'[c] = pc[c] /\ page'[c] = page[c]
    BY DEF RecordSeen, ReplaceRoster, Observe, vars
  <2> QED
    BY <2>1, <2>2, <2>3, <2>4, <2>5 DEF Next, Step
<1>2. ~Current(page[c])
  BY <1>1 DEF StaleInv, IInv, PlanInv, DeleteRow, Current
<1>3. page[c] \in Reads /\ NotNewer(page[c]) /\ db.rev \in Nat /\ gen \in Nat
  BY <1>t DEF IInv, CopyInv, TypeOK, Rows
<1>4. CASE \E d \in Clients : TxCommit(d)
  <2>1. db'.rev = db.rev + 1 /\ gen' = (IF db.rev = 0 THEN gen + 1 ELSE gen)
    BY <1>4 DEF TxCommit, IInv, DraftInv
  <2> QED
    BY <1>1, <1>3, <2>1 DEF NotNewer, Current, Reads
<1>5. CASE ~ \E d \in Clients : TxCommit(d)
  BY <1>1, <1>2, <1>3, <1>5, OtherSteps DEF Current, Reads
<1> QED
  BY <1>4, <1>5

(* Nobody is told "conflict" without cause.                                *)
THEOREM ConflictsHaveCause == Spec => ConflictHasCause
<1>1. Init => StaleInv
  BY DEF Init, StaleInv
<1>2. Spec => []StaleInv
  BY <1>1, StaleStep, Invariance, PTL DEF Spec
<1>3. ASSUME IInv, StaleInv, [Next]_vars, NEW c \in Clients, Refusing(c)
      PROVE  LET basis == IF req[c].op \in {"save", "delete"} THEN page[c] ELSE seen[c]
             IN <<basis.gen, basis.rev>> # <<gen, db.rev>>
  <2>1. CASE Conflict(c)
    <3>1. /\ put[c].expected # db.rev
          /\ put[c] = PutOf(req[c], seen[c], page[c])
          /\ req[c].op \in {"import", "nickname", "qq", "ensure", "save"}
      BY <1>3, <2>1 DEF Conflict, IInv, PlanInv, DraftInv, Planned
    <3>2. req[c].op # "ensure"
      <4>1. req[c].op = "ensure" => answer' = [answer EXCEPT ![c] = "ok"]
        BY <2>1 DEF Conflict, Return
      <4>2. answer \in [Clients -> {"pending", "ok", "conflict", "notfound", "error"}]
        BY <1>3 DEF IInv, TypeOK
      <4> QED
        BY <1>3, <4>1, <4>2 DEF Refusing
    <3> QED
      BY <3>1, <3>2, PlannedWrite
  <2>2. CASE DeleteCheck(c)
    <3>1. req[c].op = "delete" /\ page[c].rev > 0 /\ ~Current(page[c])
      BY <1>3, <2>2 DEF DeleteCheck, IInv, PlanInv, StaleInv
    <3> QED
      BY <3>1 DEF Current
  <2> QED
    BY <1>3, <2>1, <2>2, Refuser
<1>4. IInv /\ StaleInv /\ [Next]_vars =>
        \A c \in Clients :
          Refusing(c) =>
            LET basis == IF req[c].op \in {"save", "delete"} THEN page[c] ELSE seen[c]
            IN <<basis.gen, basis.rev>> # <<gen, db.rev>>
  BY <1>3
<1> QED
  BY <1>2, <1>4, Invariance, PTL DEF Spec, ConflictHasCause

--------------------------------------------------------------------------------
(* The refinement: a write appears in the register at its COMMIT.          *)
LEMMA CommitReplaces ==
  ASSUME IInv, NEW c \in Clients, TxCommit(c)
  PROVE  Register!RegPut(c)
<1>t. TypeOK
  BY DEF IInv
<1>1. /\ pc[c] = "insert" /\ db' = draft /\ UNCHANGED put
      /\ answer' = [answer EXCEPT ![c] = "ok"]
  BY DEF TxCommit, Return
<1>2. answer[c] = "pending"
  BY <1>1 DEF IInv, WaitInv
<1>3. put[c].kind = "put" /\ put[c].expected = db.rev
  BY CommitGranted, PlannedWrite
<1>4. draft = Register!Replaced(db, put[c])
  <2>1. /\ draft.name = FirstNonEmpty(put[c].name, Self) /\ draft.qq = put[c].qq
        /\ draft.rev = db.rev + 1 /\ draft.ics = put[c].ics
    BY <1>1 DEF IInv, DraftInv, InTx
  <2>2. draft.events = put[c].events
    BY CommitWhole
  <2>3. draft = [name |-> draft.name, qq |-> draft.qq, rev |-> draft.rev,
                 ics |-> draft.ics, events |-> draft.events]
    BY <1>t DEF TypeOK, Rows
  <2>4. FirstNonEmpty(put[c].name, Self) = Register!StoredName(put[c].name)
    BY DEF FirstNonEmpty, Register!StoredName
  <2> QED
    BY <2>1, <2>2, <2>3, <2>4 DEF Register!Replaced
<1> QED
  BY <1>1, <1>2, <1>3, <1>4 DEF Register!RegPut, Register!Pending

(* Every step of the statements is a step of the register or a stutter.    *)
LEMMA RegisterStep == IInv /\ [Next]_vars => [Register!RegNext]_(Register!RegVars)
<1> SUFFICES ASSUME IInv, [Next]_vars PROVE Register!RegNext \/ UNCHANGED Register!RegVars
  OBVIOUS
<1> USE DEF Register!Pending
<1>t. TypeOK
  BY DEF IInv
<1>w. Writes = Register!Write
  BY DEF Writes, Register!Write
<1>1. ASSUME NEW c \in Clients, Start(c) PROVE Register!RegPropose(c)
  <2>1. put'[c] \in Writes
    <3>1. [NoWrite EXCEPT !.kind = "delete", !.expected = page[c].rev] \in Writes
      BY <1>t, NamesAssumption, DataAssumption DEF TypeOK, Reads, Writes, NoWrite
    <3>2. \E w \in Writes : put' = [put EXCEPT ![c] = w]
      BY <1>1, <3>1, NeutralTypes DEF Start
    <3> QED
      BY <1>t, <3>2 DEF TypeOK
  <2>2. put' = [put EXCEPT ![c] = put'[c]]
    <3>1. \E w : put' = [put EXCEPT ![c] = w]
      BY <1>1 DEF Start
    <3> QED
      BY <1>t, <3>1 DEF TypeOK
  <2>3. answer' = [answer EXCEPT ![c] = "pending"] /\ UNCHANGED db
    BY <1>1 DEF Start
  <2> QED
    BY <1>w, <2>1, <2>2, <2>3 DEF Register!RegPropose
<1>2. ASSUME NEW c \in Clients,
             ReadRow(c) \/ ReadEvents(c) \/ TxProfile(c) \/ TxRow(c) \/ TxClear(c) \/ TxInsert(c)
      PROVE  UNCHANGED Register!RegVars
  BY <1>2 DEF ReadRow, ReadEvents, TxProfile, TxRow, TxClear, TxInsert, Register!RegVars
<1>3. ASSUME NEW c \in Clients, Decide(c) PROVE Register!RegEnd(c) \/ Register!RegPropose(c)
  <2>1. answer[c] = "pending" /\ UNCHANGED db
    BY <1>3 DEF Decide, IInv, WaitInv
  <2>2. CASE Missing(c) \/ NothingToDo(c)
    <3>1. UNCHANGED put /\ \E a \in {"ok", "notfound"} : answer' = [answer EXCEPT ![c] = a]
      BY <1>3, <2>2 DEF Decide, Return
    <3> QED
      BY <2>1, <3>1 DEF Register!RegEnd, Register!Answers
  <2>3. CASE ~(Missing(c) \/ NothingToDo(c))
    <3>1. put' = [put EXCEPT ![c] = PutOf(req[c], seen[c], page[c])] /\ UNCHANGED answer
      BY <1>3, <2>3 DEF Decide
    <3>2. put' = [put EXCEPT ![c] = put'[c]] /\ answer' = [answer EXCEPT ![c] = "pending"]
      BY <1>t, <2>1, <3>1 DEF TypeOK
    <3>3. put'[c] \in Writes
      <4>1. TypeOK'
        BY TypeStep
      <4> QED
        BY <4>1 DEF TypeOK
    <3> QED
      BY <1>w, <2>1, <3>2, <3>3 DEF Register!RegPropose
  <2> QED
    BY <2>2, <2>3
<1>4. ASSUME NEW c \in Clients, Conflict(c) PROVE Register!RegConflict(c)
  <2>1. answer[c] = "pending" /\ draft.rev = db.rev /\ put[c] = PutOf(req[c], seen[c], page[c])
        /\ req[c].op \in {"import", "nickname", "qq", "ensure", "save"}
    BY <1>4 DEF Conflict, IInv, WaitInv, DraftInv, PlanInv, Planned
  <2>2. put[c].kind = "put" /\ put[c].expected # db.rev
    BY <1>4, <2>1, PlannedWrite DEF Conflict
  <2>3. put' = [put EXCEPT ![c].kind = "none"] /\ UNCHANGED db
    BY <1>4 DEF Conflict, Rollback
  <2>4. \E a \in {"conflict", "ok", "pending"} : answer' = [answer EXCEPT ![c] = a]
    <3>1. CASE UNCHANGED answer
      BY <1>t, <2>1, <3>1 DEF TypeOK
    <3>2. CASE answer' = [answer EXCEPT ![c] = IF req[c].op = "ensure" THEN "ok" ELSE "conflict"]
      BY <3>2
    <3> QED
      BY <1>4, <3>1, <3>2 DEF Conflict, Return
  <2> QED
    BY <2>1, <2>2, <2>3, <2>4 DEF Register!RegConflict
<1>5. ASSUME NEW c \in Clients, Fail(c) PROVE Register!RegEnd(c)
  <2>1. answer[c] = "pending" /\ UNCHANGED <<db, put>> /\ answer' = [answer EXCEPT ![c] = "error"]
    BY <1>5 DEF Fail, Rollback, Return, IInv, WaitInv
  <2> QED
    BY <2>1 DEF Register!RegEnd, Register!Answers
<1>6. ASSUME NEW c \in Clients, DeleteRow(c) PROVE Register!RegDelete(c) \/ UNCHANGED Register!RegVars
  <2>1. answer[c] = "pending" /\ put[c].kind = "delete" /\ put[c].expected > 0
    BY <1>6 DEF DeleteRow, IInv, WaitInv, PlanInv
  <2>2. CASE db.rev = put[c].expected
    <3>1. /\ db' = [db EXCEPT !.rev = 0, !.ics = <<>>, !.events = <<>>]
          /\ answer' = [answer EXCEPT ![c] = "ok"] /\ UNCHANGED put
      BY <1>6, <2>2 DEF DeleteRow, Return
    <3> QED
      BY <2>1, <2>2, <3>1 DEF Register!RegDelete, Register!Removed
  <2>3. CASE db.rev # put[c].expected
    BY <1>6, <2>3 DEF DeleteRow, Register!RegVars
  <2> QED
    BY <2>2, <2>3
<1>7. ASSUME NEW c \in Clients, DeleteCheck(c) PROVE Register!RegEnd(c)
  <2>1. answer[c] = "pending" /\ put[c].kind = "delete" /\ UNCHANGED <<db, put>>
        /\ \E a \in {"conflict", "notfound"} : answer' = [answer EXCEPT ![c] = a]
    BY <1>7 DEF DeleteCheck, Return, IInv, WaitInv, PlanInv
  <2> QED
    BY <2>1 DEF Register!RegEnd, Register!Answers
<1>8. ASSUME NEW n \in Names, Observe(n) PROVE Register!RegObserve
  BY <1>8 DEF Observe, Register!RegObserve
<1>9. ASSUME Crash PROVE Register!RegCrash
  BY <1>9, <1>w, NeutralTypes DEF Crash, Register!RegCrash
<1>10. ASSUME UNCHANGED vars PROVE UNCHANGED Register!RegVars
  BY <1>10 DEF vars, Register!RegVars
<1>s. RecordSeen \/ ReplaceRoster => \E n \in Names : Observe(n)
  BY <1>t, ObservedName
<1> QED
  BY <1>1, <1>2, <1>3, <1>4, <1>5, <1>6, <1>7, <1>8, <1>9, <1>10, <1>s, CommitReplaces
     DEF Next, Step, Register!RegNext

(* The statements of the SQL transactions implement the register: every    *)
(* write takes effect whole and at one instant, on the revision it asked   *)
(* for, and a refused or failed one leaves no trace, for any number of     *)
(* callers, names, bindings and course lists.                              *)
THEOREM Refinement == Spec => ImplementsRegister
<1>1. Init => Register!RegInit
  <2> SUFFICES ASSUME Init PROVE Register!RegInit
    OBVIOUS
  <2>1. db \in Register!Record
    BY NamesAssumption, DataAssumption DEF Init, FirstRows, EmptyRow, Register!Record
  <2>2. Writes = Register!Write
    BY DEF Writes, Register!Write
  <2> QED
    BY <2>1, <2>2, NeutralTypes DEF Init, Register!RegInit, Register!Pending
<1> QED
  BY <1>1, RegisterStep, Invariance, PTL DEF Spec, ImplementsRegister, Register!RegSpec

===============================================================================
