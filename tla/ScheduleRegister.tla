--------------------------- MODULE ScheduleRegister ---------------------------
(***************************************************************************)
(* What the revision rules of the schedule store promise for ONE member of *)
(* one group: the member's record is a register written by compare-and-set *)
(* on a revision, and every call sees it change at one instant or not at   *)
(* all.  ScheduleStore, which runs the SQL statements one by one, is shown *)
(* to implement it.                                                        *)
(*                                                                         *)
(* The register is [name, qq, rev, ics, events]: the profile               *)
(* (group_members), the schedule row (group_member_schedules, where rev = 0*)
(* stands for "no row") and the event rows (group_member_course_events).   *)
(***************************************************************************)
EXTENDS Naturals, Sequences

CONSTANTS
  Clients,   \* concurrent callers: webhook goroutines and HTTP requests
  Names,     \* display names
  NoName,    \* the empty name
  Self,      \* the member_openid, the name shown when none is known
  QQs,       \* QQ bindings
  NoQQ,      \* no binding
  Bodies     \* course lists, <<>> among them

VARIABLES
  reg,       \* the member's record
  wanted,    \* wanted[c]: the write c asks for
  answer     \* answer[c]: how c's call ended

Pending == "pending"
Answers == {"ok", "conflict", "notfound", "error"}
Record == [name : Names, qq : QQs, rev : Nat, ics : Bodies, events : Bodies]
Write == [kind : {"none", "put", "delete"}, expected : Nat,
          name : Names, qq : QQs, ics : Bodies, events : Bodies]

(* A stored display name is never empty.                                   *)
StoredName(n) == IF n = NoName THEN Self ELSE n

(* The record after w is granted on record r.                              *)
Replaced(r, w) ==
  [name |-> StoredName(w.name), qq |-> w.qq, rev |-> r.rev + 1,
   ics |-> w.ics, events |-> w.events]

(* The record after its schedule is deleted: the profile stays.            *)
Removed(r) == [r EXCEPT !.rev = 0, !.ics = <<>>, !.events = <<>>]

RegInit ==
  /\ reg \in Record
  /\ wanted \in [Clients -> Write]
  /\ answer = [c \in Clients |-> Pending]

(* A caller starts a call, or makes up its mind what to ask for.           *)
RegPropose(c) ==
  /\ wanted'[c] \in Write
  /\ wanted' = [wanted EXCEPT ![c] = wanted'[c]]
  /\ answer' = [answer EXCEPT ![c] = Pending]
  /\ UNCHANGED reg

(* A write is granted only on the revision it expects, and at once.        *)
RegPut(c) ==
  /\ answer[c] = Pending
  /\ wanted[c].kind = "put"
  /\ wanted[c].expected = reg.rev
  /\ reg' = Replaced(reg, wanted[c])
  /\ answer' = [answer EXCEPT ![c] = "ok"]
  /\ UNCHANGED wanted

RegDelete(c) ==
  /\ answer[c] = Pending
  /\ wanted[c].kind = "delete"
  /\ reg.rev > 0 /\ wanted[c].expected = reg.rev
  /\ reg' = Removed(reg)
  /\ answer' = [answer EXCEPT ![c] = "ok"]
  /\ UNCHANGED wanted

(* A write refused as a conflict met another revision.                     *)
RegConflict(c) ==
  /\ answer[c] = Pending
  /\ wanted[c].kind = "put" /\ wanted[c].expected # reg.rev
  /\ \E a \in {"conflict", "ok", Pending} :  \* told, swallowed, tried again
       answer' = [answer EXCEPT ![c] = a]
  /\ wanted' = [wanted EXCEPT ![c].kind = "none"]
  /\ UNCHANGED reg

(* Any other end of a call changes nothing: it failed, had nothing to do,  *)
(* or was a deletion that found another revision or no row.                *)
RegEnd(c) ==
  /\ answer[c] = Pending
  /\ \E a \in Answers :
       /\ a = "conflict" => wanted[c].kind = "delete"
       /\ answer' = [answer EXCEPT ![c] = a]
  /\ UNCHANGED <<reg, wanted>>

(* A platform observation writes the display name and nothing else.        *)
RegObserve ==
  /\ \E n \in Names : reg' = [reg EXCEPT !.name = n]
  /\ UNCHANGED <<wanted, answer>>

(* The process dies: calls in progress are never answered.                 *)
RegCrash ==
  /\ wanted' \in [Clients -> Write]
  /\ answer' = [c \in Clients |-> Pending]
  /\ UNCHANGED reg

RegNext ==
  \/ \E c \in Clients : \/ RegPropose(c) \/ RegPut(c) \/ RegDelete(c)
                        \/ RegConflict(c) \/ RegEnd(c)
  \/ RegObserve
  \/ RegCrash

RegVars == <<reg, wanted, answer>>
RegSpec == RegInit /\ [][RegNext]_RegVars
===============================================================================
