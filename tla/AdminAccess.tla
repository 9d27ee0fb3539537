------------------------------ MODULE AdminAccess ------------------------------
(***************************************************************************)
(* The administration's sessions and failed logins (internal/server/auth.go):*)
(* two maps in memory whose entries carry a time and are swept only when   *)
(* they are met.  A login takes its locks one after another, so others run *)
(* between its steps.  Cookies, redirects and wording are left out.        *)
(***************************************************************************)
EXTENDS Integers, Sequences, FiniteSets, FiniteSetsExt, Functions

CONSTANTS
  Addresses,
  Logins,       \* requests to log in that may be on their way
  Sessions,     \* bound: session tokens
  SessionTime,  \* adminSessionTTL
  FailWindow,   \* loginFailWindow
  MaxFailures,  \* loginMaxFailures
  BlockTime,    \* loginBlockDuration
  LastMinute,   \* bound: the clock stops
  MaxWrong      \* bound: wrong passwords an address sends

ASSUME AccessAssumption ==
  {SessionTime, FailWindow, MaxFailures, BlockTime, LastMinute, MaxWrong} \subseteq Nat

NoLogin == [step |-> "none", from |-> "nowhere"]

VARIABLES
  minute,
  sessions,     \* from tokens to their expiry
  failures,     \* from addresses to [count, first, until]
  logins,       \* logins[r]: how far the request is
  wrong,        \* wrong[a]: when wrong passwords of a were recorded
  holders       \* from tokens that are to be valid to when they were created

accessVars == <<minute, sessions, failures, logins, wrong, holders>>
NoEntries == [x \in {} |-> 0]

AccessInit ==
  /\ minute = 0
  /\ sessions = NoEntries /\ failures = NoEntries /\ holders = NoEntries
  /\ logins = [r \in Logins |-> NoLogin]
  /\ wrong = [a \in Addresses |-> <<>>]

With(f, x, v) == [y \in DOMAIN f \cup {x} |-> IF y = x THEN v ELSE f[y]]
Without(f, xs) == Restrict(f, DOMAIN f \ xs)

--------------------------------------------------------------------------------
(* blockRemaining: an address that is blocked is refused; an entry older   *)
(* than the window is forgotten.                                           *)
Blocked(a) == a \in DOMAIN failures /\ minute < failures[a].until
Old(a) == minute - failures[a].first > FailWindow
Login(r, a) ==
  /\ logins[r] = NoLogin
  /\ ~Blocked(a)
  /\ failures' = Without(failures, {b \in DOMAIN failures \cap {a} : Old(b)})
  /\ logins' = [logins EXCEPT ![r] = [step |-> "checked", from |-> a]]
  /\ UNCHANGED <<minute, sessions, wrong, holders>>

(* recordFailure.                                                          *)
\* A mutant: an entry is only forgotten when it is met.
EntryKept(a) ==
  IF a \in DOMAIN failures THEN failures[a] ELSE [count |-> 0, first |-> minute, until |-> 0]
Entry(a) ==
  IF a \in DOMAIN failures /\ ~Old(a) THEN failures[a]
  ELSE [count |-> 0, first |-> minute, until |-> 0]
Failed(a) ==
  LET count == Entry(a).count + 1
  IN [Entry(a) EXCEPT !.count = count,
                      !.until = IF count >= MaxFailures THEN minute + BlockTime ELSE @]
Wrong(r) ==
  LET a == logins[r].from IN
  /\ logins[r].step = "checked" /\ Len(wrong[a]) < MaxWrong
  /\ failures' = With(failures, a, Failed(a))
  /\ wrong' = [wrong EXCEPT ![a] = Append(@, minute)]
  /\ logins' = [logins EXCEPT ![r] = NoLogin]
  /\ UNCHANGED <<minute, sessions, holders>>

(* resetFailures, then createSession, which forgets what has expired.      *)
Right(r) ==
  LET a == logins[r].from IN
  /\ logins[r].step = "checked"
  /\ failures' = Without(failures, {a})
  /\ wrong' = [wrong EXCEPT ![a] = <<>>]
  /\ logins' = [logins EXCEPT ![r].step = "right"]
  /\ UNCHANGED <<minute, sessions, holders>>
Expired(t) == minute > sessions[t]
CreateSession(r) ==
  /\ logins[r].step = "right"
  /\ \E t \in Sessions \ (DOMAIN holders \cup DOMAIN sessions) :
       /\ sessions' = With(Without(sessions, {s \in DOMAIN sessions : Expired(s)}), t,
                           minute + SessionTime)
       /\ holders' = With(holders, t, minute)
  /\ logins' = [logins EXCEPT ![r] = NoLogin]
  /\ UNCHANGED <<minute, failures, wrong>>

(* validate: a session that has expired is refused and forgotten.          *)
Accepted(t) == t \in DOMAIN sessions /\ ~Expired(t)
Refuse(t) ==
  /\ t \in DOMAIN sessions /\ ~Accepted(t)
  /\ sessions' = Without(sessions, {t})
  /\ UNCHANGED <<minute, failures, logins, wrong, holders>>
Logout(t) ==
  /\ t \in DOMAIN sessions
  /\ sessions' = Without(sessions, {t})
  /\ holders' = Without(holders, {t})
  /\ UNCHANGED <<minute, failures, logins, wrong>>

Minute ==
  /\ minute < LastMinute
  /\ minute' = minute + 1
  /\ UNCHANGED <<sessions, failures, logins, wrong, holders>>

(* The process starts anew.                                                *)
Forget ==
  /\ sessions # NoEntries \/ failures # NoEntries
  /\ sessions' = NoEntries /\ failures' = NoEntries /\ holders' = NoEntries
  /\ logins' = [r \in Logins |-> NoLogin]
  /\ wrong' = [a \in Addresses |-> <<>>]
  /\ UNCHANGED minute

AccessNext ==
  \/ \E r \in Logins : Wrong(r) \/ Right(r) \/ CreateSession(r) \/ \E a \in Addresses : Login(r, a)
  \/ \E t \in Sessions : Refuse(t) \/ Logout(t)
  \/ Minute \/ Forget

AccessSpec == AccessInit /\ [][AccessNext]_accessVars

--------------------------------------------------------------------------------
(* Whatever is still in the maps, only what is recent counts: an address   *)
(* is refused only after that many wrong passwords within one window, the  *)
(* last of them less than the block ago; and a session is accepted for     *)
(* exactly its time, unless it was logged out, though others are created   *)
(* and swept meanwhile.  (blockRemaining, recordFailure, createSession,    *)
(* validate.)                                                              *)
OnlyRecentCounts ==
  /\ \A a \in Addresses : Blocked(a) =>
       \E i \in DOMAIN wrong[a] :
         /\ minute < wrong[a][i] + BlockTime
         /\ Cardinality({j \in 1..i : wrong[a][i] - wrong[a][j] <= FailWindow}) >= MaxFailures
  /\ \A t \in Sessions :
       Accepted(t) <=> (t \in DOMAIN holders /\ minute <= holders[t] + SessionTime)

================================================================================
