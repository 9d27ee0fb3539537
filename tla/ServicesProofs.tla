----------------------------- MODULE ServicesProofs -----------------------------
(***************************************************************************)
(* Theorems of the parts that keep a table of their own, for any numbers,  *)
(* times and interleavings: AdminAccess's failed logins count only while   *)
(* they are recent, the token of TokenCache serves whoever has it, and the *)
(* roster of RosterSync is replaced only by a later and a whole one; and   *)
(* of the start that moves a v6 store, which all of them run on.           *)
(***************************************************************************)
EXTENDS AdminAccess, TokenCache, RosterSync, Migration, FiniteSetTheorems, TLAPS

--------------------------------------------------------------------------------
(* AdminAccess.                                                            *)

Entries == [count : Nat, first : Nat, until : Nat]

(* An entry f of an address whose wrong passwords were recorded at the     *)
(* times w counts the last of them: all since it began and within one      *)
(* window, and it blocks from the last one that made the number full.      *)
Counts(w, f) ==
  /\ f.count \in 1..Len(w)
  /\ \A j \in 1..Len(w) : Len(w) - f.count < j => f.first <= w[j]
  /\ w[Len(w)] <= f.first + FailWindow
  /\ f.until = IF f.count >= MaxFailures THEN w[Len(w)] + BlockTime ELSE 0

ClockType == minute \in Nat /\ wrong \in [Addresses -> Seq(Nat)]
LoginInv ==
  /\ logins \in [Logins -> [step : {"none", "checked", "right"}, from : Addresses \cup {"nowhere"}]]
  /\ \A r \in Logins : logins[r].step = "checked" => logins[r].from \in Addresses
FailureInv ==
  \A a \in DOMAIN failures :
    /\ a \in Addresses /\ failures[a] \in Entries
    /\ failures[a].first <= minute /\ Counts(wrong[a], failures[a])

(* A session is one that is to be valid, for its time; what has been swept *)
(* away without a logout had expired.                                      *)
SessionInv ==
  /\ \A t \in DOMAIN holders : holders[t] \in Nat
  /\ \A t \in DOMAIN sessions : t \in DOMAIN holders /\ sessions[t] = holders[t] + SessionTime
  /\ \A t \in DOMAIN holders \ DOMAIN sessions : holders[t] + SessionTime < minute

AccessInv == ClockType /\ LoginInv /\ FailureInv /\ SessionInv

LEMMA TimesAreNat ==
  /\ SessionTime \in Nat /\ FailWindow \in Nat /\ MaxFailures \in Nat
  /\ BlockTime \in Nat /\ MaxWrong \in Nat
  BY AccessAssumption

--------------------------------------------------------------------------------
LEMMA EntryUpdated ==
  ASSUME NEW f \in Entries, NEW c \in Nat, NEW u \in Nat
  PROVE  [f EXCEPT !.count = c, !.until = u] \in Entries
  BY DEF Entries

(* One more wrong password within the window of the entry.                 *)
LEMMA CountsOneMore ==
  ASSUME NEW w \in Seq(Nat), NEW f \in Entries, NEW m \in Nat,
         f.count = 0 \/ Counts(w, f), f.first <= m, m - f.first <= FailWindow,
         f.count + 1 < MaxFailures => f.until = 0
  PROVE  LET g == [f EXCEPT !.count = f.count + 1,
                            !.until = IF f.count + 1 >= MaxFailures THEN m + BlockTime ELSE @]
         IN g \in Entries /\ g.first = f.first /\ Counts(Append(w, m), g)
<1> DEFINE g == [f EXCEPT !.count = f.count + 1,
                          !.until = IF f.count + 1 >= MaxFailures THEN m + BlockTime ELSE @]
           v == Append(w, m)
<1>1. f.count \in Nat /\ f.first \in Nat /\ f.until \in Nat
  BY DEF Entries
<1>2. /\ g \in Entries /\ g.count = f.count + 1 /\ g.first = f.first
      /\ g.until = IF f.count + 1 >= MaxFailures THEN m + BlockTime ELSE f.until
  <2> DEFINE u == IF f.count + 1 >= MaxFailures THEN m + BlockTime ELSE f.until
  <2>1. u \in Nat
    BY <1>1, TimesAreNat
  <2>2. g = [f EXCEPT !.count = f.count + 1, !.until = u]
    BY DEF Entries
  <2> HIDE DEF g, u
  <2>3. g.count = f.count + 1 /\ g.first = f.first /\ g.until = u
    BY <2>2 DEF Entries
  <2>4. f.count + 1 \in Nat
    BY <1>1
  <2>5. g \in Entries
    BY <2>1, <2>2, <2>4, EntryUpdated
  <2> QED
    BY <2>3, <2>5 DEF u
<1>3. Len(w) \in Nat /\ Len(v) = Len(w) + 1 /\ v[Len(v)] = m /\ \A j \in 1..Len(w) : v[j] = w[j]
  <2>1. Len(w) \in Nat /\ Len(v) = Len(w) + 1
    OBVIOUS
  <2>2. v[Len(w) + 1] = m
    OBVIOUS
  <2>3. \A j \in 1..Len(w) : v[j] = w[j]
    OBVIOUS
  <2> QED
    BY <2>1, <2>2, <2>3
<1> HIDE DEF g, v
<1>4. f.count <= Len(w)
  <2>1. CASE f.count = 0
    BY <2>1, <1>3
  <2>2. CASE Counts(w, f)
    BY <2>2, <1>3 DEF Counts
  <2> QED
    BY <2>1, <2>2
<1>5. g.count \in 1..Len(v)
  BY <1>1, <1>2, <1>3, <1>4
<1>6. ASSUME NEW j \in 1..Len(v), Len(v) - g.count < j PROVE g.first <= v[j]
  <2>1. CASE j = Len(v)
    BY <2>1, <1>2, <1>3
  <2>2. CASE j # Len(v)
    <3>0. j \in Int /\ 1 <= j /\ j <= Len(w) + 1 /\ j # Len(w) + 1
      BY <2>2, <1>3
    <3>1. j \in 1..Len(w) /\ Len(w) - f.count < j
      <4>1. (Len(w) + 1) - (f.count + 1) < j
        BY <1>2, <1>3, <1>6
      <4> QED
        BY <3>0, <4>1, <1>1, <1>3
    <3>2. f.count # 0
      BY <3>1, <1>3
    <3> QED
      BY <3>1, <3>2, <1>2, <1>3 DEF Counts
  <2> QED
    BY <2>1, <2>2
<1>7. v[Len(v)] <= g.first + FailWindow
  BY <1>1, <1>2, <1>3, TimesAreNat
<1>8. g.until = IF g.count >= MaxFailures THEN v[Len(v)] + BlockTime ELSE 0
  BY <1>1, <1>2, <1>3, TimesAreNat
<1> QED
  BY <1>2, <1>5, <1>6, <1>7, <1>8 DEF Counts, g, v

(* The entry recordFailure leaves counts.                                  *)
LEMMA FailedCounts ==
  ASSUME AccessInv, NEW a \in Addresses
  PROVE  /\ Failed(a) \in Entries /\ Failed(a).first <= minute
         /\ Counts(Append(wrong[a], minute), Failed(a))
<1> DEFINE f == Entry(a)
<1>1. minute \in Nat /\ wrong[a] \in Seq(Nat)
  BY DEF AccessInv, ClockType
<1>2. f \in Entries /\ f.first <= minute /\ minute - f.first <= FailWindow
  BY <1>1, TimesAreNat DEF AccessInv, FailureInv, Entry, Old, Entries
<1>3. f.count = 0 \/ Counts(wrong[a], f)
  BY DEF AccessInv, FailureInv, Entry
<1>4. f.count + 1 < MaxFailures => f.until = 0
  <2>1. CASE Counts(wrong[a], f)
    <3>1. f.count \in Nat
      BY <1>2 DEF Entries
    <3> QED
      BY <2>1, <3>1, TimesAreNat DEF Counts
  <2>2. CASE ~Counts(wrong[a], f)
    BY <2>2 DEF AccessInv, FailureInv, Entry
  <2> QED
    BY <2>1, <2>2
<1>5. Failed(a) = [f EXCEPT !.count = f.count + 1,
                            !.until = IF f.count + 1 >= MaxFailures THEN minute + BlockTime ELSE @]
  BY DEF Failed
<1> HIDE DEF f
<1>6. LET g == [f EXCEPT !.count = f.count + 1,
                         !.until = IF f.count + 1 >= MaxFailures THEN minute + BlockTime ELSE @]
      IN g \in Entries /\ g.first = f.first /\ Counts(Append(wrong[a], minute), g)
  BY <1>1, <1>2, <1>3, <1>4, CountsOneMore
<1> QED
  BY <1>2, <1>5, <1>6

(* Who is blocked has been so for as many wrong passwords in one window.   *)
LEMMA BlockedForCause ==
  ASSUME AccessInv, NEW a \in Addresses, Blocked(a)
  PROVE  \E i \in DOMAIN wrong[a] :
           /\ minute < wrong[a][i] + BlockTime
           /\ Cardinality({j \in 1..i : wrong[a][i] - wrong[a][j] <= FailWindow}) >= MaxFailures
<1> DEFINE w == wrong[a]
           f == failures[a]
           n == Len(w)
           near == {j \in 1..n : w[n] - w[j] <= FailWindow}
           counted == (n - f.count + 1)..n
<1>1. minute \in Nat /\ w \in Seq(Nat) /\ f \in Entries /\ Counts(w, f) /\ minute < f.until
  BY DEF AccessInv, ClockType, FailureInv, Blocked
<1>2. n \in Nat /\ DOMAIN w = 1..n /\ f.count \in 1..n /\ f.first \in Nat
  BY <1>1 DEF Entries, Counts
<1>3. f.count >= MaxFailures /\ f.until = w[n] + BlockTime
  BY <1>1, TimesAreNat DEF Counts
<1>4. \A j \in 1..n : w[j] \in Nat
  BY <1>1
<1>5. counted \subseteq near
  <2> SUFFICES ASSUME NEW j \in counted PROVE j \in near
    OBVIOUS
  <2>1. j \in 1..n /\ n - f.count < j
    BY <1>2
  <2>2. f.first <= w[j] /\ w[n] <= f.first + FailWindow
    BY <2>1, <1>1 DEF Counts
  <2>3. w[n] \in Nat /\ w[j] \in Nat
    BY <2>1, <1>2, <1>4
  <2>4. FailWindow \in Nat
    BY TimesAreNat
  <2> HIDE DEF n, f, w
  <2>5. w[n] - w[j] <= FailWindow
    BY <1>2, <2>2, <2>3, <2>4
  <2> QED
    BY <2>1, <2>5
<1>6. IsFiniteSet(1..n) /\ Cardinality(counted) = f.count
  <2>1. n - f.count + 1 \in Int /\ ~(n - f.count + 1 > n) /\ n - (n - f.count + 1) + 1 = f.count
    BY <1>2
  <2> HIDE DEF n, f
  <2>2. IsFiniteSet(1..n)
    <3>1. 1 \in Int /\ n \in Int
      BY <1>2
    <3> QED
      BY <3>1, FS_Interval, Zenon
  <2>3. Cardinality(counted) = n - (n - f.count + 1) + 1
    BY <1>2, <2>1, FS_Interval
  <2> QED
    BY <2>1, <2>2, <2>3
<1>7. IsFiniteSet(near) /\ near \in SUBSET (1..n)
  BY <1>6, FS_Subset
<1>8. Cardinality(counted) <= Cardinality(near) /\ Cardinality(near) \in Nat
  BY <1>5, <1>7, FS_Subset, FS_CardinalityType
<1> HIDE DEF w, f, n, near, counted
<1>9. Cardinality(near) >= MaxFailures
  BY <1>2, <1>3, <1>6, <1>8, TimesAreNat
<1>10. n \in DOMAIN w /\ minute < w[n] + BlockTime
  BY <1>1, <1>2, <1>3
<1> QED
  BY <1>9, <1>10 DEF near, n, w

LEMMA AccessInvRecent == AccessInv => OnlyRecentCounts
<1> SUFFICES ASSUME AccessInv PROVE OnlyRecentCounts
  OBVIOUS
<1>1. ASSUME NEW t \in Sessions
      PROVE Accepted(t) <=> (t \in DOMAIN holders /\ minute <= holders[t] + SessionTime)
  <2>1. CASE t \in DOMAIN sessions
    <3>1. /\ t \in DOMAIN holders /\ sessions[t] = holders[t] + SessionTime
          /\ holders[t] \in Nat /\ minute \in Nat
      BY <2>1 DEF AccessInv, SessionInv, ClockType
    <3> QED
      BY <2>1, <3>1, TimesAreNat DEF Accepted, Expired
  <2>2. CASE t \notin DOMAIN sessions /\ t \in DOMAIN holders
    <3>1. /\ holders[t] + SessionTime < minute
          /\ holders[t] \in Nat /\ minute \in Nat
      BY <2>2 DEF AccessInv, SessionInv, ClockType
    <3> QED
      BY <2>2, <3>1, TimesAreNat DEF Accepted
  <2>3. CASE t \notin DOMAIN sessions /\ t \notin DOMAIN holders
    BY <2>3 DEF Accepted
  <2> QED
    BY <2>1, <2>2, <2>3
<1> QED
  BY <1>1, BlockedForCause DEF OnlyRecentCounts

--------------------------------------------------------------------------------
LEMMA AccessStarts == AccessInit => AccessInv
<1> SUFFICES ASSUME AccessInit PROVE AccessInv
  OBVIOUS
<1>1. DOMAIN NoEntries = {}
  BY DEF NoEntries
<1>2. ClockType
  BY DEF AccessInit, ClockType
<1>3. LoginInv
  BY DEF AccessInit, LoginInv, NoLogin
<1>4. FailureInv /\ SessionInv
  BY <1>1 DEF AccessInit, FailureInv, SessionInv
<1> QED
  BY <1>2, <1>3, <1>4 DEF AccessInv

LEMMA LoginKeeps ==
  ASSUME AccessInv, NEW r \in Logins, NEW a \in Addresses, Login(r, a)
  PROVE  AccessInv'
<1>1. ClockType' /\ SessionInv'
  BY DEF AccessInv, ClockType, SessionInv, Login
<1>2. LoginInv'
  BY DEF AccessInv, LoginInv, Login
<1>3. PICK gone : failures' = Without(failures, gone)
  BY DEF Login
<1>4. FailureInv'
  BY <1>3 DEF AccessInv, FailureInv, Login, Without, Restrict
<1> QED
  BY <1>1, <1>2, <1>4 DEF AccessInv

LEMMA WrongKeeps == ASSUME AccessInv, NEW r \in Logins, Wrong(r) PROVE AccessInv'
<1> DEFINE a == logins[r].from
<1>1. /\ a \in Addresses /\ minute' = minute /\ failures' = With(failures, a, Failed(a))
      /\ wrong' = [wrong EXCEPT ![a] = Append(@, minute)]
      /\ logins' = [logins EXCEPT ![r] = NoLogin]
      /\ UNCHANGED <<sessions, holders>>
  BY DEF Wrong, AccessInv, LoginInv
<1>2. minute \in Nat /\ wrong[a] \in Seq(Nat) /\ wrong \in [Addresses -> Seq(Nat)]
  BY <1>1 DEF AccessInv, ClockType
<1>3. /\ Failed(a) \in Entries /\ Failed(a).first <= minute
      /\ Counts(Append(wrong[a], minute), Failed(a))
  BY <1>1, FailedCounts
<1>4. LoginInv'
  BY <1>1 DEF AccessInv, LoginInv, NoLogin
<1> HIDE DEF a
<1>5. ClockType'
  BY <1>1, <1>2 DEF ClockType
<1>6. SessionInv'
  BY <1>1 DEF AccessInv, SessionInv
<1>7. wrong'[a] = Append(wrong[a], minute) /\ \A b \in Addresses : b # a => wrong'[b] = wrong[b]
  BY <1>1, <1>2
<1>8. /\ DOMAIN failures' = DOMAIN failures \cup {a} /\ failures'[a] = Failed(a)
      /\ \A b \in DOMAIN failures : b # a => failures'[b] = failures[b]
  BY <1>1 DEF With
<1>9. FailureInv'
  <2> SUFFICES ASSUME NEW b \in DOMAIN failures'
               PROVE  /\ b \in Addresses /\ failures'[b] \in Entries
                      /\ failures'[b].first <= minute' /\ Counts(wrong'[b], failures'[b])
    BY DEF FailureInv
  <2>1. CASE b = a
    BY <2>1, <1>1, <1>3, <1>7, <1>8
  <2>2. CASE b # a
    BY <2>2, <1>1, <1>7, <1>8 DEF AccessInv, FailureInv
  <2> QED
    BY <2>1, <2>2
<1> QED
  BY <1>4, <1>5, <1>6, <1>9 DEF AccessInv

LEMMA RightKeeps == ASSUME AccessInv, NEW r \in Logins, Right(r) PROVE AccessInv'
<1> DEFINE a == logins[r].from
<1>1. /\ a \in Addresses /\ minute' = minute /\ failures' = Without(failures, {a})
      /\ wrong' = [wrong EXCEPT ![a] = <<>>]
      /\ logins' = [logins EXCEPT ![r].step = "right"]
      /\ UNCHANGED <<sessions, holders>>
  BY DEF Right, AccessInv, LoginInv
<1>2. LoginInv'
  BY <1>1 DEF AccessInv, LoginInv
<1> HIDE DEF a
<1>3. ClockType'
  BY <1>1 DEF AccessInv, ClockType
<1>4. SessionInv'
  BY <1>1 DEF AccessInv, SessionInv
<1>5. DOMAIN failures' = DOMAIN failures \ {a}
      /\ \A b \in DOMAIN failures \ {a} : failures'[b] = failures[b]
  BY <1>1 DEF Without, Restrict
<1>6. \A b \in Addresses : b # a => wrong'[b] = wrong[b]
  BY <1>1 DEF AccessInv, ClockType
<1>7. FailureInv'
  BY <1>1, <1>5, <1>6 DEF AccessInv, FailureInv
<1> QED
  BY <1>2, <1>3, <1>4, <1>7 DEF AccessInv

LEMMA CreateKeeps == ASSUME AccessInv, NEW r \in Logins, CreateSession(r) PROVE AccessInv'
<1> DEFINE swept == {s \in DOMAIN sessions : Expired(s)}
<1>1. PICK t \in Sessions \ (DOMAIN holders \cup DOMAIN sessions) :
        /\ sessions' = With(Without(sessions, swept), t, minute + SessionTime)
        /\ holders' = With(holders, t, minute)
  BY DEF CreateSession
<1>2. ClockType' /\ LoginInv' /\ FailureInv'
  BY DEF AccessInv, ClockType, LoginInv, FailureInv, CreateSession, NoLogin
<1>3. minute \in Nat /\ minute' = minute
  BY DEF AccessInv, ClockType, CreateSession
<1>4. \A s \in DOMAIN sessions : s \in DOMAIN holders /\ sessions[s] = holders[s] + SessionTime
  BY DEF AccessInv, SessionInv
<1>5. \A s \in swept : holders[s] + SessionTime < minute
  <2> TAKE s \in swept
  <2>1. minute > sessions[s] /\ sessions[s] = holders[s] + SessionTime /\ holders[s] \in Nat
    BY <1>4 DEF Expired, AccessInv, SessionInv
  <2> QED
    BY <2>1, <1>3, TimesAreNat
<1> HIDE DEF swept
<1>6. /\ DOMAIN holders' = DOMAIN holders \cup {t} /\ holders'[t] = minute
      /\ \A s \in DOMAIN holders : holders'[s] = holders[s]
  BY <1>1 DEF With
<1>7. /\ DOMAIN sessions' = (DOMAIN sessions \ swept) \cup {t} /\ sessions'[t] = minute + SessionTime
      /\ \A s \in DOMAIN sessions \ swept : sessions'[s] = sessions[s]
  BY <1>1 DEF With, Without, Restrict
<1>8. SessionInv'
  BY <1>1, <1>3, <1>4, <1>5, <1>6, <1>7 DEF AccessInv, SessionInv
<1> QED
  BY <1>2, <1>8 DEF AccessInv

LEMMA RefuseKeeps == ASSUME AccessInv, NEW t \in Sessions, Refuse(t) PROVE AccessInv'
<1>1. ClockType' /\ LoginInv' /\ FailureInv'
  BY DEF AccessInv, ClockType, LoginInv, FailureInv, Refuse
<1>2. /\ DOMAIN sessions' = DOMAIN sessions \ {t} /\ t \in DOMAIN sessions
      /\ \A s \in DOMAIN sessions \ {t} : sessions'[s] = sessions[s]
      /\ UNCHANGED <<minute, holders>>
  BY DEF Refuse, Without, Restrict
<1>3. minute > sessions[t]
  BY DEF Refuse, Accepted, Expired
<1>4. holders[t] + SessionTime < minute
  <2>1. sessions[t] = holders[t] + SessionTime /\ holders[t] \in Nat /\ minute \in Nat
    BY <1>2 DEF AccessInv, SessionInv, ClockType
  <2> QED
    BY <2>1, <1>3, TimesAreNat
<1>5. SessionInv'
  BY <1>2, <1>4 DEF AccessInv, SessionInv
<1> QED
  BY <1>1, <1>5 DEF AccessInv

LEMMA LogoutKeeps == ASSUME AccessInv, NEW t \in Sessions, Logout(t) PROVE AccessInv'
<1>1. ClockType' /\ LoginInv' /\ FailureInv'
  BY DEF AccessInv, ClockType, LoginInv, FailureInv, Logout
<1>2. /\ DOMAIN sessions' = DOMAIN sessions \ {t} /\ DOMAIN holders' = DOMAIN holders \ {t}
      /\ \A s \in DOMAIN sessions \ {t} : sessions'[s] = sessions[s]
      /\ \A s \in DOMAIN holders \ {t} : holders'[s] = holders[s]
      /\ minute' = minute
  BY DEF Logout, Without, Restrict
<1>3. SessionInv'
  BY <1>2 DEF AccessInv, SessionInv
<1> QED
  BY <1>1, <1>3 DEF AccessInv

LEMMA MinuteKeeps == ASSUME AccessInv, Minute PROVE AccessInv'
<1>1. /\ minute \in Nat /\ minute' = minute + 1
      /\ UNCHANGED <<sessions, failures, logins, wrong, holders>>
  BY DEF AccessInv, ClockType, Minute
<1>2. ClockType' /\ LoginInv'
  BY <1>1 DEF AccessInv, ClockType, LoginInv
<1>3. FailureInv'
  <2> SUFFICES ASSUME NEW a \in DOMAIN failures
               PROVE  /\ a \in Addresses /\ failures[a] \in Entries
                      /\ failures[a].first <= minute' /\ Counts(wrong[a], failures[a])
    BY <1>1 DEF FailureInv
  <2>1. /\ a \in Addresses /\ failures[a] \in Entries
        /\ failures[a].first <= minute /\ Counts(wrong[a], failures[a])
    BY DEF AccessInv, FailureInv
  <2>2. failures[a].first \in Nat
    BY <2>1 DEF Entries
  <2> QED
    BY <1>1, <2>1, <2>2
<1>4. SessionInv'
  <2>1. \A t \in DOMAIN holders : holders[t] \in Nat
    BY DEF AccessInv, SessionInv
  <2>2. \A t \in DOMAIN holders \ DOMAIN sessions : holders[t] + SessionTime < minute + 1
    BY <1>1, <2>1, TimesAreNat DEF AccessInv, SessionInv
  <2> QED
    BY <1>1, <2>1, <2>2 DEF AccessInv, SessionInv
<1> QED
  BY <1>2, <1>3, <1>4 DEF AccessInv

LEMMA ForgetKeeps == ASSUME AccessInv, Forget PROVE AccessInv'
<1>1. DOMAIN NoEntries = {}
  BY DEF NoEntries
<1>2. ClockType' /\ LoginInv'
  BY DEF AccessInv, ClockType, LoginInv, NoLogin, Forget
<1>3. FailureInv' /\ SessionInv'
  BY <1>1 DEF Forget, FailureInv, SessionInv
<1> QED
  BY <1>2, <1>3 DEF AccessInv

LEMMA AccessStepInv == AccessInv /\ [AccessNext]_accessVars => AccessInv'
<1> SUFFICES ASSUME AccessInv, [AccessNext]_accessVars PROVE AccessInv'
  OBVIOUS
<1>1. CASE \E r \in Logins, a \in Addresses : Login(r, a)
  BY <1>1, LoginKeeps
<1>2. CASE \E r \in Logins : Wrong(r) \/ Right(r) \/ CreateSession(r)
  BY <1>2, WrongKeeps, RightKeeps, CreateKeeps
<1>3. CASE \E t \in Sessions : Refuse(t) \/ Logout(t)
  BY <1>3, RefuseKeeps, LogoutKeeps
<1>4. CASE Minute \/ Forget
  BY <1>4, MinuteKeeps, ForgetKeeps
<1>5. CASE UNCHANGED accessVars
  BY <1>5 DEF accessVars, AccessInv, ClockType, LoginInv, FailureInv, SessionInv
<1> QED
  BY <1>1, <1>2, <1>3, <1>4, <1>5 DEF AccessNext

(* THEOREM.  For any addresses, logins, windows and times: whoever is      *)
(* refused has sent the full number of wrong passwords within one window,  *)
(* the last of them less than the block ago, and a session is accepted for *)
(* exactly its time, whatever is swept when.  (blockRemaining,             *)
(* recordFailure, createSession and validate of server/auth.go.)           *)
THEOREM RecentCounts == AccessSpec => []OnlyRecentCounts
<1>1. AccessInit => AccessInv
  BY AccessStarts
<1>2. AccessInv /\ [AccessNext]_accessVars => AccessInv'
  BY AccessStepInv
<1>3. AccessInv => OnlyRecentCounts
  BY AccessInvRecent
<1> QED
  BY <1>1, <1>2, <1>3, PTL DEF AccessSpec

--------------------------------------------------------------------------------
(* TokenCache: nobody asks for a token while one is fresh, and no request  *)
(* travels with a token the platform has given up.                         *)

Known == 1..issued

TokenType ==
  /\ second \in Nat /\ expireAt \in Int /\ issued \in Nat
  /\ issued <= MaxIssued
  /\ pc \in [Callers -> {"idle", "ask", "wait", "fetch", "reply", "send"}]
  /\ has \in [Callers -> Int] /\ since \in [Callers -> Int]
  /\ life \in [Ids -> Int] /\ dies \in [Ids -> Int]

(* The one that asks the platform is the one that has the lock, and while  *)
(* it asks the cached token stays stale.                                   *)
LockInv ==
  \A c \in Callers :
    /\ pc[c] \in {"fetch", "reply"} <=> holder = c
    /\ pc[c] \in {"fetch", "reply"} => ~Fresh

(* What the cache takes for fresh dies at the earliest when the margin,    *)
(* less the time the answer took, has passed.                              *)
CacheInv ==
  token # NoToken =>
    token \in Known /\ (life[token] > Margin => expireAt + Margin <= dies[token] + Timeout)

ReplyInv ==
  \A c \in Callers : pc[c] = "reply" =>
    /\ has[c] \in Known /\ second <= since[c] + Timeout
    /\ dies[has[c]] = since[c] + life[has[c]]
SendInv ==
  \A c \in Callers : pc[c] = "send" =>
    /\ has[c] \in Known /\ second <= since[c] + Timeout
    /\ life[has[c]] > Margin => since[c] + Margin < dies[has[c]] + Timeout

TokenInv == TokenType /\ LockInv /\ CacheInv /\ ReplyInv /\ SendInv

--------------------------------------------------------------------------------
LEMMA TokenInitInv == TokenInit => TokenInv
  BY TokenAssumption, NobodyAssumption
  DEF TokenInit, TokenInv, TokenType, LockInv, CacheInv, ReplyInv, SendInv, Fresh, Ids, NoToken, Nobody

(* A token that is fresh is good for any request sent at once.             *)
LEMMA FreshIsGood ==
  TokenInv /\ Fresh => token \in Known /\ (life[token] > Margin => second + Margin < dies[token] + Timeout)
<1> SUFFICES ASSUME TokenInv, Fresh
             PROVE token \in Known /\ (life[token] > Margin => second + Margin < dies[token] + Timeout)
  OBVIOUS
<1>1. token \in Known /\ (life[token] > Margin => expireAt + Margin <= dies[token] + Timeout)
  BY DEF TokenInv, CacheInv, Fresh
<1>2. second < expireAt /\ second \in Int /\ expireAt \in Int /\ Margin \in Int /\ Timeout \in Int
  BY TokenAssumption DEF TokenInv, TokenType, Fresh
<1>3. dies[token] \in Int
  BY <1>1, TokenAssumption DEF TokenInv, TokenType, Ids, Known
<1> QED
  BY <1>1, <1>2, <1>3

LEMMA MoveInv ==
  ASSUME TokenInv, NEW c \in Callers,
         Call(c) \/ FetchAgain(c) \/ Done(c) \/ Again(c)
  PROVE  TokenInv'
  BY TokenAssumption, NobodyAssumption
  DEF Call, FetchAgain, Done, Again, Goes, cacheVars, platformVars, Known,
      TokenInv, TokenType, LockInv, CacheInv, ReplyInv, SendInv, Fresh

LEMMA FailsInv == ASSUME TokenInv, NEW c \in Callers, FetchFails(c) PROVE TokenInv'
  BY TokenAssumption, NobodyAssumption
  DEF FetchFails, Goes, cacheVars, platformVars, Known, Nobody,
      TokenInv, TokenType, LockInv, CacheInv, ReplyInv, SendInv, Fresh

LEMMA TakeInv ==
  ASSUME TokenInv, NEW c \in Callers, pc[c] \notin {"fetch", "reply"}, Fresh, Takes(c, token),
         UNCHANGED <<second, token, expireAt, holder, issued, life, dies>>
  PROVE  TokenInv'
<1>1. token \in Known /\ (life[token] > Margin => second + Margin < dies[token] + Timeout)
  BY FreshIsGood
<1>2. TokenType' /\ token \in Int
  BY <1>1 DEF TokenInv, TokenType, Takes, Goes, Known
<1>3. LockInv' /\ CacheInv' /\ ReplyInv'
  BY DEF TokenInv, TokenType, LockInv, CacheInv, ReplyInv, Takes, Goes, Fresh, Known
<1>4. SendInv'
  BY <1>1, <1>2, TokenAssumption DEF TokenInv, TokenType, SendInv, Takes, Goes, Known
<1> QED
  BY <1>2, <1>3, <1>4 DEF TokenInv

LEMMA AskInv == ASSUME TokenInv, NEW c \in Callers, Ask(c) PROVE TokenInv'
<1>1. CASE Fresh
  BY <1>1, TakeInv DEF Ask, cacheVars, platformVars
<1>2. CASE ~Fresh
  BY <1>2 DEF Ask, Goes, cacheVars, platformVars, Known,
              TokenInv, TokenType, LockInv, CacheInv, ReplyInv, SendInv, Fresh
<1> QED
  BY <1>1, <1>2

LEMMA LockKeepsInv == ASSUME TokenInv, NEW c \in Callers, Lock(c) PROVE TokenInv'
<1>1. CASE Fresh
  BY <1>1, TakeInv DEF Lock, Refreshed, cacheVars, platformVars
<1>2. CASE ~Fresh
  <2>1. TokenType' /\ CacheInv' /\ ReplyInv' /\ SendInv'
    BY <1>2 DEF Lock, Refreshed, Goes, cacheVars, platformVars, Known,
                TokenInv, TokenType, CacheInv, ReplyInv, SendInv
  <2>2. LockInv'
    BY <1>2, NobodyAssumption DEF Lock, Refreshed, Goes, cacheVars, platformVars, Nobody,
                TokenInv, TokenType, LockInv, Fresh
  <2> QED
    BY <2>1, <2>2 DEF TokenInv
<1> QED
  BY <1>1, <1>2

LEMMA IssueInv == ASSUME TokenInv, NEW c \in Callers, Issue(c) PROVE TokenInv'
<1> DEFINE i == issued + 1
<1>1. PICK n \in Lifetimes : /\ life' = [life EXCEPT ![i] = n]
                             /\ dies' = [dies EXCEPT ![i] = second + n]
  BY DEF Issue
<1>2. i \in Ids /\ n \in Nat /\ second \in Nat /\ Known' = Known \cup {i} /\ i \notin Known
  BY TokenAssumption, SMTT(30) DEF TokenInv, TokenType, Ids, Issue, Known
<1>3. TokenType'
  BY <1>1, <1>2 DEF TokenInv, TokenType, Ids, Issue, Goes, cacheVars
<1>4. \A k \in Known : life'[k] = life[k] /\ dies'[k] = dies[k]
  BY <1>1, <1>2 DEF TokenInv, TokenType, Ids, Known
<1>5. LockInv'
  BY DEF TokenInv, TokenType, LockInv, Fresh, Issue, Goes, cacheVars
<1>6. CacheInv'
  BY <1>2, <1>4 DEF TokenInv, CacheInv, Issue, cacheVars
<1>7. life'[i] = n /\ dies'[i] = second + n
  BY <1>1, <1>2 DEF TokenInv, TokenType
<1>8. ReplyInv'
  <2> SUFFICES ASSUME NEW d \in Callers, pc'[d] = "reply"
               PROVE  /\ has'[d] \in Known' /\ second' <= since'[d] + Timeout
                      /\ dies'[has'[d]] = since'[d] + life'[has'[d]]
    BY DEF ReplyInv
  <2>1. CASE d = c
    BY <2>1, <1>2, <1>7, TokenAssumption DEF TokenInv, TokenType, Issue, Goes
  <2>2. CASE d # c
    BY <2>2, <1>2, <1>4 DEF TokenInv, TokenType, ReplyInv, Issue, Goes
  <2> QED
    BY <2>1, <2>2
<1>9. SendInv'
  BY <1>2, <1>4 DEF TokenInv, TokenType, SendInv, Issue, Goes
<1> QED
  BY <1>3, <1>5, <1>6, <1>8, <1>9 DEF TokenInv

LEMMA ReplyKeepsInv == ASSUME TokenInv, NEW c \in Callers, Reply(c) PROVE TokenInv'
<1> DEFINE t == has[c]
<1>1. /\ t \in Known /\ second <= since[c] + Timeout /\ dies[t] = since[c] + life[t]
      /\ since[c] \in Int /\ second \in Int /\ Timeout \in Nat /\ Margin \in Nat /\ Assumed \in Nat
  BY TokenAssumption DEF TokenInv, TokenType, ReplyInv, Reply
<1>2. life[t] \in Int /\ dies[t] \in Int
  BY <1>1, TokenAssumption DEF TokenInv, TokenType, Known, Ids
<1>3. Lasts(life[t]) \in Int /\ (life[t] > Margin => Lasts(life[t]) = life[t] - Margin)
  BY <1>1, <1>2 DEF Lasts
<1>4. TokenType'
  BY <1>1, <1>3 DEF TokenInv, TokenType, Reply, Takes, Goes, platformVars, Known
<1>5. CacheInv'
  BY <1>1, <1>2, <1>3 DEF CacheInv, Reply, platformVars, Known
<1>6. LockInv'
  BY NobodyAssumption DEF TokenInv, TokenType, LockInv, Reply, Takes, Goes, Nobody
<1>7. ReplyInv'
  BY DEF TokenInv, TokenType, ReplyInv, Reply, Takes, Goes, platformVars, Known
<1>8. SendInv'
  BY <1>1, <1>2 DEF TokenInv, TokenType, SendInv, Reply, Takes, Goes, platformVars, Known
<1> QED
  BY <1>4, <1>5, <1>6, <1>7, <1>8 DEF TokenInv

LEMMA SecondInv == ASSUME TokenInv, Second PROVE TokenInv'
<1>1. TokenType' /\ LockInv' /\ CacheInv'
  BY DEF TokenInv, TokenType, LockInv, CacheInv, Second, Fresh, cacheVars, platformVars, Known
<1>2. ReplyInv' /\ SendInv'
  BY TokenAssumption DEF TokenInv, TokenType, ReplyInv, SendInv, Second, platformVars, Known
<1> QED
  BY <1>1, <1>2 DEF TokenInv

LEMMA TokenStepInv == TokenInv /\ [TokenNext]_tokenVars => TokenInv'
<1> SUFFICES ASSUME TokenInv, [TokenNext]_tokenVars PROVE TokenInv'
  OBVIOUS
<1>1. CASE \E c \in Callers : Call(c) \/ FetchAgain(c) \/ Done(c) \/ Again(c)
  BY <1>1, MoveInv
<1>2. CASE \E c \in Callers : Ask(c)
  BY <1>2, AskInv
<1>3. CASE \E c \in Callers : Lock(c)
  BY <1>3, LockKeepsInv
<1>4. CASE \E c \in Callers : Issue(c)
  BY <1>4, IssueInv
<1>5. CASE \E c \in Callers : Reply(c)
  BY <1>5, ReplyKeepsInv
<1>6. CASE \E c \in Callers : FetchFails(c)
  BY <1>6, FailsInv
<1>7. CASE Second
  BY <1>7, SecondInv
<1>8. CASE UNCHANGED tokenVars
  BY <1>8 DEF tokenVars, TokenInv, TokenType, LockInv, CacheInv, ReplyInv, SendInv, Fresh, Known
<1> QED
  BY <1>1, <1>2, <1>3, <1>4, <1>5, <1>6, <1>7, <1>8 DEF TokenNext

LEMMA TokenInvServes == TokenInv => TokenServesAll
<1> SUFFICES ASSUME TokenInv, NEW c \in Callers
             PROVE  /\ pc[c] = "fetch" => ~Fresh
                    /\ pc[c] = "send" /\ life[has[c]] > Margin => second < dies[has[c]]
  BY DEF TokenServesAll
<1>1. pc[c] = "fetch" => ~Fresh
  BY DEF TokenInv, LockInv
<1>2. ASSUME pc[c] = "send", life[has[c]] > Margin PROVE second < dies[has[c]]
  <2>1. /\ has[c] \in Known /\ second <= since[c] + Timeout
        /\ since[c] + Margin < dies[has[c]] + Timeout
    BY <1>2 DEF TokenInv, SendInv
  <2>2. dies[has[c]] \in Int /\ since[c] \in Int /\ second \in Int
    BY <2>1, TokenAssumption DEF TokenInv, TokenType, Known, Ids
  <2> QED
    BY <2>1, <2>2, TokenAssumption
<1> QED
  BY <1>1, <1>2

(* THEOREM.  For any number of callers, any lifetimes the platform gives   *)
(* and any lost or failed requests: nobody asks for a token while one is   *)
(* fresh, and no request is on its way with a token the platform no longer *)
(* accepts, as long as it is one issued for longer than the margin.        *)
(* (AccessToken and request of qqapi/client.go.)                           *)
THEOREM TokenServes == TokenSpec => []TokenServesAll
<1>1. TokenInit => TokenInv
  BY TokenInitInv
<1>2. TokenInv /\ [TokenNext]_tokenVars => TokenInv'
  BY TokenStepInv
<1>3. TokenInv => TokenServesAll
  BY TokenInvServes
<1> QED
  BY <1>1, <1>2, <1>3, PTL DEF TokenSpec

--------------------------------------------------------------------------------
(* RosterSync.                                                             *)

SyncType ==
  [at : Nat \cup {Never}, cursor : Nat, pages : Nat, whole : BOOLEAN,
   found : SUBSET Order, stayed : SUBSET Order, met : SUBSET Order]
RosterType ==
  /\ tick \in Nat /\ attempt \in Nat \cup {Never} /\ asOf \in Nat \cup {Never}
  /\ group \subseteq Order
  /\ syncs \in [Syncs -> SyncType]

(* A listing under way is the only one, begun at the last attempt and not  *)
(* longer ago than its context lasts, and the roster is of an earlier one. *)
OneInv ==
  /\ asOf <= attempt
  /\ \A s \in Syncs : ~Idle(s) =>
       /\ syncs[s].at = attempt /\ attempt \in Nat
       /\ tick <= attempt + Limit /\ asOf < attempt
       /\ \A t \in Syncs : ~Idle(t) => t = s

(* What it has found is true of the group so far.                          *)
FoundInv ==
  \A s \in Syncs : ~Idle(s) =>
    /\ group \subseteq syncs[s].met
    /\ syncs[s].found \subseteq syncs[s].met
    /\ syncs[s].stayed \subseteq group
    /\ \A m \in syncs[s].stayed : m <= syncs[s].cursor => m \in syncs[s].found
    /\ syncs[s].whole => syncs[s].stayed \subseteq syncs[s].found

RosterInv == RosterType /\ OneInv /\ FoundInv

--------------------------------------------------------------------------------
(* Lemmas about finite sets of numbers, and pages.                         *)
LEMMA MaxOf ==
  ASSUME NEW S, IsFiniteSet(S), S \subseteq Nat, S # {}
  PROVE  Max(S) \in S /\ \A n \in S : n <= Max(S)
<1> DEFINE Upto(m) == {n \in S : n <= m}
           size == Cardinality(S)
           rank == [m \in S |-> Cardinality(Upto(m))]
<1>1. size \in Nat /\ size > 0
  BY FS_CardinalityType, FS_EmptySet
<1>2. ASSUME NEW m \in S
      PROVE  /\ IsFiniteSet(Upto(m)) /\ Cardinality(Upto(m)) \in 1..size
             /\ Cardinality(Upto(m)) = size => Upto(m) = S
  <2>1. Upto(m) \in SUBSET S /\ m \in Upto(m)
    OBVIOUS
  <2>2. IsFiniteSet(Upto(m)) /\ Cardinality(Upto(m)) <= size
        /\ (size = Cardinality(Upto(m)) => S = Upto(m))
    BY <2>1, FS_Subset
  <2>3. Cardinality(Upto(m)) \in Nat /\ Cardinality(Upto(m)) # 0
    BY <2>1, <2>2, FS_CardinalityType, FS_EmptySet
  <2> QED
    BY <1>1, <2>2, <2>3
<1>3. ASSUME NEW m \in S, NEW n \in S, m < n PROVE Cardinality(Upto(m)) # Cardinality(Upto(n))
  <2>1. \A k \in S : k <= m => k <= n
    BY <1>3
  <2>2. Upto(m) \in SUBSET Upto(n)
    BY <2>1
  <2>3. n \in Upto(n) /\ n \notin Upto(m)
    BY <1>3
  <2> QED
    BY <1>2, <2>2, <2>3, FS_Subset
<1>4. ASSUME NEW m \in S, NEW n \in S, rank[m] = rank[n] PROVE m = n
  BY <1>3, <1>4
<1>5. rank \in Injection(S, 1..size)
  <2>1. rank \in [S -> 1..size]
    BY <1>2
  <2> HIDE DEF rank
  <2> QED
    BY <1>4, <2>1 DEF Injection, IsInjective
<1>6. IsFiniteSet(1..size) /\ Cardinality(1..size) = size
  BY <1>1, FS_Interval
<1>7. rank \in Surjection(S, 1..size)
  <2> HIDE DEF rank
  <2> QED
    BY <1>5, <1>6, FS_Injection
<1>8. PICK m \in S : rank[m] = size
  <2> HIDE DEF rank, size
  <2> QED
    BY <1>1, <1>7 DEF Surjection
<1>9. \A n \in S : m >= n
  <2>1. Upto(m) = S
    BY <1>2, <1>8
  <2> QED
    BY <2>1
<1> QED
  BY <1>9 DEF Max

(* A listing is the record of its seven parts.                             *)
LEMMA ShapeOf ==
  ASSUME NEW v \in SyncType
  PROVE  v = [at |-> v.at, cursor |-> v.cursor, pages |-> v.pages, whole |-> v.whole,
              found |-> v.found, stayed |-> v.stayed, met |-> v.met]
BY DEF SyncType

LEMMA TypeOf ==
  ASSUME NEW v, v.at \in Nat \cup {Never}, v.cursor \in Nat, v.pages \in Nat, v.whole \in BOOLEAN,
         v.found \in SUBSET Order, v.stayed \in SUBSET Order, v.met \in SUBSET Order,
         v = [at |-> v.at, cursor |-> v.cursor, pages |-> v.pages, whole |-> v.whole,
              found |-> v.found, stayed |-> v.stayed, met |-> v.met]
  PROVE  v \in SyncType
BY DEF SyncType

LEMMA PageFacts ==
  ASSUME RosterType, NEW c \in Nat
  PROVE  /\ Page(c) \subseteq After(c) /\ After(c) \subseteq group
         /\ Page(c) # {} =>
              /\ Max(Page(c)) \in Nat
              /\ \A m \in After(c) : m <= Max(Page(c)) => m \in Page(c)
<1>1. Page(c) \subseteq After(c) /\ After(c) \subseteq group /\ group \subseteq Nat
  BY RosterAssumption DEF RosterType, Page, After
<1>2. IsFiniteSet(After(c)) /\ IsFiniteSet(Page(c))
  BY <1>1, RosterAssumption, FS_Subset DEF RosterType
<1>3. ASSUME Page(c) # {}, NEW m \in After(c), m <= Max(Page(c)) PROVE m \in Page(c)
  <2> DEFINE Upto(k) == {n \in After(c) : n <= k}
             top == Max(Page(c))
  <2>1. top \in Page(c) /\ top \in Nat /\ m \in Nat
    BY <1>1, <1>2, <1>3, MaxOf
  <2>2. Cardinality(Upto(top)) <= PageSize
    BY <2>1 DEF Page
  <2>3. Upto(m) \in SUBSET Upto(top)
    <3>1. After(c) \subseteq Nat
      BY <1>1
    <3> HIDE DEF top
    <3>2. \A n \in After(c) : n <= m => n <= top
      BY <1>3, <2>1, <3>1 DEF top
    <3> QED
      BY <3>2
  <2>4. IsFiniteSet(Upto(top)) /\ IsFiniteSet(Upto(m))
    BY <1>2, <2>3, FS_Subset
  <2>5. Cardinality(Upto(m)) <= Cardinality(Upto(top)) /\ Cardinality(Upto(m)) \in Nat
        /\ Cardinality(Upto(top)) \in Nat
    BY <2>3, <2>4, FS_Subset, FS_CardinalityType
  <2>6. Cardinality(Upto(m)) <= PageSize
    BY <2>2, <2>5, RosterAssumption
  <2> QED
    BY <1>3, <2>6 DEF Page
<1>4. Page(c) # {} => Max(Page(c)) \in Nat
  BY <1>1, <1>2, MaxOf
<1> QED
  BY <1>1, <1>3, <1>4

LEMMA TakenFacts ==
  ASSUME NEW found \in SUBSET Order, NEW met \in SUBSET Order, found \subseteq met
  PROVE  /\ Taken(found) \subseteq met \ Bots
         /\ Cardinality(met \ Bots) <= MaxRoster => found \ Bots \subseteq Taken(found)
<1>1. ASSUME Cardinality(met \ Bots) <= MaxRoster, NEW m \in found \ Bots
      PROVE  m \in Taken(found)
  <2> DEFINE Upto == {n \in found \ Bots : n <= m}
  <2>1. Upto \in SUBSET (met \ Bots) /\ met \ Bots \in SUBSET Order
    OBVIOUS
  <2>2. IsFiniteSet(met \ Bots) /\ IsFiniteSet(Upto)
    BY <2>1, RosterAssumption, FS_Subset
  <2>3. Cardinality(Upto) <= Cardinality(met \ Bots) /\ Cardinality(Upto) \in Nat
        /\ Cardinality(met \ Bots) \in Nat
    BY <2>1, <2>2, FS_Subset, FS_CardinalityType
  <2>4. Cardinality(Upto) <= MaxRoster
    BY <1>1, <2>3, RosterAssumption
  <2> QED
    BY <1>1, <2>4 DEF Taken
<1> QED
  BY <1>1 DEF Taken

--------------------------------------------------------------------------------
(* The invariant holds at first, and every action keeps it.                *)
LEMMA RosterStarts == RosterInit => RosterInv
<1> SUFFICES ASSUME RosterInit PROVE RosterInv
  OBVIOUS
<1>1. \A s \in Syncs : Idle(s)
  BY DEF RosterInit, Idle
<1>2. RosterType
  BY DEF RosterInit, RosterType, SyncType, NoSync, Never
<1> QED
  BY <1>1, <1>2 DEF RosterInit, RosterInv, OneInv, FoundInv, Never

(* A listing that ends leaves the others as they are.                      *)
LEMMA EndLemma ==
  ASSUME RosterInv, NEW s \in Syncs, ~Idle(s), Update(s, NoSync),
         UNCHANGED <<tick, group, attempt>>,
         asOf' = asOf \/ asOf' = syncs[s].at
  PROVE  RosterInv'
<1>1. RosterType'
  BY DEF RosterInv, RosterType, OneInv, Update, SyncType, NoSync, Never
<1>2. \A t \in Syncs : Idle(t)'
  <2> SUFFICES ASSUME NEW t \in Syncs PROVE syncs'[t] = NoSync
    BY DEF Idle
  <2>1. CASE t = s
    BY <2>1 DEF RosterInv, RosterType, Update
  <2>2. CASE t # s
    BY <2>2 DEF RosterInv, RosterType, OneInv, Update, Idle
  <2> QED
    BY <2>1, <2>2
<1>3. asOf' <= attempt'
  BY RosterAssumption DEF RosterInv, RosterType, OneInv, Never
<1> QED
  BY <1>1, <1>2, <1>3 DEF RosterInv, OneInv, FoundInv

LEMMA BeginSyncLemma ==
  ASSUME RosterInv, NEW s \in Syncs, BeginSync(s)
  PROVE  RosterInv'
<1> DEFINE sync == [NoSync EXCEPT !.at = tick, !.stayed = group, !.met = group]
<1>0. sync = [NoSync EXCEPT !.at = tick, !.stayed = group, !.met = group]
  OBVIOUS
<1>1. sync = [at |-> tick, cursor |-> 0, pages |-> 0, whole |-> FALSE, found |-> {},
              stayed |-> group, met |-> group]
  <2> HIDE DEF sync
  <2> QED
    BY <1>0 DEF NoSync
<1>2. sync \in SyncType
  <2> HIDE DEF sync
  <2> QED
    BY <1>1, TypeOf DEF RosterInv, RosterType
<1>3. syncs' = [syncs EXCEPT ![s] = sync] /\ attempt' = tick
      /\ tick' = tick /\ group' = group /\ asOf' = asOf
  BY DEF BeginSync, Update, Stamp
<1> HIDE DEF sync
<1>4. RosterType'
  BY <1>2, <1>3 DEF RosterInv, RosterType
<1>5. attempt < tick
  BY RosterAssumption DEF BeginSync, RosterInv, RosterType, Never
<1>6. \A t \in Syncs : Idle(t)
  BY RosterAssumption DEF BeginSync, RosterInv, RosterType, OneInv, Never
<1>7. syncs'[s] = sync /\ \A t \in Syncs : t # s => Idle(t)'
  BY <1>3, <1>6 DEF RosterInv, RosterType, Idle
<1>8. asOf' <= attempt' /\ asOf' < attempt' /\ attempt' \in Nat /\ tick' <= attempt' + Limit
  BY <1>3, <1>5, RosterAssumption DEF RosterInv, RosterType, OneInv, Never
<1>9. OneInv'
  BY <1>1, <1>3, <1>7, <1>8 DEF OneInv
<1>10. FoundInv'
  <2>1. sync.met = group /\ sync.found = {} /\ sync.stayed = group /\ sync.cursor = 0
        /\ ~sync.whole
    BY <1>1
  <2>2. \A m \in group : ~(m <= 0)
    <3>1. group \subseteq Order
      BY DEF RosterInv, RosterType
    <3>2. Order \subseteq Nat \ {0}
      BY RosterAssumption
    <3> QED
      BY <3>1, <3>2
  <2>3. group' = group /\ syncs'[s] = sync /\ \A t \in Syncs : t # s => Idle(t)'
    BY <1>3, <1>7
  <2> HIDE DEF sync
  <2> QED
    BY <2>1, <2>2, <2>3, Zenon DEF FoundInv
<1> QED
  BY <1>4, <1>9, <1>10 DEF RosterInv

LEMMA GetPageLemma ==
  ASSUME RosterInv, NEW s \in Syncs, GetPage(s)
  PROVE  RosterInv'
<1> DEFINE old == syncs[s]
           page == Page(old.cursor)
           more == After(old.cursor) # page
           top == IF page = {} THEN old.cursor ELSE Max(page)
           new == [old EXCEPT !.found = @ \cup page, !.pages = @ + 1, !.whole = ~more,
                              !.cursor = IF page = {} THEN @ ELSE Max(page)]
<1>1. old \in SyncType /\ old.cursor \in Nat
  BY DEF RosterInv, RosterType, SyncType
<1>2. /\ page \subseteq After(old.cursor) /\ After(old.cursor) \subseteq group
      /\ top \in Nat
      /\ page # {} => \A m \in After(old.cursor) : m <= top => m \in page
  BY <1>1, PageFacts DEF RosterInv
<1>3. syncs' = [syncs EXCEPT ![s] = new] /\ ~Idle(s)
      /\ attempt' = attempt /\ tick' = tick /\ group' = group /\ asOf' = asOf
  BY DEF GetPage, Update
<1>4. /\ new = [at |-> old.at, cursor |-> top, pages |-> old.pages + 1, whole |-> ~more,
               found |-> old.found \cup page, stayed |-> old.stayed, met |-> old.met]
  <2> DEFINE found == old.found \cup page
             pages == old.pages + 1
  <2>1. new = [old EXCEPT !.found = found, !.pages = pages, !.whole = ~more, !.cursor = top]
    OBVIOUS
  <2>2. old = [at |-> old.at, cursor |-> old.cursor, pages |-> old.pages, whole |-> old.whole,
               found |-> old.found, stayed |-> old.stayed, met |-> old.met]
    BY <1>1, ShapeOf
  <2> HIDE DEF new, old, page, top, more, found, pages
  <2>3. new = [at |-> old.at, cursor |-> top, pages |-> pages, whole |-> ~more,
               found |-> found, stayed |-> old.stayed, met |-> old.met]
    BY <2>1, <2>2
  <2> QED
    BY <2>3 DEF found, pages
<1>5. page \subseteq group /\ group \subseteq Order /\ Order \subseteq Nat
  BY <1>2, RosterAssumption DEF RosterInv, RosterType
<1>6. After(old.cursor) = {m \in group : m > old.cursor}
  BY DEF After
<1> HIDE DEF new, page, top
<1>7. new \in SyncType
  <2>1. old.at \in Nat \cup {Never} /\ old.pages + 1 \in Nat /\ more \in BOOLEAN
        /\ old.found \in SUBSET Order /\ old.stayed \in SUBSET Order /\ old.met \in SUBSET Order
    BY <1>1 DEF SyncType
  <2>2. old.found \cup page \in SUBSET Order
    BY <1>5, <2>1
  <2> HIDE DEF old, more
  <2> QED
    BY <1>2, <1>4, <2>1, <2>2, TypeOf
<1>8. RosterType'
  BY <1>3, <1>7 DEF RosterInv, RosterType
<1>9. syncs'[s] = new /\ \A t \in Syncs : t # s => syncs'[t] = syncs[t]
  BY <1>3 DEF RosterInv, RosterType
<1>10. \A t \in Syncs : t # s => Idle(t)'
  BY <1>3, <1>9 DEF RosterInv, OneInv, Idle
<1>11. OneInv'
  BY <1>3, <1>4, <1>9, <1>10 DEF RosterInv, OneInv
<1>12. /\ group \subseteq old.met /\ old.found \subseteq old.met /\ old.stayed \subseteq group
       /\ \A m \in old.stayed : m <= old.cursor => m \in old.found
  BY <1>3 DEF RosterInv, FoundInv
<1>13. ASSUME NEW m \in old.stayed, m <= top PROVE m \in old.found \cup page
  <2>1. m \in group /\ m \in Nat
    BY <1>5, <1>12
  <2>2. CASE m <= old.cursor
    BY <1>12, <2>2
  <2>3. CASE ~(m <= old.cursor)
    <3>1. m \in After(old.cursor)
      BY <1>1, <1>6, <2>1, <2>3
    <3>2. page # {}
      BY <1>13, <2>3 DEF top
    <3> QED
      BY <1>2, <1>13, <3>1, <3>2
  <2> QED
    BY <2>2, <2>3
<1>14. ASSUME ~more, NEW m \in old.stayed PROVE m \in old.found \cup page
  <2>1. m \in group /\ m \in Nat
    BY <1>5, <1>12
  <2>2. m <= old.cursor \/ m \in After(old.cursor)
    BY <1>1, <1>6, <2>1
  <2> QED
    BY <1>12, <1>14, <2>2
<1>15. FoundInv'
  <2> HIDE DEF more
  <2>1. new.met = old.met /\ new.found = old.found \cup page /\ new.stayed = old.stayed
        /\ new.cursor = top /\ new.whole = ~more
    BY <1>4
  <2>2. /\ group \subseteq new.met /\ new.found \subseteq new.met /\ new.stayed \subseteq group
    BY <1>5, <1>12, <2>1
  <2>3. \A m \in new.stayed : m <= new.cursor => m \in new.found
    BY <1>13, <2>1
  <2>4. new.whole => new.stayed \subseteq new.found
    BY <1>14, <2>1
  <2> QED
    BY <1>3, <1>9, <1>10, <2>2, <2>3, <2>4 DEF FoundInv
<1> QED
  BY <1>8, <1>11, <1>15 DEF RosterInv

LEMMA MovesLemma ==
  ASSUME RosterInv, NEW members \in SUBSET Order, Moves(members)
  PROVE  RosterInv'
<1> DEFINE new(s) == [syncs[s] EXCEPT !.stayed = @ \cap members, !.met = @ \cup members]
<1>1. ASSUME NEW s \in Syncs
      PROVE  new(s) = [at |-> syncs[s].at, cursor |-> syncs[s].cursor, pages |-> syncs[s].pages,
                       whole |-> syncs[s].whole, found |-> syncs[s].found,
                       stayed |-> syncs[s].stayed \cap members,
                       met |-> syncs[s].met \cup members]
             /\ new(s) \in SyncType
  <2> DEFINE old == syncs[s]
  <2>1. old \in SyncType
    BY DEF RosterInv, RosterType
  <2>2. old = [at |-> old.at, cursor |-> old.cursor, pages |-> old.pages, whole |-> old.whole,
               found |-> old.found, stayed |-> old.stayed, met |-> old.met]
    BY <2>1, ShapeOf
  <2>3. new(s) = [at |-> old.at, cursor |-> old.cursor, pages |-> old.pages, whole |-> old.whole,
                  found |-> old.found, stayed |-> old.stayed \cap members,
                  met |-> old.met \cup members]
    <3> DEFINE w == new(s)
    <3>1. w = [old EXCEPT !.stayed = old.stayed \cap members, !.met = old.met \cup members]
      OBVIOUS
    <3> HIDE DEF w, old
    <3>2. w = [at |-> old.at, cursor |-> old.cursor, pages |-> old.pages, whole |-> old.whole,
               found |-> old.found, stayed |-> old.stayed \cap members,
               met |-> old.met \cup members]
      BY <2>2, <3>1
    <3> QED
      BY <3>2 DEF w
  <2>4. old.at \in Nat \cup {Never} /\ old.cursor \in Nat /\ old.pages \in Nat
        /\ old.whole \in BOOLEAN /\ old.found \in SUBSET Order
        /\ old.stayed \cap members \in SUBSET Order /\ old.met \cup members \in SUBSET Order
    BY <2>1 DEF SyncType
  <2>5. new(s) \in SyncType
    <3> HIDE DEF new, old
    <3> QED
      BY <2>3, <2>4, TypeOf
  <2> QED
    BY <2>3, <2>5
<1>2. /\ syncs' = [s \in Syncs |-> IF Idle(s) THEN NoSync ELSE new(s)]
      /\ group' = members /\ tick' = tick /\ attempt' = attempt /\ asOf' = asOf
  BY DEF Moves
<1>3. NoSync \in SyncType
  BY DEF NoSync, SyncType, Never
<1> HIDE DEF new
<1>4. RosterType'
  BY <1>1, <1>2, <1>3 DEF RosterInv, RosterType
<1>5. \A s \in Syncs : ~Idle(s)' => ~Idle(s) /\ syncs'[s] = new(s)
  BY <1>2 DEF Idle
<1>6. \A s \in Syncs : new(s).at = syncs[s].at /\ new(s).cursor = syncs[s].cursor
        /\ new(s).whole = syncs[s].whole /\ new(s).found = syncs[s].found
        /\ new(s).stayed = syncs[s].stayed \cap members
        /\ new(s).met = syncs[s].met \cup members
  BY <1>1
<1>7. OneInv'
  BY <1>2, <1>5, <1>6 DEF RosterInv, OneInv
<1>8. FoundInv'
  <2> SUFFICES ASSUME NEW s \in Syncs, ~Idle(s)'
               PROVE  /\ members \subseteq new(s).met
                      /\ new(s).found \subseteq new(s).met
                      /\ new(s).stayed \subseteq members
                      /\ \A m \in new(s).stayed : m <= new(s).cursor => m \in new(s).found
                      /\ new(s).whole => new(s).stayed \subseteq new(s).found
    BY <1>2, <1>5 DEF FoundInv
  <2>1. ~Idle(s)
    BY <1>5
  <2>2. /\ syncs[s].found \subseteq syncs[s].met
        /\ \A m \in syncs[s].stayed : m <= syncs[s].cursor => m \in syncs[s].found
        /\ syncs[s].whole => syncs[s].stayed \subseteq syncs[s].found
    BY <2>1 DEF RosterInv, FoundInv
  <2> QED
    BY <1>6, <2>2
<1> QED
  BY <1>4, <1>7, <1>8 DEF RosterInv

LEMMA TickLemma ==
  ASSUME RosterInv, RosterTick
  PROVE  RosterInv'
<1>1. RosterType'
  BY DEF RosterInv, RosterType, RosterTick
<1>2. \A s \in Syncs : Idle(s)' = Idle(s)
  BY DEF RosterTick, Idle
<1>3. OneInv'
  BY <1>2, RosterAssumption DEF RosterInv, RosterType, OneInv, RosterTick
<1>4. FoundInv'
  BY <1>2 DEF RosterInv, FoundInv, RosterTick
<1> QED
  BY <1>1, <1>3, <1>4 DEF RosterInv

LEMMA RosterStepInv == RosterInv /\ [RosterNext]_rosterVars => RosterInv'
<1> SUFFICES ASSUME RosterInv, [RosterNext]_rosterVars PROVE RosterInv'
  OBVIOUS
<1>1. ASSUME UNCHANGED <<tick, group, attempt, syncs, asOf>> PROVE RosterInv'
  BY <1>1 DEF RosterInv, RosterType, OneInv, FoundInv, Idle
<1>2. CASE UNCHANGED rosterVars
  BY <1>1, <1>2 DEF rosterVars
<1>3. ASSUME NEW s \in Syncs, BeginSync(s) PROVE RosterInv'
  BY <1>3, BeginSyncLemma
<1>4. ASSUME NEW s \in Syncs, GetPage(s) PROVE RosterInv'
  BY <1>4, GetPageLemma
<1>5. ASSUME NEW s \in Syncs, FailSync(s) PROVE RosterInv'
  BY <1>5, EndLemma DEF FailSync
<1>6. ASSUME NEW s \in Syncs, ReplaceRoster(s) PROVE RosterInv'
  BY <1>6, EndLemma DEF ReplaceRoster
<1>7. ASSUME NEW m \in Order, SeenNow(m) PROVE RosterInv'
  BY <1>1, <1>7 DEF SeenNow
<1>8. CASE Join
  BY <1>8, MovesLemma DEF Join, RosterInv, RosterType
<1>9. CASE Leave
  BY <1>9, MovesLemma DEF Leave, RosterInv, RosterType
<1>10. CASE RosterTick
  BY <1>10, TickLemma
<1> QED
  BY <1>2, <1>3, <1>4, <1>5, <1>6, <1>7, <1>8, <1>9, <1>10 DEF RosterNext

--------------------------------------------------------------------------------
(* A roster is replaced only by a later and whole one: syncGroupRoster and *)
(* ReplaceGroupRoster, for any number of commands, members and pages.      *)
THEOREM RosterSnapshot == RosterSpec => RosterIsSnapshot
<1> DEFINE Snapshot ==
      \A s \in Syncs : ReplaceRoster(s) =>
        /\ asOf < syncs[s].at
        /\ roster' \subseteq syncs[s].met \ Bots
        /\ Cardinality(syncs[s].met \ Bots) <= MaxRoster =>
             syncs[s].stayed \ Bots \subseteq roster'
<1>1. RosterInv => Snapshot
  <2> SUFFICES ASSUME RosterInv, NEW s \in Syncs, ReplaceRoster(s)
               PROVE  /\ asOf < syncs[s].at
                      /\ roster' \subseteq syncs[s].met \ Bots
                      /\ Cardinality(syncs[s].met \ Bots) <= MaxRoster =>
                           syncs[s].stayed \ Bots \subseteq roster'
    OBVIOUS
  <2>1. ~Idle(s) /\ syncs[s].whole /\ roster' = Taken(syncs[s].found)
    BY DEF ReplaceRoster
  <2>2. syncs[s].found \in SUBSET Order /\ syncs[s].met \in SUBSET Order
    BY DEF RosterInv, RosterType, SyncType
  <2>3. asOf < syncs[s].at
    BY <2>1 DEF RosterInv, OneInv
  <2>4. syncs[s].found \subseteq syncs[s].met /\ syncs[s].stayed \subseteq syncs[s].found
    BY <2>1 DEF RosterInv, FoundInv
  <2>5. /\ Taken(syncs[s].found) \subseteq syncs[s].met \ Bots
        /\ Cardinality(syncs[s].met \ Bots) <= MaxRoster =>
             syncs[s].found \ Bots \subseteq Taken(syncs[s].found)
    BY <2>2, <2>4, TakenFacts, SMTT(30)
  <2> QED
    BY <2>1, <2>3, <2>4, <2>5
<1>2. RosterIsSnapshot <=> [][Snapshot]_rosterVars
  BY DEF RosterIsSnapshot
<1> HIDE DEF Snapshot
<1> QED
  BY <1>1, <1>2, RosterStarts, RosterStepInv, PTL DEF RosterSpec

--------------------------------------------------------------------------------
(* Migration: what the start of the store moves, what it leaves alone at   *)
(* any later start, and that expired links stay so.                        *)

(* The shapes of the tables and of the profiles among them.                *)
IsTables(x) ==
  x = [done |-> x.done, backup |-> x.backup, profiles |-> x.profiles,
       schedules |-> x.schedules, marks |-> x.marks, links |-> x.links,
       settings |-> x.settings, panel |-> x.panel]
IsProfiles(p) ==
  p = [m \in DOMAIN p |-> [name |-> p[m].name, union |-> p[m].union, roster |-> p[m].roster]]

TypeInv ==
  /\ v6 \in Databases /\ time \in Nat /\ stage \in Stages
  /\ IsTables(db) /\ IsTables(work)
  /\ IsProfiles(db.profiles) /\ IsProfiles(work.profiles)
  /\ db.panel \in Nat /\ work.panel \in Nat

(* Links: a token is handed out once, a moved link keeps its expiry, and   *)
(* one that was refused has reached it, in every place the link may be.    *)
LinksOK(x) ==
  /\ DOMAIN x.links \subseteq used
  /\ \A t \in DOMAIN x.links :
       /\ x.links[t].expires \in Int
       /\ t \in OldLinks => x.links[t].expires = v6.links[t].expires
       /\ t \in expired => x.links[t].expires <= time
LinkInv ==
  /\ DOMAIN v6.links \subseteq used /\ expired \subseteq used
  /\ \A t \in OldLinks \cap expired : v6.links[t].expires <= time
  /\ LinksOK(db) /\ LinksOK(work)

(* What the part that runs at every start finds done already, once the     *)
(* flag is set.                                                            *)
Settled(x) ==
  /\ x.settings = None => v6.settings = None
  /\ x.panel = 0 => ~v6.panel.known
  /\ Holders \subseteq DOMAIN x.profiles
Same(x, y) ==
  /\ x.done = y.done /\ x.backup = y.backup /\ x.profiles = y.profiles
  /\ x.schedules = y.schedules /\ x.marks = y.marks
  /\ x.settings = y.settings /\ x.panel = y.panel
DoneInv ==
  /\ db.done => Settled(db) /\ OldLinks \subseteq DOMAIN db.links \cup expired
  /\ stage = "up" => db.done
  /\ stage \in {"rows", "marks", "state"} => ~db.done
  /\ stage \in {"named", "commit"} => work.done
  /\ stage = "named" /\ db.done => work = db
  /\ stage = "commit" =>
       /\ Settled(work) /\ OldLinks \subseteq DOMAIN work.links
       /\ db.done =>
            /\ Same(work, db)
            /\ DOMAIN db.links \subseteq DOMAIN work.links
            /\ DOMAIN work.links \subseteq DOMAIN db.links \cup expired
            /\ \A t \in DOMAIN db.links : work.links[t] = db.links[t]

IInv == TypeInv /\ LinkInv /\ DoneInv

--------------------------------------------------------------------------------
(* Lemmas about the operators of the migration.                            *)

(* The profile of m after s was said of it.                                *)
NameOf(p, s, m) ==
  IF m \in DOMAIN s /\ s[m].name # None THEN s[m].name
  ELSE IF m \in DOMAIN p THEN p[m].name ELSE m
UnionOf(p, s, m) ==
  IF m \in DOMAIN s /\ (m \notin DOMAIN p \/ s[m].union # None) THEN s[m].union ELSE p[m].union
RosterOf(p, m) == IF m \in DOMAIN p THEN p[m].roster ELSE FALSE
Profile(p, s, m) ==
  [name |-> NameOf(p, s, m), union |-> UnionOf(p, s, m), roster |-> RosterOf(p, m)]

LEMMA UpsertShape ==
  ASSUME NEW p, NEW s, IsProfiles(p)
  PROVE  /\ IsProfiles(Upsert(p, s))
         /\ DOMAIN Upsert(p, s) = DOMAIN p \cup DOMAIN s
         /\ \A m \in DOMAIN p \cup DOMAIN s : Upsert(p, s)[m] = Profile(p, s, m)
<1> DEFINE u == Upsert(p, s)
           D == DOMAIN p \cup DOMAIN s
<1>1. DOMAIN u = D
  BY DEF Upsert
<1>2. ASSUME NEW m \in D PROVE u[m] = Profile(p, s, m)
  <2>1. m \in DOMAIN p =>
          p[m] = [name |-> p[m].name, union |-> p[m].union, roster |-> p[m].roster]
    BY DEF IsProfiles
  <2>2. CASE m \notin DOMAIN s
    BY <1>2, <2>1, <2>2 DEF Upsert, Profile, NameOf, UnionOf, RosterOf
  <2>3. CASE m \in DOMAIN s /\ m \notin DOMAIN p
    BY <1>2, <2>3 DEF Upsert, Profile, NameOf, UnionOf, RosterOf, Named
  <2>4. CASE m \in DOMAIN s /\ m \in DOMAIN p
    <3>1. u[m] = [p[m] EXCEPT !.name = IF s[m].name = None THEN @ ELSE s[m].name,
                              !.union = IF s[m].union = None THEN @ ELSE s[m].union]
      BY <1>2, <2>4 DEF Upsert
    <3> QED
      BY <2>1, <2>4, <3>1 DEF Profile, NameOf, UnionOf, RosterOf
  <2> QED
    BY <2>2, <2>3, <2>4
<1>3. u = [m \in D |-> u[m]]
  BY DEF Upsert
<1> HIDE DEF u, D
<1>4. ASSUME NEW m \in D
      PROVE  u[m] = [name |-> u[m].name, union |-> u[m].union, roster |-> u[m].roster]
  <2> DEFINE a == NameOf(p, s, m)
             b == UnionOf(p, s, m)
             c == RosterOf(p, m)
  <2>1. u[m] = [name |-> a, union |-> b, roster |-> c]
    BY <1>2, <1>4 DEF Profile
  <2> HIDE DEF a, b, c
  <2> QED
    BY <2>1
<1>5. IsProfiles(u)
  BY <1>1, <1>3, <1>4 DEF IsProfiles
<1> QED
  BY <1>1, <1>2, <1>5 DEF u, D

LEMMA UpsertNothing ==
  ASSUME NEW p, NEW S, IsProfiles(p), S \subseteq DOMAIN p
  PROVE  Upsert(p, Unnamed(S)) = p
<1>1. DOMAIN Unnamed(S) = S /\ \A m \in S : Unnamed(S)[m].name = None /\ Unnamed(S)[m].union = None
  BY DEF Unnamed
<1>2. IsProfiles(Upsert(p, Unnamed(S))) /\ DOMAIN Upsert(p, Unnamed(S)) = DOMAIN p
  <2>1. IsProfiles(Upsert(p, Unnamed(S)))
        /\ DOMAIN Upsert(p, Unnamed(S)) = DOMAIN p \cup DOMAIN Unnamed(S)
    BY UpsertShape, Zenon
  <2>2. DOMAIN p \cup DOMAIN Unnamed(S) = DOMAIN p
    BY <1>1
  <2> QED
    BY <2>1, <2>2
<1>3. \A m \in DOMAIN p : Upsert(p, Unnamed(S))[m] = Profile(p, Unnamed(S), m)
  BY UpsertShape, Zenon
<1>4. ASSUME NEW m \in DOMAIN p PROVE Upsert(p, Unnamed(S))[m] = p[m]
  <2>1. p[m] = [name |-> p[m].name, union |-> p[m].union, roster |-> p[m].roster]
    BY DEF IsProfiles
  <2> QED
    BY <1>1, <1>3, <2>1 DEF Profile, NameOf, UnionOf, RosterOf
<1>5. p = [m \in DOMAIN p |-> p[m]]
  BY DEF IsProfiles
<1>6. Upsert(p, Unnamed(S)) = [m \in DOMAIN p |-> Upsert(p, Unnamed(S))[m]]
  BY <1>2 DEF IsProfiles
<1> QED
  BY <1>4, <1>5, <1>6

LEMMA KeepShape ==
  ASSUME NEW f, NEW g, IsProfiles(f), IsProfiles(g)
  PROVE  IsProfiles(Keep(f, g))
  BY DEF Keep, IsProfiles

LEMMA NewTablesShape ==
  IsTables(NewTables) /\ IsProfiles(NewTables.profiles) /\ NewTables.panel \in Nat
  BY DEF NewTables, IsTables, IsProfiles, Empty

LEMMA ListedShape == ASSUME NEW p, IsProfiles(p) PROVE IsProfiles(Listed(p))
  BY DEF Listed, IsProfiles

LEMMA OldExpires == ASSUME TypeInv, NEW t \in OldLinks PROVE v6.links[t].expires \in Nat
  BY DatabasesAssumption DEF TypeInv, OldLinks

--------------------------------------------------------------------------------
LEMMA MigrationInitInv == MigrationInit => IInv
<1> SUFFICES ASSUME MigrationInit PROVE IInv
  OBVIOUS
<1>1. db = NewTables /\ work = NewTables /\ stage = "down" /\ expired = {} /\ used = DOMAIN v6.links
  BY DEF MigrationInit
<1>2. TypeInv
  BY NewTablesShape DEF MigrationInit, TypeInv, Stages
<1>3. db.links = Empty /\ work.links = Empty /\ db.done = FALSE
  BY <1>1 DEF NewTables
<1>4. DOMAIN Empty = {}
  BY DEF Empty
<1>5. LinkInv
  BY <1>1, <1>3, <1>4 DEF LinkInv, LinksOK
<1>6. DoneInv
  BY <1>1, <1>3 DEF DoneInv
<1> QED
  BY <1>2, <1>5, <1>6 DEF IInv

(* Each part of the migration by itself.                                   *)
LEMMA StartInv == ASSUME IInv, Start PROVE IInv'
<1>1. db' = [db EXCEPT !.backup = @ \/ (v6.versioned /\ ~db.done)] /\ work' = db' /\ IsTables(db)
  BY DEF Start, IInv, TypeInv
<1>2. /\ IsTables(db') /\ db'.links = db.links /\ db'.done = db.done /\ db'.profiles = db.profiles
      /\ db'.settings = db.settings /\ db'.panel = db.panel
  BY <1>1 DEF IsTables
<1>3. stage' = (IF db.done THEN "named" ELSE "rows") /\ UNCHANGED <<v6, time, used, expired>>
  BY DEF Start, Begin
<1>4. TypeInv'
  BY <1>1, <1>2, <1>3 DEF IInv, TypeInv, Stages
<1>5. LinkInv'
  BY <1>1, <1>2, <1>3 DEF IInv, LinkInv, LinksOK, OldLinks
<1>6. DoneInv'
  BY <1>1, <1>2, <1>3 DEF IInv, DoneInv, Settled, OldLinks, Holders
<1> QED
  BY <1>4, <1>5, <1>6 DEF IInv

(* The parts that run only while the flag is not set change no link.       *)
LEMMA EarlyInv ==
  ASSUME IInv, stage \in {"rows", "marks", "state"}, stage' \in {"marks", "state", "named"},
         stage' = "named" => work'.done, UNCHANGED <<v6, db, time, used, expired>>,
         IsTables(work'), IsProfiles(work'.profiles), work'.links = work.links, work'.panel = work.panel
  PROVE  IInv'
<1>1. TypeInv'
  BY DEF IInv, TypeInv, Stages
<1>2. LinkInv'
  BY DEF IInv, LinkInv, LinksOK, OldLinks
<1>3. DoneInv'
  BY DEF IInv, DoneInv, Settled, OldLinks, Holders
<1> QED
  BY <1>1, <1>2, <1>3 DEF IInv

LEMMA MoveRowsInv == ASSUME IInv, MoveRows PROVE IInv'
<1> DEFINE p == [m \in DOMAIN v6.rows |-> [name |-> Named(v6.rows[m].name, m),
                                           union |-> v6.rows[m].union, roster |-> FALSE]]
           q == Keep(work.profiles, p)
           c == Keep(work.schedules,
                     [m \in DOMAIN v6.rows |->
                        [rev |-> IF v6.rows[m].rev < 1 THEN 1 ELSE v6.rows[m].rev,
                         events |-> Moved(v6.rows[m].events)]])
<1>1. /\ work' = [work EXCEPT !.profiles = q, !.schedules = c]
      /\ stage = "rows" /\ stage' = "marks" /\ UNCHANGED <<v6, db, time, used, expired>>
  BY DEF MoveRows, Step, Readable
<1>2. IsProfiles(p)
  BY DEF IsProfiles
<1>3. IsTables(work) /\ IsProfiles(work.profiles)
  BY DEF IInv, TypeInv
<1> HIDE DEF p, c
<1>4. IsProfiles(q)
  BY <1>2, <1>3, KeepShape
<1> HIDE DEF q
<1>5. IsTables(work') /\ work'.profiles = q /\ work'.links = work.links /\ work'.panel = work.panel
  BY <1>1, <1>3 DEF IsTables
<1> QED
  BY <1>1, <1>4, <1>5, EarlyInv

LEMMA MoveMarksInv == ASSUME IInv, MoveMarks PROVE IInv'
<1> DEFINE q == Upsert(work.profiles, Unnamed(MarkedBy(v6.marks) \ {Everybody}))
           k == Keep(work.marks, v6.marks)
<1>1. /\ work' = [work EXCEPT !.profiles = q, !.marks = k]
      /\ stage = "marks" /\ stage' = "state" /\ UNCHANGED <<v6, db, time, used, expired>>
  BY DEF MoveMarks, Step, Readable
<1>2. IsTables(work) /\ IsProfiles(work.profiles)
  BY DEF IInv, TypeInv
<1>3. IsProfiles(q)
  BY <1>2, UpsertShape
<1> HIDE DEF q, k
<1>4. IsTables(work') /\ work'.profiles = q /\ work'.links = work.links /\ work'.panel = work.panel
  BY <1>1, <1>2 DEF IsTables
<1> QED
  BY <1>1, <1>3, <1>4, EarlyInv

LEMMA MoveStateInv == ASSUME IInv, MoveState PROVE IInv'
<1> DEFINE q == Upsert(work.profiles, [m \in DOMAIN v6.seen |-> [name |-> v6.seen[m], union |-> None]])
           r == Upsert(q, [m \in DOMAIN v6.identity |-> [name |-> None, union |-> v6.identity[m]]])
           l == Listed(Upsert(r, v6.roster))
<1>1. /\ work' = [work EXCEPT !.profiles = l, !.done = TRUE]
      /\ stage = "state" /\ stage' = "named" /\ UNCHANGED <<v6, db, time, used, expired>>
  BY DEF MoveState, Step, Readable
<1>2. IsTables(work) /\ IsProfiles(work.profiles)
  BY DEF IInv, TypeInv
<1>3. IsProfiles(q)
  BY <1>2, UpsertShape
<1> HIDE DEF q
<1>4. IsProfiles(r)
  BY <1>3, UpsertShape
<1> HIDE DEF r
<1>5. IsProfiles(l)
  BY <1>4, UpsertShape, ListedShape
<1> HIDE DEF l
<1>6. IsTables(work') /\ work'.profiles = l /\ work'.links = work.links /\ work'.done = TRUE
      /\ work'.panel = work.panel
  BY <1>1, <1>2 DEF IsTables
<1> QED
  BY <1>1, <1>5, <1>6, EarlyInv

LEMMA MoveNamedInv == ASSUME IInv, MoveNamed PROVE IInv'
<1> DEFINE n == IF work.settings = None THEN v6.settings ELSE work.settings
           l == Keep(work.links, [t \in OldLinks |-> OldLink(t)])
           p == Upsert(work.profiles, Unnamed(Holders))
           v == IF work.panel = 0 /\ v6.panel.known
                THEN (IF v6.panel.version < 1 THEN 1 ELSE v6.panel.version) ELSE work.panel
<1>1. /\ work' = [work EXCEPT !.settings = n, !.links = l, !.profiles = p, !.panel = v]
      /\ stage = "named" /\ stage' = "commit" /\ UNCHANGED <<v6, db, time, used, expired>>
  BY DEF MoveNamed, Step, Readable
<1>2. IsTables(work) /\ IsProfiles(work.profiles) /\ v6 \in Databases
  BY DEF IInv, TypeInv
<1>3. /\ IsTables(work') /\ work'.settings = n /\ work'.links = l /\ work'.profiles = p
      /\ work'.panel = v /\ work'.done = work.done /\ work'.backup = work.backup
      /\ work'.schedules = work.schedules /\ work'.marks = work.marks
  <2> HIDE DEF n, l, p, v
  <2> QED
    BY <1>1, <1>2 DEF IsTables
<1>4. IsProfiles(p) /\ Holders \subseteq DOMAIN p
  BY <1>2, UpsertShape DEF Unnamed
<1>5. /\ DOMAIN l = DOMAIN work.links \cup OldLinks
      /\ \A t \in DOMAIN work.links : l[t] = work.links[t]
      /\ \A t \in OldLinks \ DOMAIN work.links : l[t].expires = v6.links[t].expires
  BY DEF Keep, OldLink
<1>6. v \in Nat /\ (v = 0 => ~v6.panel.known)
  <2>1. v6.panel.version \in Nat /\ work.panel \in Nat
    BY <1>2, DatabasesAssumption DEF IInv, TypeInv
  <2>2. CASE work.panel = 0 /\ v6.panel.known
    BY <2>1, <2>2
  <2>3. CASE ~(work.panel = 0 /\ v6.panel.known)
    BY <2>1, <2>3
  <2> QED
    BY <2>2, <2>3
<1>7. n = None => v6.settings = None
  OBVIOUS
<1>8. work.done /\ (db.done => work = db /\ Settled(db) /\ OldLinks \subseteq DOMAIN db.links \cup expired)
  BY <1>1 DEF IInv, DoneInv
<1>9. db.done => n = work.settings /\ v = work.panel /\ p = work.profiles
  <2>1. db.done => n = work.settings /\ v = work.panel
    BY <1>8 DEF Settled
  <2>2. db.done => p = work.profiles
    BY <1>2, <1>8, UpsertNothing DEF Settled
  <2> QED
    BY <2>1, <2>2
<1>10. TypeInv'
  BY <1>1, <1>3, <1>4, <1>6 DEF IInv, TypeInv, Stages
<1>11. LinkInv'
  <2>1. \A t \in OldLinks : v6.links[t].expires \in Int
    BY OldExpires DEF IInv
  <2>2. OldLinks \subseteq used
    BY DEF IInv, LinkInv, OldLinks
  <2>3. OldLinks' = OldLinks /\ LinksOK(db)'
    BY <1>1 DEF OldLinks, IInv, LinkInv, LinksOK
  <2> HIDE DEF l
  <2>4. LinksOK(work)'
    BY <1>1, <1>3, <1>5, <2>1, <2>2, <2>3 DEF IInv, LinkInv, LinksOK
  <2> QED
    BY <1>1, <2>3, <2>4 DEF IInv, LinkInv
<1>12. DoneInv'
  <2>1. OldLinks' = OldLinks /\ Holders' = Holders
    BY <1>1 DEF OldLinks, Holders
  <2>2. Settled(work)' /\ (db.done => Settled(db)')
    BY <1>1, <1>3, <1>4, <1>6, <1>7, <1>8, <2>1 DEF Settled
  <2>3. db.done => Same(work', db)
    BY <1>3, <1>8, <1>9 DEF Same
  <2> HIDE DEF l
  <2>4. OldLinks \subseteq DOMAIN work'.links
        /\ (db.done => /\ DOMAIN db.links \subseteq DOMAIN work'.links
                       /\ DOMAIN work'.links \subseteq DOMAIN db.links \cup expired
                       /\ \A t \in DOMAIN db.links : work'.links[t] = db.links[t])
    BY <1>3, <1>5, <1>8
  <2> QED
    BY <1>1, <1>3, <1>8, <2>1, <2>2, <2>3, <2>4 DEF DoneInv, Same
<1> QED
  BY <1>10, <1>11, <1>12 DEF IInv

LEMMA CommitInv == ASSUME IInv, Commit PROVE IInv'
<1>1. TypeInv'
  BY DEF IInv, TypeInv, Stages, Commit
<1>2. LinkInv'
  BY DEF IInv, LinkInv, LinksOK, OldLinks, Commit
<1>3. DoneInv'
  BY DEF IInv, DoneInv, Settled, OldLinks, Holders, Commit
<1> QED
  BY <1>1, <1>2, <1>3 DEF IInv

LEMMA StopInv == ASSUME IInv, Stop PROVE IInv'
<1>1. TypeInv'
  BY DEF IInv, TypeInv, Stages, Stop
<1>2. LinkInv'
  BY DEF IInv, LinkInv, LinksOK, OldLinks, Stop
<1>3. DoneInv'
  BY DEF IInv, DoneInv, Settled, OldLinks, Holders, Stop
<1> QED
  BY <1>1, <1>2, <1>3 DEF IInv

LEMMA PassInv == ASSUME IInv, Pass PROVE IInv'
<1>1. TypeInv' /\ DoneInv'
  BY DEF IInv, TypeInv, DoneInv, Settled, OldLinks, Holders, Pass, Same
<1>2. LinksOK(db)' /\ LinksOK(work)'
  BY DEF IInv, TypeInv, LinkInv, LinksOK, OldLinks, Pass
<1>3. \A t \in OldLinks \cap expired : v6.links[t].expires <= time + 1
  BY OldExpires DEF IInv, TypeInv, LinkInv
<1>4. LinkInv'
  BY <1>2, <1>3 DEF IInv, LinkInv, OldLinks, Pass
<1> QED
  BY <1>1, <1>4 DEF IInv

(* The running process.                                                    *)
LEMMA WriteInv ==
  ASSUME IInv, NEW x, Write(x), IsTables(x), IsProfiles(x.profiles), x.panel \in Nat,
         x.done = db.done, Settled(x), LinkInv', OldLinks \subseteq DOMAIN x.links \cup expired'
  PROVE  IInv'
<1>1. TypeInv'
  BY DEF IInv, TypeInv, Write
<1>2. DoneInv'
  BY DEF IInv, DoneInv, Settled, OldLinks, Holders, Write
<1> QED
  BY <1>1, <1>2 DEF IInv

LEMMA WriteOtherInv ==
  ASSUME IInv, NEW x, Write(x), IsTables(x), IsProfiles(x.profiles), x.panel \in Nat,
         x.done = db.done, x.links = db.links, UNCHANGED <<used, expired>>,
         DOMAIN db.profiles \subseteq DOMAIN x.profiles,
         x.settings = db.settings \/ x.settings = "saved", x.panel = db.panel \/ x.panel # 0
  PROVE  IInv'
<1>1. Settled(db) /\ OldLinks \subseteq DOMAIN db.links \cup expired
  BY DEF Write, IInv, DoneInv
<1>2. Settled(x)
  BY <1>1 DEF Settled, None
<1>3. LinkInv'
  BY DEF IInv, LinkInv, LinksOK, OldLinks, Write
<1> QED
  BY <1>1, <1>2, <1>3, WriteInv

LEMMA DbShape == IInv => IsTables(db) /\ IsProfiles(db.profiles) /\ db.panel \in Nat
  BY DEF IInv, TypeInv

LEMMA SaveScheduleInv == ASSUME IInv, NEW m, SaveSchedule(m) PROVE IInv'
<1> DEFINE p == Upsert(db.profiles, Unnamed({m}))
<1>1. PICK c : /\ Write([db EXCEPT !.profiles = p, !.schedules = c])
               /\ UNCHANGED <<used, expired>>
  BY DEF SaveSchedule
<1> DEFINE x == [db EXCEPT !.profiles = p, !.schedules = c]
<1>2. IsProfiles(p) /\ DOMAIN db.profiles \subseteq DOMAIN p
  BY DbShape, UpsertShape
<1> HIDE DEF p
<1>3. x = [db EXCEPT !.profiles = p, !.schedules = c] /\ Write(x)
  BY <1>1
<1> HIDE DEF x
<1>4. IsTables(x) /\ x.profiles = p /\ x.panel = db.panel /\ x.done = db.done
      /\ x.links = db.links /\ x.settings = db.settings
  BY <1>3, DbShape DEF IsTables
<1> QED
  BY <1>1, <1>2, <1>3, <1>4, DbShape, WriteOtherInv

LEMMA DeleteScheduleInv == ASSUME IInv, NEW m, DeleteSchedule(m) PROVE IInv'
<1> DEFINE c == Drop(db.schedules, m)
           x == [db EXCEPT !.schedules = c]
<1>1. Write(x) /\ UNCHANGED <<used, expired>>
  BY DEF DeleteSchedule
<1> HIDE DEF c
<1>2. IsTables(x) /\ x.profiles = db.profiles /\ x.panel = db.panel /\ x.done = db.done
      /\ x.links = db.links /\ x.settings = db.settings
  BY DbShape DEF IsTables
<1> HIDE DEF x
<1> QED
  BY <1>1, <1>2, DbShape, WriteOtherInv

LEMMA RenameInv == ASSUME IInv, NEW m, Rename(m) PROVE IInv'
<1> DEFINE p == [db.profiles EXCEPT ![m].name = "chosen"]
           x == [db EXCEPT !.profiles = p]
<1>1. Write(x) /\ UNCHANGED <<used, expired>> /\ m \in DOMAIN db.profiles
  BY DEF Rename
<1>2. IsProfiles(p) /\ DOMAIN p = DOMAIN db.profiles
  BY <1>1, DbShape DEF IsProfiles
<1> HIDE DEF p
<1>3. IsTables(x) /\ x.profiles = p /\ x.panel = db.panel /\ x.done = db.done
      /\ x.links = db.links /\ x.settings = db.settings
  BY DbShape DEF IsTables
<1> HIDE DEF x
<1> QED
  BY <1>1, <1>2, <1>3, DbShape, WriteOtherInv

LEMMA UnmarkInv == ASSUME IInv, NEW md, Unmark(md) PROVE IInv'
<1> DEFINE k == Drop(db.marks, md)
           x == [db EXCEPT !.marks = k]
<1>1. Write(x) /\ UNCHANGED <<used, expired>>
  BY DEF Unmark
<1> HIDE DEF k
<1>2. IsTables(x) /\ x.profiles = db.profiles /\ x.panel = db.panel /\ x.done = db.done
      /\ x.links = db.links /\ x.settings = db.settings
  BY DbShape DEF IsTables
<1> HIDE DEF x
<1> QED
  BY <1>1, <1>2, DbShape, WriteOtherInv

LEMMA SaveSettingsInv == ASSUME IInv, SaveSettings PROVE IInv'
<1> DEFINE x == [db EXCEPT !.settings = "saved"]
<1>1. Write(x) /\ UNCHANGED <<used, expired>>
  BY DEF SaveSettings
<1>2. IsTables(x) /\ x.profiles = db.profiles /\ x.panel = db.panel /\ x.done = db.done
      /\ x.links = db.links /\ x.settings = "saved"
  BY DbShape DEF IsTables
<1> HIDE DEF x
<1> QED
  BY <1>1, <1>2, DbShape, WriteOtherInv

LEMMA SavePanelInv == ASSUME IInv, SavePanel PROVE IInv'
<1> DEFINE x == [db EXCEPT !.panel = @ + 1]
<1>1. Write(x) /\ UNCHANGED <<used, expired>>
  BY DEF SavePanel
<1>2. IsTables(x) /\ x.profiles = db.profiles /\ x.panel = db.panel + 1 /\ x.done = db.done
      /\ x.links = db.links /\ x.settings = db.settings
  BY DbShape DEF IsTables
<1>3. x.panel \in Nat /\ x.panel # 0
  BY <1>2, DbShape
<1> HIDE DEF x
<1> QED
  BY <1>1, <1>2, <1>3, DbShape, WriteOtherInv

LEMMA CreateLinkInv == ASSUME IInv, NEW t \in Tokens, NEW m, CreateLink(t, m) PROVE IInv'
<1> DEFINE p == Upsert(db.profiles, Unnamed({m}))
           l == Put(db.links, t, [member |-> m, expires |-> time + LinkLife])
           x == [db EXCEPT !.profiles = p, !.links = l]
<1>1. /\ Write(x) /\ used' = used \cup {t} /\ expired' = expired /\ t \notin used
  BY DEF CreateLink
<1>2. IsProfiles(p) /\ DOMAIN db.profiles \subseteq DOMAIN p
  BY DbShape, UpsertShape
<1>3. /\ DOMAIN l = DOMAIN db.links \cup {t} /\ l[t].expires = time + LinkLife
      /\ \A u \in DOMAIN db.links \ {t} : l[u] = db.links[u]
  BY DEF Put
<1>4. time + LinkLife \in Int
  BY MigrationAssumption DEF IInv, TypeInv
<1> HIDE DEF p, l
<1>x. x = [db EXCEPT !.profiles = p, !.links = l]
  OBVIOUS
<1> HIDE DEF x
<1>5. IsTables(x) /\ x.profiles = p /\ x.panel = db.panel /\ x.done = db.done
      /\ x.links = l /\ x.settings = db.settings
  BY <1>x, DbShape DEF IsTables
<1>6. Settled(db) /\ OldLinks \subseteq DOMAIN db.links \cup expired
  BY <1>1 DEF Write, IInv, DoneInv
<1>7. Settled(x)
  BY <1>2, <1>5, <1>6 DEF Settled
<1>8. t \notin DOMAIN v6.links /\ t \notin DOMAIN db.links /\ t \notin expired
  BY <1>1 DEF IInv, LinkInv, LinksOK
<1>9. LinkInv'
  <2>1. OldLinks' = OldLinks /\ t \notin OldLinks /\ time' = time /\ db' = x /\ work' = x /\ v6' = v6
    BY <1>1, <1>8 DEF OldLinks, Write
  <2>2. /\ DOMAIN l \subseteq used'
        /\ \A u \in DOMAIN l : /\ l[u].expires \in Int
                               /\ u \in OldLinks => l[u].expires = v6.links[u].expires
                               /\ u \in expired => l[u].expires <= time
    BY <1>1, <1>3, <1>4, <1>8, <2>1 DEF IInv, LinkInv, LinksOK
  <2>3. LinksOK(db)' /\ LinksOK(work)'
    BY <1>1, <1>5, <2>1, <2>2 DEF LinksOK
  <2> QED
    BY <1>1, <2>1, <2>3 DEF IInv, LinkInv
<1> QED
  BY <1>1, <1>2, <1>3, <1>5, <1>6, <1>7, <1>9, DbShape, WriteInv

LEMMA RefuseLinkInv == ASSUME IInv, NEW t, RefuseLink(t) PROVE IInv'
<1>1. /\ t \in DOMAIN db.links /\ ~Valid(t) /\ stage = "up"
      /\ UNCHANGED <<v6, stage, time, used>> /\ expired' = expired \cup {t}
  BY DEF RefuseLink, Write
<1>2. db.links[t].expires <= time
  BY <1>1 DEF Valid, IInv, TypeInv, LinkInv, LinksOK
<1>3. t \in used /\ (t \in OldLinks => v6.links[t].expires <= time)
  BY <1>1, <1>2 DEF IInv, LinkInv, LinksOK
<1>4. Settled(db) /\ OldLinks \subseteq DOMAIN db.links \cup expired
  BY <1>1 DEF IInv, DoneInv
<1>5. ASSUME NEW x, Write(x), IsTables(x), x.profiles = db.profiles, x.panel = db.panel,
             x.done = db.done, x.settings = db.settings,
             DOMAIN x.links \subseteq DOMAIN db.links,
             DOMAIN db.links \subseteq DOMAIN x.links \cup {t},
             \A u \in DOMAIN x.links : x.links[u] = db.links[u]
      PROVE  IInv'
  <2>1. OldLinks' = OldLinks /\ db' = x /\ work' = x
    BY <1>1, <1>5 DEF OldLinks, Write
  <2>2. LinksOK(db)' /\ LinksOK(work)'
    BY <1>1, <1>2, <1>5, <2>1 DEF IInv, LinkInv, LinksOK
  <2>3. LinkInv'
    BY <1>1, <1>3, <2>1, <2>2 DEF IInv, LinkInv
  <2>4. Settled(x) /\ OldLinks \subseteq DOMAIN x.links \cup expired'
    BY <1>1, <1>4, <1>5 DEF Settled
  <2> QED
    BY <1>5, <2>3, <2>4, DbShape, WriteInv
<1>6. CASE Write(db)
  BY <1>5, <1>6, DbShape
<1>7. CASE Write([db EXCEPT !.links = Drop(@, t)])
  <2> DEFINE l == Drop(db.links, t)
             x == [db EXCEPT !.links = l]
  <2>1. /\ DOMAIN l \subseteq DOMAIN db.links /\ DOMAIN db.links \subseteq DOMAIN l \cup {t}
        /\ \A u \in DOMAIN l : l[u] = db.links[u]
    BY DEF Drop
  <2>2. Write(x)
    BY <1>7
  <2> HIDE DEF l
  <2>3. IsTables(x) /\ x.profiles = db.profiles /\ x.panel = db.panel /\ x.done = db.done
        /\ x.links = l /\ x.settings = db.settings
    BY DbShape DEF IsTables
  <2> HIDE DEF x
  <2> QED
    BY <1>5, <2>1, <2>2, <2>3
<1> QED
  BY <1>6, <1>7 DEF RefuseLink

LEMMA MigrationStepInv == IInv /\ [MigrationNext]_migrationVars => IInv'
<1> SUFFICES ASSUME IInv, [MigrationNext]_migrationVars PROVE IInv'
  OBVIOUS
<1>1. CASE Start \/ MoveRows \/ MoveMarks \/ MoveState \/ MoveNamed \/ Commit \/ Stop \/ Pass
  BY <1>1, StartInv, MoveRowsInv, MoveMarksInv, MoveStateInv, MoveNamedInv, CommitInv, StopInv,
     PassInv
<1>2. CASE \E m \in People : SaveSchedule(m) \/ DeleteSchedule(m) \/ Rename(m)
  BY <1>2, SaveScheduleInv, DeleteScheduleInv, RenameInv
<1>3. CASE (\E md \in DOMAIN db.marks : Unmark(md)) \/ SaveSettings \/ SavePanel
  BY <1>3, UnmarkInv, SaveSettingsInv, SavePanelInv
<1>4. CASE \E t \in Tokens : RefuseLink(t) \/ \E m \in People : CreateLink(t, m)
  BY <1>4, RefuseLinkInv, CreateLinkInv
<1>5. CASE UNCHANGED migrationVars
  <2>1. TypeInv' /\ DoneInv'
    BY <1>5 DEF migrationVars, IInv, TypeInv, DoneInv, Settled, Same, OldLinks, Holders
  <2>2. LinkInv'
    BY <1>5 DEF migrationVars, IInv, LinkInv, LinksOK, OldLinks
  <2> QED
    BY <2>1, <2>2 DEF IInv
<1> QED
  BY <1>1, <1>2, <1>3, <1>4, <1>5 DEF MigrationNext

--------------------------------------------------------------------------------
(* THEOREM.  For any v6 database, any failures and restarts: a link that   *)
(* was refused as expired is never valid again.  (ResolveScheduleEditLink, *)
(* migrateEditLinks.)                                                      *)
THEOREM ExpiredStay == MigrationSpec => []ExpiredStaysExpired
<1>1. IInv => ExpiredStaysExpired
  BY DEF IInv, TypeInv, LinkInv, LinksOK, ExpiredStaysExpired, Valid
<1> QED
  BY MigrationInitInv, MigrationStepInv, <1>1, PTL DEF MigrationSpec

(* THEOREM.  For any v6 database: a start after the first changes nothing  *)
(* but that links refused as expired may reappear.  (migrateNamedState.)   *)
THEOREM RestartsChangeNothing == MigrationSpec => RestartChangesNothing
<1> DEFINE Unchanged ==
      stage = "commit" /\ stage' = "up" /\ db.done =>
        /\ [db' EXCEPT !.links = db.links] = db
        /\ \A t \in DOMAIN db.links : t \in DOMAIN db'.links /\ db'.links[t] = db.links[t]
        /\ DOMAIN db'.links \ DOMAIN db.links \subseteq expired
<1>1. IInv /\ [MigrationNext]_migrationVars => Unchanged
  <2> SUFFICES ASSUME IInv, [MigrationNext]_migrationVars,
                      stage = "commit", stage' = "up", db.done
               PROVE  Unchanged
    OBVIOUS
  <2>1. Commit
    BY DEF MigrationNext, migrationVars, Start, Begin, MoveRows, MoveMarks, MoveState, MoveNamed,
           Step, Readable, Stop, SaveSchedule, DeleteSchedule, Rename, Unmark, SaveSettings,
           SavePanel, RefuseLink, CreateLink, Pass, Write
  <2>2. db' = work /\ IsTables(work) /\ IsTables(db) /\ Same(work, db)
    BY <2>1 DEF Commit, IInv, TypeInv, DoneInv
  <2>3. [work EXCEPT !.links = db.links] = db
    BY <2>2 DEF IsTables, Same
  <2> QED
    BY <2>2, <2>3 DEF IInv, DoneInv
<1> QED
  BY MigrationInitInv, MigrationStepInv, <1>1, PTL DEF MigrationSpec, RestartChangesNothing

--------------------------------------------------------------------------------
(* The first start.  Until it is committed the transaction's tables are    *)
(* these functions of the v6 database.                                     *)
Schedules ==
  [m \in DOMAIN v6.rows |-> [rev |-> IF v6.rows[m].rev < 1 THEN 1 ELSE v6.rows[m].rev,
                             events |-> Moved(v6.rows[m].events)]]
OfRows ==
  [m \in DOMAIN v6.rows |-> [name |-> Named(v6.rows[m].name, m), union |-> v6.rows[m].union,
                             roster |-> FALSE]]
AndMarked == Upsert(OfRows, Unnamed(MarkedBy(v6.marks) \ {Everybody}))
AndSeen ==
  Upsert(AndMarked, [m \in DOMAIN v6.seen |-> [name |-> v6.seen[m], union |-> None]])
AndIdentified ==
  Upsert(AndSeen, [m \in DOMAIN v6.identity |-> [name |-> None, union |-> v6.identity[m]]])
AndListed == Upsert(AndIdentified, v6.roster)
AndHolders == Upsert(Listed(AndListed), Unnamed(Holders))
Links == [t \in OldLinks |-> OldLink(t)]

Holds(x, p, s, k, l) == x.profiles = p /\ x.schedules = s /\ x.marks = k /\ x.links = l
FirstInv ==
  ~db.done =>
    /\ Holds(db, Empty, Empty, Empty, Empty)
    /\ stage # "down" /\ v6.versioned => work.backup
    /\ stage = "rows" => Holds(work, Empty, Empty, Empty, Empty)
    /\ stage = "marks" => Holds(work, OfRows, Schedules, Empty, Empty)
    /\ stage = "state" => Holds(work, AndMarked, Schedules, v6.marks, Empty)
    /\ stage = "named" => Holds(work, Listed(AndListed), Schedules, v6.marks, Empty)
    /\ stage = "commit" => Holds(work, AndHolders, Schedules, v6.marks, Links)

LEMMA KeepAll == ASSUME NEW f, f = [x \in DOMAIN f |-> f[x]] PROVE Keep(Empty, f) = f
<1>1. DOMAIN Empty = {}
  BY DEF Empty
<1>2. Keep(Empty, f) = [x \in DOMAIN f |-> f[x]]
  BY <1>1 DEF Keep
<1> QED
  BY <1>2

LEMMA SameDatabase ==
  ASSUME UNCHANGED v6
  PROVE  /\ UNCHANGED <<OfRows, Schedules, AndMarked, AndHolders, Links>>
         /\ UNCHANGED Listed(AndListed)
  BY DEF OfRows, Schedules, AndMarked, AndSeen, AndIdentified, AndListed, AndHolders, Links,
         Listed, Holders, OldLinks, OldLink

LEMMA FirstInit == MigrationInit => FirstInv
  BY DEF MigrationInit, FirstInv, NewTables, Holds

LEMMA FirstStart == ASSUME IInv, FirstInv, Start PROVE FirstInv'
<1>1. db' = [db EXCEPT !.backup = @ \/ (v6.versioned /\ ~db.done)] /\ work' = db' /\ IsTables(db)
  BY DEF Start, IInv, TypeInv
<1>2. /\ db'.links = db.links /\ db'.done = db.done /\ db'.profiles = db.profiles
      /\ db'.schedules = db.schedules /\ db'.marks = db.marks
      /\ db'.backup = (db.backup \/ (v6.versioned /\ ~db.done))
  BY <1>1 DEF IsTables
<1>3. stage' = (IF db.done THEN "named" ELSE "rows") /\ v6' = v6
  BY DEF Start, Begin
<1> QED
  BY <1>1, <1>2, <1>3 DEF FirstInv, Holds

LEMMA FirstRows == ASSUME IInv, FirstInv, MoveRows PROVE FirstInv'
<1> DEFINE q == Keep(work.profiles, OfRows)
           c == Keep(work.schedules, Schedules)
<1>1. /\ work' = [work EXCEPT !.profiles = q, !.schedules = c]
      /\ stage = "rows" /\ stage' = "marks" /\ v6' = v6 /\ db' = db
  BY DEF MoveRows, Step, Readable, OfRows, Schedules
<1>2. ~db.done => q = OfRows /\ c = Schedules
  <2>1. OfRows = [x \in DOMAIN OfRows |-> OfRows[x]]
    BY DEF OfRows
  <2>2. Schedules = [x \in DOMAIN Schedules |-> Schedules[x]]
    BY DEF Schedules
  <2> QED
    BY <1>1, <2>1, <2>2, KeepAll DEF FirstInv, Holds
<1> HIDE DEF q, c
<1>3. /\ work'.profiles = q /\ work'.schedules = c /\ work'.marks = work.marks
      /\ work'.links = work.links /\ work'.backup = work.backup
  BY <1>1 DEF IInv, TypeInv, IsTables
<1> QED
  BY <1>1, <1>2, <1>3, SameDatabase DEF FirstInv, Holds

LEMMA FirstMarks == ASSUME IInv, FirstInv, MoveMarks PROVE FirstInv'
<1> DEFINE q == Upsert(work.profiles, Unnamed(MarkedBy(v6.marks) \ {Everybody}))
           k == Keep(work.marks, v6.marks)
<1>1. /\ work' = [work EXCEPT !.profiles = q, !.marks = k]
      /\ stage = "marks" /\ stage' = "state" /\ v6' = v6 /\ db' = db
  BY DEF MoveMarks, Step, Readable
<1>2. ~db.done => q = AndMarked /\ k = v6.marks
  <2>1. v6.marks = [x \in DOMAIN v6.marks |-> v6.marks[x]]
    BY DatabasesAssumption DEF IInv, TypeInv
  <2> QED
    BY <1>1, <2>1, KeepAll DEF FirstInv, Holds, AndMarked
<1> HIDE DEF q, k
<1>3. /\ work'.profiles = q /\ work'.schedules = work.schedules /\ work'.marks = k
      /\ work'.links = work.links /\ work'.backup = work.backup
  BY <1>1 DEF IInv, TypeInv, IsTables
<1> QED
  BY <1>1, <1>2, <1>3, SameDatabase DEF FirstInv, Holds

LEMMA FirstState == ASSUME IInv, FirstInv, MoveState PROVE FirstInv'
<1> DEFINE a == Upsert(work.profiles, [m \in DOMAIN v6.seen |-> [name |-> v6.seen[m], union |-> None]])
           b == Upsert(a, [m \in DOMAIN v6.identity |-> [name |-> None, union |-> v6.identity[m]]])
           q == Listed(Upsert(b, v6.roster))
<1>1. /\ work' = [work EXCEPT !.profiles = q, !.done = TRUE]
      /\ stage = "state" /\ stage' = "named" /\ v6' = v6 /\ db' = db
  BY DEF MoveState, Step, Readable
<1>2. ~db.done => q = Listed(AndListed)
  BY <1>1 DEF FirstInv, Holds, AndListed, AndIdentified, AndSeen
<1> HIDE DEF q
<1>3. /\ work'.profiles = q /\ work'.schedules = work.schedules /\ work'.marks = work.marks
      /\ work'.links = work.links /\ work'.backup = work.backup
  BY <1>1 DEF IInv, TypeInv, IsTables
<1> QED
  BY <1>1, <1>2, <1>3, SameDatabase DEF FirstInv, Holds

LEMMA FirstNamed == ASSUME IInv, FirstInv, MoveNamed PROVE FirstInv'
<1> DEFINE n == IF work.settings = None THEN v6.settings ELSE work.settings
           l == Keep(work.links, Links)
           q == Upsert(work.profiles, Unnamed(Holders))
           v == IF work.panel = 0 /\ v6.panel.known
                THEN (IF v6.panel.version < 1 THEN 1 ELSE v6.panel.version) ELSE work.panel
<1>1. /\ work' = [work EXCEPT !.settings = n, !.links = l, !.profiles = q, !.panel = v]
      /\ stage = "named" /\ stage' = "commit" /\ v6' = v6 /\ db' = db
  BY DEF MoveNamed, Step, Readable, Links
<1>2. ~db.done => q = AndHolders /\ l = Links
  <2>1. Links = [x \in DOMAIN Links |-> Links[x]]
    BY DEF Links
  <2> QED
    BY <1>1, <2>1, KeepAll DEF FirstInv, Holds, AndHolders
<1> HIDE DEF n, l, q, v
<1>3. /\ work'.profiles = q /\ work'.schedules = work.schedules /\ work'.marks = work.marks
      /\ work'.links = l /\ work'.backup = work.backup
  BY <1>1 DEF IInv, TypeInv, IsTables
<1> QED
  BY <1>1, <1>2, <1>3, SameDatabase DEF FirstInv, Holds

LEMMA FirstStep == IInv /\ IInv' /\ FirstInv /\ [MigrationNext]_migrationVars => FirstInv'
<1> SUFFICES ASSUME IInv, IInv', FirstInv, [MigrationNext]_migrationVars PROVE FirstInv'
  OBVIOUS
<1>1. CASE Start \/ MoveRows \/ MoveMarks \/ MoveState \/ MoveNamed
  BY <1>1, FirstStart, FirstRows, FirstMarks, FirstState, FirstNamed
<1>2. CASE stage' = "up"
  BY <1>2 DEF IInv, DoneInv, FirstInv
<1>3. CASE Stop \/ Pass \/ UNCHANGED migrationVars
  BY <1>3, SameDatabase DEF FirstInv, Holds, Stop, Pass, migrationVars
<1>4. \A x : Write(x) => stage' = "up"
  BY DEF Write
<1>5. CASE \E m \in People : SaveSchedule(m) \/ DeleteSchedule(m) \/ Rename(m)
  BY <1>2, <1>4, <1>5 DEF SaveSchedule, DeleteSchedule, Rename
<1>6. CASE (\E md \in DOMAIN db.marks : Unmark(md)) \/ SaveSettings \/ SavePanel
  BY <1>2, <1>4, <1>6 DEF Unmark, SaveSettings, SavePanel
<1>7. CASE \E t \in Tokens : RefuseLink(t) \/ \E m \in People : CreateLink(t, m)
  BY <1>2, <1>4, <1>7 DEF RefuseLink, CreateLink
<1>8. CASE Commit
  BY <1>2, <1>8 DEF Commit
<1> QED
  BY <1>1, <1>3, <1>5, <1>6, <1>7, <1>8 DEF MigrationNext

(* What the profiles say, table by table.                                  *)
RowName(m) == IF m \in DOMAIN v6.rows THEN Named(v6.rows[m].name, m) ELSE m
SeenName(m) ==
  IF m \in DOMAIN v6.seen /\ v6.seen[m] # None THEN v6.seen[m] ELSE RowName(m)
LastName(m) ==
  IF m \in DOMAIN v6.roster /\ v6.roster[m].name # None THEN v6.roster[m].name ELSE SeenName(m)
RowUnion(m) == IF m \in DOMAIN v6.rows THEN v6.rows[m].union ELSE None
KnownUnion(m) ==
  IF m \in DOMAIN v6.identity /\ v6.identity[m] # None THEN v6.identity[m] ELSE RowUnion(m)
LastUnion(m) ==
  IF m \in DOMAIN v6.roster /\ v6.roster[m].union # None THEN v6.roster[m].union ELSE KnownUnion(m)

LEMMA OfRowsSays ==
  /\ IsProfiles(OfRows) /\ DOMAIN OfRows = DOMAIN v6.rows
  /\ \A m \in DOMAIN OfRows :
       OfRows[m].name = RowName(m) /\ OfRows[m].union = RowUnion(m) /\ OfRows[m].roster = FALSE
  BY DEF OfRows, IsProfiles, RowName, RowUnion

LEMMA AndMarkedSays ==
  /\ IsProfiles(AndMarked)
  /\ DOMAIN AndMarked = DOMAIN v6.rows \cup (MarkedBy(v6.marks) \ {Everybody})
  /\ \A m \in DOMAIN AndMarked :
       AndMarked[m].name = RowName(m) /\ AndMarked[m].union = RowUnion(m) /\ AndMarked[m].roster = FALSE
<1> DEFINE s == Unnamed(MarkedBy(v6.marks) \ {Everybody})
<1>1. /\ DOMAIN s = MarkedBy(v6.marks) \ {Everybody}
      /\ \A m \in DOMAIN s : s[m].name = None /\ s[m].union = None
  BY DEF Unnamed
<1> HIDE DEF s
<1>2. /\ IsProfiles(Upsert(OfRows, s)) /\ DOMAIN Upsert(OfRows, s) = DOMAIN OfRows \cup DOMAIN s
      /\ \A m \in DOMAIN OfRows \cup DOMAIN s : Upsert(OfRows, s)[m] = Profile(OfRows, s, m)
  BY OfRowsSays, UpsertShape
<1>3. ASSUME NEW m \in DOMAIN OfRows \cup DOMAIN s
      PROVE  NameOf(OfRows, s, m) = RowName(m) /\ UnionOf(OfRows, s, m) = RowUnion(m)
             /\ RosterOf(OfRows, m) = FALSE
  BY <1>1, OfRowsSays DEF NameOf, UnionOf, RosterOf, RowName, RowUnion
<1>4. AndMarked = Upsert(OfRows, s)
  BY DEF AndMarked, s
<1>5. DOMAIN AndMarked = DOMAIN v6.rows \cup (MarkedBy(v6.marks) \ {Everybody})
  BY <1>1, <1>2, <1>4, OfRowsSays
<1>6. ASSUME NEW m \in DOMAIN AndMarked
      PROVE  AndMarked[m] = [name |-> RowName(m), union |-> RowUnion(m), roster |-> FALSE]
  <2>1. m \in DOMAIN OfRows \cup DOMAIN s
    BY <1>2, <1>4
  <2>2. AndMarked[m] = Profile(OfRows, s, m)
    BY <1>2, <1>4, <2>1
  <2> QED
    BY <1>3, <2>1, <2>2 DEF Profile
<1> QED
  BY <1>2, <1>4, <1>5, <1>6

LEMMA AndSeenSays ==
  /\ IsProfiles(AndSeen)
  /\ DOMAIN AndSeen = DOMAIN AndMarked \cup DOMAIN v6.seen
  /\ \A m \in DOMAIN AndSeen :
       AndSeen[m].name = SeenName(m) /\ AndSeen[m].union = RowUnion(m) /\ AndSeen[m].roster = FALSE
<1> DEFINE s == [m \in DOMAIN v6.seen |-> [name |-> v6.seen[m], union |-> None]]
<1>1. DOMAIN s = DOMAIN v6.seen /\ \A m \in DOMAIN s : s[m].name = v6.seen[m] /\ s[m].union = None
  OBVIOUS
<1> HIDE DEF s
<1>2. /\ IsProfiles(Upsert(AndMarked, s)) /\ DOMAIN Upsert(AndMarked, s) = DOMAIN AndMarked \cup DOMAIN s
      /\ \A m \in DOMAIN AndMarked \cup DOMAIN s : Upsert(AndMarked, s)[m] = Profile(AndMarked, s, m)
  BY AndMarkedSays, UpsertShape
<1>3. ASSUME NEW m \in DOMAIN AndMarked \cup DOMAIN s
      PROVE  NameOf(AndMarked, s, m) = SeenName(m) /\ UnionOf(AndMarked, s, m) = RowUnion(m)
             /\ RosterOf(AndMarked, m) = FALSE
  <2>1. DOMAIN v6.rows \subseteq DOMAIN AndMarked
    BY AndMarkedSays
  <2>2. m \notin DOMAIN AndMarked => RowName(m) = m /\ RowUnion(m) = None
    BY <2>1, AndMarkedSays DEF RowName, RowUnion
  <2> QED
    BY <1>1, <1>3, <2>2, AndMarkedSays DEF NameOf, UnionOf, RosterOf, SeenName, RowUnion
<1>4. AndSeen = Upsert(AndMarked, s)
  BY DEF AndSeen, s
<1>5. ASSUME NEW m \in DOMAIN AndSeen
      PROVE  AndSeen[m] = [name |-> SeenName(m), union |-> RowUnion(m), roster |-> FALSE]
  <2>1. m \in DOMAIN AndMarked \cup DOMAIN s
    BY <1>2, <1>4
  <2>2. AndSeen[m] = Profile(AndMarked, s, m)
    BY <1>2, <1>4, <2>1
  <2> QED
    BY <1>3, <2>1, <2>2 DEF Profile
<1> QED
  BY <1>1, <1>2, <1>4, <1>5

LEMMA AndIdentifiedSays ==
  /\ IsProfiles(AndIdentified)
  /\ DOMAIN AndIdentified = DOMAIN AndSeen \cup DOMAIN v6.identity
  /\ \A m \in DOMAIN AndIdentified :
       AndIdentified[m].name = SeenName(m) /\ AndIdentified[m].union = KnownUnion(m) /\ AndIdentified[m].roster = FALSE
<1> DEFINE s == [m \in DOMAIN v6.identity |-> [name |-> None, union |-> v6.identity[m]]]
<1>1. DOMAIN s = DOMAIN v6.identity
      /\ \A m \in DOMAIN s : s[m].name = None /\ s[m].union = v6.identity[m]
  OBVIOUS
<1> HIDE DEF s
<1>2. /\ IsProfiles(Upsert(AndSeen, s)) /\ DOMAIN Upsert(AndSeen, s) = DOMAIN AndSeen \cup DOMAIN s
      /\ \A m \in DOMAIN AndSeen \cup DOMAIN s : Upsert(AndSeen, s)[m] = Profile(AndSeen, s, m)
  BY AndSeenSays, UpsertShape
<1>3. ASSUME NEW m \in DOMAIN AndSeen \cup DOMAIN s
      PROVE  NameOf(AndSeen, s, m) = SeenName(m) /\ UnionOf(AndSeen, s, m) = KnownUnion(m)
             /\ RosterOf(AndSeen, m) = FALSE
  <2>1. DOMAIN v6.rows \subseteq DOMAIN AndSeen
    BY AndSeenSays, AndMarkedSays
  <2>2. m \notin DOMAIN AndSeen => SeenName(m) = m /\ RowUnion(m) = None
    BY <2>1, AndSeenSays, AndMarkedSays DEF SeenName, RowName, RowUnion
  <2> QED
    BY <1>1, <1>3, <2>2, AndSeenSays DEF NameOf, UnionOf, RosterOf, SeenName, KnownUnion
<1>4. AndIdentified = Upsert(AndSeen, s)
  BY DEF AndIdentified, s
<1>5. ASSUME NEW m \in DOMAIN AndIdentified
      PROVE  AndIdentified[m] = [name |-> SeenName(m), union |-> KnownUnion(m), roster |-> FALSE]
  <2>1. m \in DOMAIN AndSeen \cup DOMAIN s
    BY <1>2, <1>4
  <2>2. AndIdentified[m] = Profile(AndSeen, s, m)
    BY <1>2, <1>4, <2>1
  <2> QED
    BY <1>3, <2>1, <2>2 DEF Profile
<1> QED
  BY <1>1, <1>2, <1>4, <1>5

LEMMA AndListedSays ==
  /\ IsProfiles(AndListed)
  /\ DOMAIN AndListed = DOMAIN AndIdentified \cup DOMAIN v6.roster
  /\ \A m \in DOMAIN AndListed :
       AndListed[m].name = LastName(m) /\ AndListed[m].union = LastUnion(m) /\ AndListed[m].roster = FALSE
<1> DEFINE s == v6.roster
<1>1. DOMAIN s = DOMAIN v6.roster /\ \A m \in DOMAIN s : s[m] = v6.roster[m]
  OBVIOUS
<1> HIDE DEF s
<1>2. /\ IsProfiles(Upsert(AndIdentified, s)) /\ DOMAIN Upsert(AndIdentified, s) = DOMAIN AndIdentified \cup DOMAIN s
      /\ \A m \in DOMAIN AndIdentified \cup DOMAIN s : Upsert(AndIdentified, s)[m] = Profile(AndIdentified, s, m)
  BY AndIdentifiedSays, UpsertShape
<1>3. ASSUME NEW m \in DOMAIN AndIdentified \cup DOMAIN s
      PROVE  NameOf(AndIdentified, s, m) = LastName(m) /\ UnionOf(AndIdentified, s, m) = LastUnion(m)
             /\ RosterOf(AndIdentified, m) = FALSE
  <2>1. DOMAIN v6.rows \subseteq DOMAIN AndIdentified
    BY AndIdentifiedSays, AndSeenSays, AndMarkedSays
  <2>2. m \notin DOMAIN AndIdentified => SeenName(m) = m /\ KnownUnion(m) = None
    BY <2>1, AndIdentifiedSays, AndSeenSays, AndMarkedSays DEF SeenName, KnownUnion, RowName, RowUnion
  <2> QED
    BY <1>1, <1>3, <2>2, AndIdentifiedSays DEF NameOf, UnionOf, RosterOf, LastName, LastUnion
<1>4. AndListed = Upsert(AndIdentified, s)
  BY DEF AndListed, s
<1>5. ASSUME NEW m \in DOMAIN AndListed
      PROVE  AndListed[m] = [name |-> LastName(m), union |-> LastUnion(m), roster |-> FALSE]
  <2>1. m \in DOMAIN AndIdentified \cup DOMAIN s
    BY <1>2, <1>4
  <2>2. AndListed[m] = Profile(AndIdentified, s, m)
    BY <1>2, <1>4, <2>1
  <2> QED
    BY <1>3, <2>1, <2>2 DEF Profile
<1> QED
  BY <1>1, <1>2, <1>4, <1>5

LEMMA ListedSays ==
  /\ IsProfiles(Listed(AndListed)) /\ DOMAIN Listed(AndListed) = DOMAIN AndListed
  /\ \A m \in DOMAIN AndListed :
       /\ Listed(AndListed)[m].name = LastName(m) /\ Listed(AndListed)[m].union = LastUnion(m)
       /\ Listed(AndListed)[m].roster <=> m \in DOMAIN v6.roster
<1>1. DOMAIN Listed(AndListed) = DOMAIN AndListed /\ IsProfiles(Listed(AndListed))
  BY AndListedSays, ListedShape DEF Listed
<1>2. ASSUME NEW m \in DOMAIN AndListed
      PROVE  /\ Listed(AndListed)[m].name = AndListed[m].name
             /\ Listed(AndListed)[m].union = AndListed[m].union
             /\ Listed(AndListed)[m].roster = (FALSE \/ m \in DOMAIN v6.roster)
  <2>1. AndListed[m] = [name |-> AndListed[m].name, union |-> AndListed[m].union, roster |-> FALSE]
    BY AndListedSays DEF IsProfiles
  <2>2. Listed(AndListed)[m] = [AndListed[m] EXCEPT !.roster = @ \/ m \in DOMAIN v6.roster]
    BY DEF Listed
  <2> QED
    BY <2>1, <2>2
<1>3. \A m \in DOMAIN AndListed : Listed(AndListed)[m].roster <=> m \in DOMAIN v6.roster
  BY <1>2
<1> QED
  BY <1>1, <1>2, <1>3, AndListedSays

LEMMA AndHoldersSays ==
  /\ DOMAIN AndHolders = Mentioned
  /\ \A m \in Mentioned :
       /\ AndHolders[m].name = LastName(m) /\ AndHolders[m].union = LastUnion(m)
       /\ AndHolders[m].roster <=> m \in DOMAIN v6.roster
<1> DEFINE p == Listed(AndListed)
           s == Unnamed(Holders)
<1>1. DOMAIN s = Holders /\ \A m \in DOMAIN s : s[m].name = None /\ s[m].union = None
  BY DEF Unnamed
<1>2. IsProfiles(p) /\ DOMAIN p = DOMAIN AndListed
  BY ListedSays
<1> HIDE DEF s
<1>3. /\ DOMAIN Upsert(p, s) = DOMAIN p \cup DOMAIN s
      /\ \A m \in DOMAIN p \cup DOMAIN s : Upsert(p, s)[m] = Profile(p, s, m)
  BY <1>2, UpsertShape
<1>4. DOMAIN p \cup DOMAIN s = Mentioned
  BY <1>1, <1>2, AndListedSays, AndIdentifiedSays, AndSeenSays, AndMarkedSays DEF Mentioned
<1>5. AndHolders = Upsert(p, s)
  BY DEF AndHolders, s
<1>6. ASSUME NEW m \in Mentioned
      PROVE  /\ AndHolders[m].name = LastName(m) /\ AndHolders[m].union = LastUnion(m)
             /\ AndHolders[m].roster <=> m \in DOMAIN v6.roster
  <2>1. AndHolders[m] = Profile(p, s, m) /\ m \in DOMAIN p \cup DOMAIN s
    BY <1>3, <1>4, <1>5
  <2>2. AndHolders[m].name = NameOf(p, s, m) /\ AndHolders[m].union = UnionOf(p, s, m)
        /\ AndHolders[m].roster = RosterOf(p, m)
    BY <2>1 DEF Profile
  <2>3. CASE m \in DOMAIN p
    <3>1. NameOf(p, s, m) = p[m].name /\ UnionOf(p, s, m) = p[m].union /\ RosterOf(p, m) = p[m].roster
      BY <1>1, <2>3 DEF NameOf, UnionOf, RosterOf
    <3> QED
      BY <1>2, <2>2, <2>3, <3>1, ListedSays
  <2>4. CASE m \notin DOMAIN p
    <3>1. m \in DOMAIN s /\ m \notin DOMAIN AndListed
      BY <1>2, <2>1, <2>4
    <3>2. /\ m \notin DOMAIN v6.rows /\ m \notin DOMAIN v6.seen /\ m \notin DOMAIN v6.identity
          /\ m \notin DOMAIN v6.roster
      BY <3>1, AndListedSays, AndIdentifiedSays, AndSeenSays, AndMarkedSays
    <3>3. NameOf(p, s, m) = m /\ UnionOf(p, s, m) = None /\ RosterOf(p, m) = FALSE
      BY <1>1, <2>4, <3>1 DEF NameOf, UnionOf, RosterOf
    <3>4. LastName(m) = m /\ LastUnion(m) = None
      BY <3>2 DEF LastName, SeenName, RowName, LastUnion, KnownUnion, RowUnion
    <3> QED
      BY <2>2, <3>2, <3>3, <3>4
  <2> QED
    BY <2>3, <2>4
<1> QED
  BY <1>3, <1>4, <1>5, <1>6

LEMMA NamesChosen ==
  ASSUME NEW m
  PROVE  Chosen(LastName(m), NamesOf(m), m) /\ Chosen(LastUnion(m), UnionsOf(m), None)
<1>1. Chosen(LastName(m), NamesOf(m), m)
  BY DEF Chosen, NamesOf, Given, LastName, SeenName, RowName, Named
<1>2. Chosen(LastUnion(m), UnionsOf(m), None)
  BY DEF Chosen, UnionsOf, Given, LastUnion, KnownUnion, RowUnion
<1> QED
  BY <1>1, <1>2

LEMMA EventsMoved ==
  ASSUME v6 \in Databases, NEW m \in DOMAIN v6.rows
  PROVE  [i \in 1..Len(v6.rows[m].events) |-> Schedules[m].events[i - 1]] = v6.rows[m].events
<1> DEFINE e == v6.rows[m].events
<1>1. Len(e) \in Nat /\ e = [i \in 1..Len(e) |-> e[i]]
  BY DatabasesAssumption
<1>2. Schedules[m].events = Moved(e)
  BY DEF Schedules
<1> HIDE DEF e
<1>3. \A i \in 1..Len(e) : Moved(e)[i - 1] = e[i]
  BY <1>1 DEF Moved
<1>4. [i \in 1..Len(e) |-> Schedules[m].events[i - 1]] = [i \in 1..Len(e) |-> e[i]]
  BY <1>2, <1>3
<1>5. [i \in 1..Len(e) |-> Schedules[m].events[i - 1]] = e
  BY <1>1, <1>4
<1> QED
  BY <1>5 DEF e

(* THEOREM.  For any v6 database and any number of starts that fail at any *)
(* statement: the first that succeeds has moved all of it and nothing      *)
(* else, and left a backup.  (migrateLegacyGroupData, migrateNamedState.)  *)
THEOREM MovesWhole == MigrationSpec => MovedWhole
<1> DEFINE Whole ==
      ~db.done /\ db'.done =>
        /\ DOMAIN db'.schedules = DOMAIN v6.rows
        /\ \A m \in DOMAIN v6.rows :
             [i \in 1..Len(v6.rows[m].events) |-> db'.schedules[m].events[i - 1]] = v6.rows[m].events
        /\ db'.marks = v6.marks
        /\ db'.links = [t \in OldLinks |-> OldLink(t)]
        /\ DOMAIN db'.profiles = Mentioned
        /\ \A m \in Mentioned :
             /\ Chosen(db'.profiles[m].name, NamesOf(m), m)
             /\ Chosen(db'.profiles[m].union, UnionsOf(m), None)
             /\ db'.profiles[m].roster <=> m \in DOMAIN v6.roster
        /\ v6.versioned => db'.backup
<1>1. IInv /\ FirstInv /\ [MigrationNext]_migrationVars => Whole
  <2> SUFFICES ASSUME IInv, FirstInv, [MigrationNext]_migrationVars, ~db.done, db'.done PROVE Whole
    OBVIOUS
  <2>1. stage # "up" /\ IsTables(db)
    BY DEF IInv, TypeInv, DoneInv
  <2>2. ~Start
    <3> SUFFICES ASSUME Start PROVE FALSE
      OBVIOUS
    <3>1. db' = [db EXCEPT !.backup = @ \/ (v6.versioned /\ ~db.done)]
      BY DEF Start
    <3> QED
      BY <2>1, <3>1 DEF IsTables
  <2>3. Commit
    BY <2>1, <2>2
    DEF MigrationNext, migrationVars, MoveRows, MoveMarks, MoveState, MoveNamed,
        Step, Readable, Stop, SaveSchedule, DeleteSchedule, Rename, Unmark, SaveSettings,
        SavePanel, RefuseLink, CreateLink, Pass, Write
  <2>4. db' = work /\ stage = "commit" /\ v6 \in Databases
    BY <2>3 DEF Commit, IInv, TypeInv
  <2>5. /\ db'.profiles = AndHolders /\ db'.schedules = Schedules /\ db'.marks = v6.marks
        /\ db'.links = Links /\ (v6.versioned => db'.backup)
    BY <2>4 DEF FirstInv, Holds
  <2>6. DOMAIN Schedules = DOMAIN v6.rows
    BY DEF Schedules
  <2>7. \A m \in DOMAIN v6.rows :
          [i \in 1..Len(v6.rows[m].events) |-> db'.schedules[m].events[i - 1]] = v6.rows[m].events
    BY <2>4, <2>5, EventsMoved
  <2>8. db'.links = [t \in OldLinks |-> OldLink(t)]
    BY <2>5 DEF Links
  <2>9. \A m \in Mentioned : /\ Chosen(db'.profiles[m].name, NamesOf(m), m)
                             /\ Chosen(db'.profiles[m].union, UnionsOf(m), None)
                             /\ db'.profiles[m].roster <=> m \in DOMAIN v6.roster
    BY <2>5, AndHoldersSays, NamesChosen
  <2> QED
    BY <2>5, <2>6, <2>7, <2>8, <2>9, AndHoldersSays
<1> QED
  BY MigrationInitInv, MigrationStepInv, FirstInit, FirstStep, <1>1, PTL
  DEF MigrationSpec, MovedWhole
================================================================================
