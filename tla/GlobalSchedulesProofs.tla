------------------------- MODULE GlobalSchedulesProofs -------------------------
(***************************************************************************)
(* Theorems of GlobalSchedules for any number of callers, groups, members  *)
(* and v6 records: its variables keep their types, isolated mode isolates, *)
(* and in global mode a call finds the documented record, an import shows, *)
(* a deletion is complete and other people's records are safe.  IInv says  *)
(* where a call can be, and with which record, while the mode has been     *)
(* isolated since it began; QInv what a call that nobody has disturbed     *)
(* knows at each of its queries.                                           *)
(***************************************************************************)
EXTENDS GlobalSchedules, FiniteSetTheorems, TLAPS

--------------------------------------------------------------------------------
(* Type correctness.                                                       *)

(* The newest of some records is one of them.                              *)
LEMMA NewestIsOne ==
  ASSUME NEW S, S # {}
  PROVE  Newest(S) \in S
<1> DEFINE newest == {s \in S : \A t \in S : row[t].at <= row[s].at}
<1>1. \E s \in S : newest # {} => s \in newest
  BY SMT
<1> HIDE DEF newest
<1>2. (CHOOSE s \in S : newest # {} => s \in newest) \in S
  BY <1>1
<1> QED BY <1>2 DEF Newest, NewestIn, newest

LEMMA NoTaskIsTask == NoTask \in Tasks /\ NoRow \in Rows /\ NoPage.rev = 0
  BY DEF NoTask, NoRow, NoPage, Tasks, Rows, BotOps, WebOps

(* The variables of the calls' own progress, and of the pages.             *)
OwnType ==
  /\ pc \in [Clients -> PCs]
  /\ task \in [Clients -> Tasks]
  /\ answer \in [Clients -> {"pending", "ok", "conflict", "notfound", "error"}]
PageType ==
  page \in [Clients -> [seat : Seats \cup {NoSeat}, slot : Slots \cup {NoSeat}, rev : Nat]]

(* A call is about a seat and has a record to go for; who asks a profile   *)
(* for the union_openid of a record asks a v7 one.                         *)
Aimed(p, t) ==
  p # "idle" => /\ t.seat \in Seats /\ t.slot \in Slots
                /\ p = "identity" => t.slot \in Seats

(* The queries that a call of isolated mode makes, ...                     *)
HomePCs == {"mode", "current", "identity", "target", "put",
            "modeAgain", "profileAgain", "delete", "exists"}
(* ... always about the member's own record.                               *)
AtHome(t) == ~t.global /\ t.slot = t.seat
Home(p, t) == p # "idle" => p \in HomePCs /\ AtHome(t)
Isolated(c) == steady[c] /\ mode = "group"

Fit(c, p, t) == Aimed(p, t) /\ (Isolated(c) => Home(p, t))

OwnInv == OwnType /\ \A c \in Clients : Fit(c, pc[c], task[c])
IInv == TypeOK /\ OwnInv

--------------------------------------------------------------------------------
(* A step of c that comes to a fitting query with a fitting task.          *)
LEMMA Proceeds ==
  ASSUME IInv, NEW c \in Clients, NEW q \in PCs, NEW t \in Tasks, Proceed(c, q, t),
         UNCHANGED <<mode, steady>>, Fit(c, q, t)
  PROVE  OwnInv'
<1>1. OwnType'
  BY DEF IInv, OwnInv, OwnType, Proceed
<1>2. ASSUME NEW d \in Clients
      PROVE  Fit(d, pc[d], task[d])'
  <2>0. Isolated(d)' <=> Isolated(d)
    BY DEF Isolated
  <2>1. CASE d = c
    <3>1. pc'[d] = q /\ task'[d] = t
      BY <2>1 DEF IInv, OwnInv, OwnType, Proceed
    <3> QED BY <2>0, <2>1, <3>1 DEF Fit
  <2>2. CASE d # c
    <3>1. pc'[d] = pc[d] /\ task'[d] = task[d]
      BY <2>2 DEF IInv, OwnInv, OwnType, Proceed
    <3> QED BY <2>0, <3>1 DEF Fit, IInv, OwnInv
  <2> QED BY <2>1, <2>2
<1> QED BY <1>1, <1>2 DEF OwnInv

LEMMA Returns ==
  ASSUME IInv, NEW c \in Clients, NEW a \in {"ok", "conflict", "notfound", "error"},
         Return(c, a), UNCHANGED <<mode, steady>>
  PROVE  OwnInv'
<1>1. OwnType'
  BY NoTaskIsTask DEF IInv, OwnInv, OwnType, Return, PCs
<1>2. ASSUME NEW d \in Clients
      PROVE  Fit(d, pc[d], task[d])'
  <2>0. Isolated(d)' <=> Isolated(d)
    BY DEF Isolated
  <2>1. CASE d = c
    <3>1. pc'[d] = "idle"
      BY <2>1 DEF IInv, OwnInv, OwnType, Return
    <3> QED BY <3>1 DEF Fit, Aimed, Home
  <2>2. CASE d # c
    <3>1. pc'[d] = pc[d] /\ task'[d] = task[d]
      BY <2>2 DEF IInv, OwnInv, OwnType, Return
    <3> QED BY <2>0, <3>1 DEF Fit, IInv, OwnInv
  <2> QED BY <2>1, <2>2
<1> QED BY <1>1, <1>2 DEF OwnInv

(* What a call does with the record it has resolved; at home, if isolated. *)
LEMMA Resolves ==
  ASSUME IInv, NEW c \in Clients, NEW t \in Tasks, Resolved(c, t),
         UNCHANGED <<mode, steady>>,
         t.seat \in Seats, t.slot \in Slots, Isolated(c) => AtHome(t)
  PROVE  OwnInv' /\ PageType'
<1>0. PageType
  BY DEF IInv, TypeOK, PageType
<1>1. CASE /\ t.op = "load"
           /\ page' = IF t.got.rev = 0 THEN page
                      ELSE [page EXCEPT ![c] = [seat |-> t.seat, slot |-> t.slot, rev |-> t.got.rev]]
           /\ Return(c, IF t.got.rev = 0 THEN "notfound" ELSE "ok")
  <2>1. PageType'
    BY <1>0, <1>1 DEF PageType, Tasks, Rows
  <2>2. \E a \in {"ok", "notfound"} : Return(c, a)
    BY <1>1
  <2> QED BY <2>1, <2>2, Returns
<1>2. CASE Return(c, "error") /\ UNCHANGED page
  BY <1>0, <1>2, Returns DEF PageType
<1>3. CASE /\ t.slot \in Seats
           /\ Proceed(c, IF t.op = "import" /\ t.msg = NoUnion THEN "identity" ELSE "target",
                      [t EXCEPT !.iu = t.msg])
           /\ UNCHANGED page
  <2> DEFINE u == [t EXCEPT !.iu = t.msg]
             q == IF t.op = "import" /\ t.msg = NoUnion THEN "identity" ELSE "target"
  <2>1. u \in Tasks /\ u.seat = t.seat /\ u.slot = t.slot /\ u.global = t.global
    BY DEF Tasks
  <2>2. q \in PCs /\ q \in HomePCs
    BY DEF PCs, HomePCs
  <2>3. Proceed(c, q, u) /\ UNCHANGED page
    BY <1>3
  <2> HIDE DEF u, q
  <2>4. Fit(c, q, u)
    BY <1>3, <2>1, <2>2 DEF Fit, Aimed, Home, AtHome
  <2> QED BY <1>0, <2>1, <2>2, <2>3, <2>4, Proceeds DEF PageType
<1>4. ASSUME NEW q \in {"target", "modeAgain"}, Proceed(c, q, t), UNCHANGED page
      PROVE  OwnInv' /\ PageType'
  <2>1. q \in PCs /\ Fit(c, q, t)
    BY DEF PCs, Fit, Aimed, Home, HomePCs
  <2> QED BY <1>0, <1>4, <2>1, Proceeds DEF PageType
<1> QED BY <1>1, <1>2, <1>3, <1>4 DEF Resolved

(* A query of an isolated call is one of the few; a global one may be any. *)
LEMMA AtQuery ==
  ASSUME IInv, NEW c \in Clients, pc[c] # "idle"
  PROVE  /\ task[c] \in Tasks /\ pc[c] \in PCs
         /\ task[c].seat \in Seats /\ task[c].slot \in Slots
         /\ Isolated(c) => pc[c] \in HomePCs /\ AtHome(task[c])
         /\ pc[c] = "identity" => task[c].slot \in Seats
  BY DEF IInv, OwnInv, OwnType, Fit, Aimed, Home

(* A query changes nothing else.                                           *)
LEMMA Queries ==
  ASSUME IInv, NEW c, NEW q, Query(c, q), clock' \in Nat, OwnInv', PageType'
  PROVE  IInv'
  BY DEF IInv, TypeOK, OwnInv, OwnType, PageType, Query

LEMMA QueryProceeds ==
  ASSUME IInv, NEW c \in Clients, NEW q, Query(c, q), NEW r \in PCs, NEW t \in Tasks,
         Proceed(c, r, t), Fit(c, r, t), UNCHANGED page, clock' \in Nat
  PROVE  IInv'
<1>1. OwnInv'
  BY Proceeds DEF Query
<1>2. PageType'
  BY DEF PageType, IInv, TypeOK
<1> QED BY <1>1, <1>2, Queries

LEMMA QueryReturns ==
  ASSUME IInv, NEW c \in Clients, NEW q, Query(c, q),
         NEW a \in {"ok", "conflict", "notfound", "error"},
         Return(c, a), UNCHANGED page, clock' \in Nat
  PROVE  IInv'
<1>1. OwnInv'
  BY Returns DEF Query
<1>2. PageType'
  BY DEF PageType, IInv, TypeOK
<1> QED BY <1>1, <1>2, Queries

LEMMA QueryResolves ==
  ASSUME IInv, NEW c \in Clients, NEW q, Query(c, q), NEW t \in Tasks,
         Resolved(c, t), t.seat \in Seats, t.slot \in Slots, Isolated(c) => AtHome(t),
         clock' \in Nat
  PROVE  IInv'
<1>1. OwnInv' /\ PageType'
  BY Resolves DEF Query
<1> QED BY <1>1, Queries

LEMMA TheClock == IInv /\ UNCHANGED clock => clock' \in Nat
  BY DEF IInv, TypeOK

LEMMA ARow == ASSUME IInv, NEW s \in Slots PROVE row[s] \in Rows
  BY DEF IInv, TypeOK

LEMMA AnIdentity == ASSUME IInv, NEW s \in Seats PROVE known[s] \in Unions \cup {NoUnion}
  BY DEF IInv, TypeOK

--------------------------------------------------------------------------------
(* One lemma per query: it keeps the invariant.                            *)
LEMMA ReadModeKeeps ==
  ASSUME IInv, NEW c \in Clients, ReadMode(c)
  PROVE  IInv'
<1> DEFINE t == [task[c] EXCEPT !.global = (mode = "global")]
<1>0. pc[c] # "idle" /\ clock' \in Nat
  BY TheClock DEF ReadMode, Query
<1>1. /\ t \in Tasks /\ t.seat \in Seats /\ t.slot \in Slots
      /\ t.global <=> (mode = "global")
      /\ t.seat = task[c].seat /\ t.slot = task[c].slot
  BY <1>0, AtQuery DEF Tasks
<1>2. Query(c, "mode") /\ IF t.global \/ t.op = "load" THEN Proceed(c, "current", t) /\ UNCHANGED page
                          ELSE Resolved(c, t)
  BY DEF ReadMode
<1> HIDE DEF t
<1>3. Isolated(c) => AtHome(t)
  BY <1>0, <1>1, AtQuery DEF Isolated, AtHome
<1>4. CASE Proceed(c, "current", t) /\ UNCHANGED page
  <2>1. "current" \in PCs /\ Fit(c, "current", t)
    BY <1>1, <1>3 DEF PCs, Fit, Aimed, Home, HomePCs
  <2> QED BY <1>0, <1>1, <1>2, <1>4, <2>1, QueryProceeds
<1>5. CASE Resolved(c, t)
  BY <1>0, <1>1, <1>2, <1>3, <1>5, QueryResolves
<1> QED BY <1>2, <1>4, <1>5

LEMMA ReadCurrentKeeps ==
  ASSUME IInv, NEW c \in Clients, ReadCurrent(c)
  PROVE  IInv'
<1> DEFINE t == [task[c] EXCEPT !.got = row[task[c].seat]]
           r == IF t.union = NoUnion THEN "profile" ELSE "byUnion"
<1>0. pc[c] # "idle" /\ clock' \in Nat
  BY TheClock DEF ReadCurrent, Query
<1>1. row[task[c].seat] \in Rows
  BY <1>0, AtQuery, ARow DEF Slots
<1>2. /\ t \in Tasks /\ t.seat = task[c].seat /\ t.slot = task[c].slot
      /\ t.global = task[c].global
  BY <1>0, <1>1, AtQuery DEF Tasks
<1>3. Query(c, "current") /\ IF t.got.full \/ ~t.global THEN Resolved(c, t)
                             ELSE Proceed(c, r, t) /\ UNCHANGED page
  BY DEF ReadCurrent
<1>4. r \in PCs
  BY DEF PCs
<1> HIDE DEF t, r
<1>5. t.seat \in Seats /\ t.slot \in Slots /\ (Isolated(c) => AtHome(t))
  BY <1>0, <1>2, AtQuery DEF AtHome
<1>6. CASE Resolved(c, t)
  BY <1>0, <1>2, <1>3, <1>5, <1>6, QueryResolves
<1>7. CASE t.global /\ Proceed(c, r, t) /\ UNCHANGED page
  <2>1. r # "identity"
    BY DEF r
  <2>2. Fit(c, r, t)
    BY <1>5, <1>7, <2>1 DEF Fit, Aimed, AtHome
  <2> QED BY <1>0, <1>2, <1>3, <1>4, <1>7, <2>2, QueryProceeds
<1> QED BY <1>3, <1>6, <1>7

LEMMA ReadProfileKeeps ==
  ASSUME IInv, NEW c \in Clients, ReadProfile(c)
  PROVE  IInv'
<1> DEFINE t == [task[c] EXCEPT !.union = known[task[c].seat]]
           r == IF known[task[c].seat] = NoUnion THEN "byOpenid" ELSE "byUnion"
<1>0. pc[c] = "profile" /\ clock' \in Nat
  BY TheClock DEF ReadProfile, Query
<1>1. known[task[c].seat] \in Unions \cup {NoUnion}
  BY <1>0, AtQuery, AnIdentity
<1>2. t \in Tasks /\ t.seat = task[c].seat /\ t.slot = task[c].slot /\ r \in PCs /\ r # "identity"
  BY <1>0, <1>1, AtQuery DEF Tasks, PCs
<1>3. Query(c, "profile") /\ Proceed(c, r, t) /\ UNCHANGED page
  BY DEF ReadProfile
<1> HIDE DEF t, r
<1>4. Fit(c, r, t)
  BY <1>0, <1>2, AtQuery DEF Fit, Aimed, HomePCs
<1> QED BY <1>0, <1>2, <1>3, <1>4, QueryProceeds

(* A search of the v7 records, which no isolated call makes.               *)
LEMMA SearchKeeps ==
  ASSUME IInv, NEW c \in Clients, NEW q, q \notin HomePCs, q # "idle",
         NEW found \in SUBSET Seats, NEW next \in PCs, next # "identity",
         Search(c, q, found, next)
  PROVE  IInv'
<1> DEFINE r == IF found = {} THEN next ELSE "found"
           t == IF found = {} THEN task[c] ELSE [task[c] EXCEPT !.slot = Newest(found)]
<1>0. pc[c] = q /\ clock' \in Nat
  BY TheClock DEF Search, Query
<1>1. found # {} => Newest(found) \in Slots
  BY NewestIsOne DEF Slots
<1>2. t \in Tasks /\ t.seat = task[c].seat /\ t.slot \in Slots /\ r \in PCs /\ r # "identity"
  BY <1>0, <1>1, AtQuery DEF Tasks, PCs
<1>3. Query(c, q) /\ Proceed(c, r, t) /\ UNCHANGED page
  BY DEF Search
<1> HIDE DEF t, r
<1>4. Fit(c, r, t)
  BY <1>0, <1>2, AtQuery DEF Fit, Aimed
<1> QED BY <1>0, <1>2, <1>3, <1>4, QueryProceeds

LEMMA FindByUnionKeeps ==
  ASSUME IInv, NEW c \in Clients, FindByUnion(c) \/ FindByOpenid(c)
  PROVE  IInv'
<1>1. /\ ByUnion(task[c].union) \ {task[c].seat} \in SUBSET Seats
      /\ ByOpenid(task[c].seat.member, task[c].union) \ {task[c].seat} \in SUBSET Seats
      /\ {"legacyByUnion", "legacyByOpenid"} \subseteq PCs
      /\ {"byUnion", "byOpenid"} \cap HomePCs = {}
  BY DEF ByUnion, ByOpenid, PCs, HomePCs
<1>2. CASE FindByUnion(c)
  BY <1>1, <1>2, SearchKeeps DEF FindByUnion
<1>3. CASE FindByOpenid(c)
  BY <1>1, <1>3, SearchKeeps DEF FindByOpenid
<1> QED BY <1>2, <1>3

LEMMA FindLegacyByUnionKeeps ==
  ASSUME IInv, NEW c \in Clients, FindLegacyByUnion(c)
  PROVE  IInv'
<1>0. pc[c] = "legacyByUnion" /\ clock' \in Nat
  BY TheClock DEF FindLegacyByUnion, Query
<1>1. ~Isolated(c)
  BY <1>0, AtQuery DEF HomePCs
<1>2. Query(c, "legacyByUnion")
  BY DEF FindLegacyByUnion
<1>3. CASE Proceed(c, "byOpenid", task[c]) /\ UNCHANGED page
  <2>1. "byOpenid" \in PCs /\ Fit(c, "byOpenid", task[c])
    BY <1>0, <1>1, AtQuery DEF PCs, Fit, Aimed
  <2> QED BY <1>0, <1>2, <1>3, <2>1, AtQuery, QueryProceeds
<1>4. ASSUME NEW l \in Legacies, Resolved(c, [task[c] EXCEPT !.slot = l, !.got = row[l]])
      PROVE  IInv'
  <2> DEFINE t == [task[c] EXCEPT !.slot = l, !.got = row[l]]
  <2>1. row[l] \in Rows /\ l \in Slots
    BY ARow DEF Slots
  <2>2. t \in Tasks /\ t.seat = task[c].seat /\ t.slot = l
    BY <1>0, <2>1, AtQuery DEF Tasks
  <2>3. Resolved(c, t)
    BY <1>4
  <2> HIDE DEF t
  <2> QED BY <1>0, <1>1, <1>2, <2>1, <2>2, <2>3, AtQuery, QueryResolves
<1>5. \/ Proceed(c, "byOpenid", task[c]) /\ UNCHANGED page
      \/ \E l \in Legacies : Resolved(c, [task[c] EXCEPT !.slot = l, !.got = row[l]])
  BY DEF FindLegacyByUnion
<1> QED BY <1>3, <1>4, <1>5

LEMMA FindLegacyByOpenidKeeps ==
  ASSUME IInv, NEW c \in Clients, FindLegacyByOpenid(c)
  PROVE  IInv'
<1> DEFINE found == LegacyByOpenid(task[c].seat.member)
           t == [task[c] EXCEPT !.slot = Newest(found)]
<1>0. pc[c] = "legacyByOpenid" /\ clock' \in Nat
  BY TheClock DEF FindLegacyByOpenid, Query
<1>1. ~Isolated(c)
  BY <1>0, AtQuery DEF HomePCs
<1>2. Query(c, "legacyByOpenid") /\ IF found = {} THEN Resolved(c, task[c])
                                    ELSE Proceed(c, "found", t) /\ UNCHANGED page
  BY DEF FindLegacyByOpenid
<1>3. CASE found = {}
  BY <1>0, <1>1, <1>2, <1>3, AtQuery, QueryResolves
<1>4. CASE found # {}
  <2>1. Newest(found) \in Slots
    BY <1>4, NewestIsOne DEF LegacyByOpenid, Slots
  <2>2. t \in Tasks /\ t.seat = task[c].seat /\ t.slot \in Slots /\ "found" \in PCs
    BY <1>0, <2>1, AtQuery DEF Tasks, PCs
  <2>3. Query(c, "legacyByOpenid") /\ Proceed(c, "found", t) /\ UNCHANGED page
    BY <1>2, <1>4
  <2> HIDE DEF t
  <2>4. Fit(c, "found", t)
    BY <1>0, <1>1, <2>2, AtQuery DEF Fit, Aimed
  <2> QED BY <1>0, <2>2, <2>3, <2>4, QueryProceeds
<1> QED BY <1>3, <1>4

LEMMA ReadFoundKeeps ==
  ASSUME IInv, NEW c \in Clients, ReadFound(c)
  PROVE  IInv'
<1> DEFINE s == task[c].slot
           gone == IF s \in Seats THEN row[s].rev = 0 ELSE ~row[s].full
           t == IF gone THEN [task[c] EXCEPT !.slot = task[c].seat]
                ELSE [task[c] EXCEPT !.got = row[s]]
<1>0. pc[c] = "found" /\ clock' \in Nat
  BY TheClock DEF ReadFound, Query
<1>1. ~Isolated(c)
  BY <1>0, AtQuery DEF HomePCs
<1>2. row[s] \in Rows /\ task[c].seat \in Slots
  BY <1>0, AtQuery, ARow DEF Slots
<1>3. t \in Tasks /\ t.seat = task[c].seat /\ t.slot \in Slots
  <2> HIDE DEF gone
  <2> QED BY <1>0, <1>2, AtQuery DEF Tasks
<1>4. Query(c, "found") /\ Resolved(c, t)
  BY DEF ReadFound
<1> HIDE DEF t
<1> QED BY <1>0, <1>1, <1>3, <1>4, AtQuery, QueryResolves

LEMMA ReadIdentityKeeps ==
  ASSUME IInv, NEW c \in Clients, ReadIdentity(c)
  PROVE  IInv'
<1> DEFINE t == [task[c] EXCEPT !.iu = known[task[c].slot]]
<1>0. pc[c] = "identity" /\ clock' \in Nat
  BY TheClock DEF ReadIdentity, Query
<1>1. known[task[c].slot] \in Unions \cup {NoUnion}
  BY <1>0, AtQuery, AnIdentity
<1>2. /\ t \in Tasks /\ t.seat = task[c].seat /\ t.slot = task[c].slot
      /\ t.global = task[c].global
  BY <1>0, <1>1, AtQuery DEF Tasks
<1>3. Query(c, "identity") /\ Proceed(c, "target", t) /\ UNCHANGED page
  BY DEF ReadIdentity
<1> HIDE DEF t
<1>4. "target" \in PCs /\ Fit(c, "target", t)
  BY <1>0, <1>2, AtQuery DEF PCs, Fit, Aimed, Home, HomePCs, AtHome
<1> QED BY <1>0, <1>2, <1>3, <1>4, QueryProceeds

LEMMA ReadTargetKeeps ==
  ASSUME IInv, NEW c \in Clients, ReadTarget(c)
  PROVE  IInv'
<1> DEFINE got == row[task[c].slot]
           at == IF task[c].op = "nickname" THEN got.at ELSE clock + 1
           iu == IF task[c].op = "import" THEN task[c].iu ELSE got.iu
           t == [task[c] EXCEPT !.got = got, !.at = at, !.iu = iu]
<1>0. pc[c] = "target" /\ Query(c, "target") /\ UNCHANGED page
  BY DEF ReadTarget, Query
<1>1. got \in Rows /\ clock \in Nat
  BY <1>0, AtQuery, ARow DEF IInv, TypeOK
<1>2. CASE Return(c, "notfound") /\ UNCHANGED clock
  BY <1>0, <1>1, <1>2, QueryReturns
<1>3. CASE Return(c, "ok") /\ UNCHANGED clock
  BY <1>0, <1>1, <1>3, QueryReturns
<1>4. CASE /\ clock' = IF task[c].op = "nickname" THEN clock ELSE clock + 1
           /\ Proceed(c, "put", t)
  <2>0. task[c] \in Tasks
    BY <1>0, AtQuery
  <2>1. at \in Nat /\ iu \in Unions \cup {NoUnion}
    BY <1>1, <2>0 DEF Rows, Tasks
  <2>2. /\ t \in Tasks /\ t.seat = task[c].seat /\ t.slot = task[c].slot
        /\ t.global = task[c].global
    <3> HIDE DEF got, at, iu
    <3> QED BY <1>1, <2>0, <2>1 DEF Tasks
  <2>3. Proceed(c, "put", t) /\ clock' \in Nat
    BY <1>1, <1>4
  <2> HIDE DEF t
  <2>4. "put" \in PCs /\ Fit(c, "put", t)
    BY <1>0, <2>2, AtQuery DEF PCs, Fit, Aimed, Home, HomePCs, AtHome
  <2> QED BY <1>0, <2>2, <2>3, <2>4, QueryProceeds
<1> QED BY <1>2, <1>3, <1>4 DEF ReadTarget

LEMMA ReadModeAgainKeeps ==
  ASSUME IInv, NEW c \in Clients, ReadModeAgain(c)
  PROVE  IInv'
<1> DEFINE t == [task[c] EXCEPT !.global = (mode = "global")]
<1>0. pc[c] = "modeAgain" /\ clock' \in Nat
  BY TheClock DEF ReadModeAgain, Query
<1>1. /\ t \in Tasks /\ t.seat = task[c].seat /\ t.slot = task[c].slot
      /\ t.global <=> (mode = "global")
  BY <1>0, AtQuery DEF Tasks
<1>2. Query(c, "modeAgain") /\ Proceed(c, "profileAgain", t) /\ UNCHANGED page
  BY DEF ReadModeAgain
<1> HIDE DEF t
<1>3. "profileAgain" \in PCs /\ Fit(c, "profileAgain", t)
  BY <1>0, <1>1, AtQuery DEF PCs, Fit, Aimed, Home, HomePCs, AtHome, Isolated
<1> QED BY <1>0, <1>1, <1>2, <1>3, QueryProceeds

LEMMA ReadProfileAgainKeeps ==
  ASSUME IInv, NEW c \in Clients, ReadProfileAgain(c)
  PROVE  IInv'
<1> DEFINE t == [task[c] EXCEPT !.union = known[task[c].seat]]
<1>0. pc[c] = "profileAgain" /\ clock' \in Nat
  BY TheClock DEF ReadProfileAgain, Query
<1>1. known[task[c].seat] \in Unions \cup {NoUnion}
  BY <1>0, AtQuery, AnIdentity
<1>2. /\ t \in Tasks /\ t.seat = task[c].seat /\ t.slot = task[c].slot
      /\ t.global = task[c].global
  BY <1>0, <1>1, AtQuery DEF Tasks
<1>3. Query(c, "profileAgain") /\ Proceed(c, "delete", t) /\ UNCHANGED page
  BY DEF ReadProfileAgain
<1> HIDE DEF t
<1>4. "delete" \in PCs /\ Fit(c, "delete", t)
  BY <1>0, <1>2, AtQuery DEF PCs, Fit, Aimed, Home, HomePCs, AtHome
<1> QED BY <1>0, <1>2, <1>3, <1>4, QueryProceeds

LEMMA RefusalKeeps ==
  ASSUME IInv, NEW c \in Clients, DeleteRefused(c) \/ ReadExists(c)
  PROVE  IInv'
<1>1. CASE DeleteRefused(c)
  <2>1. pc[c] = "delete" /\ clock' \in Nat
    BY <1>1, TheClock DEF DeleteRefused, Query
  <2>2. "exists" \in PCs /\ Fit(c, "exists", task[c])
    BY <2>1, AtQuery DEF PCs, Fit, Aimed, Home, HomePCs
  <2> QED BY <1>1, <2>1, <2>2, AtQuery, QueryProceeds DEF DeleteRefused
<1>2. CASE ReadExists(c)
  <2>1. clock' \in Nat
    BY <1>2, TheClock DEF ReadExists
  <2>2. \E a \in {"conflict", "notfound"} : Return(c, a)
    BY <1>2 DEF ReadExists
  <2> QED BY <1>2, <2>1, <2>2, QueryReturns DEF ReadExists
<1> QED BY <1>1, <1>2

(* The steps that change records, and nothing else that is shared.         *)
LEMMA Removals ==
  ASSUME IInv, NEW c \in Clients, NEW S, Remove(c, S), OwnInv'
  PROVE  IInv'
<1>1. row' \in [Slots -> Rows]
  BY NoTaskIsTask DEF Remove, IInv, TypeOK
<1>2. quiet' \in [Clients -> BOOLEAN]
  BY DEF Remove, Disturb, IInv, TypeOK
<1> QED BY <1>1, <1>2 DEF Remove, IInv, TypeOK, OwnInv, OwnType

LEMMA DeletionKeeps ==
  ASSUME IInv, NEW c \in Clients, DeleteExact(c) \/ DeleteGroup(c) \/ DeleteLegacy(c)
  PROVE  IInv'
<1>1. CASE DeleteExact(c)
  <2>1. pc[c] = "delete" /\ Remove(c, {task[c].slot}) /\ UNCHANGED <<mode, steady>>
    BY <1>1 DEF DeleteExact, Remove
  <2>2. CASE task[c].global /\ Proceed(c, "deleteGroup", task[c])
    <3>1. "deleteGroup" \in PCs /\ Fit(c, "deleteGroup", task[c])
      BY <2>1, <2>2, AtQuery DEF PCs, Fit, Aimed, AtHome
    <3> QED BY <2>1, <2>2, <3>1, AtQuery, Proceeds, Removals
  <2>3. CASE Return(c, "ok")
    BY <2>1, <2>3, Returns, Removals
  <2> QED BY <1>1, <2>2, <2>3 DEF DeleteExact
<1>2. CASE DeleteGroup(c)
  <2>1. /\ pc[c] = "deleteGroup" /\ Proceed(c, "deleteLegacy", task[c])
        /\ Remove(c, MatchingGroup(task[c].seat, task[c].union)) /\ UNCHANGED <<mode, steady>>
    BY <1>2 DEF DeleteGroup, Remove
  <2>2. "deleteLegacy" \in PCs /\ Fit(c, "deleteLegacy", task[c])
    BY <2>1, AtQuery DEF PCs, Fit, Aimed, HomePCs
  <2> QED BY <2>1, <2>2, AtQuery, Proceeds, Removals
<1>3. CASE DeleteLegacy(c)
  <2>1. /\ Return(c, "ok") /\ UNCHANGED <<mode, steady>>
        /\ Remove(c, MatchingLegacy(task[c].seat.member, task[c].union))
    BY <1>3 DEF DeleteLegacy, Remove
  <2> QED BY <2>1, Returns, Removals
<1> QED BY <1>1, <1>2, <1>3

LEMMA PutKeeps ==
  ASSUME IInv, NEW c \in Clients, Put(c)
  PROVE  IInv'
<1> DEFINE t == task[c]
           s == t.slot
<1>0. /\ pc[c] = "put" /\ t \in Tasks /\ s \in Slots /\ row[s] \in Rows
      /\ UNCHANGED <<mode, clock, page, steady, budget>>
  BY AtQuery, ARow DEF Put
<1>1. CASE /\ \E full \in CASE t.op = "save" -> BOOLEAN
                            [] t.op = "nickname" -> {t.got.full}
                            [] OTHER -> {TRUE} :
                row' = [row EXCEPT ![s] = [rev |-> row[s].rev + 1, full |-> full,
                                           at |-> t.at, iu |-> t.iu]]
           /\ known' = IF s \in Seats /\ t.iu # NoUnion THEN [known EXCEPT ![s] = t.iu] ELSE known
           /\ Disturb(c)
           /\ Return(c, "ok")
  <2>1. PICK full \in CASE t.op = "save" -> BOOLEAN
                        [] t.op = "nickname" -> {t.got.full}
                        [] OTHER -> {TRUE} :
          row' = [row EXCEPT ![s] = [rev |-> row[s].rev + 1, full |-> full,
                                     at |-> t.at, iu |-> t.iu]]
    BY <1>1
  <2>2. full \in BOOLEAN
    BY <1>0, <2>1 DEF Tasks, Rows
  <2>3. row' \in [Slots -> Rows]
    <3>1. [rev |-> row[s].rev + 1, full |-> full, at |-> t.at, iu |-> t.iu] \in Rows
      BY <1>0, <2>2 DEF Tasks, Rows
    <3> QED BY <2>1, <3>1 DEF IInv, TypeOK
  <2>4. known' \in [Seats -> Unions \cup {NoUnion}]
    BY <1>0, <1>1 DEF IInv, TypeOK, Tasks
  <2>5. quiet' \in [Clients -> BOOLEAN]
    BY <1>1 DEF Disturb, IInv, TypeOK
  <2>6. OwnInv'
    BY <1>0, <1>1, Returns
  <2> QED BY <1>0, <2>3, <2>4, <2>5, <2>6 DEF IInv, TypeOK, OwnInv, OwnType
<1>2. CASE Proceed(c, "target", [t EXCEPT !.tries = 1]) /\ UNCHANGED <<row, known, quiet>>
  <2> DEFINE u == [t EXCEPT !.tries = 1]
  <2>1. u \in Tasks /\ u.seat = t.seat /\ u.slot = s /\ u.global = t.global
    BY <1>0 DEF Tasks
  <2>2. Proceed(c, "target", u)
    BY <1>2
  <2> HIDE DEF u
  <2>3. "target" \in PCs /\ Fit(c, "target", u)
    BY <1>0, <2>1, AtQuery DEF PCs, Fit, Aimed, Home, HomePCs, AtHome
  <2>4. OwnInv'
    BY <1>0, <2>1, <2>2, <2>3, Proceeds
  <2> QED BY <1>0, <1>2, <2>4 DEF IInv, TypeOK, OwnInv, OwnType
<1>3. CASE Return(c, "conflict") /\ UNCHANGED <<row, known, quiet>>
  <2>1. OwnInv'
    BY <1>0, <1>3, Returns
  <2> QED BY <1>0, <1>3, <2>1 DEF IInv, TypeOK, OwnInv, OwnType
<1> QED BY <1>1, <1>2, <1>3 DEF Put

--------------------------------------------------------------------------------
(* The other steps.                                                        *)
LEMMA StartKeeps ==
  ASSUME IInv, NEW c \in Clients, Start(c)
  PROVE  IInv'
<1>1. PICK op \in Ops, s \in Seats :
        \E u \in IF op \in BotOps THEN {NoUnion, Owner[s]} ELSE {NoUnion} :
          /\ task' = [task EXCEPT ![c] = [NoTask EXCEPT !.op = op, !.seat = s, !.msg = u,
                                                        !.union = u, !.slot = s]]
          /\ known' \in {known} \cup {[known EXCEPT ![s] = u] : v \in {u} \ {NoUnion}}
  BY Zenon DEF Start
<1>2. PICK u \in {NoUnion, Owner[s]} :
        /\ task' = [task EXCEPT ![c] = [NoTask EXCEPT !.op = op, !.seat = s, !.msg = u,
                                                      !.union = u, !.slot = s]]
        /\ known' \in {known} \cup {[known EXCEPT ![s] = u] : v \in {u} \ {NoUnion}}
  BY <1>1
<1> USE DEF IInv, TypeOK, OwnInv, OwnType
<1> DEFINE t == [NoTask EXCEPT !.op = op, !.seat = s, !.msg = u, !.union = u, !.slot = s]
<1>3. u \in Unions \cup {NoUnion} /\ s \in Slots
  BY DEF Unions, Slots
<1>4. t \in Tasks /\ t.seat = s /\ t.slot = s /\ ~t.global
  <2>1. op \in BotOps \cup WebOps
    BY OpsAssumption
  <2> QED BY <1>3, <2>1, NoTaskIsTask DEF Tasks, NoTask
<1>5. task' = [task EXCEPT ![c] = t]
  BY <1>2
<1> HIDE DEF t
<1>6. known' \in [Seats -> Unions \cup {NoUnion}]
  BY <1>2, <1>3
<1>7. /\ pc' = [pc EXCEPT ![c] = "mode"] /\ answer' = [answer EXCEPT ![c] = "pending"]
      /\ steady' = [steady EXCEPT ![c] = TRUE] /\ quiet' \in [Clients -> BOOLEAN]
      /\ budget' = [budget EXCEPT !.calls = @ - 1] /\ budget.calls > 0
      /\ UNCHANGED <<row, mode, clock, page>>
  BY DEF Start
<1>8. budget' \in [calls : Nat, toggles : Nat, learned : Nat]
  BY <1>7
<1>9. pc' \in [Clients -> PCs] /\ task' \in [Clients -> Tasks]
  BY <1>4, <1>5, <1>7 DEF PCs
<1>10. ASSUME NEW d \in Clients PROVE Fit(d, pc[d], task[d])'
  <2>1. CASE d = c
    <3>1. pc'[d] = "mode" /\ task'[d] = t
      BY <1>5, <1>7, <2>1
    <3> QED BY <1>3, <1>4, <3>1 DEF Fit, Aimed, Home, HomePCs, AtHome
  <2>2. CASE d # c
    <3>1. pc'[d] = pc[d] /\ task'[d] = task[d] /\ steady'[d] = steady[d] /\ mode' = mode
      BY <1>5, <1>7, <2>2
    <3> QED BY <3>1 DEF Fit, Isolated
  <2> QED BY <2>1, <2>2
<1> QED BY <1>6, <1>7, <1>8, <1>9, <1>10

LEMMA FailKeeps ==
  ASSUME IInv, NEW c \in Clients, Fail(c)
  PROVE  IInv'
<1>1. OwnInv'
  BY Returns DEF Fail
<1> QED BY <1>1 DEF Fail, IInv, TypeOK, OwnInv, OwnType

LEMMA LearnKeeps ==
  ASSUME IInv, NEW s \in Seats, Learn(s)
  PROVE  IInv'
<1>1. known' \in [Seats -> Unions \cup {NoUnion}] /\ quiet' \in [Clients -> BOOLEAN]
  BY DEF Learn, IInv, TypeOK, Unions
<1>2. budget' \in [calls : Nat, toggles : Nat, learned : Nat]
  BY DEF Learn, IInv, TypeOK
<1>3. OwnInv'
  BY DEF Learn, IInv, OwnInv, OwnType, Fit, Isolated
<1> QED BY <1>1, <1>2, <1>3 DEF Learn, IInv, TypeOK

LEMMA ToggleKeeps ==
  ASSUME IInv, Toggle
  PROVE  IInv'
<1>1. budget' \in [calls : Nat, toggles : Nat, learned : Nat] /\ mode' \in {"group", "global"}
  BY DEF Toggle, IInv, TypeOK
<1>2. OwnInv'
  BY DEF Toggle, IInv, OwnInv, OwnType, Fit, Isolated
<1> QED BY <1>1, <1>2 DEF Toggle, IInv, TypeOK

LEMMA StutterKeeps ==
  ASSUME IInv, UNCHANGED vars
  PROVE  IInv'
  BY DEF vars, IInv, TypeOK, OwnInv, OwnType, Fit, Isolated

LEMMA InitHolds ==
  ASSUME Init
  PROVE  IInv
<1>1. row \in [Slots -> Rows]
  <2>1. {NoRow, Stored(0, NoUnion), [NoRow EXCEPT !.rev = 1]} \subseteq Rows
    <3>1. NoRow \in Rows /\ Stored(0, NoUnion) \in Rows
      BY DEF Rows, NoRow, Stored
    <3>2. [NoRow EXCEPT !.rev = 1] \in Rows
      BY DEF Rows, NoRow
    <3> QED BY <3>1, <3>2
  <2>2. row \in [Slots -> {NoRow, Stored(0, NoUnion), [NoRow EXCEPT !.rev = 1]}]
    BY Zenon DEF Init
  <2> QED BY <2>1, <2>2
<1>2. budget \in [calls : Nat, toggles : Nat, learned : Nat]
  BY CapsAssumption DEF Init
<1>3. page \in [Clients -> [seat : Seats \cup {NoSeat}, slot : Slots \cup {NoSeat}, rev : Nat]]
  BY DEF Init, NoPage
<1>4. OwnInv
  BY NoTaskIsTask DEF Init, OwnInv, OwnType, Fit, Aimed, Home, PCs
<1> QED BY <1>1, <1>2, <1>3, <1>4 DEF Init, IInv, TypeOK, OwnInv, OwnType

LEMMA NextKeeps == IInv /\ [Next]_vars => IInv'
<1> SUFFICES ASSUME IInv, [Next]_vars
             PROVE  IInv'
  OBVIOUS
<1>1. ASSUME NEW c \in Clients, Step(c)
      PROVE  IInv'
  BY <1>1, ReadModeKeeps, ReadCurrentKeeps, ReadProfileKeeps, FindByUnionKeeps,
     FindLegacyByUnionKeeps, FindLegacyByOpenidKeeps, ReadFoundKeeps, ReadIdentityKeeps,
     ReadTargetKeeps, PutKeeps, ReadModeAgainKeeps, ReadProfileAgainKeeps, RefusalKeeps,
     DeletionKeeps DEF Step
<1>2. CASE \E c \in Clients : Start(c) \/ Fail(c)
  BY <1>2, StartKeeps, FailKeeps
<1>3. CASE Toggle \/ \E s \in Seats : Learn(s)
  BY <1>3, ToggleKeeps, LearnKeeps
<1> QED BY <1>1, <1>2, <1>3, StutterKeeps DEF Next

LEMMA Inductive == Spec => []IInv
  BY InitHolds, NextKeeps, PTL DEF Spec

(* Types: every variable of the queries and of what they have found keeps  *)
(* its kind, whichever records, profiles and callers there are.            *)
THEOREM GlobalTypeCorrect == Spec => []TypeOK
<1>1. IInv => TypeOK
  BY DEF IInv
<1> QED BY <1>1, Inductive, PTL

--------------------------------------------------------------------------------
(* A step that changes records is c's, at one of four queries, and moves   *)
(* no other caller.                                                        *)
LEMMA WhoWrites ==
  ASSUME IInv, Next, row' # row
  PROVE  \E c \in Clients : /\ Put(c) \/ DeleteExact(c) \/ DeleteGroup(c) \/ DeleteLegacy(c)
                            /\ \A d \in Clients \ {c} : pc'[d] = pc[d]
<1>1. PICK c \in Clients : Put(c) \/ DeleteExact(c) \/ DeleteGroup(c) \/ DeleteLegacy(c)
  BY ZenonT(60) DEF Next, Step, Start, Fail, Learn, Toggle, ReadMode, ReadCurrent, ReadProfile, Search,
         FindByUnion, FindLegacyByUnion, FindByOpenid, FindLegacyByOpenid, ReadFound,
         ReadIdentity, ReadTarget, ReadModeAgain, ReadProfileAgain, DeleteRefused, ReadExists,
         Query
<1>2. \E q : pc' = [pc EXCEPT ![c] = q]
  BY <1>1 DEF Put, DeleteExact, DeleteGroup, DeleteLegacy, Proceed, Return
<1> QED BY <1>1, <1>2 DEF IInv, TypeOK

(* An isolated call that changes records changes its own alone.            *)
LEMMA WritesAtHome ==
  ASSUME IInv, NEW c \in Clients, Isolated(c),
         Put(c) \/ DeleteExact(c) \/ DeleteGroup(c) \/ DeleteLegacy(c)
  PROVE  Changed \subseteq {task[c].seat}
<1>0. pc[c] # "idle"
  BY DEF Put, DeleteExact, DeleteGroup, DeleteLegacy
<1>1. task[c].slot = task[c].seat /\ pc[c] \in HomePCs
  BY <1>0, AtQuery DEF AtHome
<1>2. CASE Put(c)
  <2>1. \/ UNCHANGED row
        \/ \E v : row' = [row EXCEPT ![task[c].slot] = v]
    BY <1>2 DEF Put
  <2> QED BY <1>1, <2>1 DEF Changed, IInv, TypeOK
<1>3. CASE DeleteExact(c)
  <2>1. row' = [s \in Slots |-> IF s \in {task[c].slot} THEN NoRow ELSE row[s]]
    BY <1>3 DEF DeleteExact, Remove
  <2> QED BY <1>1, <2>1 DEF Changed
<1>4. CASE DeleteGroup(c) \/ DeleteLegacy(c)
  BY <1>1, <1>4 DEF DeleteGroup, DeleteLegacy, HomePCs
<1> QED BY <1>2, <1>3, <1>4

(* Isolated mode isolates: a call during which the mode does not change    *)
(* never writes or deletes a record of another member or group, whatever   *)
(* else goes on and whatever the profiles say (ResolveStorageTargetContext,*)
(* DeleteMemberScheduleContext).                                           *)
THEOREM IsolationHolds == Spec => IsolatedStaysHome
<1> DEFINE Act == \A c \in Clients :
              By(c) /\ steady[c] /\ mode = "group" => Changed \subseteq {task[c].seat}
<1>1. IInv /\ [Next]_vars => [Act]_vars
  <2> SUFFICES ASSUME IInv, Next, NEW c \in Clients, By(c), Isolated(c)
               PROVE  Changed \subseteq {task[c].seat}
    BY DEF Isolated
  <2>1. CASE row' = row
    BY <2>1 DEF Changed
  <2>2. CASE row' # row
    <3>1. PICK d \in Clients :
             /\ Put(d) \/ DeleteExact(d) \/ DeleteGroup(d) \/ DeleteLegacy(d)
             /\ \A e \in Clients \ {d} : pc'[e] = pc[e]
      BY <2>2, WhoWrites
    <3>2. d = c
      BY <3>1 DEF By
    <3> QED BY <3>1, <3>2, WritesAtHome
  <2> QED BY <2>1, <2>2
<1>2. Spec => [][Act]_vars
  BY <1>1, Inductive, PTL DEF Spec
<1> QED BY <1>2 DEF IsolatedStaysHome

--------------------------------------------------------------------------------
(* Where a schedule is found: the five places, and the first that has one. *)

LEMMA ThePlaces ==
  ASSUME NEW r, NEW k, NEW seat, NEW u
  PROVE  LET place == Places(r, k, seat, u)
         IN /\ place[1] = {s \in {seat} : r[s].full}
            /\ place[2] = {s \in Seats : r[s].full /\ u # NoUnion /\ u \in {k[s], r[s].iu}}
            /\ place[3] = {l \in Legacies : r[l].full /\ u # NoUnion /\ u = l.scope /\ u = l.user}
            /\ place[4] = {s \in Seats : /\ r[s].full /\ s.member = seat.member
                                         /\ u # NoUnion => k[s] = NoUnion /\ r[s].iu = NoUnion}
            /\ place[5] = {l \in Legacies : r[l].full /\ seat.member \in {l.user, l.importer}}
<1> DEFINE full(S) == {s \in S : r[s].full}
           named(s) == {k[s], r[s].iu} \ {NoUnion}
           p1 == full({seat})
           p2 == full({s \in Seats : u \in named(s)})
           p3 == full({l \in Legacies : u # NoUnion /\ u = l.scope /\ u = l.user})
           p4 == full({s \in Seats : s.member = seat.member /\ (u # NoUnion => named(s) = {})})
           p5 == full({l \in Legacies : seat.member \in {l.user, l.importer}})
<1>1. Places(r, k, seat, u) = <<p1, p2, p3, p4, p5>>
  BY DEF Places
<1>2. p2 = {s \in Seats : r[s].full /\ u # NoUnion /\ u \in {k[s], r[s].iu}}
  OBVIOUS
<1>3. p3 = {l \in Legacies : r[l].full /\ u # NoUnion /\ u = l.scope /\ u = l.user}
  OBVIOUS
<1>4. p4 = {s \in Seats : /\ r[s].full /\ s.member = seat.member
                          /\ u # NoUnion => k[s] = NoUnion /\ r[s].iu = NoUnion}
  <2>1. ASSUME NEW s
        PROVE  named(s) = {} <=> k[s] = NoUnion /\ r[s].iu = NoUnion
    OBVIOUS
  <2> HIDE DEF named
  <2> QED BY <2>1
<1>5. p5 = {l \in Legacies : r[l].full /\ seat.member \in {l.user, l.importer}}
  OBVIOUS
<1> HIDE DEF p2, p3, p4, p5
<1> QED BY <1>1, <1>2, <1>3, <1>4, <1>5

LEMMA NewestInIsOne ==
  ASSUME NEW r, NEW S, S # {}
  PROVE  NewestIn(r, S) \in S
<1> DEFINE newest == {s \in S : \A t \in S : r[t].at <= r[s].at}
<1>1. \E s \in S : newest # {} => s \in newest
  BY SMT
<1> HIDE DEF newest
<1>2. (CHOOSE s \in S : newest # {} => s \in newest) \in S
  BY <1>1
<1> QED BY <1>2 DEF NewestIn, newest

(* The record written last is the newest of any that it is one of.         *)
LEMMA LastIsNewest ==
  ASSUME NEW r, NEW S, NEW s \in S, r[s].at \in Nat,
         \A t \in S \ {s} : r[t].at \in Nat /\ r[t].at < r[s].at
  PROVE  NewestIn(r, S) = s
<1> DEFINE newest == {x \in S : \A t \in S : r[t].at <= r[x].at}
<1>1. newest = {s}
  <2>1. s \in newest
    OBVIOUS
  <2>2. ASSUME NEW x \in newest PROVE x = s
    BY <2>2
  <2> QED BY <2>1, <2>2
<1> HIDE DEF newest
<1>2. (CHOOSE x \in S : newest # {} => x \in newest) = s
  BY <1>1
<1> QED BY <1>2 DEF NewestIn, newest

LEMMA FirstIsShown ==
  ASSUME NEW r, NEW k, NEW seat, NEW u, NEW n \in 1..5,
         Places(r, k, seat, u)[n] # {},
         \A i \in 1..(n - 1) : Places(r, k, seat, u)[i] = {}
  PROVE  Shown(r, k, seat, u) = {NewestIn(r, Places(r, k, seat, u)[n])}
<1> DEFINE place == Places(r, k, seat, u)
           firsts == {j \in 1..5 : place[j] # {} /\ \A h \in 1..(j - 1) : place[h] = {}}
<1> HIDE DEF place
<1>1. place[n] # {} /\ \A i \in 1..(n - 1) : place[i] = {}
  BY DEF place
<1>2. n \in firsts
  BY <1>1
<1>3. ASSUME NEW j \in firsts PROVE j = n
  <2>1. ~(j < n) /\ ~(n < j)
    BY <1>1, <1>3
  <2> QED BY <2>1
<1>4. firsts = {n}
  BY <1>2, <1>3
<1> HIDE DEF firsts
<1>5. {NewestIn(r, place[i]) : i \in firsts} = {NewestIn(r, place[n])}
  BY <1>4
<1>6. Shown(r, k, seat, u) = {NewestIn(r, place[i]) : i \in firsts}
  BY DEF Shown, place, firsts
<1> QED BY <1>5, <1>6 DEF place

LEMMA NothingIsShown ==
  ASSUME NEW r, NEW k, NEW seat, NEW u, \A i \in 1..5 : Places(r, k, seat, u)[i] = {}
  PROVE  Shown(r, k, seat, u) = {}
  BY DEF Shown

LEMMA ShownIsPlaced ==
  ASSUME NEW r, NEW k, NEW seat, NEW u, NEW s \in Shown(r, k, seat, u)
  PROVE  \E n \in 1..5 : /\ s \in Places(r, k, seat, u)[n]
                         /\ \A i \in 1..(n - 1) : Places(r, k, seat, u)[i] = {}
                         /\ s = NewestIn(r, Places(r, k, seat, u)[n])
<1> DEFINE place == Places(r, k, seat, u)
<1>1. PICK n \in 1..5 : /\ place[n] # {} /\ \A h \in 1..(n - 1) : place[h] = {}
                        /\ s = NewestIn(r, place[n])
  BY DEF Shown
<1> HIDE DEF place
<1>2. s \in place[n]
  BY <1>1, NewestInIsOne
<1> QED BY <1>1, <1>2 DEF place

LEMMA KindsDiffer == ASSUME NEW s \in Seats PROVE s \notin Legacies
  BY KeysAssumption

--------------------------------------------------------------------------------
(* What a call that nobody disturbs has established at each query.         *)

Searches == {"profile", "byUnion", "legacyByUnion", "byOpenid", "legacyByOpenid"}

(* Nothing in the first n places that t's search looks at.                 *)
Searched(r, k, t, n) == \A i \in 1..n : Places(r, k, t.seat, UnionOf(k, t))[i] = {}

(* The record t goes for is the one the documented order names.            *)
Right(r, k, m, t) ==
  LET shown == IF m = "global" THEN Shown(r, k, t.seat, UnionOf(k, t)) ELSE {}
  IN t.slot \in (IF shown = {} THEN {t.seat} ELSE shown)

SearchStage(r, k, m, p, t) ==
  /\ p \in {"mode", "current"} \cup Searches => t.slot = t.seat
  /\ p \in {"mode", "current"} => t.union = t.msg
  /\ p = "current" => (t.global <=> m = "global") /\ (t.op = "load" \/ t.global)
  /\ p \in Searches => t.global /\ m = "global" /\ Searched(r, k, t, 1)
  /\ p = "profile" => t.msg = NoUnion
  /\ p \in Searches \ {"profile"} => t.union = UnionOf(k, t)
  /\ p \in {"byUnion", "legacyByUnion"} => t.union # NoUnion
  /\ p \in {"legacyByUnion", "byOpenid", "legacyByOpenid"} => Searched(r, k, t, 2)
  /\ p \in {"byOpenid", "legacyByOpenid"} => Searched(r, k, t, 3)
  /\ p = "legacyByOpenid" => Searched(r, k, t, 4)
  /\ p = "found" => r[t.slot].full /\ Right(r, k, m, t)

(* The union_openid an import leaves on the record: the message's, or that *)
(* of the record's profile.                                                *)
Named(k, t) == IF t.msg # NoUnion THEN t.msg ELSE k[t.slot]

WriteStage(r, k, m, p, t) ==
  /\ p \in {"identity", "target", "put"} =>
       /\ Right(r, k, m, t)
       /\ t.op \in {"import", "nickname", "upload", "save"}
       /\ t.op # "save" => t.slot \in Seats
  /\ p = "identity" => t.op = "import" /\ t.msg = NoUnion
  /\ p \in {"target", "put"} /\ t.op = "import" => t.iu = Named(k, t)
  /\ p = "put" /\ t.op # "import" => t.iu = r[t.slot].iu
  /\ p = "put" /\ t.op \in {"import", "upload"} => \A s \in Slots : r[s].at < t.at

(* The places in groups are empty of what the member could be shown.       *)
Cleared(r, k, t) == \A i \in {1, 2, 4} : Places(r, k, t.seat, UnionOf(k, t))[i] = {}

DeleteStage(r, k, m, p, t) ==
  /\ p \in {"modeAgain", "profileAgain", "delete", "exists"} => t.op = "delete" /\ Right(r, k, m, t)
  /\ p \in {"profileAgain", "delete", "deleteGroup", "deleteLegacy"} => (t.global <=> m = "global")
  /\ p \in {"deleteGroup", "deleteLegacy"} => t.op = "delete" /\ t.global
  /\ p \in {"delete", "deleteGroup", "deleteLegacy"} => t.union = k[t.seat]
  /\ p = "deleteLegacy" => Cleared(r, k, t)

Stage(r, k, m, p, t) ==
  /\ t.op \in WebOps => t.msg = NoUnion
  /\ SearchStage(r, k, m, p, t) /\ WriteStage(r, k, m, p, t) /\ DeleteStage(r, k, m, p, t)

(* Records: courses come with a revision, a name on a record is a name on  *)
(* its profile, and no record or planned write is later than the clock.    *)
RecordInv ==
  /\ \A s \in Slots : row[s].at <= clock /\ (row[s].full => row[s].rev > 0)
  /\ \A s \in Seats : row[s].iu # NoUnion => known[s] # NoUnion
PlanInv == \A c \in Clients : pc[c] = "put" => task[c].at <= clock

StageInv == \A c \in Clients : quiet[c] /\ pc[c] # "idle" => Stage(row, known, mode, pc[c], task[c])
QInv == IInv /\ RecordInv /\ PlanInv /\ StageInv

(* A step of c's call: what it must show, and what the others keep.        *)
LEMMA StageMoves ==
  ASSUME QInv, NEW c \in Clients, NEW q, NEW t,
         pc' = [pc EXCEPT ![c] = q], task' = [task EXCEPT ![c] = t],
         \A d \in Clients \ {c} : quiet'[d] => quiet[d] /\ UNCHANGED <<row, known, mode>>,
         quiet'[c] /\ q # "idle" => Stage(row', known', mode', q, t)
  PROVE  StageInv'
<1> SUFFICES ASSUME NEW d \in Clients, quiet'[d], pc'[d] # "idle"
             PROVE  Stage(row', known', mode', pc'[d], task'[d])
  BY DEF StageInv
<1>1. CASE d = c
  BY <1>1 DEF QInv, IInv, TypeOK
<1>2. CASE d # c
  <2>1. pc'[d] = pc[d] /\ task'[d] = task[d] /\ quiet[d] /\ UNCHANGED <<row, known, mode>>
    BY <1>2 DEF QInv, IInv, TypeOK
  <2>2. Stage(row, known, mode, pc[d], task[d])
    BY <2>1 DEF QInv, StageInv
  <2> QED BY <2>1, <2>2
<1> QED BY <1>1, <1>2

(* ... and of its planned write.                                           *)
LEMMA PlanMoves ==
  ASSUME QInv, NEW c \in Clients, NEW q, NEW t,
         pc' = [pc EXCEPT ![c] = q], task' = [task EXCEPT ![c] = t],
         clock' \in Nat, clock <= clock', q = "put" => t.at <= clock'
  PROVE  PlanInv'
<1> SUFFICES ASSUME NEW d \in Clients, pc'[d] = "put"
             PROVE  task'[d].at <= clock'
  BY DEF PlanInv
<1>1. CASE d = c
  BY <1>1 DEF QInv, IInv, TypeOK
<1>2. CASE d # c
  <2>1. pc'[d] = pc[d] /\ task'[d] = task[d]
    BY <1>2 DEF QInv, IInv, TypeOK
  <2>2. task[d].at <= clock /\ task[d].at \in Nat /\ clock \in Nat
    BY <2>1 DEF QInv, PlanInv, IInv, TypeOK, Tasks
  <2> QED BY <2>1, <2>2
<1> QED BY <1>1, <1>2

(* A query that leads on, and one that ends the call.                      *)
LEMMA QueryLeadsOn ==
  ASSUME QInv, NEW c \in Clients, NEW p, Query(c, p), NEW q, NEW t, Proceed(c, q, t),
         UNCHANGED clock, q # "put",
         quiet[c] /\ Stage(row, known, mode, p, task[c]) => Stage(row, known, mode, q, t),
         p # "idle"
  PROVE  RecordInv' /\ PlanInv' /\ StageInv'
<1>1. RecordInv'
  BY DEF QInv, RecordInv, Query
<1>2. PlanInv'
  <2>1. clock \in Nat
    BY DEF QInv, IInv, TypeOK
  <2>2. clock' \in Nat /\ clock <= clock'
    BY <2>1
  <2> QED BY <2>2, PlanMoves DEF Proceed
<1>3. StageInv'
  <2>1. quiet[c] => Stage(row, known, mode, p, task[c])
    BY DEF QInv, StageInv, Query
  <2>2. quiet'[c] => Stage(row', known', mode', q, t)
    BY <2>1 DEF Query
  <2>3. \A d \in Clients \ {c} : quiet'[d] => quiet[d] /\ UNCHANGED <<row, known, mode>>
    BY DEF Query
  <2> QED BY <2>2, <2>3, StageMoves DEF Proceed
<1> QED BY <1>1, <1>2, <1>3

LEMMA ReturnEnds ==
  ASSUME QInv, NEW c \in Clients, NEW a, Return(c, a),
         UNCHANGED <<row, known, mode, clock, quiet>>
  PROVE  RecordInv' /\ PlanInv' /\ StageInv'
<1>1. RecordInv'
  BY DEF QInv, RecordInv
<1>2. PlanInv'
  <2>1. clock \in Nat
    BY DEF QInv, IInv, TypeOK
  <2>2. clock' \in Nat /\ clock <= clock'
    BY <2>1
  <2> QED BY <2>2, PlanMoves DEF Return
<1>3. StageInv'
  BY StageMoves DEF Return
<1> QED BY <1>1, <1>2, <1>3

(* What has been searched depends on whom the call is for, not on more.    *)
LEMMA SameSearch ==
  ASSUME NEW r, NEW k, NEW m, NEW t, NEW u, u.seat = t.seat, u.msg = t.msg
  PROVE  /\ UnionOf(k, u) = UnionOf(k, t)
         /\ \A n : Searched(r, k, u, n) <=> Searched(r, k, t, n)
         /\ u.slot = t.slot => (Right(r, k, m, u) <=> Right(r, k, m, t))
<1>1. UnionOf(k, u) = UnionOf(k, t)
  BY DEF UnionOf
<1> QED BY <1>1 DEF Searched, Right

(* The queries from which a call cannot yet write or delete, and the rest. *)
LEMMA StageOfSearch ==
  ASSUME NEW r, NEW k, NEW m, NEW p \in {"mode", "current", "found"} \cup Searches, NEW t,
         t.op \in WebOps => t.msg = NoUnion, SearchStage(r, k, m, p, t)
  PROVE  Stage(r, k, m, p, t)
  BY DEF Stage, WriteStage, DeleteStage, Searches

LEMMA StageOfWrite ==
  ASSUME NEW r, NEW k, NEW m, NEW p \in {"identity", "target", "put"}, NEW t,
         t.op \in WebOps => t.msg = NoUnion, WriteStage(r, k, m, p, t)
  PROVE  Stage(r, k, m, p, t)
  BY DEF Stage, SearchStage, DeleteStage, Searches

LEMMA StageOfDelete ==
  ASSUME NEW r, NEW k, NEW m, NEW t,
         NEW p \in {"modeAgain", "profileAgain", "delete", "exists", "deleteGroup", "deleteLegacy"},
         t.op \in WebOps => t.msg = NoUnion, DeleteStage(r, k, m, p, t)
  PROVE  Stage(r, k, m, p, t)
  BY DEF Stage, SearchStage, WriteStage, Searches

(* A call that has resolved to the right record goes on to a stage.        *)
LEMMA ResolvedStage ==
  ASSUME QInv, NEW c \in Clients, NEW p, p # "idle", Query(c, p), NEW t \in Tasks,
         Resolved(c, t), UNCHANGED clock,
         quiet[c] /\ Stage(row, known, mode, p, task[c]) =>
           Right(row, known, mode, t) /\ (t.op \in WebOps => t.msg = NoUnion)
  PROVE  RecordInv' /\ PlanInv' /\ StageInv'
<1> DEFINE quietly == quiet[c] /\ Stage(row, known, mode, p, task[c])
<1>0. UNCHANGED <<row, known, mode, clock, quiet>>
  BY DEF Query
<1>1. CASE t.op = "load" /\ Return(c, IF t.got.rev = 0 THEN "notfound" ELSE "ok")
  BY <1>0, <1>1, ReturnEnds
<1>2. CASE Return(c, "error")
  BY <1>0, <1>2, ReturnEnds
<1>3. CASE /\ t.op \in BotOps \cup {"upload"} /\ t.slot \in Seats
           /\ Proceed(c, IF t.op = "import" /\ t.msg = NoUnion THEN "identity" ELSE "target",
                      [t EXCEPT !.iu = t.msg])
  <2> DEFINE u == [t EXCEPT !.iu = t.msg]
             q == IF t.op = "import" /\ t.msg = NoUnion THEN "identity" ELSE "target"
  <2>1. /\ u.seat = t.seat /\ u.slot = t.slot /\ u.msg = t.msg /\ u.op = t.op /\ u.iu = t.msg
    BY DEF Tasks
  <2>2. q \in {"identity", "target"} /\ (q = "identity" <=> t.op = "import" /\ t.msg = NoUnion)
    OBVIOUS
  <2>3. Proceed(c, q, u)
    BY <1>3
  <2> HIDE DEF u, q
  <2>4. ASSUME quietly PROVE Stage(row, known, mode, q, u)
    <3>1. Right(row, known, mode, u)
      BY <2>1, <2>4, SameSearch
    <3>2. t.op \in {"import", "nickname", "upload"}
      BY <1>3 DEF BotOps
    <3>3. WriteStage(row, known, mode, q, u)
      BY <1>3, <2>1, <2>2, <3>1, <3>2 DEF WriteStage, Named
    <3> QED BY <2>1, <2>2, <2>4, <3>3, StageOfWrite
  <2> QED BY <1>0, <2>2, <2>3, <2>4, QueryLeadsOn
<1>4. CASE t.op = "save" /\ Proceed(c, "target", t)
  <2>1. ASSUME quietly PROVE Stage(row, known, mode, "target", t)
    <3>1. WriteStage(row, known, mode, "target", t)
      BY <1>4, <2>1 DEF WriteStage
    <3> QED BY <2>1, <3>1, StageOfWrite
  <2> QED BY <1>0, <1>4, <2>1, QueryLeadsOn
<1>5. CASE t.op = "delete" /\ Proceed(c, "modeAgain", t)
  <2>1. ASSUME quietly PROVE Stage(row, known, mode, "modeAgain", t)
    <3>1. DeleteStage(row, known, mode, "modeAgain", t)
      BY <1>5, <2>1 DEF DeleteStage
    <3> QED BY <2>1, <3>1, StageOfDelete
  <2> QED BY <1>0, <1>5, <2>1, QueryLeadsOn
<1> QED BY <1>1, <1>2, <1>3, <1>4, <1>5 DEF Resolved

LEMMA RightAtHome ==
  ASSUME NEW r, NEW k, NEW m, NEW t, t.slot = t.seat,
         m # "global" \/ r[t.seat].full \/ Searched(r, k, t, 5)
  PROVE  Right(r, k, m, t)
<1>1. CASE m # "global"
  BY <1>1 DEF Right
<1>2. CASE r[t.seat].full
  <2> DEFINE place == Places(r, k, t.seat, UnionOf(k, t))
  <2>1. place[1] = {t.seat}
    BY <1>2, ThePlaces
  <2>2. Shown(r, k, t.seat, UnionOf(k, t)) = {NewestIn(r, place[1])}
    <3>1. PICK n \in 1..5 : n = 1
      OBVIOUS
    <3>2. (\A i \in 1..(n - 1) : place[i] = {}) /\ place[n] # {}
      BY <2>1, <3>1
    <3>3. Shown(r, k, t.seat, UnionOf(k, t)) = {NewestIn(r, place[n])}
      BY <3>2, FirstIsShown
    <3> QED BY <3>1, <3>3
  <2>3. NewestIn(r, place[1]) = t.seat
    BY <2>1, NewestInIsOne
  <2> QED BY <2>2, <2>3 DEF Right
<1>3. CASE Searched(r, k, t, 5)
  <2>1. Shown(r, k, t.seat, UnionOf(k, t)) = {}
    BY <1>3, NothingIsShown DEF Searched
  <2> QED BY <2>1 DEF Right
<1> QED BY <1>1, <1>2, <1>3

(* The first place that has a record decides.                              *)
LEMMA RightFound ==
  ASSUME NEW r, NEW k, NEW t, NEW n \in 1..5, Searched(r, k, t, n - 1),
         Places(r, k, t.seat, UnionOf(k, t))[n] # {},
         t.slot = NewestIn(r, Places(r, k, t.seat, UnionOf(k, t))[n])
  PROVE  Right(r, k, "global", t)
<1>1. Shown(r, k, t.seat, UnionOf(k, t)) = {t.slot}
  BY FirstIsShown DEF Searched
<1> QED BY <1>1 DEF Right

(* One more place has been searched.                                       *)
LEMMA SearchedOn ==
  ASSUME NEW r, NEW k, NEW t, NEW n \in 0..4, Searched(r, k, t, n),
         Places(r, k, t.seat, UnionOf(k, t))[n + 1] = {}
  PROVE  Searched(r, k, t, n + 1)
<1>1. \A i \in 1..(n + 1) : i \in 1..n \/ i = n + 1
  OBVIOUS
<1> QED BY <1>1 DEF Searched

--------------------------------------------------------------------------------
(* One lemma per query: what it finds out, and that it finds it out.       *)

LEMMA AtQuietQuery ==
  ASSUME QInv, NEW c \in Clients, NEW p, Query(c, p), p # "idle"
  PROVE  /\ IInv /\ pc[c] = p /\ task[c] \in Tasks
         /\ task[c].seat \in Seats /\ task[c].slot \in Slots
         /\ mode \in {"group", "global"} /\ clock \in Nat
  BY AtQuery DEF QInv, IInv, TypeOK, Query

LEMMA ReadModeStage ==
  ASSUME QInv, NEW c \in Clients, ReadMode(c)
  PROVE  RecordInv' /\ PlanInv' /\ StageInv'
<1> DEFINE t == [task[c] EXCEPT !.global = (mode = "global")]
           quietly == quiet[c] /\ Stage(row, known, mode, "mode", task[c])
<1>0. Query(c, "mode") /\ UNCHANGED clock
  BY DEF ReadMode
<1>1. /\ t \in Tasks /\ (t.global <=> mode = "global") /\ t.seat = task[c].seat
      /\ t.slot = task[c].slot /\ t.msg = task[c].msg /\ t.op = task[c].op
      /\ t.union = task[c].union
  BY <1>0, AtQuietQuery, ZenonT(40) DEF Tasks
<1>2. \/ (t.global \/ t.op = "load") /\ Proceed(c, "current", t)
      \/ ~t.global /\ Resolved(c, t)
  BY DEF ReadMode
<1> HIDE DEF t
<1>3. ASSUME quietly
      PROVE  t.slot = t.seat /\ t.union = t.msg /\ (t.op \in WebOps => t.msg = NoUnion)
  BY <1>1, <1>3 DEF Stage, SearchStage
<1>4. CASE (t.global \/ t.op = "load") /\ Proceed(c, "current", t)
  <2>1. ASSUME quietly PROVE Stage(row, known, mode, "current", t)
    <3>1. SearchStage(row, known, mode, "current", t)
      BY <1>1, <1>3, <1>4, <2>1 DEF SearchStage, Searches
    <3> QED BY <1>3, <2>1, <3>1, StageOfSearch
  <2> QED BY <1>0, <1>4, <2>1, QueryLeadsOn
<1>5. CASE ~t.global /\ Resolved(c, t)
  <2>1. quietly => Right(row, known, mode, t) /\ (t.op \in WebOps => t.msg = NoUnion)
    BY <1>1, <1>3, <1>5, RightAtHome
  <2> QED BY <1>0, <1>1, <1>5, <2>1, ResolvedStage
<1> QED BY <1>2, <1>4, <1>5

LEMMA ReadCurrentStage ==
  ASSUME QInv, NEW c \in Clients, ReadCurrent(c)
  PROVE  RecordInv' /\ PlanInv' /\ StageInv'
<1> DEFINE t == [task[c] EXCEPT !.got = row[task[c].seat]]
           q == IF t.union = NoUnion THEN "profile" ELSE "byUnion"
           quietly == quiet[c] /\ Stage(row, known, mode, "current", task[c])
<1>0. Query(c, "current") /\ UNCHANGED clock
  BY DEF ReadCurrent
<1>1. /\ t \in Tasks /\ t.global = task[c].global /\ t.seat = task[c].seat
      /\ t.slot = task[c].slot /\ t.msg = task[c].msg /\ t.op = task[c].op
      /\ t.union = task[c].union /\ t.got = row[t.seat]
  <2>1. row[task[c].seat] \in Rows
    BY <1>0, AtQuietQuery, ARow DEF Slots
  <2> QED BY <1>0, <2>1, AtQuietQuery DEF Tasks
<1>2. \/ (t.got.full \/ ~t.global) /\ Resolved(c, t)
      \/ ~t.got.full /\ t.global /\ Proceed(c, q, t)
  BY DEF ReadCurrent
<1>3. /\ q \in {"profile", "byUnion"}
      /\ q = "profile" => t.union = NoUnion
      /\ q = "byUnion" => t.union # NoUnion
  OBVIOUS
<1> HIDE DEF t, q
<1>4. ASSUME quietly
      PROVE  /\ t.slot = t.seat /\ t.union = t.msg /\ (t.op \in WebOps => t.msg = NoUnion)
             /\ t.global <=> mode = "global"
  BY <1>1, <1>4 DEF Stage, SearchStage
<1>5. CASE (t.got.full \/ ~t.global) /\ Resolved(c, t)
  <2>1. quietly => Right(row, known, mode, t) /\ (t.op \in WebOps => t.msg = NoUnion)
    BY <1>1, <1>4, <1>5, RightAtHome
  <2> QED BY <1>0, <1>1, <1>5, <2>1, ResolvedStage
<1>6. CASE ~t.got.full /\ t.global /\ Proceed(c, q, t)
  <2>1. ASSUME quietly PROVE Stage(row, known, mode, q, t)
    <3>1. Places(row, known, t.seat, UnionOf(known, t))[1] = {}
      BY <1>1, <1>6, ThePlaces
    <3>2. Searched(row, known, t, 1)
      <4>1. \A i \in 1..1 : i = 1
        OBVIOUS
      <4> QED BY <3>1, <4>1 DEF Searched
    <3>3. SearchStage(row, known, mode, q, t)
      BY <1>3, <1>4, <1>6, <2>1, <3>2 DEF SearchStage, Searches, UnionOf
    <3>4. q \in Searches
      BY <1>3 DEF Searches
    <3> QED BY <1>4, <2>1, <3>3, <3>4, StageOfSearch
  <2>2. q # "put"
    BY <1>3
  <2> QED BY <1>0, <1>6, <2>1, <2>2, QueryLeadsOn
<1> QED BY <1>2, <1>5, <1>6

LEMMA ReadProfileStage ==
  ASSUME QInv, NEW c \in Clients, ReadProfile(c)
  PROVE  RecordInv' /\ PlanInv' /\ StageInv'
<1> DEFINE t == [task[c] EXCEPT !.union = known[task[c].seat]]
           q == IF known[task[c].seat] = NoUnion THEN "byOpenid" ELSE "byUnion"
           quietly == quiet[c] /\ Stage(row, known, mode, "profile", task[c])
<1>0. Query(c, "profile") /\ UNCHANGED clock
  BY DEF ReadProfile
<1>1. /\ t.seat = task[c].seat /\ t.slot = task[c].slot /\ t.msg = task[c].msg
      /\ t.op = task[c].op /\ t.global = task[c].global /\ t.union = known[t.seat]
  BY <1>0, AtQuietQuery DEF Tasks
<1>2. Proceed(c, q, t)
  BY DEF ReadProfile
<1>3. /\ q \in {"byOpenid", "byUnion"}
      /\ q = "byOpenid" => t.union = NoUnion
      /\ q = "byUnion" => t.union # NoUnion
  BY <1>1
<1> HIDE DEF t, q
<1>4. ASSUME quietly PROVE Stage(row, known, mode, q, t)
  <2>1. /\ t.slot = t.seat /\ t.msg = NoUnion /\ t.global /\ mode = "global"
        /\ Searched(row, known, task[c], 1)
    BY <1>1, <1>4 DEF Stage, SearchStage, Searches
  <2>2. Searched(row, known, t, 1) /\ t.union = UnionOf(known, t)
    BY <1>1, <2>1, SameSearch DEF UnionOf
  <2>3. ASSUME q = "byOpenid"
        PROVE  Searched(row, known, t, 2) /\ Searched(row, known, t, 3)
    <3>1. /\ Places(row, known, t.seat, UnionOf(known, t))[2] = {}
          /\ Places(row, known, t.seat, UnionOf(known, t))[3] = {}
      BY <1>3, <2>2, <2>3, ThePlaces
    <3>2. \A i \in 1..3 : i \in 1..1 \/ i = 2 \/ i = 3
      OBVIOUS
    <3> QED BY <2>2, <3>1, <3>2 DEF Searched
  <2>4. SearchStage(row, known, mode, q, t)
    BY <1>3, <2>1, <2>2, <2>3 DEF SearchStage, Searches
  <2>5. q \in Searches
    BY <1>3 DEF Searches
  <2> QED BY <2>1, <2>4, <2>5, StageOfSearch
<1>5. q # "put"
  BY <1>3
<1> QED BY <1>0, <1>2, <1>4, <1>5, QueryLeadsOn

(* A search of the v7 records looks at exactly one of the places: without  *)
(* courses in the member's own record, leaving that out changes nothing.   *)
LEMMA SearchStages ==
  ASSUME QInv, NEW c \in Clients, NEW p \in {"byUnion", "byOpenid"}, NEW found,
         NEW q \in {"legacyByUnion", "legacyByOpenid"}, Search(c, p, found, q),
         NEW n \in {2, 4}, p = "byUnion" => n = 2 /\ q = "legacyByUnion",
         p = "byOpenid" => n = 4 /\ q = "legacyByOpenid",
         quiet[c] /\ Stage(row, known, mode, p, task[c]) =>
           found = Places(row, known, task[c].seat, UnionOf(known, task[c]))[n]
  PROVE  RecordInv' /\ PlanInv' /\ StageInv'
<1> DEFINE quietly == quiet[c] /\ Stage(row, known, mode, p, task[c])
           t == [task[c] EXCEPT !.slot = Newest(found)]
<1>0. Query(c, p) /\ UNCHANGED clock
  BY DEF Search
<1>1. ASSUME quietly
      PROVE  /\ mode = "global" /\ task[c].global /\ Searched(row, known, task[c], n - 1)
             /\ task[c].union = UnionOf(known, task[c])
             /\ task[c].slot = task[c].seat
             /\ task[c].op \in WebOps => task[c].msg = NoUnion
             /\ p = "byUnion" => task[c].union # NoUnion
             /\ Searched(row, known, task[c], 1)
             /\ p = "byOpenid" => Searched(row, known, task[c], 2)
  BY <1>1 DEF Stage, SearchStage, Searches
<1>2. CASE found = {} /\ Proceed(c, q, task[c])
  <2>1. ASSUME quietly PROVE Stage(row, known, mode, q, task[c])
    <3>1. Searched(row, known, task[c], n)
      <4>1. n - 1 \in 0..4 /\ (n - 1) + 1 = n
        OBVIOUS
      <4>2. Places(row, known, task[c].seat, UnionOf(known, task[c]))[(n - 1) + 1] = {}
        BY <1>2, <2>1, <4>1
      <4>3. Searched(row, known, task[c], (n - 1) + 1)
        BY <1>1, <2>1, <4>1, <4>2, SearchedOn
      <4> QED BY <4>1, <4>3
    <3>2. SearchStage(row, known, mode, q, task[c])
      <4>1. n = 4 => Searched(row, known, task[c], 3)
        BY <1>1, <2>1
      <4> QED BY <1>1, <2>1, <3>1, <4>1 DEF SearchStage, Searches
    <3> QED BY <1>1, <2>1, <3>2, StageOfSearch DEF Searches
  <2> QED BY <1>0, <1>2, <2>1, QueryLeadsOn
<1>3. CASE found # {} /\ Proceed(c, "found", t)
  <2>1. t.seat = task[c].seat /\ t.msg = task[c].msg /\ t.op = task[c].op
        /\ t.slot = Newest(found)
    BY <1>0, AtQuietQuery DEF Tasks
  <2>2. Proceed(c, "found", t)
    BY <1>3
  <2> HIDE DEF t
  <2>3. ASSUME quietly PROVE Stage(row, known, mode, "found", t)
    <3>1. UnionOf(known, t) = UnionOf(known, task[c]) /\ Searched(row, known, t, n - 1)
      BY <1>1, <2>1, <2>3, SameSearch
    <3>2. found = Places(row, known, t.seat, UnionOf(known, t))[n]
      BY <2>1, <2>3, <3>1
    <3>3. t.slot = NewestIn(row, found) /\ t.slot \in found
      BY <1>3, <2>1, NewestInIsOne DEF Newest
    <3>4. Right(row, known, mode, t)
      BY <1>1, <1>3, <2>3, <3>1, <3>2, <3>3, RightFound
    <3>5. row[t.slot].full
      BY <3>2, <3>3, ThePlaces
    <3>6. SearchStage(row, known, mode, "found", t)
      BY <3>4, <3>5 DEF SearchStage, Searches
    <3> QED BY <1>1, <2>1, <2>3, <3>6, StageOfSearch
  <2> QED BY <1>0, <2>2, <2>3, QueryLeadsOn
<1> QED BY <1>2, <1>3 DEF Search

LEMMA FindStage ==
  ASSUME QInv, NEW c \in Clients, FindByUnion(c) \/ FindByOpenid(c)
  PROVE  RecordInv' /\ PlanInv' /\ StageInv'
<1> DEFINE place == Places(row, known, task[c].seat, UnionOf(known, task[c]))
<1>1. ASSUME NEW p \in {"byUnion", "byOpenid"}, quiet[c], Stage(row, known, mode, p, task[c]),
             task[c].seat \in Seats
      PROVE  ~row[task[c].seat].full /\ task[c].union = UnionOf(known, task[c])
             /\ (p = "byUnion" => task[c].union # NoUnion)
  <2>1. Searched(row, known, task[c], 1) /\ task[c].union = UnionOf(known, task[c])
        /\ (p = "byUnion" => task[c].union # NoUnion)
    BY <1>1 DEF Stage, SearchStage, Searches
  <2>2. place[1] = {}
    BY <2>1 DEF Searched
  <2> QED BY <2>1, <2>2, ThePlaces
<1>2. CASE FindByUnion(c)
  <2>1. Search(c, "byUnion", ByUnion(task[c].union) \ {task[c].seat}, "legacyByUnion")
    BY <1>2 DEF FindByUnion
  <2>2. task[c].seat \in Seats
    BY <2>1, AtQuietQuery DEF Search
  <2>3. quiet[c] /\ Stage(row, known, mode, "byUnion", task[c]) =>
           ByUnion(task[c].union) \ {task[c].seat} = place[2]
    BY <1>1, <2>2, ThePlaces DEF ByUnion
  <2> QED BY <2>1, <2>3, SearchStages
<1>3. CASE FindByOpenid(c)
  <2>1. Search(c, "byOpenid", ByOpenid(task[c].seat.member, task[c].union) \ {task[c].seat},
               "legacyByOpenid")
    BY <1>3 DEF FindByOpenid
  <2>2. task[c].seat \in Seats
    BY <2>1, AtQuietQuery DEF Search
  <2>3. quiet[c] /\ Stage(row, known, mode, "byOpenid", task[c]) =>
           ByOpenid(task[c].seat.member, task[c].union) \ {task[c].seat} = place[4]
    BY <1>1, <2>2, ThePlaces DEF ByOpenid
  <2> QED BY <2>1, <2>3, SearchStages
<1> QED BY <1>2, <1>3

LEMMA FindLegacyByUnionStage ==
  ASSUME QInv, NEW c \in Clients, FindLegacyByUnion(c)
  PROVE  RecordInv' /\ PlanInv' /\ StageInv'
<1> DEFINE u == task[c].union
           found == {l \in Legacies : row[l].full /\ l.scope = u /\ l.user = u}
           quietly == quiet[c] /\ Stage(row, known, mode, "legacyByUnion", task[c])
           place == Places(row, known, task[c].seat, UnionOf(known, task[c]))
<1>0. Query(c, "legacyByUnion") /\ UNCHANGED clock
  BY DEF FindLegacyByUnion
<1>1. ASSUME quietly
      PROVE  /\ mode = "global" /\ task[c].global /\ task[c].slot = task[c].seat
             /\ u = UnionOf(known, task[c])
             /\ Searched(row, known, task[c], 1) /\ Searched(row, known, task[c], 2)
             /\ task[c].op \in WebOps => task[c].msg = NoUnion
             /\ found = place[3]
  <2>1. /\ mode = "global" /\ task[c].global /\ task[c].slot = task[c].seat
        /\ u = UnionOf(known, task[c]) /\ u # NoUnion
        /\ Searched(row, known, task[c], 1) /\ Searched(row, known, task[c], 2)
        /\ task[c].op \in WebOps => task[c].msg = NoUnion
    BY <1>1 DEF Stage, SearchStage, Searches
  <2>2. found = place[3]
    BY <2>1, ThePlaces
  <2> QED BY <2>1, <2>2
<1>2. CASE found = {} /\ Proceed(c, "byOpenid", task[c])
  <2>1. ASSUME quietly PROVE Stage(row, known, mode, "byOpenid", task[c])
    <3>1. place[3] = {}
      BY <1>1, <1>2, <2>1
    <3>2. Searched(row, known, task[c], 3)
      <4>1. \A i \in 1..3 : i \in 1..2 \/ i = 3
        OBVIOUS
      <4> QED BY <1>1, <2>1, <3>1, <4>1 DEF Searched
    <3>3. SearchStage(row, known, mode, "byOpenid", task[c])
      BY <1>1, <2>1, <3>2 DEF SearchStage, Searches
    <3> QED BY <1>1, <2>1, <3>3, StageOfSearch DEF Searches
  <2> QED BY <1>0, <1>2, <2>1, QueryLeadsOn
<1>3. ASSUME NEW l \in found, Resolved(c, [task[c] EXCEPT !.slot = l, !.got = row[l]])
      PROVE  RecordInv' /\ PlanInv' /\ StageInv'
  <2> DEFINE t == [task[c] EXCEPT !.slot = l, !.got = row[l]]
  <2>1. row[l] \in Rows /\ l \in Slots
    BY <1>0, AtQuietQuery, ARow DEF Slots
  <2>2. /\ t \in Tasks /\ t.seat = task[c].seat /\ t.slot = l /\ t.msg = task[c].msg
        /\ t.op = task[c].op
    BY <1>0, <2>1, AtQuietQuery, ZenonT(40) DEF Tasks
  <2>3. Resolved(c, t)
    BY <1>3
  <2> HIDE DEF t
  <2>4. ASSUME quietly PROVE Right(row, known, mode, t)
    <3>1. UnionOf(known, t) = UnionOf(known, task[c]) /\ Searched(row, known, t, 2)
      BY <1>1, <2>2, <2>4, SameSearch
    <3>2. found = Places(row, known, t.seat, UnionOf(known, t))[3]
      BY <1>1, <2>2, <2>4, <3>1
    <3>3. found = {l}
      <4>1. ASSUME NEW k \in found PROVE k = l
        BY <1>3, KeysAssumption
      <4> QED BY <1>3, <4>1
    <3>4. NewestIn(row, found) = l
      BY <3>3, NewestInIsOne
    <3>5. PICK n \in 1..5 : n = 3 /\ n - 1 = 2
      OBVIOUS
    <3> HIDE DEF found
    <3>6. Searched(row, known, t, n - 1) /\ found = Places(row, known, t.seat, UnionOf(known, t))[n]
      BY <3>1, <3>2, <3>5
    <3>7. found # {} /\ t.slot = NewestIn(row, found)
      BY <2>2, <3>3, <3>4
    <3>8. Right(row, known, "global", t)
      BY <3>6, <3>7, RightFound
    <3> QED BY <1>1, <2>4, <3>8
  <2>5. quietly => Right(row, known, mode, t) /\ (t.op \in WebOps => t.msg = NoUnion)
    BY <1>1, <2>2, <2>4
  <2> QED BY <1>0, <2>2, <2>3, <2>5, ResolvedStage
<1>4. \/ found = {} /\ Proceed(c, "byOpenid", task[c])
      \/ \E l \in found : Resolved(c, [task[c] EXCEPT !.slot = l, !.got = row[l]])
  BY DEF FindLegacyByUnion
<1> QED BY <1>2, <1>3, <1>4

LEMMA FindLegacyByOpenidStage ==
  ASSUME QInv, NEW c \in Clients, FindLegacyByOpenid(c)
  PROVE  RecordInv' /\ PlanInv' /\ StageInv'
<1> DEFINE found == LegacyByOpenid(task[c].seat.member)
           t == [task[c] EXCEPT !.slot = Newest(found)]
           quietly == quiet[c] /\ Stage(row, known, mode, "legacyByOpenid", task[c])
<1>0. Query(c, "legacyByOpenid") /\ UNCHANGED clock
  BY DEF FindLegacyByOpenid
<1>1. ASSUME quietly
      PROVE  /\ mode = "global" /\ task[c].slot = task[c].seat
             /\ Searched(row, known, task[c], 4)
             /\ task[c].op \in WebOps => task[c].msg = NoUnion
  BY <1>1 DEF Stage, SearchStage, Searches
<1>2. found = Places(row, known, task[c].seat, UnionOf(known, task[c]))[5]
  BY ThePlaces DEF LegacyByOpenid
<1>3. \/ found = {} /\ Resolved(c, task[c])
      \/ found # {} /\ Proceed(c, "found", t)
  BY DEF FindLegacyByOpenid
<1>4. CASE found = {} /\ Resolved(c, task[c])
  <2>1. ASSUME quietly PROVE Right(row, known, mode, task[c])
    <3>1. \A i \in 1..5 : i \in 1..4 \/ i = 5
      OBVIOUS
    <3>2. Searched(row, known, task[c], 5)
      BY <1>1, <1>2, <1>4, <2>1, <3>1 DEF Searched
    <3> QED BY <1>1, <2>1, <3>2, RightAtHome
  <2>2. task[c] \in Tasks
    BY <1>0, AtQuietQuery
  <2>3. quietly => Right(row, known, mode, task[c]) /\ (task[c].op \in WebOps => task[c].msg = NoUnion)
    BY <1>1, <2>1
  <2> QED BY <1>0, <1>4, <2>2, <2>3, ResolvedStage
<1>5. CASE found # {} /\ Proceed(c, "found", t)
  <2>1. /\ t.seat = task[c].seat /\ t.msg = task[c].msg /\ t.op = task[c].op
        /\ t.slot = NewestIn(row, found)
    BY <1>0, AtQuietQuery DEF Tasks, Newest
  <2>2. Proceed(c, "found", t)
    BY <1>5
  <2> HIDE DEF t, found
  <2>3. ASSUME quietly PROVE Stage(row, known, mode, "found", t)
    <3>1. UnionOf(known, t) = UnionOf(known, task[c]) /\ Searched(row, known, t, 4)
      BY <1>1, <2>1, <2>3, SameSearch
    <3>2. PICK n \in 1..5 : n = 5 /\ n - 1 = 4
      OBVIOUS
    <3>3. Searched(row, known, t, n - 1) /\ found = Places(row, known, t.seat, UnionOf(known, t))[n]
      BY <1>2, <2>1, <3>1, <3>2
    <3>4. Right(row, known, "global", t)
      BY <1>5, <2>1, <3>3, RightFound
    <3>5. t.slot \in found
      BY <1>5, <2>1, NewestInIsOne
    <3>6. row[t.slot].full
      BY <1>2, <3>5, ThePlaces
    <3>7. SearchStage(row, known, mode, "found", t)
      BY <1>1, <2>3, <3>4, <3>6 DEF SearchStage, Searches
    <3> QED BY <1>1, <2>1, <2>3, <3>7, StageOfSearch
  <2> QED BY <1>0, <2>2, <2>3, QueryLeadsOn
<1> QED BY <1>3, <1>4, <1>5

(* The record that was found is still there.                               *)
LEMMA ReadFoundStage ==
  ASSUME QInv, NEW c \in Clients, ReadFound(c)
  PROVE  RecordInv' /\ PlanInv' /\ StageInv'
<1> DEFINE s == task[c].slot
           gone == IF s \in Seats THEN row[s].rev = 0 ELSE ~row[s].full
           t == IF gone THEN [task[c] EXCEPT !.slot = task[c].seat]
                ELSE [task[c] EXCEPT !.got = row[s]]
           quietly == quiet[c] /\ Stage(row, known, mode, "found", task[c])
<1>0. Query(c, "found") /\ UNCHANGED clock /\ Resolved(c, t)
  BY DEF ReadFound
<1>1. t \in Tasks
  <2>1. row[s] \in Rows /\ task[c].seat \in Slots
    BY <1>0, AtQuietQuery, ARow DEF Slots
  <2> QED BY <1>0, <2>1, AtQuietQuery DEF Tasks
<1>2. ASSUME quietly
      PROVE  Right(row, known, mode, t) /\ (t.op \in WebOps => t.msg = NoUnion)
  <2>1. /\ row[s].full /\ Right(row, known, mode, task[c])
        /\ task[c].op \in WebOps => task[c].msg = NoUnion
    BY <1>2 DEF Stage, SearchStage
  <2>2. ~gone
    BY <1>0, <2>1, AtQuietQuery DEF QInv, RecordInv
  <2>3. t.seat = task[c].seat /\ t.msg = task[c].msg /\ t.slot = s /\ t.op = task[c].op
    BY <1>0, <2>2, AtQuietQuery DEF Tasks
  <2> HIDE DEF t
  <2> QED BY <2>1, <2>3, SameSearch
<1> HIDE DEF t
<1> QED BY <1>0, <1>1, <1>2, ResolvedStage

LEMMA ReadIdentityStage ==
  ASSUME QInv, NEW c \in Clients, ReadIdentity(c)
  PROVE  RecordInv' /\ PlanInv' /\ StageInv'
<1> DEFINE t == [task[c] EXCEPT !.iu = known[task[c].slot]]
           quietly == quiet[c] /\ Stage(row, known, mode, "identity", task[c])
<1>0. Query(c, "identity") /\ UNCHANGED clock /\ Proceed(c, "target", t)
  BY DEF ReadIdentity
<1>1. /\ t.seat = task[c].seat /\ t.msg = task[c].msg /\ t.slot = task[c].slot
      /\ t.op = task[c].op /\ t.iu = known[t.slot]
  BY <1>0, AtQuietQuery DEF Tasks
<1> HIDE DEF t
<1>2. ASSUME quietly PROVE Stage(row, known, mode, "target", t)
  <2>1. /\ Right(row, known, mode, task[c]) /\ task[c].msg = NoUnion
        /\ task[c].op = "import" /\ task[c].slot \in Seats
        /\ task[c].op \in WebOps => task[c].msg = NoUnion
    BY <1>2 DEF Stage, WriteStage
  <2>2. Right(row, known, mode, t)
    BY <1>1, <2>1, SameSearch
  <2>3. WriteStage(row, known, mode, "target", t)
    BY <1>1, <2>1, <2>2 DEF WriteStage, Named
  <2> QED BY <1>1, <2>1, <2>3, StageOfWrite
<1> QED BY <1>0, <1>2, QueryLeadsOn

(* The time that is taken is later than every record's.                    *)
LEMMA ReadTargetStage ==
  ASSUME QInv, NEW c \in Clients, ReadTarget(c)
  PROVE  RecordInv' /\ PlanInv' /\ StageInv'
<1> DEFINE t == task[c]
           got == row[t.slot]
           u == [t EXCEPT !.got = got, !.at = IF t.op = "nickname" THEN got.at ELSE clock + 1,
                          !.iu = IF t.op = "import" THEN t.iu ELSE got.iu]
           quietly == quiet[c] /\ Stage(row, known, mode, "target", t)
<1>0. Query(c, "target")
  BY DEF ReadTarget
<1>1. CASE (Return(c, "notfound") \/ Return(c, "ok")) /\ UNCHANGED clock
  <2>1. UNCHANGED <<row, known, mode, clock, quiet>>
    BY <1>0, <1>1 DEF Query
  <2> QED BY <1>1, <2>1, ReturnEnds
<1>2. CASE /\ clock' = IF t.op = "nickname" THEN clock ELSE clock + 1
           /\ Proceed(c, "put", u)
  <2>0. UNCHANGED <<row, known, mode, quiet>> /\ clock \in Nat
    BY <1>0, AtQuietQuery DEF Query
  <2>1. clock' \in Nat /\ clock <= clock'
    BY <1>2, <2>0
  <2>2. /\ u.seat = t.seat /\ u.msg = t.msg /\ u.slot = t.slot /\ u.op = t.op
        /\ u.at = IF t.op = "nickname" THEN got.at ELSE clock + 1
        /\ u.iu = IF t.op = "import" THEN t.iu ELSE got.iu
    BY <1>0, AtQuietQuery DEF Tasks
  <2>3. \A s \in Slots : row[s].at \in Nat /\ row[s].at <= clock
    BY <1>0, AtQuietQuery, ARow DEF QInv, RecordInv, Rows
  <2>4. t.slot \in Slots
    BY <1>0, AtQuietQuery
  <2>5. Proceed(c, "put", u)
    BY <1>2
  <2> HIDE DEF u
  <2>6. RecordInv'
    <3>1. \A s \in Slots : row'[s].at <= clock'
      BY <2>0, <2>1, <2>3
    <3> QED BY <2>0, <3>1 DEF QInv, RecordInv
  <2>7. u.at <= clock'
    BY <1>2, <2>0, <2>2, <2>3, <2>4
  <2>8. PlanInv'
    BY <2>1, <2>5, <2>7, PlanMoves DEF Proceed
  <2>9. ASSUME quietly PROVE Stage(row, known, mode, "put", u)
    <3>1. /\ Right(row, known, mode, t) /\ t.op \in {"import", "nickname", "upload", "save"}
          /\ t.op # "save" => t.slot \in Seats
          /\ t.op = "import" => t.iu = Named(known, t)
          /\ t.op \in WebOps => t.msg = NoUnion
      BY <2>9 DEF Stage, WriteStage
    <3>2. Right(row, known, mode, u) /\ Named(known, u) = Named(known, t)
      BY <2>2, <3>1, SameSearch DEF Named
    <3>3. u.op \in {"import", "upload"} => \A s \in Slots : row[s].at < u.at
      BY <2>0, <2>2, <2>3
    <3>4. WriteStage(row, known, mode, "put", u)
      BY <2>2, <3>1, <3>2, <3>3 DEF WriteStage
    <3> QED BY <2>2, <3>1, <3>4, StageOfWrite
  <2>10. StageInv'
    <3>1. quiet[c] => Stage(row, known, mode, "target", t)
      BY <1>0 DEF QInv, StageInv, Query
    <3>2. quiet'[c] => Stage(row', known', mode', "put", u)
      BY <2>0, <2>9, <3>1
    <3>3. \A d \in Clients \ {c} : quiet'[d] => quiet[d] /\ UNCHANGED <<row, known, mode>>
      BY <2>0
    <3> QED BY <2>5, <3>2, <3>3, StageMoves DEF Proceed
  <2> QED BY <2>6, <2>8, <2>10
<1> QED BY <1>1, <1>2 DEF ReadTarget

(* A step after which no other call is undisturbed.                        *)
LEMMA DisturbsOthers ==
  ASSUME QInv, NEW c \in Clients, Disturb(c)
  PROVE  /\ \A d \in Clients \ {c} : ~quiet'[d]
         /\ quiet'[c] => quiet[c]
  BY DEF Disturb

LEMMA PutStage ==
  ASSUME QInv, NEW c \in Clients, Put(c)
  PROVE  RecordInv' /\ PlanInv' /\ StageInv'
<1> DEFINE t == task[c]
           s == t.slot
<1>0. /\ IInv /\ pc[c] = "put" /\ t \in Tasks /\ s \in Slots /\ t.at \in Nat /\ clock \in Nat
      /\ UNCHANGED <<mode, clock>>
  BY AtQuery DEF Put, QInv, IInv, TypeOK, Tasks
<1>1. CASE /\ \E full \in CASE t.op = "save" -> BOOLEAN
                            [] t.op = "nickname" -> {t.got.full}
                            [] OTHER -> {TRUE} :
                row' = [row EXCEPT ![s] = [rev |-> row[s].rev + 1, full |-> full,
                                           at |-> t.at, iu |-> t.iu]]
           /\ known' = IF s \in Seats /\ t.iu # NoUnion THEN [known EXCEPT ![s] = t.iu] ELSE known
           /\ Disturb(c)
           /\ Return(c, "ok")
  <2>1. PICK new : row' = [row EXCEPT ![s] = new] /\ new.rev = row[s].rev + 1
                   /\ new.at = t.at /\ new.iu = t.iu
    BY <1>1
  <2>2. row[s].rev \in Nat
    BY <1>0, ARow DEF Rows
  <2>3. RecordInv'
    <3>1. ASSUME NEW x \in Slots
          PROVE  row'[x].at <= clock' /\ (row'[x].full => row'[x].rev > 0)
      <4>1. t.at <= clock
        BY <1>0 DEF QInv, PlanInv
      <4>2. CASE x = s
        <5>1. row'[x] = new
          BY <1>0, <2>1, <4>2 DEF IInv, TypeOK
        <5> QED BY <1>0, <2>1, <2>2, <4>1, <5>1
      <4>3. CASE x # s
        <5>1. row'[x] = row[x]
          BY <1>0, <2>1, <4>3 DEF IInv, TypeOK
        <5> QED BY <1>0, <5>1 DEF QInv, RecordInv
      <4> QED BY <4>2, <4>3
    <3>2. ASSUME NEW x \in Seats, row'[x].iu # NoUnion
          PROVE  known'[x] # NoUnion
      <4>0. x \in Slots
        BY DEF Slots
      <4>1. CASE x = s
        <5>1. t.iu # NoUnion
          BY <1>0, <2>1, <3>2, <4>0, <4>1 DEF IInv, TypeOK
        <5> QED BY <1>0, <1>1, <4>1, <5>1 DEF IInv, TypeOK
      <4>2. CASE x # s
        <5>1. row'[x] = row[x]
          BY <1>0, <2>1, <4>0, <4>2 DEF IInv, TypeOK
        <5>2. known'[x] = known[x]
          BY <1>0, <1>1, <4>2 DEF IInv, TypeOK
        <5> QED BY <3>2, <5>1, <5>2 DEF QInv, RecordInv
      <4> QED BY <4>1, <4>2
    <3> QED BY <3>1, <3>2 DEF RecordInv
  <2>4. clock' \in Nat /\ clock <= clock'
    BY <1>0
  <2>5. PlanInv'
    BY <1>1, <2>4, PlanMoves DEF Return
  <2>6. StageInv'
    BY <1>1, DisturbsOthers, StageMoves DEF Return
  <2> QED BY <2>3, <2>5, <2>6
<1>2. CASE /\ t.op = "nickname" /\ Proceed(c, "target", [t EXCEPT !.tries = 1])
           /\ UNCHANGED <<row, known, quiet>>
  <2> DEFINE u == [t EXCEPT !.tries = 1]
  <2>1. /\ u.seat = t.seat /\ u.msg = t.msg /\ u.slot = t.slot /\ u.op = t.op
    BY <1>0 DEF Tasks
  <2>2. Proceed(c, "target", u)
    BY <1>2
  <2> HIDE DEF u
  <2>3. quiet'[c] => Stage(row', known', mode', "target", u)
    <3> SUFFICES ASSUME quiet[c] PROVE Stage(row, known, mode, "target", u)
      BY <1>0, <1>2
    <3>1. /\ Right(row, known, mode, t) /\ t.slot \in Seats
          /\ t.op \in WebOps => t.msg = NoUnion
      BY <1>0, <1>2 DEF QInv, StageInv, Stage, WriteStage
    <3>2. Right(row, known, mode, u)
      BY <2>1, <3>1, SameSearch
    <3>3. WriteStage(row, known, mode, "target", u)
      BY <1>2, <2>1, <3>1, <3>2 DEF WriteStage
    <3> QED BY <2>1, <3>1, <3>3, StageOfWrite
  <2>4. StageInv'
    BY <1>0, <1>2, <2>2, <2>3, StageMoves DEF Proceed
  <2>5. clock' \in Nat /\ clock <= clock'
    BY <1>0
  <2>6. PlanInv'
    BY <2>2, <2>5, PlanMoves DEF Proceed
  <2>7. RecordInv'
    BY <1>0, <1>2 DEF QInv, RecordInv
  <2> QED BY <2>4, <2>6, <2>7
<1>3. CASE Return(c, "conflict") /\ UNCHANGED <<row, known, quiet>>
  <2>1. UNCHANGED <<row, known, mode, clock, quiet>>
    BY <1>0, <1>3
  <2> QED BY <1>3, <2>1, ReturnEnds
<1> QED BY <1>1, <1>2, <1>3 DEF Put

LEMMA ReadAgainStage ==
  ASSUME QInv, NEW c \in Clients, ReadModeAgain(c) \/ ReadProfileAgain(c) \/ DeleteRefused(c)
  PROVE  RecordInv' /\ PlanInv' /\ StageInv'
<1>1. CASE ReadModeAgain(c)
  <2> DEFINE t == [task[c] EXCEPT !.global = (mode = "global")]
             quietly == quiet[c] /\ Stage(row, known, mode, "modeAgain", task[c])
  <2>0. Query(c, "modeAgain") /\ UNCHANGED clock /\ Proceed(c, "profileAgain", t)
    BY <1>1 DEF ReadModeAgain
  <2>1. /\ t.seat = task[c].seat /\ t.msg = task[c].msg /\ t.slot = task[c].slot
        /\ t.op = task[c].op /\ (t.global <=> mode = "global")
    BY <2>0, AtQuietQuery, ZenonT(40) DEF Tasks
  <2> HIDE DEF t
  <2>2. ASSUME quietly PROVE Stage(row, known, mode, "profileAgain", t)
    <3>1. /\ Right(row, known, mode, task[c]) /\ task[c].op = "delete"
          /\ task[c].op \in WebOps => task[c].msg = NoUnion
      BY <2>2 DEF Stage, DeleteStage
    <3>2. Right(row, known, mode, t)
      BY <2>1, <3>1, SameSearch
    <3>3. DeleteStage(row, known, mode, "profileAgain", t)
      BY <2>1, <3>1, <3>2 DEF DeleteStage
    <3> QED BY <2>1, <3>1, <3>3, StageOfDelete
  <2> QED BY <2>0, <2>2, QueryLeadsOn
<1>2. CASE ReadProfileAgain(c)
  <2> DEFINE t == [task[c] EXCEPT !.union = known[task[c].seat]]
             quietly == quiet[c] /\ Stage(row, known, mode, "profileAgain", task[c])
  <2>0. Query(c, "profileAgain") /\ UNCHANGED clock /\ Proceed(c, "delete", t)
    BY <1>2 DEF ReadProfileAgain
  <2>1. /\ t.seat = task[c].seat /\ t.msg = task[c].msg /\ t.slot = task[c].slot
        /\ t.op = task[c].op /\ t.global = task[c].global /\ t.union = known[t.seat]
    BY <2>0, AtQuietQuery DEF Tasks
  <2> HIDE DEF t
  <2>2. ASSUME quietly PROVE Stage(row, known, mode, "delete", t)
    <3>1. /\ Right(row, known, mode, task[c]) /\ task[c].op = "delete"
          /\ task[c].op \in WebOps => task[c].msg = NoUnion
          /\ task[c].global <=> mode = "global"
      BY <2>2 DEF Stage, DeleteStage
    <3>2. Right(row, known, mode, t)
      BY <2>1, <3>1, SameSearch
    <3>3. DeleteStage(row, known, mode, "delete", t)
      BY <2>1, <3>1, <3>2 DEF DeleteStage
    <3> QED BY <2>1, <3>1, <3>3, StageOfDelete
  <2> QED BY <2>0, <2>2, QueryLeadsOn
<1>3. CASE DeleteRefused(c)
  <2>0. Query(c, "delete") /\ UNCHANGED clock /\ Proceed(c, "exists", task[c])
    BY <1>3 DEF DeleteRefused
  <2>1. ASSUME Stage(row, known, mode, "delete", task[c])
        PROVE  Stage(row, known, mode, "exists", task[c])
    <3>1. DeleteStage(row, known, mode, "exists", task[c])
      BY <2>1 DEF Stage, DeleteStage
    <3> QED BY <2>1, <3>1, StageOfDelete DEF Stage
  <2> QED BY <2>0, <2>1, QueryLeadsOn
<1> QED BY <1>1, <1>2, <1>3

LEMMA EndsStage ==
  ASSUME QInv, NEW c \in Clients, ReadExists(c) \/ Fail(c)
  PROVE  RecordInv' /\ PlanInv' /\ StageInv'
<1>1. UNCHANGED <<row, known, mode, clock, quiet>> /\ \E a : Return(c, a)
  BY DEF ReadExists, Fail, Query
<1> QED BY <1>1, ReturnEnds

(* Removing records breaks nothing that is said of every record.           *)
LEMMA RemoveKeepsRecords ==
  ASSUME QInv, NEW c, NEW S, Remove(c, S)
  PROVE  RecordInv'
<1>1. clock \in Nat /\ UNCHANGED <<known, clock>>
  BY DEF Remove, QInv, IInv, TypeOK
<1>2. ASSUME NEW s \in Slots PROVE row'[s] \in {NoRow, row[s]}
  BY DEF Remove
<1>3. NoRow.at = 0 /\ ~NoRow.full /\ NoRow.iu = NoUnion
  BY DEF NoRow
<1>4. Seats \subseteq Slots
  BY DEF Slots
<1> QED BY <1>1, <1>2, <1>3, <1>4 DEF QInv, RecordInv

(* What is left after the deletion in bulk is in none of the places in     *)
(* groups: the query that deletes matches the queries that find.           *)
LEMMA GroupIsCleared ==
  ASSUME NEW t, t.seat \in Seats, t.msg = NoUnion, t.union = known[t.seat],
         row' = [s \in Slots |-> IF s \in MatchingGroup(t.seat, t.union) THEN NoRow ELSE row[s]]
  PROVE  Cleared(row', known, t)
<1> DEFINE u == UnionOf(known, t)
           place == Places(row', known, t.seat, u)
<1>1. u = t.union
  BY DEF UnionOf
<1>2. ASSUME NEW s \in Seats, row'[s].full
      PROVE  s \notin MatchingGroup(t.seat, u) /\ row'[s] = row[s]
  <2>1. row'[s] = IF s \in MatchingGroup(t.seat, u) THEN NoRow ELSE row[s]
    BY <1>1 DEF Slots
  <2> QED BY <1>2, <2>1 DEF NoRow
<1> HIDE DEF u
<1>3. place[1] = {}
  <2>1. ASSUME NEW s \in place[1] PROVE FALSE
    <3>1. s = t.seat /\ row'[s].full
      BY <2>1, ThePlaces
    <3> QED BY <1>2, <3>1 DEF MatchingGroup
  <2> QED BY <2>1
<1>4. place[2] = {}
  <2>1. ASSUME NEW s \in place[2] PROVE FALSE
    <3>1. s \in Seats /\ row'[s].full /\ u # NoUnion /\ u \in {known[s], row'[s].iu}
      BY <2>1, ThePlaces
    <3> QED BY <1>2, <3>1 DEF MatchingGroup
  <2> QED BY <2>1
<1>5. place[4] = {}
  <2>1. ASSUME NEW s \in place[4] PROVE FALSE
    <3>1. /\ s \in Seats /\ row'[s].full /\ s.member = t.seat.member
          /\ u # NoUnion => known[s] = NoUnion /\ row'[s].iu = NoUnion
      BY <2>1, ThePlaces
    <3> QED BY <1>2, <3>1 DEF MatchingGroup
  <2> QED BY <2>1
<1> QED BY <1>3, <1>4, <1>5 DEF Cleared, u

LEMMA DeletionStage ==
  ASSUME QInv, NEW c \in Clients, DeleteExact(c) \/ DeleteGroup(c) \/ DeleteLegacy(c)
  PROVE  RecordInv' /\ PlanInv' /\ StageInv'
<1>1. PICK S : Remove(c, S)
  BY DEF DeleteExact, DeleteGroup, DeleteLegacy
<1>2. RecordInv'
  BY <1>1, RemoveKeepsRecords
<1>3. /\ UNCHANGED <<known, mode, clock>> /\ clock' \in Nat /\ clock <= clock'
      /\ \A d \in Clients \ {c} : ~quiet'[d]
      /\ quiet'[c] => quiet[c]
  <2>1. UNCHANGED <<known, mode, clock>> /\ Disturb(c) /\ clock \in Nat
    BY <1>1 DEF Remove, QInv, IInv, TypeOK
  <2> QED BY <2>1, DisturbsOthers
<1>4. CASE (DeleteExact(c) /\ Return(c, "ok")) \/ DeleteLegacy(c)
  <2>1. Return(c, "ok")
    BY <1>4 DEF DeleteLegacy
  <2> QED BY <1>2, <1>3, <2>1, PlanMoves, StageMoves DEF Return
<1>5. CASE DeleteExact(c) /\ task[c].global /\ Proceed(c, "deleteGroup", task[c])
  <2>1. pc[c] = "delete"
    BY <1>5 DEF DeleteExact
  <2>2. ASSUME quiet[c] PROVE Stage(row', known', mode', "deleteGroup", task[c])
    <3>1. Stage(row, known, mode, "delete", task[c])
      BY <2>1, <2>2 DEF QInv, StageInv
    <3>2. DeleteStage(row', known', mode', "deleteGroup", task[c])
      BY <1>3, <1>5, <3>1 DEF Stage, DeleteStage
    <3> QED BY <3>1, <3>2, StageOfDelete DEF Stage
  <2>3. StageInv'
    BY <1>3, <1>5, <2>2, StageMoves DEF Proceed
  <2>4. PlanInv'
    BY <1>3, <1>5, PlanMoves DEF Proceed
  <2> QED BY <1>2, <2>3, <2>4
<1>6. CASE DeleteGroup(c)
  <2>1. /\ pc[c] = "deleteGroup" /\ Proceed(c, "deleteLegacy", task[c])
        /\ Remove(c, MatchingGroup(task[c].seat, task[c].union))
    BY <1>6 DEF DeleteGroup
  <2>2. task[c].seat \in Seats
    BY <2>1, AtQuery DEF QInv
  <2>3. ASSUME quiet[c] PROVE Stage(row', known', mode', "deleteLegacy", task[c])
    <3>1. Stage(row, known, mode, "deleteGroup", task[c])
      BY <2>1, <2>3 DEF QInv, StageInv
    <3>2. /\ task[c].op = "delete" /\ task[c].msg = NoUnion /\ task[c].union = known[task[c].seat]
          /\ task[c].global <=> mode = "global"
          /\ task[c].global
      BY <3>1 DEF Stage, DeleteStage, WebOps
    <3>3. Cleared(row', known, task[c])
      BY <2>1, <2>2, <3>2, GroupIsCleared DEF Remove
    <3>4. DeleteStage(row', known', mode', "deleteLegacy", task[c])
      BY <1>3, <3>2, <3>3 DEF DeleteStage
    <3> QED BY <3>2, <3>4, StageOfDelete
  <2>4. StageInv'
    BY <1>3, <2>1, <2>3, StageMoves DEF Proceed
  <2>5. PlanInv'
    BY <1>3, <2>1, PlanMoves DEF Proceed
  <2> QED BY <1>2, <2>4, <2>5
<1> QED BY <1>4, <1>5, <1>6 DEF DeleteExact

LEMMA StartStage ==
  ASSUME QInv, NEW c \in Clients, Start(c)
  PROVE  RecordInv' /\ PlanInv' /\ StageInv'
<1>1. PICK op \in Ops, s \in Seats :
        \E u \in IF op \in BotOps THEN {NoUnion, Owner[s]} ELSE {NoUnion} :
          /\ op \in {"save", "delete"} => page[c].seat = s
          /\ task' = [task EXCEPT ![c] = [NoTask EXCEPT !.op = op, !.seat = s, !.msg = u,
                                                        !.union = u, !.slot = s]]
          /\ known' \in {known} \cup {[known EXCEPT ![s] = u] : v \in {u} \ {NoUnion}}
  BY Zenon DEF Start
<1>2. PICK u \in {NoUnion, Owner[s]} :
        /\ op \notin BotOps => u = NoUnion
        /\ task' = [task EXCEPT ![c] = [NoTask EXCEPT !.op = op, !.seat = s, !.msg = u,
                                                      !.union = u, !.slot = s]]
        /\ known' \in {known} \cup {[known EXCEPT ![s] = u] : v \in {u} \ {NoUnion}}
  BY <1>1
<1> DEFINE t == [NoTask EXCEPT !.op = op, !.seat = s, !.msg = u, !.union = u, !.slot = s]
<1>3. t.op = op /\ t.seat = s /\ t.msg = u /\ t.union = u /\ t.slot = s
  BY DEF NoTask
<1>4. task' = [task EXCEPT ![c] = t]
  BY <1>2
<1> HIDE DEF t
<1>5. /\ pc' = [pc EXCEPT ![c] = "mode"] /\ UNCHANGED <<row, mode, clock>>
      /\ quiet' = [d \in Clients |-> d = c \/ (quiet[d] /\ known' = known)]
      /\ clock \in Nat
  BY DEF Start, QInv, IInv, TypeOK
<1>6. Stage(row', known', mode', "mode", t)
  <2>1. t.op \in WebOps => t.msg = NoUnion
    BY <1>2, <1>3 DEF BotOps, WebOps
  <2>2. SearchStage(row', known', mode', "mode", t)
    BY <1>3 DEF SearchStage, Searches
  <2> QED BY <2>1, <2>2, StageOfSearch
<1>7. StageInv'
  <2>1. \A d \in Clients \ {c} : quiet'[d] => quiet[d] /\ UNCHANGED <<row, known, mode>>
    BY <1>5
  <2> QED BY <1>4, <1>5, <1>6, <2>1, StageMoves
<1>8. PlanInv'
  <2>1. clock' \in Nat /\ clock <= clock'
    BY <1>5
  <2> QED BY <1>4, <1>5, <2>1, PlanMoves
<1>9. RecordInv'
  <2>1. ASSUME NEW x \in Seats, known[x] # NoUnion PROVE known'[x] # NoUnion
    <3>1. known' = known \/ (known' = [known EXCEPT ![s] = u] /\ u # NoUnion)
      BY <1>2
    <3> QED BY <2>1, <3>1 DEF QInv, IInv, TypeOK
  <2> QED BY <1>5, <2>1 DEF QInv, RecordInv
<1> QED BY <1>7, <1>8, <1>9

LEMMA OutsideStage ==
  ASSUME QInv, Toggle \/ \E s \in Seats : Learn(s)
  PROVE  RecordInv' /\ PlanInv' /\ StageInv'
<1>1. UNCHANGED <<row, clock, pc, task>> /\ quiet' = [c \in Clients |-> FALSE]
  BY DEF Toggle, Learn
<1>2. ASSUME NEW x \in Seats, known[x] # NoUnion PROVE known'[x] # NoUnion
  <2>1. CASE Toggle
    BY <1>2, <2>1 DEF Toggle
  <2>2. ASSUME NEW s \in Seats, Learn(s) PROVE known'[x] # NoUnion
    <3>1. Owner[s] # NoUnion
      BY UnionAssumption DEF Unions
    <3> QED BY <1>2, <2>2, <3>1 DEF Learn, QInv, IInv, TypeOK
  <2> QED BY <2>1, <2>2
<1>3. RecordInv'
  BY <1>1, <1>2 DEF QInv, RecordInv
<1>4. PlanInv'
  BY <1>1 DEF QInv, PlanInv
<1>5. StageInv'
  BY <1>1 DEF StageInv
<1> QED BY <1>3, <1>4, <1>5

LEMMA QInit ==
  ASSUME Init
  PROVE  QInv
<1>1. \A s \in Slots : row[s] \in {NoRow, Stored(0, NoUnion), [NoRow EXCEPT !.rev = 1]}
  <2>1. row \in [Slots -> {NoRow, Stored(0, NoUnion), [NoRow EXCEPT !.rev = 1]}]
    BY Zenon DEF Init
  <2> QED BY <2>1
<1>2. \A s \in Slots : row[s].at = 0 /\ row[s].iu = NoUnion /\ (row[s].full => row[s].rev = 1)
  <2>1. ASSUME NEW x \in {NoRow, Stored(0, NoUnion), [NoRow EXCEPT !.rev = 1]}
        PROVE  x.at = 0 /\ x.iu = NoUnion /\ (x.full => x.rev = 1)
    BY DEF NoRow, Stored
  <2> QED BY <1>1, <2>1
<1>3. RecordInv
  <2>1. clock = 0
    BY DEF Init
  <2> QED BY <1>2, <2>1 DEF RecordInv, Slots
<1>4. PlanInv /\ StageInv
  BY DEF Init, PlanInv, StageInv
<1> QED BY <1>3, <1>4, InitHolds DEF QInv

LEMMA QNext == QInv /\ [Next]_vars => QInv'
<1> SUFFICES ASSUME QInv, [Next]_vars
             PROVE  QInv'
  OBVIOUS
<1>1. SUFFICES RecordInv' /\ PlanInv' /\ StageInv'
  BY NextKeeps DEF QInv
<1>2. ASSUME NEW c \in Clients, Step(c)
      PROVE  RecordInv' /\ PlanInv' /\ StageInv'
  BY <1>2, ReadModeStage, ReadCurrentStage, ReadProfileStage, FindStage, FindLegacyByUnionStage,
     FindLegacyByOpenidStage, ReadFoundStage, ReadIdentityStage, ReadTargetStage, PutStage,
     ReadAgainStage, EndsStage, DeletionStage DEF Step
<1>3. CASE UNCHANGED vars
  BY <1>3 DEF vars, QInv, RecordInv, PlanInv, StageInv
<1>4. CASE \E c \in Clients : Start(c) \/ Fail(c)
  BY <1>4, StartStage, EndsStage
<1>5. CASE Toggle \/ \E s \in Seats : Learn(s)
  BY <1>5, OutsideStage
<1> QED BY <1>2, <1>3, <1>4, <1>5 DEF Next

LEMMA QInductive == Spec => []QInv
  BY QInit, QNext, PTL DEF Spec

--------------------------------------------------------------------------------
(* Who moves a call, and how calls end.                                    *)

(* A call is moved by its own steps.                                       *)
LEMMA MovesItself ==
  ASSUME IInv, Next, NEW c \in Clients, pc'[c] # pc[c]
  PROVE  Start(c) \/ Step(c) \/ Fail(c)
<1>1. ASSUME NEW d \in Clients, Start(d) \/ Step(d) \/ Fail(d)
      PROVE  \E q : pc' = [pc EXCEPT ![d] = q]
  <2>1. CASE Start(d) \/ Fail(d)
    BY <2>1 DEF Start, Fail, Return
  <2>2. ASSUME NEW t, Resolved(d, t) PROVE \E q : pc' = [pc EXCEPT ![d] = q]
    BY <2>2 DEF Resolved, Return, Proceed
  <2>3. CASE ReadMode(d) \/ ReadCurrent(d)
    BY <2>2, <2>3 DEF ReadMode, ReadCurrent, Proceed
  <2>4. CASE FindLegacyByUnion(d) \/ FindLegacyByOpenid(d) \/ ReadFound(d)
    BY <2>2, <2>4 DEF FindLegacyByUnion, FindLegacyByOpenid, ReadFound, Proceed
  <2>5. CASE ReadProfile(d) \/ FindByUnion(d) \/ FindByOpenid(d) \/ ReadIdentity(d)
    BY <2>5 DEF ReadProfile, FindByUnion, FindByOpenid, ReadIdentity, Search, Proceed
  <2>6. CASE ReadTarget(d) \/ Put(d)
    BY <2>6 DEF ReadTarget, Put, Return, Proceed
  <2>7. CASE ReadModeAgain(d) \/ ReadProfileAgain(d) \/ DeleteRefused(d) \/ ReadExists(d)
    BY <2>7 DEF ReadModeAgain, ReadProfileAgain, DeleteRefused, ReadExists, Return, Proceed
  <2>8. CASE DeleteExact(d) \/ DeleteGroup(d) \/ DeleteLegacy(d)
    BY <2>8 DEF DeleteExact, DeleteGroup, DeleteLegacy, Return, Proceed
  <2> QED BY <1>1, <2>1, <2>3, <2>4, <2>5, <2>6, <2>7, <2>8 DEF Step
<1>2. PICK d \in Clients : Start(d) \/ Step(d) \/ Fail(d)
  BY DEF Next, Toggle, Learn
<1>3. PICK q : pc' = [pc EXCEPT ![d] = q]
  BY <1>1, <1>2
<1>4. d = c
  BY <1>3 DEF IInv, TypeOK
<1> QED BY <1>2, <1>4

(* Resolving is querying, and leaves whom the call is for.                 *)
LEMMA ResolvingQueries ==
  ASSUME IInv, Next, NEW c \in Clients, Resolving(c)
  PROVE  /\ UNCHANGED <<row, known, mode, quiet>>
         /\ task'[c].seat = task[c].seat /\ task'[c].msg = task[c].msg
<1>0. /\ pc[c] # "idle" /\ pc'[c] # "idle" /\ pc'[c] # pc[c] /\ pc[c] # "delete"
      /\ task[c] \in Tasks /\ row \in [Slots -> Rows] /\ task[c].seat \in Slots
  BY DEF Resolving, IInv, TypeOK, Slots, OwnInv, Fit, Aimed
<1>1. ASSUME NEW q, NEW t \in Tasks, Proceed(c, q, t)
      PROVE  task'[c] = t
  BY <1>1 DEF Proceed, IInv, TypeOK
<1>2. ASSUME NEW t \in Tasks, Resolved(c, t)
      PROVE  task'[c].seat = t.seat /\ task'[c].msg = t.msg
  <2>1. CASE \E a : Return(c, a)
    BY <1>0, <2>1 DEF Return, IInv, TypeOK
  <2>2. ASSUME NEW q, NEW u \in {t, [t EXCEPT !.iu = t.msg]}, Proceed(c, q, u)
        PROVE  task'[c].seat = t.seat /\ task'[c].msg = t.msg
    <3>1. u \in Tasks /\ u.seat = t.seat /\ u.msg = t.msg
      BY <2>2 DEF Tasks
    <3> QED BY <1>1, <2>2, <3>1
  <2> QED BY <1>2, <2>1, <2>2 DEF Resolved
<1>3. Step(c) /\ pc[c] \in {"mode", "current", "legacyByUnion", "legacyByOpenid", "found"}
  <2>1. ~Start(c) /\ ~Fail(c)
    BY <1>0 DEF Start, Fail, Return, IInv, TypeOK
  <2> QED BY <1>0, <2>1, MovesItself DEF Resolving
<1>4. ReadMode(c) \/ ReadCurrent(c) \/ FindLegacyByUnion(c) \/ FindLegacyByOpenid(c) \/ ReadFound(c)
  BY <1>3 DEF Step, ReadProfile, FindByUnion, FindByOpenid, Search, ReadIdentity, ReadTarget,
     Put, ReadModeAgain, ReadProfileAgain, DeleteExact, DeleteRefused, ReadExists, DeleteGroup,
     DeleteLegacy, Query
<1>5. UNCHANGED <<row, known, mode, quiet>>
  BY <1>4 DEF ReadMode, ReadCurrent, FindLegacyByUnion, FindLegacyByOpenid, ReadFound, Query
<1>6. CASE ReadMode(c)
  <2> DEFINE t == [task[c] EXCEPT !.global = (mode = "global")]
  <2>1. t \in Tasks /\ t.seat = task[c].seat /\ t.msg = task[c].msg
    BY <1>0 DEF Tasks
  <2>2. Proceed(c, "current", t) \/ Resolved(c, t)
    BY <1>6 DEF ReadMode
  <2> HIDE DEF t
  <2> QED BY <1>1, <1>2, <1>5, <2>1, <2>2
<1>7. CASE ReadCurrent(c)
  <2> DEFINE t == [task[c] EXCEPT !.got = row[task[c].seat]]
  <2>1. t \in Tasks /\ t.seat = task[c].seat /\ t.msg = task[c].msg
    BY <1>0 DEF Tasks
  <2>2. (\E q : Proceed(c, q, t)) \/ Resolved(c, t)
    BY <1>7 DEF ReadCurrent
  <2> HIDE DEF t
  <2> QED BY <1>1, <1>2, <1>5, <2>1, <2>2
<1>8. CASE FindLegacyByUnion(c)
  <2>1. ASSUME NEW l \in Legacies, Resolved(c, [task[c] EXCEPT !.slot = l, !.got = row[l]])
        PROVE  task'[c].seat = task[c].seat /\ task'[c].msg = task[c].msg
    <3> DEFINE t == [task[c] EXCEPT !.slot = l, !.got = row[l]]
    <3>1. t \in Tasks /\ t.seat = task[c].seat /\ t.msg = task[c].msg
      BY <1>0 DEF Tasks, Slots
    <3>2. Resolved(c, t)
      BY <2>1
    <3> HIDE DEF t
    <3> QED BY <1>2, <3>1, <3>2
  <2> QED BY <1>0, <1>1, <1>5, <1>8, <2>1 DEF FindLegacyByUnion
<1>9. CASE FindLegacyByOpenid(c)
  <2> DEFINE found == LegacyByOpenid(task[c].seat.member)
             t == [task[c] EXCEPT !.slot = Newest(found)]
  <2>1. Resolved(c, task[c]) \/ (found # {} /\ Proceed(c, "found", t))
    BY <1>9 DEF FindLegacyByOpenid
  <2>2. ASSUME found # {}, Proceed(c, "found", t)
        PROVE  task'[c].seat = task[c].seat /\ task'[c].msg = task[c].msg
    <3>1. Newest(found) \in Slots
      BY <2>2, NewestIsOne DEF LegacyByOpenid, Slots
    <3>2. t \in Tasks /\ t.seat = task[c].seat /\ t.msg = task[c].msg
      BY <1>0, <3>1 DEF Tasks
    <3> HIDE DEF t
    <3> QED BY <1>1, <2>2, <3>2
  <2> QED BY <1>0, <1>2, <1>5, <2>1, <2>2
<1>10. CASE ReadFound(c)
  <2>1. PICK t \in {[task[c] EXCEPT !.slot = task[c].seat],
                    [task[c] EXCEPT !.got = row[task[c].slot]]} : Resolved(c, t)
    BY <1>10 DEF ReadFound
  <2>2. task[c].slot \in Slots
    BY <1>0, AtQuery
  <2>3. t \in Tasks /\ t.seat = task[c].seat /\ t.msg = task[c].msg
    BY <1>0, <2>1, <2>2 DEF Tasks
  <2> QED BY <1>2, <1>5, <2>1, <2>3
<1> QED BY <1>4, <1>6, <1>7, <1>8, <1>9, <1>10

(* The documented order (ARCHITECTURE.md 2.3): the queries of a call that  *)
(* nobody disturbs end at the record the order names, for any groups,      *)
(* people sharing openids, v6 records and times (ResolveStorageTarget-     *)
(* Context, FindGlobalSchedule).                                           *)
THEOREM OrderHolds == Spec => ResolvesAsDocumented
<1> DEFINE Act == \A c \in Clients :
       Resolving(c) /\ quiet[c] =>
         LET t == task[c]
             shown == IF mode = "global" THEN Shown(row, known, t.seat, UnionOf(known, t)) ELSE {}
         IN task'[c].slot \in (IF shown = {} THEN {t.seat} ELSE shown)
<1>1. QInv /\ [Next]_vars => [Act]_vars
  <2> SUFFICES ASSUME QInv, Next, NEW c \in Clients, Resolving(c), quiet[c]
               PROVE  LET t == task[c]
                          shown == IF mode = "global" THEN Shown(row, known, t.seat, UnionOf(known, t)) ELSE {}
                      IN task'[c].slot \in (IF shown = {} THEN {t.seat} ELSE shown)
    OBVIOUS
  <2> DEFINE t == task[c]
             new == task'[c]
  <2>1. /\ UNCHANGED <<row, known, mode, quiet>> /\ new.seat = t.seat /\ new.msg = t.msg
    BY ResolvingQueries DEF QInv
  <2>2. QInv'
    BY QNext
  <2>3. Right(row, known, mode, new)
    <3>1. Stage(row', known', mode', pc'[c], new) /\ pc'[c] \in {"identity", "target", "modeAgain"}
      BY <2>1, <2>2 DEF QInv, StageInv, Resolving
    <3> QED BY <2>1, <3>1 DEF Stage, WriteStage, DeleteStage
  <2>4. UnionOf(known, new) = UnionOf(known, t)
    BY <2>1, SameSearch
  <2> QED BY <2>1, <2>3, <2>4 DEF Right
<1>2. Spec => [][Act]_vars
  BY <1>1, QInductive, PTL DEF Spec
<1> QED BY <1>2 DEF ResolvesAsDocumented

(* A call that changes records is at one of four queries, and is moved.    *)
LEMMA WriterMoves ==
  ASSUME IInv, Next, NEW c \in Clients, By(c), row' # row
  PROVE  Put(c) \/ DeleteExact(c) \/ DeleteGroup(c) \/ DeleteLegacy(c)
<1>1. PICK d \in Clients : /\ Put(d) \/ DeleteExact(d) \/ DeleteGroup(d) \/ DeleteLegacy(d)
                           /\ \A e \in Clients \ {d} : pc'[e] = pc[e]
  BY WhoWrites
<1>2. d = c
  BY <1>1 DEF By
<1> QED BY <1>1, <1>2

(* The right record of another seat is the person's, or nobody's.          *)
LEMMA RightIsNobodyElses ==
  ASSUME NEW r, NEW k, NEW m, NEW t, Right(r, k, m, t), UnionOf(k, t) # NoUnion,
         t.slot \in Seats, t.slot # t.seat
  PROVE  \/ {k[t.slot], r[t.slot].iu} \subseteq {NoUnion}
         \/ UnionOf(k, t) \in {k[t.slot], r[t.slot].iu}
<1> DEFINE u == UnionOf(k, t)
           place == Places(r, k, t.seat, u)
<1>1. t.slot \in Shown(r, k, t.seat, u)
  BY DEF Right
<1>2. PICK n \in 1..5 : t.slot \in place[n]
  BY <1>1, ShownIsPlaced
<1>3. n = 1 \/ n = 2 \/ n = 3 \/ n = 4 \/ n = 5
  OBVIOUS
<1>4. n # 1
  BY <1>2, ThePlaces
<1>5. n # 3 /\ n # 5
  <2>1. t.slot \notin Legacies
    BY KindsDiffer
  <2> QED BY <1>2, <2>1, ThePlaces
<1>6. CASE n = 2
  BY <1>2, <1>6, ThePlaces
<1>7. CASE n = 4
  BY <1>2, <1>7, ThePlaces
<1> QED BY <1>3, <1>4, <1>5, <1>6, <1>7

(* Openids of two persons may coincide: once a person's union_openid is    *)
(* known, neither an edit nor a deletion in bulk touches a record that is  *)
(* known to be another's (findGlobalV7ByLocalMember with onlyWithoutUnion, *)
(* deleteMatchingGroupSchedules).                                          *)
THEOREM OthersStaySafe == Spec => OthersAreSafe
<1> DEFINE Safe(c, s) ==
              LET u == UnionOf(known, task[c])
              IN {known[s], row[s].iu} \subseteq {NoUnion} \/ u \in {known[s], row[s].iu}
           Act == \A c \in Clients :
              By(c) /\ quiet[c] =>
                LET u == UnionOf(known, task[c])
                IN u = NoUnion \/ \A s \in Changed \cap (Seats \ {task[c].seat}) :
                     {known[s], row[s].iu} \subseteq {NoUnion} \/ u \in {known[s], row[s].iu}
<1>1. QInv /\ [Next]_vars => [Act]_vars
  <2> SUFFICES ASSUME QInv, Next, NEW c \in Clients, By(c), quiet[c],
                      UnionOf(known, task[c]) # NoUnion,
                      NEW s \in Changed \cap (Seats \ {task[c].seat})
               PROVE  Safe(c, s)
    BY Zenon
  <2> DEFINE t == task[c]
  <2>0. /\ IInv /\ row' # row /\ s \in Slots /\ s \in Seats /\ s # t.seat /\ row'[s] # row[s]
        /\ pc[c] # "idle" /\ row \in [Slots -> Rows]
    BY DEF Changed, By, QInv, IInv, TypeOK
  <2>1. Put(c) \/ DeleteExact(c) \/ DeleteGroup(c) \/ DeleteLegacy(c)
    BY <2>0, WriterMoves
  <2>2. Stage(row, known, mode, pc[c], t)
    BY <2>0 DEF QInv, StageInv
  <2>3. CASE Put(c) \/ DeleteExact(c)
    <3>1. s = t.slot
      <4>1. CASE Put(c)
        <5>1. \E v : row' = [row EXCEPT ![t.slot] = v]
          BY <2>0, <4>1 DEF Put
        <5> QED BY <2>0, <5>1
      <4>2. CASE DeleteExact(c)
        <5>1. row' = [x \in Slots |-> IF x \in {t.slot} THEN NoRow ELSE row[x]]
          BY <4>2 DEF DeleteExact, Remove
        <5> QED BY <2>0, <5>1
      <4> QED BY <2>3, <4>1, <4>2
    <3>2. Right(row, known, mode, t)
      BY <2>2, <2>3 DEF Stage, WriteStage, DeleteStage, Put, DeleteExact
    <3> HIDE DEF t
    <3>3. t.slot \in Seats /\ t.slot # t.seat /\ UnionOf(known, t) # NoUnion
      BY <2>0, <3>1 DEF t
    <3>4. \/ {known[t.slot], row[t.slot].iu} \subseteq {NoUnion}
          \/ UnionOf(known, t) \in {known[t.slot], row[t.slot].iu}
      BY <3>2, <3>3, RightIsNobodyElses
    <3> QED BY <3>1, <3>4 DEF t
  <2>4. CASE DeleteGroup(c)
    <3>1. s \in MatchingGroup(t.seat, t.union)
      BY <2>0, <2>4 DEF DeleteGroup, Remove
    <3>2. t.union = UnionOf(known, t)
      BY <2>2, <2>4 DEF DeleteGroup, Stage, DeleteStage, UnionOf, WebOps
    <3> QED BY <2>0, <3>1, <3>2 DEF MatchingGroup
  <2>5. CASE DeleteLegacy(c)
    <3>1. s \in Legacies
      BY <2>0, <2>5 DEF DeleteLegacy, Remove, MatchingLegacy
    <3> QED BY <2>0, <3>1, KindsDiffer
  <2> QED BY <2>1, <2>3, <2>4, <2>5
<1>2. Spec => [][Act]_vars
  BY <1>1, QInductive, PTL DEF Spec
<1> QED BY <1>2 DEF OthersAreSafe

(* What a call that ends well has just done.                               *)
LEMMA EndsWell ==
  ASSUME IInv, Next, NEW c \in Clients, Ending(c, "ok"),
         task[c].op \in {"import", "upload", "delete"}
  PROVE  \/ Put(c) /\ row[task[c].slot].rev = ExpectedRev(c)
         \/ DeleteExact(c) /\ ~task[c].global
         \/ DeleteLegacy(c)
<1>0. /\ pc[c] # "idle" /\ pc'[c] = "idle" /\ pc'[c] # pc[c] /\ answer'[c] = "ok"
      /\ task[c] \in Tasks
  BY DEF Ending, IInv, TypeOK
<1>1. ASSUME NEW a, Return(c, a) PROVE a = "ok"
  BY <1>0, <1>1 DEF Return, IInv, TypeOK
<1>2. ASSUME NEW q, NEW t, Proceed(c, q, t) PROVE q = "idle"
  BY <1>0, <1>2 DEF Proceed, IInv, TypeOK
<1>3. ASSUME NEW t, t.op = task[c].op, Resolved(c, t) PROVE FALSE
  <2>1. ~Return(c, "error")
    BY <1>1
  <2>2. \A q \in {"identity", "target", "modeAgain"} : \A u : ~Proceed(c, q, u)
    BY <1>2
  <2> QED BY <1>3, <2>1, <2>2 DEF Resolved
<1>4. Step(c)
  <2>1. ~Start(c)
    BY <1>0 DEF Start
  <2>2. ~Fail(c)
    BY <1>1 DEF Fail
  <2> QED BY <1>0, <2>1, <2>2, MovesItself
<1>5. ~ReadMode(c) /\ ~ReadCurrent(c) /\ ~ReadProfile(c)
  <2>1. CASE ReadMode(c)
    <3> DEFINE t == [task[c] EXCEPT !.global = (mode = "global")]
    <3>1. Proceed(c, "current", t) \/ Resolved(c, t)
      BY <2>1 DEF ReadMode
    <3>2. t.op = task[c].op
      BY <1>0 DEF Tasks
    <3> HIDE DEF t
    <3> QED BY <1>2, <1>3, <3>1, <3>2
  <2>2. CASE ReadCurrent(c)
    <3> DEFINE t == [task[c] EXCEPT !.got = row[task[c].seat]]
    <3>1. (\E q \in {"profile", "byUnion"} : Proceed(c, q, t)) \/ Resolved(c, t)
      BY <2>2 DEF ReadCurrent
    <3>2. t.op = task[c].op
      BY <1>0 DEF Tasks
    <3> HIDE DEF t
    <3> QED BY <1>2, <1>3, <3>1, <3>2
  <2>3. CASE ReadProfile(c)
    <3>1. \E q \in {"byOpenid", "byUnion"} : \E t : Proceed(c, q, t)
      BY <2>3 DEF ReadProfile
    <3> QED BY <1>2, <3>1
  <2> QED BY <2>1, <2>2, <2>3
<1>6. ~FindByUnion(c) /\ ~FindByOpenid(c) /\ ~FindLegacyByUnion(c) /\ ~FindLegacyByOpenid(c)
  <2>1. CASE FindByUnion(c) \/ FindByOpenid(c)
    <3>1. \E q \in {"legacyByUnion", "legacyByOpenid", "found"} : \E t : Proceed(c, q, t)
      BY <2>1 DEF FindByUnion, FindByOpenid, Search
    <3> QED BY <1>2, <3>1
  <2>2. CASE FindLegacyByUnion(c)
    <3>1. ASSUME NEW l, Resolved(c, [task[c] EXCEPT !.slot = l, !.got = row[l]]) PROVE FALSE
      <4> DEFINE t == [task[c] EXCEPT !.slot = l, !.got = row[l]]
      <4>1. Resolved(c, t)
        BY <3>1
      <4>2. t.op = task[c].op
        BY <1>0 DEF Tasks
      <4> HIDE DEF t
      <4> QED BY <1>3, <4>1, <4>2
    <3> QED BY <1>2, <2>2, <3>1 DEF FindLegacyByUnion
  <2>3. CASE FindLegacyByOpenid(c)
    <3>1. Resolved(c, task[c]) \/ \E t : Proceed(c, "found", t)
      BY <2>3 DEF FindLegacyByOpenid
    <3> QED BY <1>2, <1>3, <3>1
  <2> QED BY <2>1, <2>2, <2>3
<1>7. ~ReadFound(c) /\ ~ReadIdentity(c) /\ ~ReadTarget(c)
  <2>1. CASE ReadFound(c)
    <3>1. PICK t \in {[task[c] EXCEPT !.slot = task[c].seat],
                      [task[c] EXCEPT !.got = row[task[c].slot]]} : Resolved(c, t)
      BY <2>1 DEF ReadFound
    <3>2. t.op = task[c].op
      BY <1>0, <3>1 DEF Tasks
    <3> QED BY <1>3, <3>1, <3>2
  <2>2. CASE ReadIdentity(c)
    <3>1. \E t : Proceed(c, "target", t)
      BY <2>2 DEF ReadIdentity
    <3> QED BY <1>2, <3>1
  <2>3. CASE ReadTarget(c)
    <3>1. \/ task[c].op = "save" \/ task[c].op = "nickname" \/ \E t : Proceed(c, "put", t)
      BY <2>3 DEF ReadTarget
    <3> QED BY <1>2, <3>1
  <2> QED BY <2>1, <2>2, <2>3
<1>8. ~ReadModeAgain(c) /\ ~ReadProfileAgain(c) /\ ~DeleteRefused(c) /\ ~ReadExists(c) /\ ~DeleteGroup(c)
  <2>1. CASE ReadModeAgain(c) \/ ReadProfileAgain(c) \/ DeleteRefused(c) \/ DeleteGroup(c)
    <3>1. \E q \in {"profileAgain", "delete", "exists", "deleteLegacy"} : \E t : Proceed(c, q, t)
      BY <2>1 DEF ReadModeAgain, ReadProfileAgain, DeleteRefused, DeleteGroup
    <3> QED BY <1>2, <3>1
  <2>2. CASE ReadExists(c)
    <3>1. \E a \in {"conflict", "notfound"} : Return(c, a)
      BY <2>2 DEF ReadExists
    <3> QED BY <1>1, <3>1
  <2> QED BY <2>1, <2>2
<1>9. ASSUME Put(c) PROVE row[task[c].slot].rev = ExpectedRev(c)
  <2>1. ~(\E t : Proceed(c, "target", t)) /\ ~Return(c, "conflict")
    BY <1>1, <1>2
  <2> QED BY <1>9, <2>1 DEF Put
<1>10. ASSUME DeleteExact(c) PROVE ~task[c].global
  <2>1. ~Proceed(c, "deleteGroup", task[c])
    BY <1>2
  <2> QED BY <1>10, <2>1 DEF DeleteExact
<1> QED BY <1>4, <1>5, <1>6, <1>7, <1>8, <1>9, <1>10 DEF Step

(* The v6 records the deletion can follow: one kept under a member's       *)
(* openid names that member as its importer.                               *)
KeysTellWho == \A l \in Legacies, s \in Seats : l.user = s.member => l.importer = s.member

(* A deletion in global mode that nobody disturbs leaves nothing that the  *)
(* member could be shown, however many records of the person there are:    *)
(* the queries that delete match the queries that find (DeleteMember-      *)
(* Schedules, FindGlobalSchedule), provided the v6 keys tell whose they    *)
(* are.                                                                    *)
THEOREM DeletionIsComplete ==
  ASSUME KeysTellWho
  PROVE  Spec => DeletedIsGone
<1> DEFINE Act == \A c \in Clients :
       Ending(c, "ok") /\ quiet[c] /\ task[c].op = "delete" /\ mode = "global"
       => Shown(row', known', task[c].seat, known'[task[c].seat]) = {}
<1>1. QInv /\ [Next]_vars => [Act]_vars
  <2> SUFFICES ASSUME QInv, Next, NEW c \in Clients, Ending(c, "ok"), quiet[c],
                      task[c].op = "delete", mode = "global"
               PROVE  Shown(row', known', task[c].seat, known'[task[c].seat]) = {}
    BY Zenon
  <2> DEFINE t == task[c]
             u == known'[t.seat]
             place == Places(row', known', t.seat, u)
  <2>1. /\ pc[c] # "idle" /\ IInv
        /\ Stage(row, known, mode, pc[c], t)
    BY DEF Ending, QInv, StageInv
  <2>2. DeleteLegacy(c)
    <3>1. ~Put(c)
      BY <2>1 DEF Put, Stage, WriteStage
    <3>2. DeleteExact(c) => t.global
      BY <2>1 DEF DeleteExact, Stage, DeleteStage
    <3> QED BY <2>1, <3>1, <3>2, EndsWell
  <2>3. /\ pc[c] = "deleteLegacy" /\ known' = known
        /\ row' = [s \in Slots |-> IF s \in MatchingLegacy(t.seat.member, t.union) THEN NoRow ELSE row[s]]
    BY <2>2 DEF DeleteLegacy, Remove
  <2>4. t.seat \in Seats /\ t.msg = NoUnion /\ t.union = u /\ UnionOf(known, t) = u
    BY <2>1, <2>3, AtQuery DEF Stage, DeleteStage, UnionOf, WebOps
  <2>5. Cleared(row, known, t)
    BY <2>1, <2>3 DEF Stage, DeleteStage
  <2>6. ASSUME NEW s \in Slots, row'[s].full
        PROVE  row'[s] = row[s] /\ s \notin MatchingLegacy(t.seat.member, u)
    BY <2>3, <2>4, <2>6 DEF NoRow
  <2> DEFINE before == Places(row, known, t.seat, u)
  <2>7. before[1] = {} /\ before[2] = {} /\ before[4] = {}
    BY <2>4, <2>5 DEF Cleared
  <2> HIDE DEF u, t
  <2>8. place[1] = {}
    <3>1. ASSUME NEW s \in place[1] PROVE s \in before[1]
      <4>1. s = t.seat /\ row'[s].full
        BY <2>3, <3>1, ThePlaces
      <4>2. row'[s] = row[s]
        BY <2>4, <2>6, <4>1 DEF Slots
      <4> QED BY <4>1, <4>2, ThePlaces
    <3> QED BY <2>7, <3>1
  <2>9. place[2] = {}
    <3>1. ASSUME NEW s \in place[2] PROVE s \in before[2]
      <4>1. s \in Seats /\ row'[s].full /\ u # NoUnion /\ u \in {known[s], row'[s].iu}
        BY <2>3, <3>1, ThePlaces
      <4>2. row'[s] = row[s]
        BY <2>4, <2>6, <4>1 DEF Slots
      <4> QED BY <4>1, <4>2, ThePlaces
    <3> QED BY <2>7, <3>1
  <2>10. place[3] = {}
    <3>1. ASSUME NEW l \in place[3] PROVE FALSE
      <4>1. l \in Legacies /\ row'[l].full /\ u # NoUnion /\ u = l.scope
        BY <3>1, ThePlaces
      <4> QED BY <2>6, <4>1 DEF Slots, MatchingLegacy
    <3> QED BY <3>1
  <2>11. place[4] = {}
    <3>1. ASSUME NEW s \in place[4] PROVE s \in before[4]
      <4>1. /\ s \in Seats /\ row'[s].full /\ s.member = t.seat.member
            /\ u # NoUnion => known[s] = NoUnion /\ row'[s].iu = NoUnion
        BY <2>3, <3>1, ThePlaces
      <4>2. row'[s] = row[s]
        BY <2>4, <2>6, <4>1 DEF Slots
      <4> QED BY <4>1, <4>2, ThePlaces
    <3> QED BY <2>7, <3>1
  <2>12. place[5] = {}
    <3>1. ASSUME NEW l \in place[5] PROVE FALSE
      <4>1. l \in Legacies /\ row'[l].full /\ t.seat.member \in {l.user, l.importer}
        BY <3>1, ThePlaces
      <4>2. l.importer = t.seat.member
        BY <2>4, <4>1 DEF KeysTellWho
      <4> QED BY <2>6, <4>1, <4>2 DEF Slots, MatchingLegacy
    <3> QED BY <3>1
  <2>13. \A i \in 1..5 : place[i] = {}
    <3>1. \A i \in 1..5 : i = 1 \/ i = 2 \/ i = 3 \/ i = 4 \/ i = 5
      OBVIOUS
    <3> QED BY <2>8, <2>9, <2>10, <2>11, <2>12, <3>1
  <2> QED BY <2>13, NothingIsShown DEF t, u
<1>2. Spec => [][Act]_vars
  BY <1>1, QInductive, PTL DEF Spec
<1> QED BY <1>2 DEF DeletedIsGone

LEMMA TwoAreMany ==
  ASSUME NEW a, NEW b, a # b
  PROVE  Cardinality({a, b}) > 1
<1>1. IsFiniteSet({a}) /\ Cardinality({a}) = 1
  BY FS_Singleton
<1>2. Cardinality({a} \cup {b}) = 2
  BY <1>1, FS_AddElement
<1>3. {a, b} = {a} \cup {b}
  OBVIOUS
<1> QED BY <1>2, <1>3

(* Unless records are mixed, a name on a record is the profile's.          *)
LEMMA NamesAgree ==
  ASSUME QInv, ~Mixed, NEW s \in Seats, row[s].iu # NoUnion
  PROVE  known[s] = row[s].iu
<1>1. SUFFICES ASSUME known[s] # row[s].iu PROVE Mixed
  OBVIOUS
<1>2. known[s] # NoUnion
  BY DEF QInv, RecordInv
<1>3. {known[s], row[s].iu} \ {NoUnion} = {known[s], row[s].iu}
  BY <1>2
<1>4. Cardinality({known[s], row[s].iu}) > 1
  BY <1>1, TwoAreMany
<1> QED BY <1>3, <1>4 DEF Mixed

(* The record just written, in a place that is the first to have any, is   *)
(* what is shown: it is newer than every other.                            *)
LEMMA LastIsShown ==
  ASSUME NEW r, NEW k, NEW seat, NEW u, NEW s, NEW n \in 1..5,
         s \in Places(r, k, seat, u)[n],
         \A i \in 1..(n - 1) : Places(r, k, seat, u)[i] = {},
         r[s].at \in Nat,
         \A x \in Places(r, k, seat, u)[n] \ {s} : r[x].at \in Nat /\ r[x].at < r[s].at
  PROVE  Shown(r, k, seat, u) = {s}
<1> DEFINE place == Places(r, k, seat, u)
<1>1. place[n] # {}
  OBVIOUS
<1>2. Shown(r, k, seat, u) = {NewestIn(r, place[n])}
  BY <1>1, FirstIsShown
<1>3. NewestIn(r, place[n]) = s
  <2> HIDE DEF place
  <2>1. s \in place[n] /\ \A x \in place[n] \ {s} : r[x].at \in Nat /\ r[x].at < r[s].at
    BY DEF place
  <2> QED BY <2>1, LastIsNewest
<1> QED BY <1>2, <1>3

(* An import is what the next card shows: the row a call has written whose *)
(* queries nobody disturbed is the one the documented order names after    *)
(* it, whichever place it was found in and whatever name it got            *)
(* (saveEventsContext, ImportSource, ResolveStorageTargetContext).         *)
THEOREM ImportIsWhatShows == Spec => ImportedIsShown
<1> DEFINE Act == \A c \in Clients :
       Ending(c, "ok") /\ quiet[c] /\ task[c].op \in {"import", "upload"} /\ ~Mixed =>
         LET t == task[c]
         IN (IF mode = "global" THEN Shown(row', known', t.seat, UnionOf(known', t))
             ELSE {t.seat}) = {t.slot}
<1>1. QInv /\ [Next]_vars => [Act]_vars
  <2> SUFFICES ASSUME QInv, Next, NEW c \in Clients, Ending(c, "ok"), quiet[c],
                      task[c].op \in {"import", "upload"}, ~Mixed
               PROVE  (IF mode = "global" THEN Shown(row', known', task[c].seat, UnionOf(known', task[c]))
                       ELSE {task[c].seat}) = {task[c].slot}
    BY Zenon
  <2> DEFINE t == task[c]
             s == t.slot
             u == UnionOf(known, t)
             before == Places(row, known, t.seat, u)
             place == Places(row', known', t.seat, u)
  <2>1. /\ pc[c] # "idle" /\ IInv
        /\ Stage(row, known, mode, pc[c], t)
    BY DEF Ending, QInv, StageInv
  <2>2. Put(c) /\ row[s].rev = ExpectedRev(c)
    <3>1. ~DeleteExact(c) /\ ~DeleteLegacy(c)
      BY <2>1 DEF DeleteExact, DeleteLegacy, Stage, DeleteStage
    <3> QED BY <2>1, <3>1, EndsWell
  <2>3. /\ pc[c] = "put" /\ Right(row, known, mode, t) /\ s \in Seats
        /\ t.op = "import" => t.iu = Named(known, t)
        /\ t.op = "upload" => t.iu = row[s].iu /\ t.msg = NoUnion
        /\ \A x \in Slots : row[x].at < t.at
    BY <2>1, <2>2 DEF Put, Stage, WriteStage, WebOps
  <2>4. PICK new : /\ row' = [row EXCEPT ![s] = new] /\ new.full /\ new.at = t.at /\ new.iu = t.iu
                   /\ known' = IF t.iu # NoUnion THEN [known EXCEPT ![s] = t.iu] ELSE known
    <3>1. PICK full \in CASE t.op = "save" -> BOOLEAN
                          [] t.op = "nickname" -> {t.got.full}
                          [] OTHER -> {TRUE} :
             row' = [row EXCEPT ![s] = [rev |-> row[s].rev + 1, full |-> full,
                                        at |-> t.at, iu |-> t.iu]]
      BY <2>2 DEF Put
    <3>2. full = TRUE
      BY <3>1
    <3>3. known' = IF s \in Seats /\ t.iu # NoUnion THEN [known EXCEPT ![s] = t.iu] ELSE known
      BY <2>2 DEF Put
    <3> DEFINE new == [rev |-> row[s].rev + 1, full |-> full, at |-> t.at, iu |-> t.iu]
    <3>4. new.full /\ new.at = t.at /\ new.iu = t.iu
      BY <3>2
    <3>5. row' = [row EXCEPT ![s] = new]
      BY <3>1
    <3> HIDE DEF new, t, s
    <3> QED BY <2>3, <3>3, <3>4, <3>5
  <2>5. /\ t.seat \in Seats /\ s \in Slots /\ t.seat \in Slots /\ t.at \in Nat
    BY <2>1, <2>3, AtQuery DEF Slots, Tasks
  <2>6. row'[s] = new /\ \A x \in Slots \ {s} : row'[x] = row[x]
    BY <2>1, <2>4, <2>5 DEF IInv, TypeOK
  <2>7. /\ known'[s] = IF t.iu # NoUnion THEN t.iu ELSE known[s]
        /\ \A x \in Seats \ {s} : known'[x] = known[x]
    BY <2>1, <2>3, <2>4 DEF IInv, TypeOK
  <2>8. \A x \in Slots \ {s} : row'[x].at \in Nat /\ row'[x].at < row'[s].at
    <3>1. \A x \in Slots : row[x].at \in Nat
      BY <2>1, ARow DEF Rows
    <3> QED BY <2>3, <2>4, <2>6, <3>1
  <2>9. row'[s].at \in Nat /\ row'[s].full /\ row'[s].iu = t.iu
    BY <2>4, <2>5, <2>6
  <2>10. CASE mode # "global"
    BY <2>3, <2>10 DEF Right
  <2>11. CASE mode = "global" /\ s = t.seat
    <3> DEFINE w == UnionOf(known', t)
    <3>1. PICK n \in 1..5 : n = 1
      OBVIOUS
    <3>2. Places(row', known', t.seat, w)[n] = {s}
      BY <2>9, <2>11, <3>1, ThePlaces
    <3>3. \A i \in 1..(n - 1) : Places(row', known', t.seat, w)[i] = {}
      BY <3>1
    <3> HIDE DEF w, t, s
    <3>4. Shown(row', known', t.seat, w) = {s}
      BY <2>9, <3>2, <3>3, LastIsShown
    <3> QED BY <2>11, <3>4 DEF t, s, w
  <2>12. CASE mode = "global" /\ s # t.seat
    <3>1. UnionOf(known', t) = u
      BY <2>5, <2>7, <2>12 DEF UnionOf
    <3>2. PICK n \in 1..5 : s \in before[n] /\ \A i \in 1..(n - 1) : before[i] = {}
      <4>1. s \in Shown(row, known, t.seat, u)
        BY <2>3, <2>12 DEF Right
      <4> QED BY <4>1, ShownIsPlaced
    <3> HIDE DEF u
    <3>3. n = 2 \/ n = 4
      <4>1. n = 1 \/ n = 2 \/ n = 3 \/ n = 4 \/ n = 5
        OBVIOUS
      <4>2. n # 1
        BY <2>12, <3>2, ThePlaces
      <4>3. s \notin Legacies
        BY <2>3, KindsDiffer
      <4>4. n # 3 /\ n # 5
        BY <3>2, <4>3, ThePlaces
      <4> QED BY <4>1, <4>2, <4>4
    <3>4. before[1] = {} /\ (n = 4 => before[2] = {} /\ before[3] = {})
      <4>1. 1 \in 1..(n - 1) /\ (n = 4 => 2 \in 1..(n - 1) /\ 3 \in 1..(n - 1))
        BY <3>3
      <4> QED BY <3>2, <4>1
    <3>5. place[1] = {}
      <4>1. ~row[t.seat].full
        BY <3>4, ThePlaces
      <4>2. ~row'[t.seat].full
        BY <2>5, <2>6, <2>12, <4>1
      <4> QED BY <4>2, ThePlaces
    <3>6. s \in place[2] <=> u # NoUnion /\ u \in {known'[s], t.iu}
      BY <2>3, <2>9, ThePlaces
    <3>7. ASSUME n = 2 PROVE s \in place[2]
      <4>1. u # NoUnion /\ u \in {known[s], row[s].iu}
        BY <3>2, <3>7, ThePlaces
      <4>2. row[s].iu # NoUnion => known[s] = row[s].iu
        BY <2>3, NamesAgree
      <4>3. t.op = "import" => t.iu = u \/ (t.msg = NoUnion /\ t.iu = known[s])
        BY <2>3 DEF Named, u, UnionOf
      <4> QED BY <2>3, <2>7, <3>6, <4>1, <4>2, <4>3
    <3>8. ASSUME n = 4, s \notin place[2] PROVE place[2] = {} /\ place[3] = {} /\ s \in place[4]
      <4>1. /\ s.member = t.seat.member
            /\ u # NoUnion => known[s] = NoUnion /\ row[s].iu = NoUnion
        BY <3>2, <3>8, ThePlaces
      <4>2. u # NoUnion => known'[s] = NoUnion /\ t.iu = NoUnion
        <5>1. t.op = "import" /\ u # NoUnion => t.iu \in {u, known[s]}
          BY <2>3 DEF Named, u, UnionOf
        <5>2. u # NoUnion => u # t.iu
          BY <3>6, <3>8
        <5> QED BY <2>3, <2>7, <4>1, <5>1, <5>2
      <4>3. s \in place[4]
        BY <2>3, <2>9, <4>1, <4>2, ThePlaces
      <4>4. place[2] = {}
        <5>1. ASSUME NEW x \in place[2] PROVE FALSE
          <6>1. x \in Seats /\ row'[x].full /\ u # NoUnion /\ u \in {known'[x], row'[x].iu}
            BY <5>1, ThePlaces
          <6>2. x # s
            BY <3>8, <5>1
          <6>3. x \in before[2]
            <7>1. row'[x] = row[x] /\ known'[x] = known[x]
              BY <2>6, <2>7, <6>1, <6>2 DEF Slots
            <7> QED BY <6>1, <7>1, ThePlaces
          <6> QED BY <3>4, <3>8, <6>3
        <5> QED BY <5>1
      <4>5. place[3] = {}
        <5>1. ASSUME NEW x \in place[3] PROVE FALSE
          <6>1. x \in Legacies /\ row'[x].full /\ u # NoUnion /\ u = x.scope /\ u = x.user
            BY <5>1, ThePlaces
          <6>2. x # s
            BY <2>3, <6>1, KindsDiffer
          <6>3. x \in before[3]
            <7>1. row'[x] = row[x]
              BY <2>6, <6>1, <6>2 DEF Slots
            <7> QED BY <6>1, <7>1, ThePlaces
          <6> QED BY <3>4, <3>8, <6>3
        <5> QED BY <5>1
      <4> QED BY <4>3, <4>4, <4>5
    <3>9. PICK m \in 1..5 : s \in place[m] /\ (m = 2 \/ (m = 4 /\ place[2] = {} /\ place[3] = {}))
      <4>1. CASE s \in place[2]
        BY <4>1
      <4>2. CASE s \notin place[2]
        BY <3>3, <3>7, <3>8, <4>2
      <4> QED BY <4>1, <4>2
    <3>10. \A i \in 1..(m - 1) : place[i] = {}
      <4>1. \A i \in 1..(m - 1) : i = 1 \/ (m = 4 /\ (i = 2 \/ i = 3))
        BY <3>9
      <4> QED BY <3>5, <3>9, <4>1
    <3>11. \A x \in place[m] \ {s} : row'[x].at \in Nat /\ row'[x].at < row'[s].at
      <4>1. place[m] \subseteq Slots
        BY <3>9, ThePlaces DEF Slots
      <4> QED BY <2>8, <4>1
    <3>12. Shown(row', known', t.seat, u) = {s}
      BY <2>9, <3>9, <3>10, <3>11, LastIsShown
    <3> QED BY <2>12, <3>1, <3>12
  <2> QED BY <2>10, <2>11, <2>12
<1>2. Spec => [][Act]_vars
  BY <1>1, QInductive, PTL DEF Spec
<1> QED BY <1>2 DEF ImportedIsShown
===============================================================================
