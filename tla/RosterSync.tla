------------------------------ MODULE RosterSync ------------------------------
(***************************************************************************)
(* Who is in a group: commands list its members on the platform, page by   *)
(* page and not more often than every ten minutes (syncGroupRoster in      *)
(* internal/bot/group_context.go, ListGroupMembers in qqapi/member.go),    *)
(* and replace the roster of the group in one transaction                  *)
(* (ReplaceGroupRoster in internal/store/group_repository.go), while       *)
(* members come and go and send messages.                                  *)
(*                                                                         *)
(* The platform is external: a page holds the members after its cursor, in *)
(* some order, as they are when it is asked for.                           *)
(***************************************************************************)
EXTENDS Integers, FiniteSets, FiniteSetsExt

CONSTANTS
  Order,        \* the members there may be, numbered as the platform lists them
  Bots,         \* those of them that are bots
  Syncs,        \* goroutines of commands
  PageSize, MaxPages,  \* of the platform; maxGroupMemberPages
  MaxRoster,    \* rosterMemberLimit
  Interval,     \* groupRosterSyncInterval
  Limit,        \* handlerTimeout
  LastTick, MaxMoves  \* bounds: the clock, members that come or go

ASSUME RosterAssumption ==
  /\ Order \subseteq Nat \ {0} /\ IsFiniteSet(Order) /\ Bots \subseteq Order
  /\ PageSize \in Nat \ {0} /\ {MaxPages, MaxRoster, Interval, Limit, LastTick, MaxMoves} \subseteq Nat
  /\ Limit < Interval

Never == -1
NoSync ==
  [at |-> Never, cursor |-> 0, pages |-> 0, whole |-> FALSE, found |-> {}, stayed |-> {}, met |-> {}]

VARIABLES
  tick, moves,
  group,        \* the platform: who is in the group
  attempt,      \* rosterAttempts of the group
  syncs,        \* syncs[s]: the listing under way
  profiles,     \* the members of group_members
  roster,       \* those of them with is_in_roster
  asOf          \* when the listing of the roster was begun

rosterVars == <<tick, moves, group, attempt, syncs, profiles, roster, asOf>>

RosterInit ==
  /\ tick = 0 /\ moves = 0
  /\ group \in SUBSET Order
  /\ attempt = Never
  /\ syncs = [s \in Syncs |-> NoSync]
  /\ profiles = {} /\ roster = {} /\ asOf = Never

--------------------------------------------------------------------------------
Idle(s) == syncs[s] = NoSync
Update(s, sync) == syncs' = [syncs EXCEPT ![s] = sync]

\* A mutant: a listing that is under way does not count.
StampLate(s) == attempt' = attempt

(* syncGroupRoster: the time is noted before the listing is tried, so that *)
(* a failed one is not repeated at once.                                   *)
Stamp(s) == attempt' = tick
BeginSync(s) ==
  /\ Idle(s)
  /\ attempt = Never \/ tick - attempt >= Interval
  /\ Stamp(s)
  /\ Update(s, [NoSync EXCEPT !.at = tick, !.stayed = group, !.met = group])
  /\ UNCHANGED <<tick, moves, group, profiles, roster, asOf>>

(* ListGroupMembers: one page.  Any failing request, a cursor that comes a *)
(* second time or one page too many ends the listing without a result.     *)
After(cursor) == {m \in group : m > cursor}
Page(cursor) ==
  {m \in After(cursor) : Cardinality({n \in After(cursor) : n <= m}) <= PageSize}
GetPage(s) ==
  /\ ~Idle(s) /\ ~syncs[s].whole
  /\ LET page == Page(syncs[s].cursor)
         more == After(syncs[s].cursor) # page
     IN /\ more => syncs[s].pages + 1 < MaxPages
        /\ Update(s, [syncs[s] EXCEPT !.found = @ \cup page, !.pages = @ + 1, !.whole = ~more,
                                      !.cursor = IF page = {} THEN @ ELSE Max(page)])
  /\ UNCHANGED <<tick, moves, group, attempt, profiles, roster, asOf>>
FailSync(s) ==
  /\ ~Idle(s)
  /\ Update(s, NoSync)
  /\ UNCHANGED <<tick, moves, group, attempt, profiles, roster, asOf>>

(* SaveGroupRoster: the first of those who are no bots; ReplaceGroupRoster.*)
Taken(found) ==
  {m \in found \ Bots : Cardinality({n \in found \ Bots : n <= m}) <= MaxRoster}
ReplaceRoster(s) ==
  /\ ~Idle(s) /\ syncs[s].whole
  /\ roster' = Taken(syncs[s].found)
  /\ profiles' = profiles \cup roster'
  /\ asOf' = syncs[s].at
  /\ Update(s, NoSync)
  /\ UNCHANGED <<tick, moves, group, attempt>>

(* RecordGroupMemberSeen: who sends a message has a profile.               *)
SeenNow(m) ==
  /\ m \in group \ profiles
  /\ profiles' = profiles \cup {m}
  /\ UNCHANGED <<tick, moves, group, attempt, syncs, roster, asOf>>

--------------------------------------------------------------------------------
Moves(members) ==
  /\ moves < MaxMoves /\ moves' = moves + 1
  /\ group' = members
  /\ syncs' = [s \in Syncs |->
                 IF Idle(s) THEN NoSync
                 ELSE [syncs[s] EXCEPT !.stayed = @ \cap members, !.met = @ \cup members]]
  /\ UNCHANGED <<tick, attempt, profiles, roster, asOf>>
Join == \E m \in Order \ group : Moves(group \cup {m})
Leave == \E m \in group : Moves(group \ {m})

(* The context of a command ends after handlerTimeout.                     *)
RosterTick ==
  /\ tick < LastTick
  /\ \A s \in Syncs : ~Idle(s) => tick < syncs[s].at + Limit
  /\ tick' = tick + 1
  /\ UNCHANGED <<moves, group, attempt, syncs, profiles, roster, asOf>>

RosterNext ==
  \/ \E s \in Syncs : BeginSync(s) \/ GetPage(s) \/ FailSync(s) \/ ReplaceRoster(s)
  \/ \E m \in Order : SeenNow(m)
  \/ Join \/ Leave \/ RosterTick

RosterSpec == RosterInit /\ [][RosterNext]_rosterVars

--------------------------------------------------------------------------------
(* A roster is replaced by a later one, and by a whole one: it has nobody  *)
(* who was not in the group while it was listed, and everybody who was     *)
(* there all the time, however the pages, the joins and the failures of    *)
(* several commands fall.  (syncGroupRoster, ListGroupMembers,             *)
(* ReplaceGroupRoster.)                                                    *)
RosterIsSnapshot ==
  [][\A s \in Syncs : ReplaceRoster(s) =>
       /\ asOf < syncs[s].at
       /\ roster' \subseteq syncs[s].met \ Bots
       /\ Cardinality(syncs[s].met \ Bots) <= MaxRoster =>
            syncs[s].stayed \ Bots \subseteq roster']_rosterVars

================================================================================
