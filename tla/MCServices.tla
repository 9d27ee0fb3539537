------------------------------ MODULE MCServices ------------------------------
(* The parts of the program that keep a table of their own and meet no     *)
(* other's, each explored by itself: a behaviour runs one of them and the  *)
(* others stay at their start.                                             *)
EXTENDS Migration, AdminAccess, TokenCache, RosterSync, TLC

CONSTANTS anna, ben, carl, t1, t2, c1, c2, c3, s1, s2

VARIABLE part
servicesVars == <<migrationVars, accessVars, tokenVars, rosterVars, part>>

(* v6 databases: a full one, in which the tables name members in every     *)
(* combination; a new one; one with links of private chats; one with a     *)
(* value that cannot be read.                                              *)
Full ==
  [versioned |-> TRUE, bad |-> None,
   rows |-> anna :> [name |-> "Anna", union |-> "uA", rev |-> 0, events |-> <<"math", "art">>]
            @@ ben :> [name |-> None, union |-> None, rev |-> 2, events |-> <<"art">>],
   marks |-> <<carl, 1>> :> "holiday" @@ <<Everybody, 2>> :> "shift",
   seen |-> ben :> "Ben" @@ anna :> "Annie",
   identity |-> ben :> "uB",
   roster |-> anna :> [name |-> None, union |-> None] @@ ben :> [name |-> "Benny", union |-> None],
   links |-> t1 :> [member |-> carl, expires |-> 1, group |-> TRUE],
   settings |-> "old", panel |-> [known |-> TRUE, version |-> 0]]
Fresh6 ==
  [versioned |-> FALSE, bad |-> None, rows |-> Empty, marks |-> Empty, seen |-> Empty,
   identity |-> Empty, roster |-> Empty, links |-> Empty, settings |-> None,
   panel |-> [known |-> FALSE, version |-> 0]]
Private == [Full EXCEPT !.links[t1].group = FALSE, !.settings = None, !.panel.known = FALSE,
                        !.rows = Empty]
Unread == [Full EXCEPT !.bad = "named"]
AllDatabases == {Full, Fresh6, Private, Unread}

Init ==
  /\ MigrationInit /\ AccessInit /\ TokenInit /\ RosterInit
  /\ part \in {"migration", "access", "tokens", "roster"}
  /\ part # "migration" => v6 = Full
  /\ part # "roster" => group = {}

Next ==
  /\ UNCHANGED part
  /\ \/ part = "migration" /\ MigrationNext /\ UNCHANGED <<accessVars, tokenVars, rosterVars>>
     \/ part = "access" /\ AccessNext /\ UNCHANGED <<migrationVars, tokenVars, rosterVars>>
     \/ part = "tokens" /\ TokenNext /\ UNCHANGED <<migrationVars, accessVars, rosterVars>>
     \/ part = "roster" /\ RosterNext /\ UNCHANGED <<migrationVars, accessVars, tokenVars>>

Spec == Init /\ [][Next]_servicesVars
===============================================================================
