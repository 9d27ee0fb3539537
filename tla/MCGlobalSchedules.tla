--------------------------- MODULE MCGlobalSchedules ---------------------------
(* The instances of GlobalSchedules that TLC explores: one person, u1, in  *)
(* two groups, another one, u2, whose openid in the second group is the    *)
(* one u1 has in the first, and a v6 record of u1.                         *)
EXTENDS GlobalSchedules, TLC

CONSTANTS c1, c2

MCClients == {c1, c2}
OneClient == {c1}
Seat(g, m) == [group |-> g, member |-> m]
MCSeats == {Seat("g1", "m1"), Seat("g2", "m2"), Seat("g2", "m1")}
TwoSeats == {Seat("g1", "m1"), Seat("g2", "m1")}
MCOwner == [s \in MCSeats |-> IF s = Seat("g2", "m1") THEN "u2" ELSE "u1"]
SameOwner == [s \in TwoSeats |-> "u1"]
UnionLegacy == {[scope |-> "u1", user |-> "u1", importer |-> "m1"]}
NoLegacies == {}
EveryOp == BotOps \cup WebOps
Editing == {"load", "save"}
Interchangeable == Permutations(MCClients)
===============================================================================
