---------------------------- MODULE MCEventDelivery ----------------------------
(* The instances of EventDelivery that TLC explores.                       *)
EXTENDS EventDelivery, TLC

CONSTANTS m1, m2, m3, press

Messages == {m1, m2, m3}
Pair == {m1, press}
Press == {press}
NoPress == {}
FromBots == {}
Permuted == Permutations(Messages)
===============================================================================
