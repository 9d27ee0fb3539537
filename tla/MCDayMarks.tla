------------------------------ MODULE MCDayMarks ------------------------------
(* The instances of DayMarks that TLC explores.                            *)
EXTENDS DayMarks, TLC

CONSTANTS c1, c2, g1, g2, m1, d1, d2

MCCallers == {c1, c2}
MCGroups == {g1, g2}
Marks(own, all) ==
  [w \in Who |-> [d \in Days |-> IF d # d1 THEN None ELSE IF w = All THEN all ELSE own]]
MCEarlier ==
  {[g \in MCGroups |-> IF g = g1 THEN here ELSE Marks(None, "holiday")] :
     here \in {Marks(None, None), Marks("shift", "holiday")}}
MCListings == {<<d1>>, <<d2, d1, d2>>}
EveryOp == Marking \cup Clearing \cup {"export", "restore"}
Interchangeable == Permutations(MCCallers)
===============================================================================
