---------------------------- MODULE MCScheduleStore ----------------------------
(* The instance of ScheduleStore that TLC explores.                        *)
EXTENDS ScheduleStore, TLC

CONSTANTS c1, c2

MCClients == {c1, c2}
MCBodies == {<<>>, <<"art", "math">>}
MCCourses == {"math", "art"}
Interchangeable == Permutations(MCClients)
===============================================================================
