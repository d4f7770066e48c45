---------------------------- MODULE MCFlockStore ----------------------------
(* Three calls, two of them threads of one process, on two subjects.        *)
EXTENDS FlockStore

CONSTANTS c1, c2, c3, p1, p2, s1, s2

ThreeCalls   == {c1, c2, c3}
TwoProcesses == {p1, p2}
TwoSubjects  == {s1, s2}
TwoInP1      == [c \in ThreeCalls |-> IF c = c3 THEN p2 ELSE p1]

Cas(s, v) == [op |-> "cas", subject |-> s, expected |-> v]
SomeRequests ==
  {Cas(s1, 0), Cas(s1, 1), Cas(s2, 0),
   [op |-> "load", subject |-> s1, expected |-> 0],
   [op |-> "delete", subject |-> s1, expected |-> 0]}

=============================================================================
