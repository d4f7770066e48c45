---------------------------- MODULE MCSecureStore ----------------------------
(* Three calls on two subjects. *)
EXTENDS SecureStore

CONSTANTS c1, c2, c3, s1, s2

ThreeCalls  == {c1, c2, c3}
TwoSubjects == {s1, s2}

Cas(s, v) == [op |-> "cas", subject |-> s, expected |-> v]
SomeRequests ==
  {Cas(s1, 0), Cas(s1, 1), Cas(s2, 0),
   [op |-> "load", subject |-> s1, expected |-> 0],
   [op |-> "delete", subject |-> s1, expected |-> 0]}

=============================================================================
