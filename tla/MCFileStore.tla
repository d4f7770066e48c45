---------------------------- MODULE MCFileStore ----------------------------
(* Three calls in processes of their own, the third of them dead or not. *)
EXTENDS FileStore

CONSTANTS c1, c2, c3, p1, p2, p3, s1

ThreeCalls     == {c1, c2, c3}
OwnProcess     == [c \in Calls |-> CASE c = c1 -> p1 [] c = c2 -> p2 [] OTHER -> p3]
ThreeProcesses == {p1, p2, p3}
OneSubject     == {s1}

Cas(s, v) == [op |-> "cas", subject |-> s, expected |-> v]
LoadOf(s)   == [op |-> "load", subject |-> s, expected |-> 0]
DeleteOf(s) == [op |-> "delete", subject |-> s, expected |-> 0]
Writes     == {Cas(s1, 0), Cas(s1, 1)}
Everything == {Cas(s1, 0), Cas(s1, 1), LoadOf(s1), DeleteOf(s1)}

=============================================================================
