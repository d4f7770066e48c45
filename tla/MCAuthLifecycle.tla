-------------------------- MODULE MCAuthLifecycle --------------------------
(* Instances of AuthLifecycle: up to four calls in one process, and two     *)
(* processes that share the store.                                          *)
EXTENDS AuthLifecycle, TLC

CONSTANTS p1, p2, c1, c2, c3, c4

OneProcess   == {p1}
TwoProcesses == {p1, p2}
ThreeCalls   == {c1, c2, c3}
FourCalls    == {c1, c2, c3, c4}
ThreeInP1    == [c \in ThreeCalls |-> p1]
FourInP1     == [c \in FourCalls |-> p1]
SplitHome    == (c1 :> p1) @@ (c2 :> p1) @@ (c3 :> p2)

CallSymmetry     == Permutations(FourCalls)
SameHomeSymmetry == Permutations({c1, c2})
=============================================================================
