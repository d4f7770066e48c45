--------------------------- MODULE MCPythonFlight ---------------------------
(* Two callers of one subject, and a flight for each time they can ask.     *)
EXTENDS PythonFlight, TLC

CONSTANTS c1, c2, t1, t2, t3, t4

TwoCalls  == {c1, c2}
FourTasks == {t1, t2, t3, t4}

Symmetry == Permutations(TwoCalls) \cup Permutations(FourTasks)

=============================================================================
