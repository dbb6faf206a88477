---------------------------- MODULE MCTaskPlan ----------------------------
(* Two steps are enough for one to depend on the other; one executor is   *)
(* the scheduler thread, a second is a CLI run of the same plan.          *)
EXTENDS TaskPlan, TLC

CONSTANTS e1, e2

\* Two independent steps, or the second after the first.
TwoGraphs == {[s \in 1..2 |-> {}], [s \in 1..2 |-> IF s = 2 THEN {1} ELSE {}]}

\* ... or the first after the second, against the order of the list.
AllGraphs == TwoGraphs \cup {[s \in 1..2 |-> IF s = 1 THEN {2} ELSE {}]}

OneExecutor  == {e1}
TwoExecutors == {e1, e2}
ExecutorSymmetry == Permutations({e1, e2})
===========================================================================
