------------------------- MODULE MCTaskCoordinator -------------------------
(* All children belong to the conversation s1. *)
EXTENDS TaskCoordinator

CONSTANTS a, b, s1

OneSpace == [t \in Tasks |-> s1]
A == {a}
Nobody == {}
=============================================================================
