------------------------- MODULE MCAgentScheduler -------------------------
(* Tasks a and b are ordinary subagents; m is serial maintenance without  *)
(* an owner.                                                              *)
EXTENDS AgentScheduler

CONSTANTS a, b, m, s1, s2

SameSpace == [t \in Tasks |-> IF t = m THEN NoSpace ELSE s1]
TwoSpaces == [t \in Tasks |-> IF t = m THEN NoSpace ELSE IF t = a THEN s1 ELSE s2]

A == {a}
B == {b}
AB == {a, b}
AM == {a, m}
M == {m}
Nobody == {}
===========================================================================
