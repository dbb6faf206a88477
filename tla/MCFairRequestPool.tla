------------------------- MODULE MCFairRequestPool -------------------------
(* Two threads work for the conversation s1, one for s2.                  *)
EXTENDS FairRequestPool

CONSTANTS a1, a2, b, s1, s2, p1, p2

Three == {a1, a2, b}
TheirScope == [x \in Clients |-> IF x = b THEN s2 ELSE s1]
TwoPools == {p1, p2}
============================================================================
