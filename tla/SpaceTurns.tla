---------------------------- MODULE SpaceTurns ----------------------------
(* Work-conserving, least-occupied round robin between conversation       *)
(* spaces (src/provider/fairness.py).  The caller owns the lock, so a     *)
(* choice is a function of the turn state [order, last], the spaces of    *)
(* the waiting items in queue order, and how many items each space has    *)
(* active.  The list _order has no duplicates and is kept as the          *)
(* relation "at or before" between its members.                           *)
EXTENDS SequencesExt

\* last = NoTurn: nobody has been served yet.
NoTurn == "nobody"
FirstTurn == [order |-> {}, last |-> NoTurn]

Members(order) == {p[1] : p \in order}
Before(order, x, y) == <<x, y>> \in order
Among(order, S) == {p \in order : p[1] \in S /\ p[2] \in S}

\* A linear order of some spaces of S, at whose end is the one served last.
IsTurnState(turns, S) ==
    LET order == turns.order
        known == Members(order)
    IN  /\ turns \in [order : SUBSET (S \X S), last : S \cup {NoTurn}]
        /\ \A x, y \in S : Before(order, x, y) => x \in known /\ y \in known
        /\ \A x, y \in known : /\ Before(order, x, y) \/ Before(order, y, x)
                               /\ Before(order, x, y) /\ Before(order, y, x) => x = y
        /\ \A x, y, z \in known :
              Before(order, x, y) /\ Before(order, y, z) => Before(order, x, z)
        /\ turns.last # NoTurn =>
              /\ turns.last \in known
              /\ \A x \in known : Before(order, x, turns.last)

\* dict.fromkeys: the waiting spaces in order of first appearance.
Distinct(pending) ==
    {p \in ToSet(pending) \X ToSet(pending) :
        \E i \in 1..Len(pending) :
            pending[i] = p[1] /\ \A j \in 1..(i - 1) : pending[j] # p[2]}

\* The spaces whose place in the order is kept: waiting, active, or last.
Kept(turns, pending, active) ==
    LET needed(s) == s \in ToSet(pending) \/ active[s] > 0 \/ s = turns.last
    IN  {p \in turns.order : needed(p[1]) /\ needed(p[2])}

\* New contenders come before the last borrower, if that one ends the order.
Enrolled(turns, pending, active) ==
    LET kept  == Kept(turns, pending, active)
        fresh == ToSet(pending) \ Members(kept)
        final == {s \in Members(kept) : /\ s = turns.last
                                        /\ \A o \in Members(kept) : Before(kept, o, s)}
    IN  kept \cup Among(Distinct(pending), fresh)
             \cup ((Members(kept) \ final) \X fresh) \cup (fresh \X final)

\* choose(): s is the first in order among the least occupied waiting spaces.
Chosen(s, turns, pending, active) ==
    LET waiting  == ToSet(pending)
        eligible == {x \in waiting : \A o \in waiting : active[x] <= active[o]}
        order    == Enrolled(turns, pending, active)
    IN  s \in eligible /\ \A o \in eligible : Before(order, s, o)

\* Mutant: the space keeps its place.
ServedInPlace(turns, pending, active, s) ==
    [order |-> Enrolled(turns, pending, active), last |-> s]

\* served(): the space goes to the end of the order.
Served(turns, pending, active, s) ==
    LET order  == Enrolled(turns, pending, active)
        others == Members(order) \ {s}
    IN  [order |-> Among(order, others) \cup ((others \cup {s}) \X {s}),
         last  |-> s]
===========================================================================
