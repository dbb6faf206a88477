----------------------- MODULE FairRequestPoolProofs -----------------------
(***************************************************************************)
(* That the pool of provider requests keeps its count and its queue, and   *)
(* with them its limit, and that the turns of the spaces are fair, for any *)
(* threads, spaces, pools and limits.                                      *)
(***************************************************************************)
EXTENDS FairRequestPool, FiniteSetTheorems, SequenceTheorems,
        WellFoundedInduction, TLAPS

Types == /\ current \in Pools
         /\ limit \in [Pools -> 1..MaxLimit]
         /\ pending \in [Pools -> Seq(Clients)]
         /\ active \in [Pools -> [Scopes -> 0..Cardinality(Clients)]]
         /\ state \in [Clients -> {"idle", "waiting", "held"}]
         /\ ticket \in [Clients -> Pools \cup {NoPool}]

\* Every ticket belongs to the pool in use: a pool with tickets is kept.
OnePool == \A c \in Clients :
               ticket[c] = IF state[c] = "idle" THEN NoPool ELSE current

\* The queue of the pool in use holds the waiting clients, each once.
QueueHoldsTheWaiting ==
    LET q == pending[current] IN
    /\ \A i \in 1..Len(q) : state[q[i]] = "waiting"
    /\ \A i, j \in 1..Len(q) : q[i] = q[j] => i = j
    /\ \A c \in Clients : state[c] = "waiting" => \E i \in 1..Len(q) : q[i] = c

HeldBy(s) == {c \in Held : Scope[c] = s}
UnitsOf(a) == {u \in Units : u[2] <= a[u[1]]}

\* The counters of the pool in use count the requests under way.
CountsAreTrue ==
    /\ \A s \in Scopes : active[current][s] = Cardinality(HeldBy(s))
    /\ Total(current) = Cardinality(Held)

PoolInv == /\ Types
           /\ OnePool
           /\ QueueHoldsTheWaiting
           /\ CountsAreTrue
           /\ IsFiniteSet(UnitsOf(active[current]))
           /\ RequestsWithinLimit
-----------------------------------------------------------------------------
(* Sequences.                                                             *)
\* What is left of a sequence without its i-th element.
LEMMA RemoveAtFacts ==
    ASSUME NEW S, NEW q \in Seq(S), NEW i \in 1..Len(q), NEW r, r = RemoveAt(q, i)
    PROVE  /\ r \in Seq(S) /\ Len(r) = Len(q) - 1
           /\ \A j \in 1..Len(r) : r[j] = q[IF j < i THEN j ELSE j + 1]
  <1>1. Len(q) \in Nat /\ \A k \in 1..Len(q) : q[k] \in S
    OBVIOUS
  <1> DEFINE a == SubSeq(q, 1, i - 1)
             b == SubSeq(q, i + 1, Len(q))
  <1>2. a \in Seq(S) /\ Len(a) = i - 1 /\ \A k \in 1..(i - 1) : a[k] = q[k]
    OBVIOUS
  <1>3. b \in Seq(S) /\ Len(b) = Len(q) - i /\ \A k \in 1..(Len(q) - i) : b[k] = q[k + i]
    OBVIOUS
  <1>4. r = a \o b
    BY DEF RemoveAt
  <1> HIDE DEF a, b
  <1>5. r \in Seq(S) /\ Len(r) = Len(a) + Len(b)
    BY <1>2, <1>3, <1>4, ConcatProperties
  <1>6. Len(r) = Len(q) - 1
    BY <1>1, <1>2, <1>3, <1>5
  <1>7. ASSUME NEW j \in 1..Len(r)
        PROVE  r[j] = q[IF j < i THEN j ELSE j + 1]
    <2>1. CASE j < i
      <3>1. j \in 1..Len(a) /\ r[j] = a[j]
        BY <1>2, <1>3, <1>4, <1>6, <1>7, <2>1, ConcatProperties
      <3> QED BY <1>2, <2>1, <3>1
    <2>2. CASE ~(j < i)
      <3>1. j - Len(a) \in 1..Len(b) /\ r[j] = b[j - Len(a)]
        BY <1>1, <1>2, <1>3, <1>4, <1>6, <1>7, <2>2, ConcatProperties
      <3>2. (j - Len(a)) + i = j + 1
        BY <1>2
      <3> QED BY <1>2, <1>3, <2>2, <3>1, <3>2
    <2> QED BY <2>1, <2>2
  <1> QED BY <1>5, <1>6, <1>7

\* What is left was there before, at another place ...
LEMMA RemoveAtLeaves ==
    ASSUME NEW S, NEW q \in Seq(S), NEW i \in 1..Len(q), NEW r, r = RemoveAt(q, i)
    PROVE  \A j \in 1..Len(r) : \E k \in 1..Len(q) : k # i /\ r[j] = q[k]
  <1> DEFINE from(j) == IF j < i THEN j ELSE j + 1
  <1>1. Len(r) = Len(q) - 1 /\ \A j \in 1..Len(r) : r[j] = q[from(j)]
    BY RemoveAtFacts
  <1>2. \A j \in 1..Len(r) : from(j) \in 1..Len(q) /\ from(j) # i
    BY <1>1
  <1> HIDE DEF from
  <1> QED BY <1>1, <1>2

\* ... nothing else is missing ...
LEMMA RemoveAtKeeps ==
    ASSUME NEW S, NEW q \in Seq(S), NEW i \in 1..Len(q), NEW r, r = RemoveAt(q, i)
    PROVE  \A k \in 1..Len(q) : k # i => \E j \in 1..Len(r) : r[j] = q[k]
  <1> DEFINE from(j) == IF j < i THEN j ELSE j + 1
  <1>1. Len(r) = Len(q) - 1 /\ \A j \in 1..Len(r) : r[j] = q[from(j)]
    BY RemoveAtFacts
  <1>2. ASSUME NEW k \in 1..Len(q), k # i
        PROVE  \E j \in 1..Len(r) : from(j) = k
    <2>1. CASE k < i
      <3>1. k \in 1..Len(r) /\ from(k) = k
        BY <1>1, <2>1
      <3> QED BY <3>1
    <2>2. CASE k > i
      <3>1. k - 1 \in 1..Len(r) /\ from(k - 1) = k
        BY <1>1, <2>2
      <3> QED BY <3>1
    <2> QED BY <1>2, <2>1, <2>2
  <1> HIDE DEF from
  <1> QED BY <1>1, <1>2

\* ... and what was there once is there once.
LEMMA RemoveAtOnce ==
    ASSUME NEW S, NEW q \in Seq(S), NEW i \in 1..Len(q), NEW r, r = RemoveAt(q, i),
           \A j, k \in 1..Len(q) : q[j] = q[k] => j = k
    PROVE  \A j, k \in 1..Len(r) : r[j] = r[k] => j = k
  <1> DEFINE from(j) == IF j < i THEN j ELSE j + 1
  <1>1. Len(r) = Len(q) - 1 /\ \A j \in 1..Len(r) : r[j] = q[from(j)]
    BY RemoveAtFacts
  <1>2. \A j \in 1..Len(r) : from(j) \in 1..Len(q)
    BY <1>1
  <1>3. \A j, k \in 1..Len(r) : from(j) = from(k) => j = k
    BY <1>1
  <1> HIDE DEF from
  <1>4. ASSUME NEW j \in 1..Len(r), NEW k \in 1..Len(r), r[j] = r[k]
        PROVE  j = k
    <2>1. q[from(j)] = q[from(k)]
      BY <1>1, <1>4
    <2> QED BY <1>2, <1>3, <2>1
  <1> QED BY <1>4
-----------------------------------------------------------------------------
(* Counting.                                                              *)
LEMMA ClientCount ==
    ASSUME NEW S \in SUBSET Clients
    PROVE  /\ IsFiniteSet(S) /\ Cardinality(S) \in Nat /\ Cardinality(Clients) \in Nat
           /\ Cardinality(S) <= Cardinality(Clients)
  BY PoolAssumption, FS_Subset, FS_CardinalityType

\* Another request of space s takes one unit more ...
LEMMA OneUnitMore ==
    ASSUME NEW a \in [Scopes -> 0..Cardinality(Clients)], NEW s \in Scopes,
           a[s] + 1 <= Cardinality(Clients), IsFiniteSet(UnitsOf(a)),
           NEW b, b = [a EXCEPT ![s] = a[s] + 1]
    PROVE  /\ IsFiniteSet(UnitsOf(b)) /\ b \in [Scopes -> 0..Cardinality(Clients)]
           /\ Cardinality(UnitsOf(b)) = Cardinality(UnitsOf(a)) + 1
  <1>1. Cardinality(Clients) \in Nat
    BY ClientCount
  <1>2. /\ b \in [Scopes -> 0..Cardinality(Clients)] /\ b[s] = a[s] + 1
        /\ \A r \in Scopes : r # s => b[r] = a[r]
    BY <1>1
  <1> DEFINE u == <<s, a[s] + 1>>
  <1>3. u \in Units /\ u[1] = s /\ u[2] = a[s] + 1
    BY <1>1 DEF Units
  <1>4. \A v \in Units : v \in UnitsOf(b) <=> v \in UnitsOf(a) \/ v = u
    <2> TAKE v \in Units
    <2>1. v[1] \in Scopes /\ v[2] \in Nat /\ v = <<v[1], v[2]>>
      BY <1>1 DEF Units
    <2>2. CASE v[1] = s
      <3>1. v[2] <= a[s] + 1 <=> v[2] <= a[s] \/ v[2] = a[s] + 1
        BY <1>1, <2>1
      <3>2. v = u <=> v[2] = a[s] + 1
        BY <2>1, <2>2
      <3> QED BY <1>2, <2>2, <3>1, <3>2 DEF UnitsOf
    <2>3. CASE v[1] # s
      <3>1. b[v[1]] = a[v[1]] /\ v # u
        BY <1>2, <1>3, <2>1, <2>3
      <3> QED BY <3>1 DEF UnitsOf
    <2> QED BY <2>2, <2>3
  <1>5. UnitsOf(b) = UnitsOf(a) \cup {u}
    BY <1>3, <1>4 DEF UnitsOf
  <1>6. u \notin UnitsOf(a)
    BY <1>1, <1>3 DEF UnitsOf
  <1> HIDE DEF u
  <1> HIDE DEF UnitsOf
  <1>7. /\ IsFiniteSet(UnitsOf(a) \cup {u})
        /\ Cardinality(UnitsOf(a) \cup {u}) = Cardinality(UnitsOf(a)) + 1
    BY <1>6, FS_AddElement
  <1> QED BY <1>2, <1>5, <1>7

\* ... and its end gives one back.
LEMMA OneUnitLess ==
    ASSUME NEW a \in [Scopes -> 0..Cardinality(Clients)], NEW s \in Scopes,
           a[s] # 0, IsFiniteSet(UnitsOf(a)),
           NEW b, b = [a EXCEPT ![s] = a[s] - 1]
    PROVE  /\ IsFiniteSet(UnitsOf(b)) /\ b \in [Scopes -> 0..Cardinality(Clients)]
           /\ Cardinality(UnitsOf(b)) = Cardinality(UnitsOf(a)) - 1
  <1>1. Cardinality(Clients) \in Nat
    BY ClientCount
  <1>2. /\ b \in [Scopes -> 0..Cardinality(Clients)] /\ b[s] = a[s] - 1
        /\ \A r \in Scopes : r # s => b[r] = a[r]
    BY <1>1
  <1>3. a = [b EXCEPT ![s] = b[s] + 1] /\ b[s] + 1 = a[s] /\ b[s] + 1 <= Cardinality(Clients)
    <2>1. b[s] + 1 = a[s] /\ a[s] <= Cardinality(Clients)
      BY <1>1, <1>2
    <2>2. \A r \in Scopes : a[r] = [b EXCEPT ![s] = b[s] + 1][r]
      BY <1>2, <2>1
    <2>3. a = [r \in Scopes |-> a[r]] /\ DOMAIN b = Scopes
      BY <1>2
    <2> QED BY <2>1, <2>2, <2>3
  <1>4. UnitsOf(b) \subseteq UnitsOf(a)
    <2>1. ASSUME NEW v \in UnitsOf(b)
          PROVE  v \in UnitsOf(a)
      <3>1. v \in Units /\ v[1] \in Scopes /\ v[2] \in Nat /\ v[2] <= b[v[1]]
        BY <1>1 DEF UnitsOf, Units
      <3>2. b[v[1]] <= a[v[1]] /\ a[v[1]] \in Nat /\ b[v[1]] \in Nat
        BY <1>1, <1>2, <3>1
      <3> QED BY <3>1, <3>2 DEF UnitsOf
    <2> QED BY <2>1
  <1>5. IsFiniteSet(UnitsOf(b))
    BY <1>4, FS_Subset
  <1>6. Cardinality(UnitsOf(a)) = Cardinality(UnitsOf(b)) + 1
    BY <1>2, <1>3, <1>5, OneUnitMore
  <1> QED BY <1>2, <1>5, <1>6, FS_CardinalityType

\* A pool without requests.
LEMMA NoUnits ==
    ASSUME NEW a, a = [s \in Scopes |-> 0]
    PROVE  UnitsOf(a) = {} /\ a \in [Scopes -> 0..Cardinality(Clients)]
  <1>1. Cardinality(Clients) \in Nat
    BY ClientCount
  <1> QED BY <1>1 DEF UnitsOf, Units
-----------------------------------------------------------------------------
(* The order of the spaces.                                               *)
\* Every waiting space has a first place in the queue.
LEMMA FirstPlaces ==
    ASSUME NEW S, NEW waiting \in Seq(S), NEW x \in ToSet(waiting)
    PROVE  \E i \in 1..Len(waiting) :
              waiting[i] = x /\ \A j \in 1..(i - 1) : waiting[j] # x
  <1> DEFINE T == {i \in 1..Len(waiting) : waiting[i] = x}
  <1>1. Len(waiting) \in Nat /\ DOMAIN waiting = 1..Len(waiting)
    OBVIOUS
  <1>2. T # {} /\ T \subseteq Nat
    BY <1>1 DEF ToSet
  <1>3. PICK i \in T : \A j \in T : <<j, i>> \notin OpToRel(<, Nat)
    BY <1>2, WFMin, NatLessThanWellFounded
  <1>4. \A j \in T : ~(j < i)
    BY <1>2, <1>3 DEF OpToRel
  <1>5. i \in 1..Len(waiting) /\ waiting[i] = x
    BY <1>3
  <1>6. ASSUME NEW j \in 1..(i - 1), waiting[j] = x
        PROVE  FALSE
    <2>1. j \in T /\ j < i
      BY <1>1, <1>5, <1>6
    <2> QED BY <1>4, <2>1
  <1> QED BY <1>5, <1>6

\* The order of first appearance is linear.
LEMMA DistinctIsLinear ==
    ASSUME NEW S, NEW waiting \in Seq(S), NEW d, d = Distinct(waiting),
           NEW W, W = ToSet(waiting)
    PROVE  /\ W \subseteq S /\ d \subseteq W \X W
           /\ \A x, y \in W : /\ Before(d, x, y) \/ Before(d, y, x)
                              /\ Before(d, x, y) /\ Before(d, y, x) => x = y
           /\ \A x, y, z \in W : Before(d, x, y) /\ Before(d, y, z) => Before(d, x, z)
  <1> DEFINE IsFirst(x, i) == waiting[i] = x /\ \A j \in 1..(i - 1) : waiting[j] # x
             place == [x \in W |-> CHOOSE i \in 1..Len(waiting) : IsFirst(x, i)]
  <1>1. Len(waiting) \in Nat /\ W \subseteq S
    BY DEF ToSet
  <1>2. \A x \in W : \E i \in 1..Len(waiting) : IsFirst(x, i)
    BY FirstPlaces
  <1>3. \A x \in W : place[x] \in 1..Len(waiting) /\ IsFirst(x, place[x])
    BY <1>2
  <1>4. \A x, y \in W : place[x] = place[y] => x = y
    BY <1>3
  <1>5. ASSUME NEW x \in W, NEW y \in W
        PROVE  Before(d, x, y) <=> place[x] <= place[y]
    <2> HIDE DEF place
    <2>1. Before(d, x, y) <=> \E i \in 1..Len(waiting) :
                                waiting[i] = x /\ \A j \in 1..(i - 1) : waiting[j] # y
      BY DEF Before, Distinct
    <2>2. ASSUME NEW i \in 1..Len(waiting), waiting[i] = x,
                 \A j \in 1..(i - 1) : waiting[j] # y
          PROVE  place[x] <= place[y]
      <3>1. ~(i < place[x]) /\ ~(place[y] < i)
        BY <1>1, <1>3, <2>2
      <3> QED BY <1>1, <1>3, <3>1
    <2>3. ASSUME place[x] <= place[y]
          PROVE  \A j \in 1..(place[x] - 1) : waiting[j] # y
      BY <1>1, <1>3, <2>3
    <2> QED BY <1>3, <2>1, <2>2, <2>3
  <1>6. d \subseteq W \X W
    BY DEF Distinct
  <1>7. \A x \in W : place[x] \in Nat
    BY <1>1, <1>3
  <1> HIDE DEF place
  <1> QED BY <1>1, <1>4, <1>5, <1>6, <1>7

\* Who stands where in e, after the contenders N have been enrolled among the
\* waiting spaces W, which first appeared in the order d: those who keep their
\* place are K, and F is {given.last} if that one ends the order.
Places(given, W, d, e, S, K, N, F) ==
    /\ K \subseteq Members(given.order) /\ N = W \ K
    /\ Members(given.order) \cap (W \cup {given.last}) \subseteq K
    /\ F \subseteq K /\ F \subseteq {given.last}
    /\ given.last \in K /\ given.last # NoTurn => given.last \in F
    /\ \A x \in K, y \in F : Before(given.order, x, y)
    /\ e \subseteq (K \cup N) \X (K \cup N)
    /\ \A x, y \in S :
          Before(e, x, y) <=> \/ x \in K /\ y \in K /\ Before(given.order, x, y)
                              \/ x \in N /\ y \in N /\ Before(d, x, y)
                              \/ x \in K \ F /\ y \in N
                              \/ x \in N /\ y \in F

LEMMA EnrolledPlaces ==
    ASSUME NEW S, NEW given, IsTurnState(given, S), NEW waiting \in Seq(S),
           NEW counts \in [S -> Nat], NEW e, e = Enrolled(given, waiting, counts)
    PROVE  \E K, N, F : Places(given, ToSet(waiting), Distinct(waiting), e, S, K, N, F)
  <1> USE DEF Before
  <1> DEFINE order == given.order
             known == Members(order)
             Needed(s) == s \in ToSet(waiting) \/ counts[s] > 0 \/ s = given.last
             kept  == Kept(given, waiting, counts)
             K == {s \in known : Needed(s)}
             N == ToSet(waiting) \ K
             F == {s \in K : s = given.last /\ \A o \in K : Before(kept, o, s)}
             d == Distinct(waiting)
  <1>1. /\ order \subseteq S \X S /\ known \subseteq S
        /\ \A x, y \in S : Before(order, x, y) => x \in known /\ y \in known
        /\ \A x \in known : Before(order, x, x)
        /\ given.last # NoTurn => \A x \in known : Before(order, x, given.last)
    <2>1. order \subseteq S \X S
      BY DEF IsTurnState
    <2>2. known \subseteq S
      BY <2>1 DEF Members
    <2> QED BY <2>1, <2>2 DEF IsTurnState
  <1>2. ToSet(waiting) \subseteq S /\ d \subseteq ToSet(waiting) \X ToSet(waiting)
    BY DistinctIsLinear
  <1>3. kept = {p \in order : Needed(p[1]) /\ Needed(p[2])}
    BY DEF Kept
  <1>4. \A x, y \in S : Before(kept, x, y) <=> x \in K /\ y \in K /\ Before(order, x, y)
    BY <1>1, <1>3 DEF Before
  <1>5. kept \subseteq K \X K
    <2>1. ASSUME NEW p \in kept
          PROVE  p \in K \X K
      <3>1. p \in S \X S
        BY <1>1, <1>3, <2>1
      <3>2. p[1] \in S /\ p[2] \in S /\ p = <<p[1], p[2]>>
        BY <3>1
      <3>3. p[1] \in K /\ p[2] \in K
        <4> HIDE DEF K, kept
        <4> QED BY <1>4, <2>1, <3>2
      <3> QED BY <3>2, <3>3
    <2> QED BY <2>1
  <1>6. Members(kept) = K
    <2>1. ASSUME NEW x \in K
          PROVE  x \in Members(kept)
      <3>1. Before(kept, x, x)
        BY <1>1, <1>4
      <3>2. <<x, x>> \in kept /\ <<x, x>>[1] = x
        BY <3>1 DEF Before
      <3> QED BY <3>2 DEF Members
    <2>2. Members(kept) \subseteq K
      BY <1>5 DEF Members
    <2> QED BY <2>1, <2>2
  <1>7. e = kept \cup Among(d, N) \cup ((K \ F) \X N) \cup (N \X F)
    BY <1>6 DEF Enrolled
  <1>8. Among(d, N) \subseteq N \X N /\ \A x, y \in S :
            <<x, y>> \in Among(d, N) <=> x \in N /\ y \in N /\ Before(d, x, y)
    BY <1>2 DEF Among, Before
  <1>9. /\ K \subseteq known /\ F \subseteq {given.last} /\ F \subseteq K
        /\ N = ToSet(waiting) \ K
    OBVIOUS
  <1>10. known \cap (ToSet(waiting) \cup {given.last}) \subseteq K
    OBVIOUS
  <1>11. given.last \in K /\ given.last # NoTurn => given.last \in F
    BY <1>1, <1>4
  <1>12. \A x \in K, y \in F : Before(order, x, y)
    BY <1>1, <1>4
  <1> HIDE DEF kept, K, N, F, d, known
  <1>13. e \subseteq (K \cup N) \X (K \cup N)
    BY <1>5, <1>7, <1>8, <1>9
  <1>14. \A x, y \in S : Before(e, x, y) <=> \/ Before(kept, x, y)
                                             \/ <<x, y>> \in Among(d, N)
                                             \/ x \in K \ F /\ y \in N
                                             \/ x \in N /\ y \in F
    BY <1>7 DEF Before
  <1>15. \A x, y \in S : Before(e, x, y) <=> \/ x \in K /\ y \in K /\ Before(order, x, y)
                                             \/ x \in N /\ y \in N /\ Before(d, x, y)
                                             \/ x \in K \ F /\ y \in N
                                             \/ x \in N /\ y \in F
    BY <1>4, <1>8, <1>14
  <1>16. Places(given, ToSet(waiting), d, e, S, K, N, F)
    BY <1>9, <1>10, <1>11, <1>12, <1>13, <1>15 DEF Places, known
  <1> QED BY <1>16 DEF d

\* Enrolling keeps a linear order, knows everyone who waits, and lets nobody
\* pass a waiting space that has its place and was not served last.
LEMMA EnrolledFacts ==
    ASSUME NEW S, NEW given, IsTurnState(given, S), NEW waiting \in Seq(S),
           NEW counts \in [S -> Nat], NEW e, e = Enrolled(given, waiting, counts)
    PROVE  /\ IsTurnState([given EXCEPT !.order = e], S)
           /\ ToSet(waiting) \subseteq Members(e)
           /\ \A x \in ToSet(waiting) \ {given.last}, y \in S :
                 Before(given.order, x, x) /\ Before(e, y, x) => Before(given.order, y, x)
  <1> USE DEF Before
  <1> DEFINE order == given.order
             known == Members(order)
             W == ToSet(waiting)
             d == Distinct(waiting)
  <1>1. PICK K, N, F : Places(given, W, d, e, S, K, N, F)
    BY EnrolledPlaces
  <1>2. /\ order \subseteq S \X S /\ known \subseteq S
        /\ given \in [order : SUBSET (S \X S), last : S \cup {NoTurn}]
        /\ \A x, y \in S : Before(order, x, y) => x \in known /\ y \in known
        /\ \A x, y \in known : /\ Before(order, x, y) \/ Before(order, y, x)
                               /\ Before(order, x, y) /\ Before(order, y, x) => x = y
        /\ \A x, y, z \in known :
              Before(order, x, y) /\ Before(order, y, z) => Before(order, x, z)
        /\ given.last # NoTurn =>
              /\ given.last \in known
              /\ \A x \in known : Before(order, x, given.last)
    <2>1. order \subseteq S \X S
      BY DEF IsTurnState
    <2>2. known \subseteq S
      BY <2>1 DEF Members
    <2> QED BY <2>1, <2>2 DEF IsTurnState
  <1>3. /\ W \subseteq S
        /\ \A x, y \in W : /\ Before(d, x, y) \/ Before(d, y, x)
                           /\ Before(d, x, y) /\ Before(d, y, x) => x = y
        /\ \A x, y, z \in W : Before(d, x, y) /\ Before(d, y, z) => Before(d, x, z)
    BY DistinctIsLinear
  <1>4. /\ K \subseteq known /\ N = W \ K /\ known \cap (W \cup {given.last}) \subseteq K
        /\ F \subseteq K /\ F \subseteq {given.last}
        /\ given.last \in K /\ given.last # NoTurn => given.last \in F
        /\ \A x \in K, y \in F : Before(order, x, y)
        /\ e \subseteq (K \cup N) \X (K \cup N)
    BY <1>1 DEF Places
  <1>5. \A x, y \in S : Before(e, x, y) <=> \/ x \in K /\ y \in K /\ Before(order, x, y)
                                            \/ x \in N /\ y \in N /\ Before(d, x, y)
                                            \/ x \in K \ F /\ y \in N
                                            \/ x \in N /\ y \in F
    BY <1>1 DEF Places
  <1> HIDE DEF order, known, W, d
  <1>6. /\ K \subseteq S /\ N \subseteq S /\ F \subseteq K /\ W \subseteq K \cup N
        /\ \A x \in F : x = given.last
        /\ \A x \in K, y \in F : Before(order, x, y)
        /\ e \subseteq (K \cup N) \X (K \cup N)
    BY <1>2, <1>3, <1>4
  <1>7. \A x \in N : x \notin K /\ x \in W
    BY <1>4
  <1>8. /\ \A x, y \in K : /\ Before(order, x, y) \/ Before(order, y, x)
                           /\ Before(order, x, y) /\ Before(order, y, x) => x = y
        /\ \A x, y, z \in K :
              Before(order, x, y) /\ Before(order, y, z) => Before(order, x, z)
    BY <1>2, <1>4
  <1>9. given.last # NoTurn => given.last \in F
    BY <1>2, <1>4
  <1>10. \A x, y \in K \cup N : /\ Before(e, x, y) \/ Before(e, y, x)
                                /\ Before(e, x, y) /\ Before(e, y, x) => x = y
    BY <1>3, <1>5, <1>6, <1>7, <1>8
  <1>11. \A x, y, z \in K \cup N : Before(e, x, y) /\ Before(e, y, z) => Before(e, x, z)
    BY <1>3, <1>5, <1>6, <1>7, <1>8
  <1>12. Members(e) = K \cup N
    <2>1. ASSUME NEW x \in K \cup N
          PROVE  x \in Members(e)
      <3>1. Before(e, x, x)
        BY <1>10
      <3>2. <<x, x>> \in e /\ <<x, x>>[1] = x
        BY <3>1 DEF Before
      <3> QED BY <3>2 DEF Members
    <2> QED BY <1>6, <2>1 DEF Members
  <1>13. given.last # NoTurn => /\ given.last \in Members(e)
                                /\ \A x \in Members(e) : Before(e, x, given.last)
    BY <1>5, <1>6, <1>9, <1>12
  <1>14. IsTurnState([given EXCEPT !.order = e], S)
    <2> DEFINE t == [given EXCEPT !.order = e]
    <2>1. e \subseteq S \X S
      BY <1>6
    <2>2. t.order = e /\ t.last = given.last
          /\ t \in [order : SUBSET (S \X S), last : S \cup {NoTurn}]
      BY <1>2, <2>1
    <2>3. \A x, y \in S : Before(e, x, y) => x \in Members(e) /\ y \in Members(e)
      BY <1>6, <1>12 DEF Before
    <2> HIDE DEF t
    <2> DEFINE M == Members(e)
    <2>4. /\ \A x, y \in M : /\ Before(e, x, y) \/ Before(e, y, x)
                             /\ Before(e, x, y) /\ Before(e, y, x) => x = y
          /\ \A x, y, z \in M : Before(e, x, y) /\ Before(e, y, z) => Before(e, x, z)
      BY <1>10, <1>11, <1>12
    <2>5. /\ M = Members(t.order) /\ t.order = e /\ t.last = given.last
          /\ \A x, y \in S : Before(e, x, y) => x \in M /\ y \in M
          /\ given.last # NoTurn => given.last \in M /\ \A x \in M : Before(e, x, given.last)
      BY <1>13, <2>2, <2>3
    <2> HIDE DEF M
    <2> QED BY <2>2, <2>4, <2>5 DEF IsTurnState
  <1>15. ASSUME NEW x \in W \ {given.last}, NEW y \in S,
                Before(order, x, x), Before(e, y, x)
         PROVE  Before(order, y, x)
    <2>1. x \in K
      BY <1>2, <1>3, <1>4, <1>15
    <2> QED BY <1>3, <1>5, <1>6, <1>7, <1>15, <2>1
  <1> USE DEF W, order
  <1> QED BY <1>6, <1>12, <1>14, <1>15

\* Serving the space that has the turn puts it at the end.
LEMMA ServedFacts ==
    ASSUME NEW S, NEW given, IsTurnState(given, S), NEW waiting \in Seq(S),
           NEW counts \in [S -> Nat], NEW s \in ToSet(waiting),
           NEW e, e = Enrolled(given, waiting, counts),
           NEW t, t = Served(given, waiting, counts, s)
    PROVE  /\ IsTurnState(t, S) /\ t.last = s
           /\ \A x, y \in S : x # s => (Before(t.order, y, x) <=> y # s /\ Before(e, y, x))
  <1> USE DEF Before
  <1> DEFINE M == Members(e)
             O == M \ {s}
             r == Among(e, O) \cup ((O \cup {s}) \X {s})
  <1>1. /\ s \in S /\ s \in M /\ M \subseteq S /\ e \subseteq S \X S
        /\ \A x, y \in S : Before(e, x, y) => x \in M /\ y \in M
        /\ \A x, y \in M : /\ Before(e, x, y) \/ Before(e, y, x)
                           /\ Before(e, x, y) /\ Before(e, y, x) => x = y
        /\ \A x, y, z \in M : Before(e, x, y) /\ Before(e, y, z) => Before(e, x, z)
    <2> DEFINE u == [given EXCEPT !.order = e]
    <2>1. IsTurnState(u, S) /\ ToSet(waiting) \subseteq M
      BY EnrolledFacts
    <2>2. u.order = e
      BY DEF IsTurnState
    <2> HIDE DEF u
    <2>3. ToSet(waiting) \subseteq S
      BY DistinctIsLinear
    <2>4. e \subseteq S \X S
      BY <2>1, <2>2 DEF IsTurnState
    <2>5. M \subseteq S
      BY <2>4 DEF Members
    <2> QED BY <2>1, <2>2, <2>3, <2>4, <2>5 DEF IsTurnState
  <1>2. t.order = r /\ t.last = s /\ t = [order |-> r, last |-> s]
    BY DEF Served
  <1> HIDE DEF M
  <1>3. \A x, y \in S : Before(r, x, y) <=> \/ x \in O /\ y \in O /\ Before(e, x, y)
                                            \/ x \in O \cup {s} /\ y = s
    <2> TAKE x \in S, y \in S
    <2>1. <<x, y>> \in Among(e, O) <=> x \in O /\ y \in O /\ <<x, y>> \in e
      BY DEF Among
    <2>2. <<x, y>> \in (O \cup {s}) \X {s} <=> x \in O \cup {s} /\ y = s
      OBVIOUS
    <2> QED BY <2>1, <2>2 DEF Before
  <1>4. r \subseteq (O \cup {s}) \X (O \cup {s})
    <2>1. Among(e, O) \subseteq O \X O
      BY <1>1 DEF Among
    <2> QED BY <2>1
  <1> HIDE DEF r
  <1>5. Members(r) = O \cup {s} /\ O \cup {s} = M
    <2>1. ASSUME NEW x \in O \cup {s}
          PROVE  x \in Members(r)
      <3>1. Before(r, x, x)
        BY <1>1, <1>3
      <3>2. <<x, x>> \in r /\ <<x, x>>[1] = x
        BY <3>1 DEF Before
      <3> QED BY <3>2 DEF Members
    <2> QED BY <1>1, <1>4, <2>1 DEF Members
  <1>6. r \subseteq S \X S
    BY <1>1, <1>4
  <1>7. \A x, y \in S : Before(r, x, y) => x \in M /\ y \in M
    BY <1>1, <1>3
  <1>8. \A x, y \in M : /\ Before(r, x, y) \/ Before(r, y, x)
                        /\ Before(r, x, y) /\ Before(r, y, x) => x = y
    BY <1>1, <1>3
  <1>9. \A x, y, z \in M : Before(r, x, y) /\ Before(r, y, z) => Before(r, x, z)
    BY <1>1, <1>3
  <1>10. s \in M /\ \A x \in M : Before(r, x, s)
    BY <1>1, <1>3
  <1>11. IsTurnState(t, S)
    <2>1. Members(r) = M /\ t \in [order : SUBSET (S \X S), last : S \cup {NoTurn}]
      BY <1>1, <1>2, <1>5, <1>6
    <2>2. t.order = r /\ t.last = s /\ M = Members(t.order)
      BY <1>2, <1>5
    <2> QED BY <1>7, <1>8, <1>9, <1>10, <2>1, <2>2 DEF IsTurnState
  <1>12. \A x, y \in S : x # s => (Before(r, y, x) <=> y # s /\ Before(e, y, x))
    <2> HIDE DEF O
    <2>1. \A x \in S : x \in O <=> x \in M /\ x # s
      BY DEF O
    <2> QED BY <1>1, <1>3, <2>1
  <1> QED BY <1>2, <1>11, <1>12
-----------------------------------------------------------------------------
(* The steps.                                                             *)
LEMMA PoolStart ==
    ASSUME Init
    PROVE  PoolInv
  <1> DEFINE zero == [s \in Scopes |-> 0]
  <1>1. /\ current \in Pools /\ active = [p \in Pools |-> zero]
        /\ pending = [p \in Pools |-> << >>]
        /\ state = [c \in Clients |-> "idle"] /\ ticket = [c \in Clients |-> NoPool]
    BY DEF Init
  <1>2. limit \in [Pools -> 1..MaxLimit]
    BY DEF Init
  <1>3. UnitsOf(zero) = {} /\ zero \in [Scopes -> 0..Cardinality(Clients)]
    BY NoUnits
  <1> HIDE DEF zero
  <1>4. active[current] = zero /\ pending[current] = << >>
    BY <1>1
  <1>5. Types
    <2>1. << >> \in Seq(Clients)
      OBVIOUS
    <2>2. active \in [Pools -> [Scopes -> 0..Cardinality(Clients)]]
      BY <1>1, <1>3
    <2>3. pending \in [Pools -> Seq(Clients)]
      BY <1>1, <2>1
    <2> QED BY <1>1, <1>2, <2>2, <2>3 DEF Types
  <1>6. OnePool /\ QueueHoldsTheWaiting
    BY <1>1, <1>4 DEF OnePool, QueueHoldsTheWaiting
  <1>7. Held = {} /\ (\A s \in Scopes : HeldBy(s) = {}) /\ Cardinality({}) = 0
    BY <1>1, FS_EmptySet DEF Held, HeldBy
  <1>8. CountsAreTrue /\ IsFiniteSet(UnitsOf(active[current]))
    BY <1>3, <1>4, <1>7, FS_EmptySet DEF CountsAreTrue, Total, UnitsOf, zero
  <1>9. RequestsWithinLimit
    BY <1>1, <1>2, <1>7 DEF RequestsWithinLimit
  <1> QED BY <1>5, <1>6, <1>8, <1>9 DEF PoolInv

\* A step that changes neither the requests under way nor the counters.
LEMMA CountsKept ==
    ASSUME PoolInv, Held' = Held, active'[current'] = active[current],
           limit'[current'] = limit[current]
    PROVE  CountsAreTrue' /\ IsFiniteSet(UnitsOf(active[current]))' /\ RequestsWithinLimit'
  <1>1. \A s \in Scopes : HeldBy(s)' = HeldBy(s)
    BY DEF HeldBy
  <1>2. UnitsOf(active[current])' = UnitsOf(active[current]) /\ Total(current)' = Total(current)
    BY DEF UnitsOf, Total
  <1> QED BY <1>1, <1>2 DEF PoolInv, CountsAreTrue, RequestsWithinLimit

\* A pool is idle exactly when it has no tickets.
LEMMA IdleHasNoTickets ==
    ASSUME PoolInv, Idle(current)
    PROVE  \A c \in Clients : state[c] = "idle"
  <1>1. Held = {}
    <2>1. Cardinality(Held) = 0 /\ IsFiniteSet(Held)
      BY ClientCount DEF PoolInv, CountsAreTrue, Idle, Held
    <2> QED BY <2>1, FS_EmptySet
  <1>2. \A c \in Clients : state[c] # "waiting"
    BY DEF PoolInv, QueueHoldsTheWaiting, Idle
  <1> QED BY <1>1, <1>2 DEF PoolInv, Types, Held

LEMMA RegisterKeeps ==
    ASSUME PoolInv, NEW c \in Clients, NEW m \in 1..MaxLimit, Register(c, m)
    PROVE  PoolInv'
  <1>1. /\ Types /\ OnePool /\ QueueHoldsTheWaiting
        /\ state[c] = "idle" /\ state' = [state EXCEPT ![c] = "waiting"]
        /\ ticket' = [ticket EXCEPT ![c] = current']
    BY DEF PoolInv, Register
  <1>2. /\ state' \in [Clients -> {"idle", "waiting", "held"}]
        /\ state'[c] = "waiting" /\ \A d \in Clients : d # c => state'[d] = state[d]
        /\ Held' = Held
    BY <1>1 DEF Types, Held
  <1>3. CASE m # limit[current] /\ Idle(current)
    <2>1. PICK p \in Pools \ {current} :
               /\ current' = p
               /\ limit' = [limit EXCEPT ![p] = m]
               /\ pending' = [pending EXCEPT ![p] = <<c>>]
               /\ active' = [active EXCEPT ![p] = [s \in Scopes |-> 0]]
      BY <1>3 DEF Register
    <2>2. \A d \in Clients : state[d] = "idle"
      BY <1>3, IdleHasNoTickets
    <2> DEFINE zero == [s \in Scopes |-> 0]
    <2>3. UnitsOf(zero) = {} /\ zero \in [Scopes -> 0..Cardinality(Clients)]
      BY NoUnits
    <2>4. active' = [active EXCEPT ![p] = zero] /\ \A s \in Scopes : zero[s] = 0
      BY <2>1
    <2> HIDE DEF zero
    <2>5. /\ active'[current'] = zero /\ pending'[current'] = <<c>> /\ limit'[current'] = m
          /\ current' \in Pools
      BY <1>1, <2>1, <2>4 DEF Types
    <2>6. Types'
      <3>1. <<c>> \in Seq(Clients)
        OBVIOUS
      <3>2. pending' \in [Pools -> Seq(Clients)]
        BY <1>1, <2>1, <3>1 DEF Types
      <3>3. active' \in [Pools -> [Scopes -> 0..Cardinality(Clients)]]
        BY <1>1, <2>3, <2>4 DEF Types
      <3>4. limit' \in [Pools -> 1..MaxLimit] /\ ticket' \in [Clients -> Pools \cup {NoPool}]
        BY <1>1, <2>1 DEF Types
      <3> QED BY <1>2, <2>5, <3>2, <3>3, <3>4 DEF Types
    <2>7. OnePool'
      BY <1>1, <1>2, <2>2 DEF OnePool, Types
    <2>8. QueueHoldsTheWaiting'
      BY <1>2, <2>2, <2>5 DEF QueueHoldsTheWaiting
    <2>9. Held' = {} /\ (\A s \in Scopes : HeldBy(s)' = {}) /\ Cardinality({}) = 0
      BY <1>2, <2>2, FS_EmptySet DEF Held, HeldBy
    <2>10. UnitsOf(active[current])' = {} /\ Total(current)' = 0
      BY <2>3, <2>5, <2>9 DEF UnitsOf, Total
    <2>11. CountsAreTrue' /\ IsFiniteSet(UnitsOf(active[current]))'
      BY <2>4, <2>5, <2>9, <2>10, FS_EmptySet DEF CountsAreTrue
    <2>12. RequestsWithinLimit'
      BY <2>5, <2>9 DEF RequestsWithinLimit
    <2> QED BY <2>6, <2>7, <2>8, <2>11, <2>12 DEF PoolInv
  <1>4. CASE ~(m # limit[current] /\ Idle(current))
    <2>1. /\ UNCHANGED <<current, limit, active>>
          /\ pending' = [pending EXCEPT ![current] = Append(pending[current], c)]
      BY <1>4 DEF Register, Enqueue
    <2> DEFINE q == pending[current]
               r == Append(q, c)
    <2>2. /\ q \in Seq(Clients) /\ r \in Seq(Clients) /\ Len(r) = Len(q) + 1
          /\ r[Len(q) + 1] = c /\ \A i \in 1..Len(q) : r[i] = q[i]
      BY <1>1 DEF Types
    <2>3. pending'[current'] = r /\ current' = current /\ current \in Pools
      BY <1>1, <2>1 DEF Types
    <2>4. QueueHoldsTheWaiting'
      <3>1. /\ \A i \in 1..Len(q) : state[q[i]] = "waiting" /\ q[i] # c
            /\ \A i, j \in 1..Len(q) : q[i] = q[j] => i = j
            /\ \A d \in Clients : state[d] = "waiting" => \E i \in 1..Len(q) : q[i] = d
        BY <1>1 DEF QueueHoldsTheWaiting
      <3> HIDE DEF q, r
      <3>2. \A i \in 1..Len(r) : i = Len(q) + 1 \/ i \in 1..Len(q)
        BY <2>2
      <3>3. \A i \in 1..Len(r) : state'[r[i]] = "waiting"
        BY <1>2, <2>2, <3>1, <3>2
      <3>4. \A i, j \in 1..Len(r) : r[i] = r[j] => i = j
        BY <2>2, <3>1, <3>2
      <3>5. ASSUME NEW d \in Clients, state'[d] = "waiting"
            PROVE  \E i \in 1..Len(r) : r[i] = d
        <4>1. CASE d = c
          BY <2>2, <4>1
        <4>2. CASE d # c
          <5>1. PICK i \in 1..Len(q) : q[i] = d
            BY <1>2, <3>1, <3>5, <4>2
          <5>2. i \in 1..Len(r) /\ r[i] = d
            BY <2>2, <5>1
          <5> QED BY <5>2
        <4> QED BY <4>1, <4>2
      <3> QED BY <2>3, <3>3, <3>4, <3>5 DEF QueueHoldsTheWaiting
    <2>5. Types'
      <3>1. pending' \in [Pools -> Seq(Clients)]
        BY <1>1, <2>1, <2>2 DEF Types
      <3>2. ticket' \in [Clients -> Pools \cup {NoPool}]
        BY <1>1, <2>3 DEF Types
      <3> QED BY <1>1, <1>2, <2>1, <3>1, <3>2 DEF Types
    <2>6. OnePool'
      BY <1>1, <1>2, <2>3 DEF OnePool, Types
    <2>7. active'[current'] = active[current] /\ limit'[current'] = limit[current]
      BY <2>1
    <2> QED BY <1>2, <2>4, <2>5, <2>6, <2>7, CountsKept DEF PoolInv
  <1> QED BY <1>3, <1>4
\* A client that gets its slot, or withdraws, leaves the queue.
LEMMA LeavesTheQueue ==
    ASSUME PoolInv, NEW c \in Clients, NEW i \in 1..Len(pending[current]),
           pending[current][i] = c,
           pending' = [pending EXCEPT ![current] = RemoveAt(pending[current], i)],
           current' = current, NEW s \in {"idle", "held"},
           state' = [state EXCEPT ![c] = s]
    PROVE  pending' \in [Pools -> Seq(Clients)] /\ QueueHoldsTheWaiting'
  <1> DEFINE q == pending[current]
             r == RemoveAt(q, i)
  <1>1. /\ q \in Seq(Clients) /\ current \in Pools /\ i \in 1..Len(q) /\ q[i] = c
        /\ state'[c] # "waiting" /\ \A d \in Clients : d # c => state'[d] = state[d]
        /\ pending \in [Pools -> Seq(Clients)]
    BY DEF PoolInv, Types
  <1>2. /\ \A j \in 1..Len(q) : state[q[j]] = "waiting"
        /\ \A j, k \in 1..Len(q) : q[j] = q[k] => j = k
        /\ \A d \in Clients : state[d] = "waiting" => \E j \in 1..Len(q) : q[j] = d
    BY DEF PoolInv, QueueHoldsTheWaiting
  <1>3. /\ r \in Seq(Clients)
        /\ \A j \in 1..Len(r) : \E k \in 1..Len(q) : k # i /\ r[j] = q[k]
        /\ \A k \in 1..Len(q) : k # i => \E j \in 1..Len(r) : r[j] = q[k]
        /\ \A j, k \in 1..Len(r) : r[j] = r[k] => j = k
    <2>1. r = RemoveAt(q, i) /\ q \in Seq(Clients) /\ i \in 1..Len(q)
      BY <1>1
    <2> HIDE DEF q, r
    <2>2. r \in Seq(Clients)
      BY <2>1, RemoveAtFacts
    <2>3. \A j \in 1..Len(r) : \E k \in 1..Len(q) : k # i /\ r[j] = q[k]
      BY <2>1, RemoveAtLeaves
    <2>4. \A k \in 1..Len(q) : k # i => \E j \in 1..Len(r) : r[j] = q[k]
      BY <2>1, RemoveAtKeeps
    <2>5. \A j, k \in 1..Len(r) : r[j] = r[k] => j = k
      <3>1. \A j, k \in 1..Len(q) : q[j] = q[k] => j = k
        BY <1>2
      <3> QED BY <2>1, <3>1, RemoveAtOnce
    <2> QED BY <2>2, <2>3, <2>4, <2>5
  <1>4. pending'[current'] = r /\ pending' \in [Pools -> Seq(Clients)]
    BY <1>1, <1>3
  <1>5. \A k \in 1..Len(q) : q[k] \in Clients
    BY <1>1
  <1> HIDE DEF q, r
  <1>6. \A j \in 1..Len(r) : state'[r[j]] = "waiting"
    <2> TAKE j \in 1..Len(r)
    <2>1. PICK k \in 1..Len(q) : k # i /\ r[j] = q[k]
      BY <1>3
    <2>2. q[k] # c
      BY <1>1, <1>2, <2>1
    <2> QED BY <1>1, <1>2, <1>5, <2>1, <2>2
  <1>7. ASSUME NEW d \in Clients, state'[d] = "waiting"
        PROVE  \E j \in 1..Len(r) : r[j] = d
    <2>1. d # c /\ state[d] = "waiting"
      BY <1>1, <1>7
    <2>2. PICK k \in 1..Len(q) : q[k] = d
      BY <1>2, <2>1
    <2>3. k # i
      BY <1>1, <2>1, <2>2
    <2> QED BY <1>3, <2>2, <2>3
  <1> QED BY <1>3, <1>4, <1>6, <1>7 DEF QueueHoldsTheWaiting

LEMMA GrantKeeps ==
    ASSUME PoolInv, NEW c \in Clients, Grant(c)
    PROVE  PoolInv'
  <1>1. /\ Types /\ OnePool /\ CountsAreTrue /\ IsFiniteSet(UnitsOf(active[current]))
        /\ state[c] = "waiting" /\ UNCHANGED <<current, limit, ticket>>
    BY DEF PoolInv, Grant
  <1>2. ticket[c] = current /\ current \in Pools /\ Scope[c] \in Scopes
    BY <1>1 DEF OnePool, Types, Scopes
  <1> DEFINE s == Scope[c]
             a == active[current]
             b == [a EXCEPT ![s] = a[s] + 1]
  <1>3. /\ Total(current) < limit[current]
        /\ state' = [state EXCEPT ![c] = "held"]
        /\ active' = [active EXCEPT ![current] = b]
    BY <1>2 DEF Grant
  <1>4. PICK i \in 1..Len(pending[current]) :
            /\ pending[current][i] = c
            /\ pending' = [pending EXCEPT ![current] = RemoveAt(pending[current], i)]
    BY <1>2 DEF Grant
  <1>5. pending' \in [Pools -> Seq(Clients)] /\ QueueHoldsTheWaiting'
    BY <1>1, <1>3, <1>4, LeavesTheQueue
  <1>6. /\ Held' = Held \cup {c} /\ c \notin Held /\ Held \subseteq Clients
        /\ state' \in [Clients -> {"idle", "waiting", "held"}]
    BY <1>1, <1>3 DEF Held, Types
  <1>7. IsFiniteSet(Held) /\ Cardinality(Held') = Cardinality(Held) + 1
    BY <1>6, ClientCount, FS_AddElement
  <1>8. \A r \in Scopes : /\ HeldBy(r)' = IF r = s THEN HeldBy(r) \cup {c} ELSE HeldBy(r)
                          /\ c \notin HeldBy(r) /\ HeldBy(r) \subseteq Clients
    BY <1>6 DEF HeldBy
  <1>9. ASSUME NEW r \in Scopes
        PROVE  Cardinality(HeldBy(r)') = Cardinality(HeldBy(r)) + (IF r = s THEN 1 ELSE 0)
    <2>1. IsFiniteSet(HeldBy(r)) /\ Cardinality(HeldBy(r)) \in Nat
      BY <1>8, ClientCount
    <2>2. CASE r = s
      <3>1. HeldBy(r)' = HeldBy(r) \cup {c} /\ c \notin HeldBy(r)
        BY <1>8, <2>2
      <3> QED BY <2>1, <2>2, <3>1, FS_AddElement
    <2>3. CASE r # s
      <3>1. HeldBy(r)' = HeldBy(r)
        BY <1>8, <2>3
      <3> QED BY <2>1, <2>3, <3>1
    <2> QED BY <2>2, <2>3
  <1>10. a \in [Scopes -> 0..Cardinality(Clients)] /\ a[s] = Cardinality(HeldBy(s))
    BY <1>1, <1>2 DEF Types, CountsAreTrue
  <1>11. a[s] + 1 <= Cardinality(Clients)
    <2>1. HeldBy(s)' \subseteq Clients
      BY <1>2, <1>8
    <2>2. Cardinality(HeldBy(s)') <= Cardinality(Clients)
      BY <2>1, ClientCount
    <2> QED BY <1>2, <1>9, <1>10, <2>2
  <1>12. /\ IsFiniteSet(UnitsOf(b)) /\ b \in [Scopes -> 0..Cardinality(Clients)]
         /\ Cardinality(UnitsOf(b)) = Cardinality(UnitsOf(a)) + 1
    BY <1>1, <1>2, <1>10, <1>11, OneUnitMore
  <1>13. \A r \in Scopes : b[r] = a[r] + (IF r = s THEN 1 ELSE 0)
    BY <1>10
  <1>14. a = active[current]
    OBVIOUS
  <1> HIDE DEF a, b, s
  <1>15. active'[current'] = b /\ active' \in [Pools -> [Scopes -> 0..Cardinality(Clients)]]
    BY <1>1, <1>2, <1>3, <1>12 DEF Types
  <1>16. Types'
    BY <1>1, <1>5, <1>6, <1>15 DEF Types
  <1>17. OnePool'
    BY <1>1, <1>3 DEF OnePool, Types
  <1>18. /\ Total(current) = Cardinality(UnitsOf(a))
         /\ Total(current)' = Cardinality(UnitsOf(b))
         /\ UnitsOf(active[current])' = UnitsOf(b)
    BY <1>14, <1>15 DEF Total, UnitsOf
  <1>19. CountsAreTrue'
    <2>1. \A r \in Scopes : b[r] = Cardinality(HeldBy(r)')
      BY <1>1, <1>9, <1>13, <1>14 DEF CountsAreTrue
    <2>2. Total(current)' = Cardinality(Held')
      BY <1>1, <1>7, <1>12, <1>18 DEF CountsAreTrue
    <2> QED BY <1>15, <2>1, <2>2 DEF CountsAreTrue
  <1>20. RequestsWithinLimit'
    <2>1. Total(current) = Cardinality(Held) /\ Cardinality(Held) \in Nat
          /\ limit[current] \in Nat
      BY <1>1, <1>2, <1>6, ClientCount, PoolAssumption DEF CountsAreTrue, Types
    <2>2. limit'[current'] = limit[current]
      BY <1>1
    <2> QED BY <1>3, <1>7, <2>1, <2>2 DEF RequestsWithinLimit
  <1> QED BY <1>5, <1>12, <1>16, <1>17, <1>18, <1>19, <1>20 DEF PoolInv

LEMMA ReleaseKeeps ==
    ASSUME PoolInv, NEW c \in Clients, Release(c)
    PROVE  PoolInv'
  <1>1. /\ Types /\ OnePool /\ QueueHoldsTheWaiting /\ CountsAreTrue
        /\ IsFiniteSet(UnitsOf(active[current]))
        /\ state[c] = "held" /\ UNCHANGED <<current, limit, pending>>
    BY DEF PoolInv, Release
  <1>2. ticket[c] = current /\ current \in Pools /\ Scope[c] \in Scopes
    BY <1>1 DEF OnePool, Types, Scopes
  <1> DEFINE s == Scope[c]
             a == active[current]
             b == [a EXCEPT ![s] = a[s] - 1]
  <1>3. /\ state' = [state EXCEPT ![c] = "idle"] /\ ticket' = [ticket EXCEPT ![c] = NoPool]
        /\ active' = [active EXCEPT ![current] = b]
    BY <1>2 DEF Release
  <1>4. /\ Held' = Held \ {c} /\ c \in Held /\ Held \subseteq Clients
        /\ state' \in [Clients -> {"idle", "waiting", "held"}]
    BY <1>1, <1>3 DEF Held, Types
  <1>5. /\ IsFiniteSet(Held) /\ Cardinality(Held) \in Nat
        /\ Cardinality(Held') = Cardinality(Held) - 1
    BY <1>4, ClientCount, FS_RemoveElement
  <1>6. \A r \in Scopes : /\ HeldBy(r)' = IF r = s THEN HeldBy(r) \ {c} ELSE HeldBy(r)
                          /\ HeldBy(r) \subseteq Clients
    BY <1>4 DEF HeldBy
  <1>7. c \in HeldBy(s)
    BY <1>4 DEF HeldBy
  <1>8. ASSUME NEW r \in Scopes
        PROVE  Cardinality(HeldBy(r)') = Cardinality(HeldBy(r)) - (IF r = s THEN 1 ELSE 0)
    <2>1. IsFiniteSet(HeldBy(r)) /\ Cardinality(HeldBy(r)) \in Nat
      BY <1>6, ClientCount
    <2>2. CASE r = s
      <3>1. HeldBy(r)' = HeldBy(r) \ {c} /\ c \in HeldBy(r)
        BY <1>6, <1>7, <2>2
      <3> QED BY <2>1, <2>2, <3>1, FS_RemoveElement
    <2>3. CASE r # s
      <3>1. HeldBy(r)' = HeldBy(r)
        BY <1>6, <2>3
      <3> QED BY <2>1, <2>3, <3>1
    <2> QED BY <2>2, <2>3
  <1>9. a \in [Scopes -> 0..Cardinality(Clients)] /\ a[s] = Cardinality(HeldBy(s))
    BY <1>1, <1>2 DEF Types, CountsAreTrue
  <1>10. a[s] # 0
    <2>1. IsFiniteSet(HeldBy(s))
      BY <1>2, <1>6, ClientCount
    <2> QED BY <1>7, <1>9, <2>1, FS_EmptySet
  <1>11. /\ IsFiniteSet(UnitsOf(b)) /\ b \in [Scopes -> 0..Cardinality(Clients)]
         /\ Cardinality(UnitsOf(b)) = Cardinality(UnitsOf(a)) - 1
    BY <1>1, <1>2, <1>9, <1>10, OneUnitLess
  <1>12. \A r \in Scopes : b[r] = a[r] - (IF r = s THEN 1 ELSE 0)
    BY <1>9
  <1>13. a = active[current]
    OBVIOUS
  <1> HIDE DEF a, b, s
  <1>14. active'[current'] = b /\ active' \in [Pools -> [Scopes -> 0..Cardinality(Clients)]]
    BY <1>1, <1>2, <1>3, <1>11 DEF Types
  <1>15. Types' /\ OnePool'
    <2>1. ticket' \in [Clients -> Pools \cup {NoPool}]
      BY <1>1, <1>3 DEF Types
    <2>2. Types'
      BY <1>1, <1>4, <1>14, <2>1 DEF Types
    <2> QED BY <1>1, <1>3, <2>2 DEF OnePool, Types
  <1>16. QueueHoldsTheWaiting'
    <2>1. /\ state'[c] # "waiting" /\ \A d \in Clients : d # c => state'[d] = state[d]
          /\ pending[current] \in Seq(Clients)
      BY <1>1, <1>2, <1>3 DEF Types
    <2>2. \A i \in 1..Len(pending[current]) : pending[current][i] \in Clients
      BY <2>1
    <2> QED BY <1>1, <2>1, <2>2 DEF QueueHoldsTheWaiting
  <1>17. /\ Total(current) = Cardinality(UnitsOf(a))
         /\ Total(current)' = Cardinality(UnitsOf(b))
         /\ UnitsOf(active[current])' = UnitsOf(b)
    BY <1>13, <1>14 DEF Total, UnitsOf
  <1>18. CountsAreTrue'
    <2>1. \A r \in Scopes : b[r] = Cardinality(HeldBy(r)')
      BY <1>1, <1>8, <1>12, <1>13 DEF CountsAreTrue
    <2>2. Total(current)' = Cardinality(Held')
      BY <1>1, <1>5, <1>11, <1>17 DEF CountsAreTrue
    <2> QED BY <1>14, <2>1, <2>2 DEF CountsAreTrue
  <1>19. RequestsWithinLimit'
    <2>1. Cardinality(Held) <= limit[current] /\ limit[current] \in Nat
      BY <1>1, <1>2, PoolAssumption DEF PoolInv, RequestsWithinLimit, Types
    <2>2. limit'[current'] = limit[current]
      BY <1>1
    <2> QED BY <1>5, <2>1, <2>2 DEF RequestsWithinLimit
  <1> QED BY <1>11, <1>15, <1>16, <1>17, <1>18, <1>19 DEF PoolInv

LEMMA GiveUpKeeps ==
    ASSUME PoolInv, NEW c \in Clients, GiveUp(c)
    PROVE  PoolInv'
  <1>1. /\ Types /\ OnePool /\ state[c] = "waiting"
        /\ state' = [state EXCEPT ![c] = "idle"] /\ ticket' = [ticket EXCEPT ![c] = NoPool]
        /\ UNCHANGED <<current, limit, active>>
    BY DEF PoolInv, GiveUp
  <1>2. ticket[c] = current
    BY <1>1 DEF OnePool
  <1>3. PICK i \in 1..Len(pending[current]) :
            /\ pending[current][i] = c
            /\ pending' = [pending EXCEPT ![current] = RemoveAt(pending[current], i)]
    BY <1>2 DEF GiveUp
  <1>4. pending' \in [Pools -> Seq(Clients)] /\ QueueHoldsTheWaiting'
    BY <1>1, <1>3, LeavesTheQueue
  <1>5. /\ state' \in [Clients -> {"idle", "waiting", "held"}]
        /\ ticket' \in [Clients -> Pools \cup {NoPool}]
    BY <1>1 DEF Types
  <1>6. Types' /\ OnePool'
    BY <1>1, <1>4, <1>5 DEF Types, OnePool
  <1>7. Held' = Held /\ active'[current'] = active[current] /\ limit'[current'] = limit[current]
    BY <1>1 DEF Held, Types
  <1> QED BY <1>4, <1>6, <1>7, CountsKept DEF PoolInv

LEMMA PoolKeeps ==
    ASSUME PoolInv, [Next]_vars
    PROVE  PoolInv'
  <1>1. ASSUME NEW c \in Clients, Poll(c)
        PROVE  PoolInv'
    <2>1. UNCHANGED <<current, limit, pending, active, state, ticket>>
      BY <1>1 DEF Poll
    <2>2. Types' /\ OnePool' /\ QueueHoldsTheWaiting' /\ Held' = Held
      BY <2>1 DEF PoolInv, Types, OnePool, QueueHoldsTheWaiting, Held
    <2> QED BY <2>1, <2>2, CountsKept DEF PoolInv
  <1>2. CASE UNCHANGED vars
    <2>1. UNCHANGED <<current, limit, pending, active, state, ticket>>
      BY <1>2 DEF vars, poolVars
    <2>2. Types' /\ OnePool' /\ QueueHoldsTheWaiting' /\ Held' = Held
      BY <2>1 DEF PoolInv, Types, OnePool, QueueHoldsTheWaiting, Held
    <2> QED BY <2>1, <2>2, CountsKept DEF PoolInv
  <1> QED BY <1>1, <1>2, RegisterKeeps, GrantKeeps, GiveUpKeeps, ReleaseKeeps DEF Next

LEMMA PoolInvariant == Spec => []PoolInv
  <1> QED BY PoolStart, PoolKeeps, PTL DEF Spec
-----------------------------------------------------------------------------
(* Fairness.                                                              *)
TurnTypes == /\ turns \in [Pools -> [order : SUBSET (Scopes \X Scopes),
                                     last  : Scopes \cup {NoTurn}]]
             /\ \A p \in Pools : IsTurnState(turns[p], Scopes)

\* Once o went before the hungry space s, it stands behind s, and s is not
\* the last borrower, before whom new contenders are enrolled.
Yields(o, s) ==
    \/ passed[s][o] = 0
    \/ /\ passed[s][o] = 1 /\ turns[current].last # s
       /\ Before(turns[current].order, s, s) /\ ~Before(turns[current].order, o, s)

TurnInv == /\ TurnTypes
           /\ passed \in [Scopes -> [Scopes -> Nat]]
           /\ \A s \in Scopes \ Hungry, o \in Scopes : passed[s][o] = 0
           /\ \A s \in Hungry : \A o \in Scopes \ {s} : Yields(o, s)

\* The queue of the pool in use asks for the spaces that wait.
LEMMA AskedFacts ==
    ASSUME PoolInv
    PROVE  /\ Asked(current) \in Seq(Scopes) /\ active[current] \in [Scopes -> Nat]
           /\ ToSet(Asked(current)) = {Scope[c] : c \in {d \in Clients : state[d] = "waiting"}}
           /\ Hungry \subseteq ToSet(Asked(current)) /\ Hungry \subseteq Scopes
           /\ \A s \in Hungry : active[current][s] = 0
  <1> DEFINE q == pending[current]
             a == Asked(current)
  <1>1. /\ q \in Seq(Clients) /\ Len(q) \in Nat /\ \A i \in 1..Len(q) : q[i] \in Clients
        /\ \A i \in 1..Len(q) : state[q[i]] = "waiting"
        /\ \A c \in Clients : state[c] = "waiting" => \E i \in 1..Len(q) : q[i] = c
    <2>1. q \in Seq(Clients)
      BY DEF PoolInv, Types
    <2>2. Len(q) \in Nat /\ \A i \in 1..Len(q) : q[i] \in Clients
      BY <2>1
    <2> QED BY <2>1, <2>2 DEF PoolInv, QueueHoldsTheWaiting
  <1>2. a = [i \in 1..Len(q) |-> Scope[q[i]]]
    BY DEF Asked
  <1> HIDE DEF q, a
  <1>3. \A c \in Clients : Scope[c] \in Scopes
    BY DEF Scopes
  <1>4. a \in Seq(Scopes) /\ Len(a) = Len(q) /\ DOMAIN a = 1..Len(q)
    BY <1>1, <1>2, <1>3
  <1>5. ToSet(a) = {Scope[c] : c \in {d \in Clients : state[d] = "waiting"}}
    BY <1>1, <1>2, <1>4 DEF ToSet
  <1>6. active[current] \in [Scopes -> Nat]
    <2>1. active[current] \in [Scopes -> 0..Cardinality(Clients)]
      BY DEF PoolInv, Types
    <2> QED BY <2>1, ClientCount
  <1>7. Hungry \subseteq ToSet(a) /\ Hungry \subseteq Scopes
    BY <1>3, <1>5 DEF Hungry
  <1>8. ASSUME NEW s \in Hungry
        PROVE  active[current][s] = 0
    <2>1. HeldBy(s) = {}
      BY DEF Hungry, HeldBy, Held
    <2> QED BY <1>7, <2>1, FS_EmptySet DEF PoolInv, CountsAreTrue
  <1> QED BY <1>4, <1>5, <1>6, <1>7, <1>8 DEF a

\* What the observer counts.
LEMMA Observed ==
    ASSUME TurnInv, NEW X, Observe(X)
    PROVE  /\ passed' \in [Scopes -> [Scopes -> Nat]]
           /\ \A s, o \in Scopes :
                 passed'[s][o] = IF s \in Hungry'
                                 THEN passed[s][o] + (IF o \in X THEN 1 ELSE 0) ELSE 0
  <1>1. passed \in [Scopes -> [Scopes -> Nat]]
    BY DEF TurnInv
  <1>2. \A s, o \in Scopes : passed[s][o] \in Nat
    BY <1>1
  <1>3. passed' = [s \in Scopes |->
                     IF s \in Hungry'
                     THEN [o \in Scopes |-> passed[s][o] + IF o \in X THEN 1 ELSE 0]
                     ELSE [o \in Scopes |-> 0]]
    BY DEF Observe
  <1> QED BY <1>2, <1>3

\* A step that serves nobody and keeps what the hungry spaces are owed.
LEMMA NobodyServed ==
    ASSUME TurnInv, TurnTypes', current' = current,
           passed' \in [Scopes -> [Scopes -> Nat]],
           \A s, o \in Scopes :
               passed'[s][o] = IF s \in Hungry' THEN passed[s][o] ELSE 0,
           Hungry' \subseteq Scopes, turns'[current].last = turns[current].last,
           \A s \in Hungry \cap Hungry' :
               Before(turns[current].order, s, s) /\ turns[current].last # s =>
                   /\ Before(turns'[current].order, s, s)
                   /\ \A o \in Scopes : Before(turns'[current].order, o, s)
                                         => Before(turns[current].order, o, s)
    PROVE  TurnInv'
  <1>1. ASSUME NEW s \in Hungry', NEW o \in Scopes \ {s}
        PROVE  Yields(o, s)'
    <2>1. CASE s \notin Hungry
      BY <1>1, <2>1 DEF TurnInv, Yields
    <2>2. CASE s \in Hungry
      <3>1. Yields(o, s) /\ passed'[s][o] = passed[s][o]
        BY <1>1, <2>2 DEF TurnInv
      <3> QED BY <1>1, <2>2, <3>1 DEF Yields
    <2> QED BY <2>1, <2>2
  <1> QED BY <1>1 DEF TurnInv

\* Enrolling in the pool in use changes its order only.
LEMMA EnrolmentTypes ==
    ASSUME TurnTypes, current \in Pools, NEW q \in Seq(Scopes), NEW a \in [Scopes -> Nat],
           turns' = [turns EXCEPT ![current].order = Enrolled(turns[current], q, a)]
    PROVE  /\ TurnTypes' /\ turns'[current].last = turns[current].last
           /\ turns'[current].order = Enrolled(turns[current], q, a)
  <1> DEFINE t == turns[current]
             e == Enrolled(t, q, a)
             u == [t EXCEPT !.order = e]
  <1>1. IsTurnState(t, Scopes)
    BY DEF TurnTypes
  <1>2. IsTurnState(u, Scopes)
    BY <1>1, EnrolledFacts
  <1>3. t \in [order : SUBSET (Scopes \X Scopes), last : Scopes \cup {NoTurn}]
    BY DEF TurnTypes
  <1>4. turns' = [turns EXCEPT ![current] = u] /\ u.last = t.last /\ u.order = e
    BY <1>3 DEF TurnTypes
  <1>5. u \in [order : SUBSET (Scopes \X Scopes), last : Scopes \cup {NoTurn}]
    BY <1>2 DEF IsTurnState
  <1> HIDE DEF u, e
  <1>6. turns'[current] = u
    BY <1>4 DEF TurnTypes
  <1>7. TurnTypes'
    BY <1>2, <1>4, <1>5 DEF TurnTypes
  <1> USE DEF e
  <1> QED BY <1>4, <1>6, <1>7

LEMMA EnrolmentKeeps ==
    ASSUME PoolInv, TurnInv, current' = current, NEW q \in Seq(Scopes),
           ToSet(Asked(current)) \subseteq ToSet(q),
           turns' = [turns EXCEPT ![current].order =
                        Enrolled(turns[current], q, active[current])],
           passed' \in [Scopes -> [Scopes -> Nat]],
           \A s, o \in Scopes :
               passed'[s][o] = IF s \in Hungry' THEN passed[s][o] ELSE 0,
           Hungry' \subseteq Scopes
    PROVE  TurnInv'
  <1> DEFINE t == turns[current]
             e == Enrolled(t, q, active[current])
  <1>1. TurnTypes /\ current \in Pools /\ IsTurnState(t, Scopes)
    BY DEF TurnInv, TurnTypes, PoolInv, Types
  <1>2. active[current] \in [Scopes -> Nat] /\ Hungry \subseteq ToSet(q) /\ Hungry \subseteq Scopes
    BY AskedFacts
  <1>3. TurnTypes' /\ turns'[current].last = t.last /\ turns'[current].order = e
    BY <1>1, <1>2, EnrolmentTypes
  <1>4. /\ IsTurnState([t EXCEPT !.order = e], Scopes) /\ ToSet(q) \subseteq Members(e)
        /\ \A x \in ToSet(q) \ {t.last}, y \in Scopes :
              Before(t.order, x, x) /\ Before(e, y, x) => Before(t.order, y, x)
    <2> DEFINE a == active[current]
    <2>1. IsTurnState(t, Scopes) /\ q \in Seq(Scopes) /\ a \in [Scopes -> Nat]
      BY <1>1, <1>2
    <2>2. e = Enrolled(t, q, a)
      OBVIOUS
    <2> HIDE DEF e, t, a
    <2>3. IsTurnState([t EXCEPT !.order = e], Scopes)
      BY <2>1, <2>2, EnrolledFacts
    <2>4. ToSet(q) \subseteq Members(e)
      BY <2>1, <2>2, EnrolledFacts
    <2>5. \A x \in ToSet(q) \ {t.last}, y \in Scopes :
             Before(t.order, x, x) /\ Before(e, y, x) => Before(t.order, y, x)
      BY <2>1, <2>2, EnrolledFacts
    <2> QED BY <2>3, <2>4, <2>5
  <1>5. \A x \in Members(e) : Before(e, x, x)
    <2>1. [t EXCEPT !.order = e].order = e
      BY <1>4 DEF IsTurnState
    <2> QED BY <1>4, <2>1 DEF IsTurnState, Before
  <1> HIDE DEF t, e
  <1>6. \A s \in Hungry : Before(t.order, s, s) /\ t.last # s =>
            Before(e, s, s) /\ \A o \in Scopes : Before(e, o, s) => Before(t.order, o, s)
    BY <1>2, <1>4, <1>5 DEF Before
  <1> QED BY <1>3, <1>6, NobodyServed DEF t

LEMMA TurnStart ==
    ASSUME Init
    PROVE  TurnInv
  <1>1. turns = [p \in Pools |-> FirstTurn] /\ Hungry = {}
        /\ passed = [s \in Scopes |-> [o \in Scopes |-> 0]]
    BY DEF Init, Hungry
  <1>2. Members({}) = {}
    BY DEF Members
  <1>3. IsTurnState(FirstTurn, Scopes)
    BY <1>2 DEF IsTurnState, FirstTurn, Before
  <1>4. TurnTypes
    BY <1>1, <1>3 DEF TurnTypes, FirstTurn
  <1> QED BY <1>1, <1>4 DEF TurnInv

LEMMA RegisterTurns ==
    ASSUME PoolInv, PoolInv', TurnInv, NEW c \in Clients, NEW m \in 1..MaxLimit, Register(c, m)
    PROVE  TurnInv'
  <1> DEFINE s == Scope[c]
  <1>1. /\ s \in Scopes /\ Observe({}) /\ Hungry' \subseteq Scopes
        /\ TurnTypes /\ Types /\ current \in Pools
    BY AskedFacts DEF Register, Scopes, TurnInv, PoolInv, Types, Hungry
  <1>2. /\ passed' \in [Scopes -> [Scopes -> Nat]]
        /\ \A x, o \in Scopes : passed'[x][o] = IF x \in Hungry' THEN passed[x][o] ELSE 0
    <2>1. \A x, o \in Scopes : passed[x][o] \in Nat
      BY DEF TurnInv
    <2> QED BY <1>1, <2>1, Observed
  <1>3. CASE m # limit[current] /\ Idle(current)
    <2>1. PICK p \in Pools \ {current} :
               /\ current' = p
               /\ turns' = [turns EXCEPT ![p] = [FirstTurn EXCEPT !.order = {<<s, s>>}]]
      BY <1>3 DEF Register
    <2> DEFINE u == [FirstTurn EXCEPT !.order = {<<s, s>>}]
    <2>2. u = [order |-> {<<s, s>>}, last |-> NoTurn]
      BY DEF FirstTurn
    <2>3. Members({<<s, s>>}) = {s}
      BY DEF Members
    <2> HIDE DEF u
    <2>4. IsTurnState(u, Scopes)
      BY <1>1, <2>2, <2>3 DEF IsTurnState, Before
    <2>5. TurnTypes'
      BY <1>1, <2>1, <2>2, <2>4 DEF TurnTypes, u
    <2>6. \A d \in Clients : state[d] = "idle"
      BY <1>3, IdleHasNoTickets
    <2>7. Hungry = {}
      BY <2>6 DEF Hungry
    <2>8. \A x, o \in Scopes : passed'[x][o] = 0
      BY <1>2, <2>7 DEF TurnInv
    <2> QED BY <1>1, <1>2, <2>5, <2>8 DEF TurnInv, Yields
  <1>4. CASE ~(m # limit[current] /\ Idle(current))
    <2> DEFINE q == Append(Asked(current), s)
    <2>1. /\ current' = current
          /\ turns' = [turns EXCEPT ![current] = [@ EXCEPT !.order =
                          Enrolled(turns[current], q, active[current])]]
      BY <1>4 DEF Register, Enqueue
    <2>2. turns' = [turns EXCEPT ![current].order =
                       Enrolled(turns[current], q, active[current])]
      BY <2>1
    <2>3. q \in Seq(Scopes) /\ ToSet(Asked(current)) \subseteq ToSet(q)
      <3>1. Asked(current) \in Seq(Scopes)
        BY AskedFacts
      <3> QED BY <1>1, <3>1 DEF ToSet
    <2> QED BY <1>1, <1>2, <2>1, <2>2, <2>3, EnrolmentKeeps
  <1> QED BY <1>3, <1>4

\* Who has the turn is served before a hungry space at most once.
LEMMA GrantTurns ==
    ASSUME PoolInv, PoolInv', TurnInv, NEW c \in Clients, Grant(c)
    PROVE  TurnInv'
  <1> DEFINE s == Scope[c]
             q == Asked(current)
             a == active[current]
             t == turns[current]
             e == Enrolled(t, q, a)
             u == Served(t, q, a, s)
  <1>1. ticket[c] = current /\ current' = current /\ current \in Pools /\ s \in Scopes
    BY DEF Grant, PoolInv, OnePool, Types, Scopes
  <1>2. /\ state[c] = "waiting" /\ state' = [state EXCEPT ![c] = "held"]
        /\ Chosen(s, t, q, a) /\ Observe({s})
        /\ turns' = [turns EXCEPT ![current] = u]
    BY <1>1 DEF Grant
  <1>3. /\ q \in Seq(Scopes) /\ a \in [Scopes -> Nat]
        /\ Hungry \subseteq ToSet(q) /\ Hungry \subseteq Scopes
        /\ \A x \in Hungry : a[x] = 0
    BY AskedFacts
  <1>4. s \in ToSet(q) /\ \A x \in Hungry : Before(e, s, x)
    <2>1. ToSet(q) \subseteq Scopes
      BY <1>3, DistinctIsLinear
    <2>2. \A x \in ToSet(q) : a[x] \in Nat
      BY <1>3, <2>1
    <2> HIDE DEF e, q, a, t
    <2> QED BY <1>2, <1>3, <2>2 DEF Chosen, e
  <1>5. IsTurnState(t, Scopes) /\ TurnTypes
    BY <1>1 DEF TurnInv, TurnTypes
  <1>6. /\ IsTurnState(u, Scopes) /\ u.last = s
        /\ \A x, y \in Scopes : x # s => (Before(u.order, y, x) <=> y # s /\ Before(e, y, x))
    BY <1>3, <1>4, <1>5, ServedFacts
  <1>7. /\ \A x \in Hungry : Before(e, x, x)
        /\ \A x \in Hungry \ {t.last}, y \in Scopes :
              Before(t.order, x, x) /\ Before(e, y, x) => Before(t.order, y, x)
    <2>1. /\ IsTurnState([t EXCEPT !.order = e], Scopes) /\ ToSet(q) \subseteq Members(e)
          /\ \A x \in ToSet(q) \ {t.last}, y \in Scopes :
                Before(t.order, x, x) /\ Before(e, y, x) => Before(t.order, y, x)
      <3>1. e = Enrolled(t, q, a)
        OBVIOUS
      <3> HIDE DEF e, t, q, a
      <3> QED BY <1>3, <1>5, <3>1, EnrolledFacts
    <2>2. [t EXCEPT !.order = e].order = e
      BY <1>5 DEF IsTurnState
    <2>3. \A x \in Members(e) : Before(e, x, x)
      BY <2>1, <2>2 DEF IsTurnState, Before
    <2> HIDE DEF e, q, t
    <2> QED BY <1>3, <2>1, <2>3 DEF Before
  <1> HIDE DEF s, q, a, e, u
  <1>8. turns'[current] = u /\ TurnTypes'
    <2>1. u \in [order : SUBSET (Scopes \X Scopes), last : Scopes \cup {NoTurn}]
      BY <1>6 DEF IsTurnState
    <2> QED BY <1>1, <1>2, <1>5, <1>6, <2>1 DEF TurnTypes
  <1>9. Hungry' \subseteq Hungry \ {s}
    <2>1. \A d \in Clients : /\ state'[d] = "waiting" => state[d] = "waiting"
                             /\ state[d] = "held" => state'[d] = "held"
      BY <1>2 DEF PoolInv, Types
    <2>2. Held \subseteq Held' /\ c \in Held'
      BY <1>2, <2>1 DEF Held, PoolInv, Types
    <2> DEFINE W == {Scope[d] : d \in {k \in Clients : state[k] = "waiting"}}
               V == {Scope[d] : d \in {k \in Clients : state'[k] = "waiting"}}
    <2>3. V \subseteq W
      BY <2>1
    <2>4. {Scope[d] : d \in Held} \subseteq {Scope[d] : d \in Held'}
      BY <2>2
    <2>5. s \in {Scope[d] : d \in Held'}
      BY <2>2 DEF s
    <2>6. /\ Hungry = W \ {Scope[d] : d \in Held}
          /\ Hungry' = V \ {Scope[d] : d \in Held'}
      BY DEF Hungry
    <2> HIDE DEF W, V
    <2> QED BY <2>3, <2>4, <2>5, <2>6
  <1>10. /\ passed' \in [Scopes -> [Scopes -> Nat]]
         /\ \A x, o \in Scopes :
               passed'[x][o] = IF x \in Hungry'
                               THEN passed[x][o] + (IF o \in {s} THEN 1 ELSE 0) ELSE 0
    BY <1>2, Observed
  <1>11. ASSUME NEW x \in Hungry', NEW o \in Scopes \ {x}
         PROVE  Yields(o, x)'
    <2>1. x \in Hungry /\ x # s /\ x \in Scopes /\ Yields(o, x) /\ passed[x][o] \in Nat
      BY <1>3, <1>9, <1>11 DEF TurnInv
    <2>2. turns'[current'].last = s /\ Before(turns'[current'].order, x, x)
      BY <1>1, <1>6, <1>7, <1>8, <2>1 DEF Before
    <2>3. CASE o = s
      <3>1. passed[x][o] = 0
        BY <1>1, <1>4, <1>7, <2>1, <2>3 DEF Yields, Before, t
      <3>2. passed'[x][o] = 1
        BY <1>10, <1>11, <2>1, <2>3, <3>1
      <3>3. ~Before(turns'[current'].order, o, x)
        BY <1>1, <1>6, <1>8, <2>1, <2>3 DEF Before
      <3> QED BY <2>1, <2>2, <3>2, <3>3 DEF Yields
    <2>4. CASE o # s
      <3>1. passed'[x][o] = passed[x][o]
        BY <1>10, <1>11, <2>1, <2>4
      <3>2. passed[x][o] = 1 => ~Before(turns'[current'].order, o, x)
        BY <1>1, <1>6, <1>7, <1>8, <2>1 DEF Yields, Before, t
      <3> QED BY <2>1, <2>2, <3>1, <3>2 DEF Yields
    <2> QED BY <2>3, <2>4
  <1> QED BY <1>3, <1>8, <1>9, <1>10, <1>11 DEF TurnInv

\* Whoever withdraws or ends takes nobody's turn.
LEMMA LeavingTurns ==
    ASSUME PoolInv, TurnInv, NEW c \in Clients, GiveUp(c) \/ Release(c)
    PROVE  TurnInv'
  <1>1. UNCHANGED <<current, turns>> /\ Observe({})
    BY DEF GiveUp, Release
  <1>2. TurnTypes' /\ Hungry' \subseteq Scopes
    BY <1>1 DEF TurnInv, TurnTypes, Hungry, Scopes
  <1>3. \A x, o \in Scopes : passed[x][o] \in Nat
    BY DEF TurnInv
  <1>4. /\ passed' \in [Scopes -> [Scopes -> Nat]]
        /\ \A x, o \in Scopes : passed'[x][o] = IF x \in Hungry' THEN passed[x][o] ELSE 0
    BY <1>1, <1>3, Observed
  <1> QED BY <1>1, <1>2, <1>4, NobodyServed

LEMMA RestTurns ==
    ASSUME TurnInv, UNCHANGED <<current, turns, state, passed>>
    PROVE  TurnInv'
  <1>1. Hungry' = Hungry
    BY DEF Hungry, Held
  <1> QED BY <1>1 DEF TurnInv, TurnTypes, Yields

LEMMA PollTurns ==
    ASSUME PoolInv, TurnInv, NEW c \in Clients, Poll(c)
    PROVE  TurnInv'
  <1>1. ticket[c] = current /\ UNCHANGED <<current, state, passed>> /\ Hungry' = Hungry
    BY DEF Poll, PoolInv, OnePool, Types, Hungry, Held
  <1>2. turns' = [turns EXCEPT ![current].order =
                     Enrolled(turns[current], Asked(current), active[current])]
    BY <1>1 DEF Poll
  <1>3. Asked(current) \in Seq(Scopes) /\ Hungry' \subseteq Scopes
    BY <1>1, AskedFacts
  <1>4. /\ passed' \in [Scopes -> [Scopes -> Nat]]
        /\ \A x, o \in Scopes : passed'[x][o] = IF x \in Hungry' THEN passed[x][o] ELSE 0
    BY <1>1 DEF TurnInv
  <1> QED BY <1>1, <1>2, <1>3, <1>4, EnrolmentKeeps

LEMMA TurnInvariant == Spec => []TurnInv
  <1>1. ASSUME PoolInv, PoolInv', TurnInv, [Next]_vars
        PROVE  TurnInv'
    <2>1. CASE UNCHANGED vars
      BY <1>1, <2>1, RestTurns DEF vars, poolVars
    <2> QED BY <1>1, <2>1, RegisterTurns, GrantTurns, PollTurns, LeavingTurns DEF Next
  <1> QED BY <1>1, TurnStart, PoolInvariant, PTL DEF Spec
-----------------------------------------------------------------------------
\* No more provider requests are under way than the pool in use allows,
\* whatever limits the requests bring, and whoever gives up meanwhile.
THEOREM RequestsAreLimited == Spec => []RequestsWithinLimit
  <1>1. PoolInv => RequestsWithinLimit
    BY DEF PoolInv
  <1> QED BY <1>1, PoolInvariant, PTL

\* A pool is replaced (provider_request_slot in the factory) only when nobody
\* has a ticket of it: every request waits and runs in the pool in use.
THEOREM TicketsAreOfOnePool == Spec => []OnePool
  <1>1. PoolInv => OnePool
    BY DEF PoolInv
  <1> QED BY <1>1, PoolInvariant, PTL

\* Whatever grants, timeouts and cancellations meet, the pool in use has a
\* ticket, and one, for each client that waits and none for another.
THEOREM NoTicketIsLost == Spec => []QueueHoldsTheWaiting
  <1>1. PoolInv => QueueHoldsTheWaiting
    BY DEF PoolInv
  <1> QED BY <1>1, PoolInvariant, PTL

\* The occupancy that choose() compares is that of the requests under way:
\* no slot is counted twice or released twice.
THEOREM OccupancyIsExact == Spec => []CountsAreTrue
  <1>1. PoolInv => CountsAreTrue
    BY DEF PoolInv
  <1> QED BY <1>1, PoolInvariant, PTL

\* The pool's variables always have their types; the turns of each pool are a
\* linear order of spaces that ends with the one served last.
THEOREM PoolTypeCorrect == Spec => []TypeOK
  <1>1. PoolInv /\ TurnInv => TypeOK
    BY DEF PoolInv, Types, TurnInv, TurnTypes, TypeOK
  <1> QED BY <1>1, PoolInvariant, TurnInvariant, PTL

\* A space that waits with nothing under way is passed over by each other one
\* at most once, however many spaces compete, arrive and leave (choose() and
\* served() in fairness.py).
THEOREM NobodyIsPassedTwice == Spec => []PassedAtMostOnce
  <1>1. ASSUME TurnInv
        PROVE  PassedAtMostOnce
    <2>1. ASSUME NEW s \in Scopes, NEW o \in Scopes, s # o
          PROVE  passed[s][o] <= 1
      <3>1. passed[s][o] = 0 \/ passed[s][o] = 1
        BY <1>1, <2>1 DEF TurnInv, Yields
      <3> QED BY <3>1
    <2> QED BY <2>1 DEF PassedAtMostOnce
  <1> QED BY <1>1, TurnInvariant, PTL

\* "New contenders get a turn before the last borrower can refill"
\* (fairness.py:23): the space served last is served again only when every
\* other one that waits has more requests under way.
THEOREM BorrowersDoNotRefill == Spec => NoRefill
  <1>1. ASSUME PoolInv, TurnInv, NEW c \in Clients, Grant(c), turns[ticket[c]].last = Scope[c],
               NEW s \in ToSet(Asked(ticket[c])) \ {Scope[c]}
        PROVE  active[ticket[c]][s] > active[ticket[c]][Scope[c]]
    <2> DEFINE q == Asked(current)
               a == active[current]
               t == turns[current]
               e == Enrolled(t, q, a)
               r == Scope[c]
               u == [t EXCEPT !.order = e]
    <2>1. ticket[c] = current /\ current \in Pools /\ r \in Scopes /\ r # NoTurn
      BY <1>1, PoolAssumption DEF Grant, PoolInv, OnePool, Types, Scopes
    <2>2. Chosen(r, t, q, a) /\ t.last = r /\ s \in ToSet(q) /\ s # r
      BY <1>1, <2>1 DEF Grant
    <2>3. q \in Seq(Scopes) /\ a \in [Scopes -> Nat]
      BY <1>1, AskedFacts
    <2>4. IsTurnState(t, Scopes)
      BY <1>1, <2>1 DEF TurnInv, TurnTypes
    <2>5. IsTurnState(u, Scopes) /\ ToSet(q) \subseteq Members(e)
      BY <2>3, <2>4, EnrolledFacts
    <2>6. u.order = e /\ u.last = r
      BY <2>2, <2>4 DEF IsTurnState
    <2>7. ToSet(q) \subseteq Scopes
      BY <2>3, DistinctIsLinear
    <2>8. r \in ToSet(q) /\ \A o \in ToSet(q) : a[r] <= a[o]
      BY <2>2 DEF Chosen
    <2> HIDE DEF u, e, t, a, q, r
    <2>9. Before(e, s, r) /\ ~Before(e, r, s)
      BY <2>1, <2>2, <2>5, <2>6, <2>8 DEF IsTurnState, Before
    <2>10. ~\A o \in ToSet(q) : a[s] <= a[o]
      BY <2>2, <2>9 DEF Chosen, e, Before
    <2>11. \A o \in ToSet(q) : a[o] \in Nat
      BY <2>3, <2>7
    <2>12. a[s] > a[r]
      BY <2>2, <2>8, <2>10, <2>11
    <2> QED BY <2>1, <2>12 DEF a, r
  <1>2. PoolInv /\ TurnInv /\ [Next]_vars =>
          [\A c \in Clients : Grant(c) =>
              LET p == ticket[c] IN
              turns[p].last = Scope[c] =>
                  \A s \in ToSet(Asked(p)) \ {Scope[c]} : active[p][s] > active[p][Scope[c]]]_vars
    BY <1>1
  <1> QED BY <1>2, PoolInvariant, TurnInvariant, PTL DEF Spec, NoRefill
=============================================================================
