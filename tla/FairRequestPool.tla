-------------------------- MODULE FairRequestPool --------------------------
(***************************************************************************)
(* The process-wide pool of provider requests (src/provider): a request    *)
(* takes a ticket in the pool in use, waits until its conversation space   *)
(* has the turn and a slot is free, and releases the slot at its end.  The *)
(* configured limit travels with every request; a different one replaces   *)
(* the pool, but only while the old one is idle.                           *)
(***************************************************************************)
EXTENDS Integers, FiniteSets, SpaceTurns

CONSTANTS
    Clients,    \* threads that make provider requests, one at a time
    Scope,      \* the RequestScope of each client
    Pools,      \* FairRequestPool objects; an unused one is made anew
    NoPool,
    MaxLimit    \* bound: the largest configured max_concurrent_requests

ASSUME PoolAssumption ==
    /\ IsFiniteSet(Clients) /\ DOMAIN Scope = Clients
    /\ MaxLimit \in Nat \ {0} /\ NoPool \notin Pools
    /\ \A c \in Clients : Scope[c] # NoTurn

VARIABLES
    current,  \* _provider_semaphore
    limit,    \* per pool
    pending,  \* per pool: _pending, a ticket is its client
    active,   \* per pool: _active
    turns,    \* per pool: _turns
    state,    \* per client: idle, waiting or held
    ticket,   \* per client: the pool of its ticket
    passed    \* observer: how often others went before a hungry space

poolVars == <<limit, pending, active, turns>>
vars == <<current, poolVars, state, ticket, passed>>

Scopes == {Scope[c] : c \in Clients}
\* Counter.total(): as many units as the counts of all spaces add up to.
Units == Scopes \X (1..Cardinality(Clients))
Total(p) == Cardinality({u \in Units : u[2] <= active[p][u[1]]})
Asked(p) == [i \in 1..Len(pending[p]) |-> Scope[pending[p][i]]]
Held == {c \in Clients : state[c] = "held"}
-----------------------------------------------------------------------------
Init == /\ current \in Pools
        /\ \E m \in 1..MaxLimit : limit = [p \in Pools |-> m]
        /\ pending = [p \in Pools |-> << >>]
        /\ active = [p \in Pools |-> [s \in Scopes |-> 0]]
        /\ turns = [p \in Pools |-> FirstTurn]
        /\ state = [c \in Clients |-> "idle"]
        /\ ticket = [c \in Clients |-> NoPool]
        /\ passed = [s \in Scopes |-> [o \in Scopes |-> 0]]

\* Observer: a space is hungry while it waits with no request under way.
Hungry == {Scope[c] : c \in {d \in Clients : state[d] = "waiting"}}
              \ {Scope[c] : c \in Held}
Observe(servedSpaces) ==
    passed' = [s \in Scopes |->
        IF s \in Hungry'
        THEN [o \in Scopes |-> passed[s][o] + IF o \in servedSpaces THEN 1 ELSE 0]
        ELSE [o \in Scopes |-> 0]]

\* Mutant: a pool with waiting tickets counts as idle.
NothingActive(p) == Total(p) = 0

Idle(p) == Total(p) = 0 /\ pending[p] = << >>

Enqueue(c, p, order) ==
    /\ pending' = [pending EXCEPT ![p] = Append(@, c)]
    /\ turns' = [turns EXCEPT ![p] = [@ EXCEPT !.order =
                    Enrolled(order, Append(Asked(p), Scope[c]), active[p])]]

\* provider_request_slot() under the factory lock: the pool in use or, for
\* another limit, a new one, and a ticket in it.  register() also chooses,
\* which enrols the space before a current borrower releases its slot.
Register(c, m) ==
    /\ state[c] = "idle"
    /\ state' = [state EXCEPT ![c] = "waiting"]
    /\ IF m # limit[current] /\ Idle(current)
       THEN \E p \in Pools \ {current} :
               /\ \A d \in Clients : ticket[d] # p
               /\ current' = p
               /\ limit' = [limit EXCEPT ![p] = m]
               /\ pending' = [pending EXCEPT ![p] = <<c>>]
               /\ turns' = [turns EXCEPT ![p] = [FirstTurn EXCEPT !.order = {<<Scope[c], Scope[c]>>}]]
               /\ active' = [active EXCEPT ![p] = [s \in Scopes |-> 0]]
       ELSE Enqueue(c, current, turns[current]) /\ UNCHANGED <<current, limit, active>>
    /\ ticket' = [ticket EXCEPT ![c] = current']
    /\ Observe({})

\* One pass of the loop in wait(): the client whose ticket is the first one
\* of the chosen space takes the slot.
Grant(c) ==
    LET p == ticket[c]
        s == Scope[c]
    IN  /\ state[c] = "waiting"
        /\ Total(p) < limit[p]
        /\ Chosen(s, turns[p], Asked(p), active[p])
        /\ \E i \in 1..Len(pending[p]) :
              /\ pending[p][i] = c /\ \A j \in 1..(i - 1) : Scope[pending[p][j]] # s
              /\ pending' = [pending EXCEPT ![p] = RemoveAt(@, i)]
        /\ state' = [state EXCEPT ![c] = "held"]
        /\ active' = [active EXCEPT ![p][s] = @ + 1]
        /\ turns' = [turns EXCEPT ![p] = Served(@, Asked(p), active[p], s)]
        /\ Observe({s})
        /\ UNCHANGED <<current, limit, ticket>>

\* A pass of a client that has to go on waiting: choose() orders the spaces.
Poll(c) ==
    LET p == ticket[c] IN
    /\ state[c] = "waiting"
    /\ turns' = [turns EXCEPT ![p].order = Enrolled(turns[p], Asked(p), active[p])]
    /\ UNCHANGED <<current, limit, pending, active, state, ticket, passed>>

\* Mutant: a request that never got a slot releases one.
GiveUpReleases(c) ==
    LET p == ticket[c] IN
    /\ state[c] = "waiting"
    /\ state' = [state EXCEPT ![c] = "idle"]
    /\ pending' = [pending EXCEPT ![p] = SelectSeq(@, LAMBDA d : d # c)]
    /\ active' = [active EXCEPT ![p][Scope[c]] = @ - 1]
    /\ ticket' = [ticket EXCEPT ![c] = NoPool]
    /\ Observe({})
    /\ UNCHANGED <<current, limit, turns>>

\* Mutant: the ticket stays in the queue.
LeaveTicket(c) ==
    /\ state[c] = "waiting"
    /\ state' = [state EXCEPT ![c] = "idle"]
    /\ ticket' = [ticket EXCEPT ![c] = NoPool]
    /\ Observe({})
    /\ UNCHANGED <<current, poolVars>>

\* The deadline passed or the run was cancelled: the ticket is withdrawn.
GiveUp(c) ==
    LET p == ticket[c] IN
    /\ state[c] = "waiting"
    /\ state' = [state EXCEPT ![c] = "idle"]
    /\ \E i \in 1..Len(pending[p]) :
          /\ pending[p][i] = c
          /\ pending' = [pending EXCEPT ![p] = RemoveAt(@, i)]
    /\ ticket' = [ticket EXCEPT ![c] = NoPool]
    /\ Observe({})
    /\ UNCHANGED <<current, limit, active, turns>>

Release(c) ==
    LET p == ticket[c] IN
    /\ state[c] = "held"
    /\ state' = [state EXCEPT ![c] = "idle"]
    /\ active' = [active EXCEPT ![p][Scope[c]] = @ - 1]
    /\ ticket' = [ticket EXCEPT ![c] = NoPool]
    /\ Observe({})
    /\ UNCHANGED <<current, limit, pending, turns>>

Next == \E c \in Clients : \/ \E m \in 1..MaxLimit : Register(c, m)
                           \/ Grant(c) \/ Poll(c) \/ GiveUp(c) \/ Release(c)
Spec == Init /\ [][Next]_vars

\* A waiting client looks every 0.1 s; a provider request has a time limit.
FairSpec == /\ Spec
            /\ WF_vars(\E c \in Clients : Grant(c))
            /\ \A c \in Clients : WF_vars(Release(c))
-----------------------------------------------------------------------------
TypeOK == /\ current \in Pools
          /\ limit \in [Pools -> 1..MaxLimit]
          /\ pending \in [Pools -> Seq(Clients)]
          /\ active \in [Pools -> [Scopes -> 0..Cardinality(Clients)]]
          /\ \A p \in Pools : IsTurnState(turns[p], Scopes)
          /\ state \in [Clients -> {"idle", "waiting", "held"}]
          /\ ticket \in [Clients -> Pools \cup {NoPool}]

\* However requests with different limits, cancellations and timeouts meet,
\* no more provider requests are under way than the pool in use allows.
RequestsWithinLimit == Cardinality(Held) <= limit[current]

\* A space that waits with nothing under way is passed over by each other
\* space at most once, whoever arrives, leaves or comes back meanwhile.
PassedAtMostOnce == \A s, o \in Scopes : s # o => passed[s][o] <= 1

\* "New contenders get a turn before the last borrower can refill": a space
\* is not served twice in a row while one as little occupied waits.
NoRefill ==
    [][\A c \in Clients : Grant(c) =>
          LET p == ticket[c] IN
          turns[p].last = Scope[c] =>
              \A s \in ToSet(Asked(p)) \ {Scope[c]} : active[p][s] > active[p][Scope[c]]]_vars

\* Nobody starves: a request that does not give up gets its slot, as long as
\* the requests under way end.
EveryRequestServed == \A c \in Clients : (state[c] = "waiting") ~> (state[c] # "waiting")
=============================================================================
